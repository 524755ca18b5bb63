----------------------------- MODULE Regulator -----------------------------
(***************************************************************************)
(* Access_Regulator() (src/src/sc_common.c): reading and setting the       *)
(* output of a PMBus voltage regulator, one I2C transaction per step.      *)
(*                                                                         *)
(* The module models one regulator chip.  A chip drives one rail, or       *)
(* several that are told apart by its PAGE register.  The daemon is        *)
(* single-threaded, so at most one call is in progress; between any two    *)
(* transactions the bus may fail, and the daemon may be killed and started *)
(* again while the chip keeps its registers and its supply.                *)
(*                                                                         *)
(* The registers of the chip count units of 2^Exponent volts in 16 bits.   *)
(* What callers ask for and what the board file allows is finer than that: *)
(* those voltages are counted in 1/Parts of a unit, and are rounded when   *)
(* they are written.                                                       *)
(***************************************************************************)
EXTENDS Integers

CONSTANTS
  Rails,      \* the rails of the chip, one per page
  Paged,      \* TRUE when the board file gives the rails a Page_Select
  Format,     \* what the chip says of its data format, see Formats
  Parts,      \* into how many parts a register unit is divided
  Requests,   \* the voltages asked for by commands and by the boot file
  Limited,    \* the rails whose Minimum_Volt and Maximum_Volt are not -1
  MinVolt, MaxVolt,
  PowerUp,    \* the registers as the chip's non-volatile settings load them
  MayFail     \* TRUE when transactions may fail and the daemon may die

(***************************************************************************)
(* "fixed": the chip has no VOUT_MODE command, the code takes Exponent -8  *)
(* and an absolute format.  Otherwise VOUT_MODE is read and tells.         *)
(***************************************************************************)
Formats == {"fixed", "absolute", "relative"}

\* What two bytes hold, what the code reads them back as, and what reads
\* back as it was written.
Words  == {n \in Nat : n < 65536}
Shorts == {n \in Int : -32768 <= n /\ n < 32768}
Volts  == {n \in Nat : n < 32768}

Word16(n)   == n % 65536
Signed16(n) == IF n >= 32768 THEN n - 65536 ELSE n

\* round() of n hundredths of a part, to units; halves go away from zero.
Nearest(n) ==
  IF n >= 0 THEN (n + 50 * Parts) \div (100 * Parts)
            ELSE -((50 * Parts - n) \div (100 * Parts))

(***************************************************************************)
(* The word that is sent for n units.  The double becomes an unsigned int, *)
(* of which two bytes are sent.  Out of the range of that type, so for     *)
(* every negative n, the conversion is undefined: it saturates or wraps.   *)
(***************************************************************************)
Sent(n) == IF n \div 65536 \in Words THEN {Word16(n)}
                                     ELSE {0, 65535, Word16(n)}

\* wrong: && for || in the check, one side of the range is enough
Bug_InRange(r, v) == r \in Limited => (MinVolt[r] <= v \/ v <= MaxVolt[r])
InRange(r, v) == r \in Limited => (MinVolt[r] <= v /\ v <= MaxVolt[r])

\* The voltages of rail r that get past its range check all fit the
\* registers, with the margin of the limits.
Tame(r) == \A v \in Requests :
             InRange(r, v) => v \in Nat /\ Nearest(110 * v) \in Volts

\* The range of the board file, up to the rounding of the register.
Within(r, vout) == r \in Limited =>
  /\ 2 * MinVolt[r] - Parts <= 2 * Parts * vout
  /\ 2 * Parts * vout <= 2 * MaxVolt[r] + Parts

Limits == {"ovf", "ovw", "uvw", "uvf"}
Registers == [on : BOOLEAN, vout : Words, lim : [Limits -> Words]]
Readable  == [on : BOOLEAN, vout : Volts, lim : [Limits -> Volts]]

ASSUME RailsAssumption == Rails # {} /\ (~Paged => \A r, q \in Rails : r = q)
ASSUME KindAssumption  ==
  Format \in Formats /\ Paged \in BOOLEAN /\ MayFail \in BOOLEAN
ASSUME UnitAssumption  == Parts \in Nat \ {0} /\ Requests \subseteq Int
\* The ranges of the board files are positive, and the limits that belong to
\* their upper ends fit a signed register.
ASSUME RangeAssumption ==
  /\ Limited \subseteq Rails
  /\ MinVolt \in [Limited -> Nat] /\ MaxVolt \in [Limited -> Nat]
  /\ \A r \in Limited : Nearest(110 * MaxVolt[r]) \in Volts
\* Every rail powers up enabled, in range and between its own limits.
ASSUME PowerUpAssumption ==
  /\ PowerUp \in [Rails -> Readable]
  /\ \A r \in Rails :
    /\ PowerUp[r].on /\ Within(r, PowerUp[r].vout)
    /\ PowerUp[r].lim["uvf"] <= PowerUp[r].lim["uvw"]
    /\ PowerUp[r].lim["uvw"] <= PowerUp[r].vout
    /\ PowerUp[r].vout <= PowerUp[r].lim["ovw"]
    /\ PowerUp[r].lim["ovw"] <= PowerUp[r].lim["ovf"]

-----------------------------------------------------------------------------

VARIABLES
  page,   \* the PAGE register
  chip,   \* chip[r]: OPERATION, VOUT_COMMAND and the limit registers of r
  pc,     \* the next transaction of the call in progress, "idle" between calls
  call,   \* the arguments of the call in progress, or of the last one
  cur,    \* Current_Voltage: what READ_VOUT answered to that call
  ret     \* what the last call returned

vars == <<page, chip, pc, call, cur, ret>>

Labels == {"idle", "page", "mode", "vout", "off", "fault?", "fault!",
           "warn?", "warn!", "command", "on", "limits"}

Calls == [rail : Rails, access : {"get", "all"}, volts : {0}]
           \cup [rail : Rails, access : {"set"}, volts : Requests]

Init ==
  /\ page \in Rails
  /\ chip = PowerUp
  /\ pc = "idle"
  /\ call \in Calls
  /\ cur = 0
  /\ ret = "none"

-----------------------------------------------------------------------------

\* What the chip answers to READ_VOUT: a disabled output is at 0 V.
ReadVout == IF chip[page].on THEN chip[page].vout ELSE 0

\* The chip takes a register write on the page it is on.
Write(reg) == chip' = [chip EXCEPT ![page] = reg]

Goto(label) == pc' = label /\ UNCHANGED <<call, ret>>
Return(code) == pc' = "idle" /\ ret' = code /\ UNCHANGED call

(***************************************************************************)
(* A failed transaction makes the call close the bus and return.  A failed *)
(* write may or may not have reached the register.                         *)
(***************************************************************************)
FailRead ==
  MayFail /\ Return("error") /\ UNCHANGED <<page, chip, cur>>
FailWrite(reg) ==
  /\ MayFail /\ Return("error")
  /\ Write(reg) \/ UNCHANGED chip
  /\ UNCHANGED <<page, cur>>

Accepted(c) == c.access = "set" => InRange(c.rail, c.volts)

AfterPage == IF Format = "fixed" THEN "vout" ELSE "mode"

Bug_FirstStep == AfterPage       \* wrong: the page is not selected
FirstStep == IF Paged THEN "page" ELSE AfterPage

\* A caller asks for one access; the range check comes before the bus.
Start(c) ==
  /\ pc = "idle"
  /\ call' = c
  /\ IF Accepted(c) THEN pc' = FirstStep /\ ret' = "none"
                    ELSE pc' = "idle" /\ ret' = "error"
  /\ UNCHANGED <<page, chip, cur>>

\* open() of the bus device fails before the first transaction.
OpenFails(c) ==
  /\ pc = "idle" /\ MayFail
  /\ call' = c /\ ret' = "error"
  /\ UNCHANGED <<page, chip, pc, cur>>

SelectPage ==
  /\ pc = "page"
  /\ \/ page' = call.rail /\ Goto(AfterPage) /\ UNCHANGED <<chip, cur>>
     \/ /\ MayFail /\ Return("error")
        /\ page' \in {page, call.rail}
        /\ UNCHANGED <<chip, cur>>

ReadMode ==
  /\ pc = "mode"
  /\ \/ Goto("vout") /\ UNCHANGED <<page, chip, cur>>
     \/ FailRead

ReadCurrent ==
  /\ pc = "vout"
  /\ \/ /\ cur' = Signed16(ReadVout)
        /\ \/ call.access = "get" /\ Return("ok")
           \/ call.access = "set" /\ Goto("off")
           \/ call.access = "all" /\ Goto("limits")
        /\ UNCHANGED <<page, chip>>
     \/ FailRead

\* Access 2: the four limit registers are read one after the other.
ReadLimits ==
  /\ pc = "limits"
  /\ \/ Return("ok") /\ UNCHANGED <<page, chip, cur>>
     \/ FailRead

AfterDisable == IF Format = "relative" THEN "command" ELSE "fault?"

\* wrong: a failed OPERATION write is ignored
Bug_Disable ==
  /\ pc = "off"
  /\ \/ Write([chip[page] EXCEPT !.on = FALSE])
     \/ MayFail /\ UNCHANGED chip
  /\ Goto(AfterDisable) /\ UNCHANGED <<page, cur>>
Disable ==
  /\ pc = "off"
  /\ LET reg == [chip[page] EXCEPT !.on = FALSE] IN
     \/ /\ Write(reg)
        /\ Goto(AfterDisable)
        /\ UNCHANGED <<page, cur>>
     \/ FailWrite(reg)

-----------------------------------------------------------------------------
(* Software moves the limits only in the direction the output moves.       *)

Bug_Up == TRUE                   \* wrong: limits are only ever raised
Up == call.volts > Parts * cur

FaultLimit == IF Up THEN "ovf" ELSE "uvf"
WarnLimit  == IF Up THEN "ovw" ELSE "uvw"

\* The limits stand 10 and 3 per cent away from the new voltage.
FaultPct == IF Up THEN 110 ELSE 90
WarnPct == IF Up THEN 103 ELSE 97

\* The new limit, in hundredths of a part.  A lower one is not negative.
Target(pct) == LET t == pct * call.volts IN IF ~Up /\ t < 0 THEN 0 ELSE t

\* wrong: the comparison is swapped, a limit that is too tight is kept
Bug_MustMove(limit, pct) ==
  LET now == 100 * Parts * Signed16(chip[page].lim[limit]) IN
  IF Up THEN now > Target(pct) ELSE now < Target(pct)
\* The limit is compared with the exact percentage, before rounding.
MustMove(limit, pct) ==
  LET now == 100 * Parts * Signed16(chip[page].lim[limit]) IN
  IF Up THEN now < Target(pct) ELSE now > Target(pct)

ReadLimit(at, limit, pct, write, skip) ==
  /\ pc = at
  /\ \/ /\ Goto(IF MustMove(limit, pct) THEN write ELSE skip)
        /\ UNCHANGED <<page, chip, cur>>
     \/ FailRead

\* wrong: a fixed margin is taken off, without a clip at 0 V
Bug_WriteLimit(at, limit, pct, next) ==
  /\ pc = at
  /\ \E w \in Sent(Nearest(100 * call.volts) - pct) :
       LET reg == [chip[page] EXCEPT !.lim[limit] = w] IN
       \/ Write(reg) /\ Goto(next) /\ UNCHANGED <<page, cur>>
       \/ FailWrite(reg)
WriteLimit(at, limit, pct, next) ==
  /\ pc = at
  /\ \E w \in Sent(Nearest(Target(pct))) :
       LET reg == [chip[page] EXCEPT !.lim[limit] = w] IN
       \/ Write(reg) /\ Goto(next) /\ UNCHANGED <<page, cur>>
       \/ FailWrite(reg)

ReadFault  == ReadLimit("fault?", FaultLimit, FaultPct, "fault!", "warn?")
WriteFault == WriteLimit("fault!", FaultLimit, FaultPct, "warn?")
ReadWarn   == ReadLimit("warn?", WarnLimit, WarnPct, "warn!", "command")
WriteWarn  == WriteLimit("warn!", WarnLimit, WarnPct, "command")

\* wrong: the output is left disabled
Bug_SetVout ==
  /\ pc = "command"
  /\ \E w \in Sent(Nearest(100 * call.volts)) :
       Write([chip[page] EXCEPT !.vout = w])
  /\ Return("ok") /\ UNCHANGED <<page, cur>>
SetVout ==
  /\ pc = "command"
  /\ \E w \in Sent(Nearest(100 * call.volts)) :
       LET reg == [chip[page] EXCEPT !.vout = w] IN
       \/ Write(reg) /\ Goto("on") /\ UNCHANGED <<page, cur>>
       \/ FailWrite(reg)

Enable ==
  /\ pc = "on"
  /\ LET reg == [chip[page] EXCEPT !.on = TRUE] IN
     \/ Write(reg) /\ Return("ok") /\ UNCHANGED <<page, cur>>
     \/ FailWrite(reg)

\* The daemon dies inside a call and is started again.
Die ==
  /\ pc # "idle" /\ MayFail
  /\ pc' = "idle" /\ ret' = "none"
  /\ UNCHANGED <<page, chip, call, cur>>

Step == \/ SelectPage \/ ReadMode \/ ReadCurrent \/ ReadLimits \/ Disable
        \/ ReadFault \/ WriteFault \/ ReadWarn \/ WriteWarn
        \/ SetVout \/ Enable

Next == \/ \E c \in Calls : Start(c) \/ OpenFails(c)
        \/ Step
        \/ Die

Spec == Init /\ [][Next]_vars

-----------------------------------------------------------------------------
(* Properties.                                                             *)

\* Whatever is asked for, a register holds two bytes; those of a rail whose
\* requests fit hold only what reads back as it was written.
TypeOK ==
  /\ page \in Rails
  /\ chip \in [Rails -> Registers]
  /\ \A r \in Rails : Tame(r) => chip[r] \in Readable
  /\ pc \in Labels
  /\ call \in Calls
  /\ cur \in Shorts
  /\ ret \in {"none", "ok", "error"}

Software == Format # "relative"

(***************************************************************************)
(* An enabled rail never stands above its overvoltage limits, whatever     *)
(* transactions failed and wherever the daemon died: Access_Regulator      *)
(* raises them, with the rail off, before it raises the output, and after  *)
(* a failure the rail reads 0 V so that the next call raises them again.   *)
(* Nothing of the kind holds of a rail for which the board file gives no   *)
(* range and a caller asks for more than the registers hold.               *)
(***************************************************************************)
OverLimits == Software =>
  \A r \in Rails :
    Tame(r) /\ chip[r].on => chip[r].vout <= chip[r].lim["ovw"]

(***************************************************************************)
(* The warning always comes before the fault: of a pair of limits the      *)
(* outer one is moved first, so they are never crossed, not even between   *)
(* two writes or after a failed call.                                      *)
(***************************************************************************)
WarnBeforeFault ==
  \A r \in Rails : Tame(r) => /\ chip[r].lim["ovw"] <= chip[r].lim["ovf"]
                              /\ chip[r].lim["uvf"] <= chip[r].lim["uvw"]

(***************************************************************************)
(* The comment above the limit handling: in the absolute format the        *)
(* software keeps the undervoltage limits, an enabled rail never stands    *)
(* below them.  RegulatorFaults states how far that holds.                 *)
(***************************************************************************)
UnderLimitsHold == Software =>
  \A r \in Rails :
    Tame(r) /\ chip[r].on => chip[r].lim["uvw"] <= chip[r].vout

(***************************************************************************)
(* No caller, the boot file included, gets a rail with a range outside the *)
(* range of the board file by more than half a register unit.  The check   *)
(* comes before the rounding, so the half unit is really lost: 0.91 V, the *)
(* end of the range of MGTYAVCC on the VCK190, is written as 233 units of  *)
(* 2^-8 V, which is 0.9102 V.                                              *)
(***************************************************************************)
OutputInRange == \A r \in Rails : Within(r, chip[r].vout)

\* Neither hold only between calls: they hold in the middle of each.
Bounded == WarnBeforeFault /\ OutputInRange

(***************************************************************************)
(* What a successful call promises its caller: a set left the rail asked   *)
(* for enabled at what two bytes hold of the voltage asked for, a get      *)
(* answered for the rail asked for, whichever page the chip was left on    *)
(* before.                                                                 *)
(***************************************************************************)
Promise ==
  pc = "idle" /\ ret = "ok" =>
    LET reg == chip[call.rail] IN
    /\ call.access = "set" =>
         reg.on /\ reg.vout \in Sent(Nearest(100 * call.volts))
    /\ call.access = "get" => cur = Signed16(IF reg.on THEN reg.vout ELSE 0)

\* A call changes no register of another rail of the same chip.
OnlyTheRailAsked ==
  [][\A r \in Rails : chip'[r] # chip[r] => r = call.rail]_vars

(***************************************************************************)
(* An enabled rail is only ever turned off: its voltage and its limits are *)
(* written while its output is disabled.                                   *)
(***************************************************************************)
NeverWrittenLive ==
  [][\A r \in Rails : chip[r].on =>
       chip'[r] \in {chip[r], [chip[r] EXCEPT !.on = FALSE]}]_vars

=============================================================================

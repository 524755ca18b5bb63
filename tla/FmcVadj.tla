------------------------------ MODULE FmcVadj ------------------------------
(***************************************************************************)
(* FMC cards and the voltage VADJ that supplies them: at start-up, once    *)
(* the IO expander is set up, FMC_Autodetect_Vadj finds the cards that are *)
(* present, reads the range of each from its EEPROM, and sets VADJ to a    *)
(* voltage of the board that fits all of them (FMCAutoVadj_Op); listFMC    *)
(* and getFMC read the EEPROMs later.  The I2C bus of a card may be behind *)
(* a switch that FMC_Access opens and closes around every such access.     *)
(*                                                                         *)
(* The daemon is that of IOExpander: one command at a time, of both.       *)
(***************************************************************************)
EXTENDS IOExpander, FiniteSetsExt

CONSTANTS
  Slots,        \* the slots for cards: 1, or 1 and 2
  Cards,        \* what may be plugged in: the contents of EEPROMs
  Gated,        \* the slots behind a switch (Access_Label)
  Lines,        \* TRUE when gpiod knows the presence lines
  PresencePin,  \* the pin of the expander that is low when a card is present
  Supported,    \* Supported_Volts, in the order of the board file
  Default,      \* Default_Volt
  Initial,      \* VADJ at power-up
  Off

ASSUME SlotsAssumption ==
  /\ Slots \in {{1}, {1, 2}} /\ Gated \subseteq Slots /\ Lines \in BOOLEAN
  /\ PresencePin \in [Slots -> Pins \ Outputs]
\* The voltages of a board file are in ascending order.
ASSUME VoltsAssumption ==
  /\ Supported \in Seq(Nat \ {0}) /\ Default \in Nat /\ Initial \in Nat
  /\ \A i, j \in DOMAIN Supported : i < j => Supported[i] < Supported[j]
  /\ Off \notin Nat
\* The multirecord area of an EEPROM: dc is Record Type 2, end is bit 7.
ASSUME CardsAssumption ==
  /\ \A c \in Cards :
       c \in Seq([dc : BOOLEAN, end : BOOLEAN, output : Nat, min : Nat,
                  max : Nat])
  /\ None \notin Cards

-----------------------------------------------------------------------------

VARIABLES
  card,     \* card[s]: the card in slot s, or None
  gate,     \* the slots whose switch is open
  stuck,    \* history: the slots whose switch an error or a kill left open
  volt,     \* VADJ
  present,  \* the cards that were found
  range,    \* Min_Volt and Max_Volt of the cards that were read
  visit     \* the slots whose EEPROM the command still has to read

fmc == <<card, gate, stuck, volt, present, range, visit>>
boardVars == <<vars, fmc>>

Plugged == {s \in Slots : card[s] # None}
Unread == [s \in Slots |-> [min |-> 0, max |-> 0]]

BoardInit ==
  /\ Init
  /\ card \in [Slots -> Cards \cup {None}] /\ volt = Initial
  /\ gate = {} /\ stuck = {}
  /\ present = {} /\ range = Unread /\ visit = {}

\* The variables of a command are gone when it ends.
Finish(c) ==
  /\ Return(c) /\ code' = "ok"
  /\ present' = {} /\ range' = Unread /\ visit' = {}
Abort == /\ pc' = "down" /\ ret' = "error"
         /\ present' = {} /\ range' = Unread /\ visit' = {}

-----------------------------------------------------------------------------
(* FMC_Autodetect_Vadj, and how FMCAutoVadj_Op finds the cards.            *)

\* It may be disabled in the configuration file, which may be unreadable.
Autodetect ==
  /\ pc = "started"
  /\ \/ Goto("presence") \/ Return("disabled")
     \/ MayFail /\ pc' = "down" /\ ret' = "error"
  /\ UNCHANGED <<out, dir, op, sfp, trouble, fmc>>

Found(slots) ==
  /\ present' = slots /\ visit' = slots
  /\ Goto(IF slots = {} THEN "set" ELSE "gate")
  /\ UNCHANGED range

\* The level of an input is that of the card, of an output what is written.
IsLow(s) == IF PresencePin[s] \in dir THEN card[s] # None
                                      ELSE PresencePin[s] \notin out

\* The inputs of the expander, when a presence line is not known to gpiod.  The
\* code looks at two pins, whatever the number of slots; the boards that have
\* the second one as an input (VCK190 and VMK180) have the second slot too.
ByExpander ==
  /\ pc = "presence" /\ (Lines => MayFail)
  /\ Found({s \in Slots : IsLow(s)}) \/ (MayFail /\ Abort)
  /\ UNCHANGED <<out, dir, op, sfp, trouble, card, gate, stuck, volt>>

\* The value of a line that cannot be read, -1, counts as an absent card.
ByLines ==
  /\ pc = "presence" /\ Lines
  /\ \/ Found(Plugged) /\ UNCHANGED trouble
     \/ /\ MayFail /\ trouble' = trouble \cup {"failed"}
        /\ \E lost \in (SUBSET Plugged) \ {{}} : Found(Plugged \ lost)
     \/ MayFail /\ Abort /\ UNCHANGED trouble
  /\ UNCHANGED <<out, dir, op, sfp, card, gate, stuck, volt>>

-----------------------------------------------------------------------------
(* One EEPROM: FMC_Vadj_Range, FMC_List, FMC_Ops.                          *)

Read(o, slots) ==
  /\ pc = "idle" /\ pc' = "gate" /\ op' = o /\ ret' = "none"
  /\ visit' = slots
  /\ UNCHANGED <<out, dir, sfp, trouble>>
  /\ UNCHANGED <<card, gate, stuck, volt, present, range>>
ListFMC == Read("listFMC", Slots)
GetFMC  == \E s \in Slots : Read("getFMC", {s})

Slot == Min(visit)

\* FMC_Access(FMC, true), whose failure is only logged.
Bug_OpenGate ==                  \* wrong: a slot without a switch has one
  /\ pc = "gate" /\ Goto("read")
  /\ gate' = gate \cup {Slot}
  /\ UNCHANGED <<out, dir, op, sfp, trouble>>
  /\ UNCHANGED <<card, stuck, volt, present, range, visit>>
OpenGate ==
  /\ pc = "gate" /\ Goto("read")
  /\ gate' = gate \cup ({Slot} \cap Gated) \/ (MayFail /\ UNCHANGED gate)
  /\ UNCHANGED <<out, dir, op, sfp, trouble>>
  /\ UNCHANGED <<card, stuck, volt, present, range, visit>>

(***************************************************************************)
(* The range of VADJ is in the first DC load record with output number 0,  *)
(* searched up to the first record that is another or the last one.        *)
(***************************************************************************)
VadjRecords(c) ==
  {i \in DOMAIN c : /\ c[i].output = 0
                    /\ \A j \in 1 .. i : c[j].dc /\ ~c[j].end}
RangeOf(c) ==
  IF VadjRecords(c) = {} THEN [min |-> 0, max |-> 0]
  ELSE LET i == Min(VadjRecords(c)) IN [min |-> c[i].min, max |-> c[i].max]

Answers == card[Slot] # None /\ (Slot \in Gated => Slot \in gate)

\* listFMC takes a card that does not answer for one that is not connected.
Bug_ReadCard ==                  \* wrong: a failure counts as no range
  /\ pc = "read" /\ Goto("close")
  /\ IF Answers /\ op = "start"
     THEN range' = [range EXCEPT ![Slot] = RangeOf(card[Slot])]
     ELSE UNCHANGED range
  /\ UNCHANGED <<out, dir, op, sfp, trouble>>
  /\ UNCHANGED <<card, gate, stuck, volt, present, visit>>
ReadCard ==
  /\ pc = "read" /\ Goto("close")
  /\ \/ /\ Answers /\ code' = "ok"
        /\ range' = IF op = "start"
                    THEN [range EXCEPT ![Slot] = RangeOf(card[Slot])]
                    ELSE range
     \/ /\ ~Answers \/ MayFail
        /\ code' = "error" \/ (op = "listFMC" /\ code' = "ok")
        /\ UNCHANGED range
  /\ UNCHANGED <<out, dir, op, value, todo, trouble>>
  /\ UNCHANGED <<card, gate, stuck, volt, present, visit>>

\* FMC_Access(FMC, false), on every way out.
Closed ==
  \/ gate' = gate \ {Slot} /\ stuck' = stuck \ {Slot}
  \/ /\ MayFail /\ Slot \in gate
     /\ stuck' = stuck \cup {Slot} /\ UNCHANGED gate

\* After the last card; a start-up that could not read one leaves VADJ.
Continue ==
  IF code = "ok" /\ (visit # {Slot} \/ op = "start")
  THEN /\ visit' = visit \ {Slot}
       /\ Goto(IF visit' = {} THEN "set" ELSE "gate")
       /\ UNCHANGED <<code, present, range>>
  ELSE Finish(IF op = "start" THEN "warned" ELSE code)

Bug_CloseGate ==                 \* wrong: an error returns with it open
  /\ pc = "close"
  /\ IF code = "ok" THEN Closed ELSE UNCHANGED <<gate, stuck>>
  /\ Continue
  /\ UNCHANGED <<out, dir, op, value, todo, trouble, card, volt>>
CloseGate ==
  /\ pc = "close" /\ Closed /\ Continue
  /\ UNCHANGED <<out, dir, op, value, todo, trouble, card, volt>>

-----------------------------------------------------------------------------
(* The choice of the voltage.                                              *)

Lowest  == IF present = {} THEN 0 ELSE Max({range[s].min : s \in present})
Bug_Highest ==                   \* wrong: the widest range, not the common one
  IF present = {} THEN 0 ELSE Max({range[s].max : s \in present})
Highest == IF present = {} THEN 0 ELSE Min({range[s].max : s \in present})

\* The last voltage that fits wins; without one, or without cards, Default.
Fitting ==
  {i \in DOMAIN Supported : Lowest <= Supported[i] /\ Supported[i] <= Highest}
Chosen == IF present = {} \/ Fitting = {} THEN Default
                                         ELSE Supported[Max(Fitting)]

(***************************************************************************)
(* By Access_Regulator, or by RAFT when the board does not do voltages     *)
(* itself.  The start-up goes on after a failure, which may leave VADJ     *)
(* off.                                                                    *)
(***************************************************************************)
SetVadj ==
  /\ pc = "set"
  /\ \/ volt' = Chosen /\ Finish("set")
     \/ MayFail /\ volt' \in {volt, Chosen, Off} /\ Finish("unset")
  /\ UNCHANGED <<out, dir, op, value, todo, trouble, card, gate, stuck>>

-----------------------------------------------------------------------------

Killed == /\ Die
          /\ stuck' = stuck \cup gate
          /\ present' = {} /\ range' = Unread /\ visit' = {}
          /\ UNCHANGED <<card, gate, volt>>
\* Cards are changed while the power is off: that is another initial state.
PowerOff == /\ PowerCycle
            /\ UNCHANGED card /\ volt' = Initial
            /\ gate' = {} /\ stuck' = {}
            /\ present' = {} /\ range' = Unread /\ visit' = {}

BoardNext ==
  \/ Step /\ UNCHANGED fmc
  \/ Autodetect \/ ByExpander \/ ByLines
  \/ ListFMC \/ GetFMC \/ OpenGate \/ ReadCard \/ CloseGate \/ SetVadj
  \/ Killed \/ PowerOff

BoardSpec == BoardInit /\ [][BoardNext]_boardVars

-----------------------------------------------------------------------------
(* Properties.                                                             *)

\* The registers, the slots and the voltage are of their types.
BoardTypeOK ==
  /\ RegistersOK
  /\ pc \in Labels \cup {"presence", "gate", "read", "close", "set"}
  /\ op \in Commands \cup {"listFMC", "getFMC"}
  /\ ret \in {"none", "ok", "error", "disabled", "warned", "set", "unset"}
  /\ card \in [Slots -> Cards \cup {None}]
  /\ gate \subseteq Gated /\ stuck \subseteq gate
  /\ volt \in Nat \cup {Off}
  /\ present \subseteq Slots /\ visit \subseteq Slots
  /\ range \in [Slots -> [min : Nat, max : Nat]]

(***************************************************************************)
(* The voltage that a start-up sets is the highest of the board that every *)
(* card accepts, or the default when there is none: whatever was on the    *)
(* pins of the expander before, and wherever the presence comes from.      *)
(***************************************************************************)
Accepts(c, v) == RangeOf(c).min <= v /\ v <= RangeOf(c).max
Accepted == {v \in {Supported[i] : i \in DOMAIN Supported} :
               \A s \in Plugged : Accepts(card[s], v)}
Fits ==
  pc = "idle" /\ op = "start" /\ ret = "set" /\ trouble = {} =>
    volt = IF Plugged = {} \/ Accepted = {} THEN Default ELSE Max(Accepted)

(***************************************************************************)
(* VADJ is changed only when the ranges of all cards found were read: the  *)
(* warning of FMCAutoVadj_Op says that it is then to be set manually.      *)
(***************************************************************************)
NeverGuessed ==
  [][volt' # volt /\ pc' # "down" =>
       \A s \in present :
         card[s] # None /\ range[s] = RangeOf(card[s])]_boardVars

(***************************************************************************)
(* Between commands no switch of an I2C bus is open, whichever access has  *)
(* failed, unless closing it failed or the daemon was killed.              *)
(***************************************************************************)
GatesClosed == pc = "idle" => gate \subseteq stuck

=============================================================================

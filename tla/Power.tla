------------------------------- MODULE Power -------------------------------
(***************************************************************************)
(* The INA226 power sensors (src/src/sc_appd.c): Get_Power() with          *)
(* Read_INA226() and Write_INA226() under it, the commands of Power_Ops()  *)
(* and Power_Domain_Ops(), and Parse_PowerDomain() (src/src/sc_parse.c),   *)
(* which finds the sensors of a power domain by their names.               *)
(*                                                                         *)
(* A sensor measures by itself, again and again.  Its Current and Power    *)
(* registers are computed at the end of a measurement with the Calibration *)
(* register of that moment; the daemon turns them into Amperes and Watts   *)
(* with the Calibration register it reads.                                 *)
(***************************************************************************)
EXTENDS Integers, Sequences

CONSTANTS
  Sensors,     \* the names of the INA226s, in the order of the board file
  Shunt,       \* Shunt[s]: full-scale drop, Maximum_Current * Shunt_Resistor
  Domains,     \* Domains[d]: the names of its rails in the board file
  PartOf,      \* PartOf[r]: the sensors whose name is a part of the name r
  Meant,       \* Meant[r]: the sensor that the board file calls r
  Settings,    \* the calls of setINA226: register values, or Skip
  PowerFails   \* TRUE when an I2C transaction may fail

SensorSet == {Sensors[i] : i \in DOMAIN Sensors}
Registers == <<"configuration", "calibration", "mask", "alert">>
Skip == -1

\* The Calibration register has 15 bits.
Word15(n) == n % 32768
Calibrations == {n \in Nat : n < 32768}

\* The unit of Shunt is 10 uV.
ASSUME PowerAssumption ==
  /\ Sensors \in Seq(SensorSet)
  /\ Shunt \in [SensorSet -> Nat \ {0}]
  /\ \A s \in SensorSet : Shunt[s] <= 16777216
  /\ \A d \in DOMAIN Domains :
       Domains[d] \in Seq(DOMAIN PartOf) /\ Domains[d] # <<>>
  /\ PartOf \in [DOMAIN PartOf -> SUBSET SensorSet]
  /\ Meant \in [DOMAIN PartOf -> SensorSet]
  /\ PowerFails \in BOOLEAN

-----------------------------------------------------------------------------

VARIABLES
  rails,    \* rails[d]: the sensors found for domain d at start-up
  cal,      \* cal[s]: the Calibration register
  conv,     \* conv[s]: the calibration that Current and Power stem from
  ppc,      \* the next step of the command, "idle" between commands
  pcall,    \* the command and the target, and what setINA226 sets
  todo,     \* the sensors still to be read, or the registers to be written
  seen,     \* the calibrations behind the values read of this sensor
  total,    \* the sensors added up so far, and whether their value is right
  settled,  \* history: the sensors that had measured with their calibration
  pret      \* what the last command returned

powervars ==
  <<rails, cal, conv, ppc, pcall, todo, seen, total, settled, pret>>

NoPowerCommand == [op |-> "none", target |-> "none", set |-> <<>>]

\* The last sensor whose name the rail's name contains.
Found(r) ==
  LET named == {i \in DOMAIN Sensors : Sensors[i] \in PartOf[r]}
  IN  Sensors[CHOOSE i \in named : \A j \in named : j <= i]

\* A rail for which no sensor is found keeps the index that malloc() left
\* there; an index of no sensor at all would end the daemon.
Parsed ==
  {[d \in DOMAIN Domains |->
      [i \in DOMAIN Domains[d] |->
         LET r == Domains[d][i]
         IN  IF PartOf[r] = {} THEN junk[r] ELSE Found(r)]]
     : junk \in [DOMAIN PartOf -> SensorSet]}

PowerInit ==
  /\ rails \in Parsed
  /\ cal = [s \in SensorSet |-> 0] /\ conv = cal
  /\ ppc = "idle" /\ pret = "none" /\ pcall = NoPowerCommand
  /\ todo = <<>> /\ seen = {} /\ total = <<>> /\ settled = {}

-----------------------------------------------------------------------------

\* Calibration = 0.00512 / (Current_LSB * R shunt), cut to the register.
Own(s) == LET c == 16777216 \div Shunt[s] IN IF c > 32767 THEN 32767 ELSE c

NoCall ==
  /\ ppc' = "idle" /\ pret' = "none" /\ pcall' = NoPowerCommand
  /\ todo' = <<>> /\ seen' = {} /\ total' = <<>> /\ settled' = {}

Answer(code) == ppc' = "idle" /\ pret' = code

\* The command stops where a transaction fails.
Stop == PowerFails /\ Answer("error") /\ UNCHANGED <<todo, seen, total>>

\* A command begins; which sensors have measured with their calibration?
Begin(c) ==
  /\ ppc = "idle"
  /\ pcall' = c /\ seen' = {} /\ total' = <<>>
  /\ settled' = {s \in SensorSet : conv[s] = cal[s]}
  /\ UNCHANGED <<rails, cal, conv>>

Refuse(c, valid) == ~valid /\ Answer("error") /\ todo' = <<>>

\* getpower (Mode 0) and getcalpower (Mode 1) of one sensor.
GetPower(c) ==
  /\ c.op \in {"getpower", "getcalpower"} /\ Begin(c)
  /\ \/ Refuse(c, c.target \in SensorSet)
     \/ /\ c.target \in SensorSet
        /\ todo' = <<c.target>> /\ UNCHANGED pret
        /\ ppc' = IF c.op = "getpower" THEN "calibrate" ELSE "power"

\* The sensors of a domain, one after the other, in Mode 0.
PowerDomain(c) ==
  /\ c.op = "powerdomain" /\ Begin(c)
  /\ \/ Refuse(c, c.target \in DOMAIN Domains)
     \/ /\ c.target \in DOMAIN Domains
        /\ todo' = rails[c.target] /\ ppc' = "calibrate" /\ UNCHANGED pret

\* getINA226 reads all registers and changes none.
GetINA226(c) ==
  /\ c.op = "getINA226" /\ Begin(c) /\ todo' = <<>>
  /\ \/ c.target \in SensorSet /\ Answer("ok")
     \/ (PowerFails \/ c.target \notin SensorSet) /\ Answer("error")

\* Four values; a calibration of 0 is refused, one of 0x8000 is not.
ValidSet(set) ==
  /\ set \in [DOMAIN Registers -> {n \in Int : Skip <= n /\ n < 65536}]
  /\ set[2] # 0

\* setINA226: nothing is written unless all values are valid.
SetINA226(c) ==
  /\ c.op = "setINA226" /\ Begin(c)
  /\ LET valid == c.target \in SensorSet /\ ValidSet(c.set)
         given == SelectSeq(<<1, 2, 3, 4>>, LAMBDA i : c.set[i] # Skip) IN
     \/ Refuse(c, valid)
     \/ /\ valid /\ todo' = given
        /\ \/ given = <<>> /\ Answer("ok")
           \/ given # <<>> /\ ppc' = "write" /\ UNCHANGED pret

StartPower(c) ==
  GetPower(c) \/ PowerDomain(c) \/ GetINA226(c) \/ SetINA226(c)

-----------------------------------------------------------------------------

\* The sensor takes a calibration; the write may fail before or after that.
Calibrate(s, value) ==
  /\ cal' = [cal EXCEPT ![s] = value]
  /\ settled' = IF value = cal[s] THEN settled ELSE settled \ {s}

WriteOwn ==
  /\ ppc = "calibrate" /\ UNCHANGED <<rails, conv, pcall>>
  /\ \/ /\ Calibrate(Head(todo), Own(Head(todo)))
        /\ ppc' = "power" /\ UNCHANGED <<todo, seen, total, pret>>
     \/ Stop /\ Calibrate(Head(todo), Own(Head(todo)))
     \/ Stop /\ UNCHANGED <<cal, settled>>

\* The Power and the Current register are read one after the other.
ReadPower ==
  /\ ppc = "power" /\ UNCHANGED <<rails, cal, conv, pcall, settled>>
  /\ \/ /\ seen' = {conv[Head(todo)]}
        /\ ppc' = "current" /\ UNCHANGED <<todo, total, pret>>
     \/ Stop
ReadCurrent ==
  /\ ppc = "current" /\ UNCHANGED <<rails, cal, conv, pcall, settled>>
  /\ \/ /\ seen' = seen \cup {conv[Head(todo)]}
        /\ ppc' = "scale" /\ UNCHANGED <<todo, total, pret>>
     \/ Stop

\* wrong: values are scaled for the board's own calibration
Bug_Scale(s) == Own(s)
\* The calibration that the values of sensor s are scaled for.
Scale(s) == cal[s]

\* The Calibration register; 0 is an error, anything else the scale.
ReadCalibration ==
  /\ ppc = "scale" /\ UNCHANGED <<rails, cal, conv, pcall, seen, settled>>
  /\ LET s == Head(todo) IN
     \/ Stop
     \/ cal[s] = 0 /\ Answer("error") /\ UNCHANGED <<todo, total>>
     \/ /\ cal[s] # 0
        /\ total' = Append(total, [sensor |-> s, right |-> seen = {Scale(s)}])
        /\ todo' = Tail(todo)
        /\ IF todo' = <<>> THEN Answer("ok")
                           ELSE ppc' = "calibrate" /\ UNCHANGED pret

\* Of the registers of setINA226 only the calibration matters here.
Register(i) == IF i = 2 THEN Calibrate(pcall.target, Word15(pcall.set[2]))
                        ELSE UNCHANGED <<cal, settled>>

\* One register of setINA226; a write may fail before or after it is done.
WriteRegister ==
  /\ ppc = "write" /\ UNCHANGED <<rails, conv, pcall, seen, total>>
  /\ \/ /\ Register(Head(todo)) /\ todo' = Tail(todo)
        /\ IF todo' = <<>> THEN Answer("ok") ELSE UNCHANGED <<ppc, pret>>
     \/ /\ PowerFails /\ Answer("error") /\ UNCHANGED todo
        /\ Register(Head(todo)) \/ UNCHANGED <<cal, settled>>

\* A sensor ends a measurement.
Measure(s) ==
  /\ conv[s] # cal[s]
  /\ conv' = [conv EXCEPT ![s] = cal[s]]
  /\ UNCHANGED <<rails, cal, ppc, pcall, todo, seen, total, settled, pret>>

\* The daemon is started again: the board file is parsed, the registers stay.
PowerRestart == rails' \in Parsed /\ NoCall /\ UNCHANGED <<cal, conv>>

\* The board loses its power: the registers are cleared.
Outage ==
  /\ cal' = [s \in SensorSet |-> 0] /\ conv' = cal'
  /\ rails' \in Parsed /\ NoCall

PowerStep ==
  \/ WriteOwn \/ ReadPower \/ ReadCurrent \/ ReadCalibration
  \/ WriteRegister

PowerCommands ==
  [op : {"getpower", "getcalpower", "getINA226"}, target : SensorSet,
   set : {<<>>}]
  \cup [op : {"powerdomain"}, target : DOMAIN Domains, set : {<<>>}]
  \cup [op : {"setINA226"}, target : SensorSet, set : Settings]

PowerNext ==
  \/ \E c \in PowerCommands : StartPower(c)
  \/ PowerStep
  \/ \E s \in SensorSet : Measure(s)
  \/ PowerRestart \/ Outage

PowerSpec == PowerInit /\ [][PowerNext]_powervars

-----------------------------------------------------------------------------
(* Properties.                                                             *)

PowerTypeOK ==
  /\ cal \in [SensorSet -> Calibrations]
  /\ conv \in [SensorSet -> Calibrations]
  /\ ppc \in {"idle", "calibrate", "power", "current", "scale", "write"}
  /\ pret \in {"none", "ok", "error"}
  /\ ppc \in {"calibrate", "power", "current", "scale"} =>
       todo # <<>> /\ Head(todo) \in SensorSet

Answered == ppc = "idle" /\ pret = "ok"

(***************************************************************************)
(* The values that a successful getpower, getcalpower or powerdomain gives *)
(* are scaled for the calibration they were measured with, the user's own  *)
(* one included.  The exception is a sensor that has not measured since    *)
(* its calibration was changed, for which getpower itself does not wait.   *)
(***************************************************************************)
Scaled == Answered =>
  \A i \in DOMAIN total : total[i].sensor \in settled => total[i].right

(***************************************************************************)
(* A successful powerdomain has added up the sensors of its rails as the   *)
(* board file names them, each of them once.  "powerdomain - get the power *)
(* used by <target> power domain"                                          *)
(***************************************************************************)
Totals == Answered /\ pcall.op = "powerdomain" =>
  LET names == Domains[pcall.target] IN
  [i \in DOMAIN total |-> total[i].sensor]
    = [i \in DOMAIN names |-> Meant[names[i]]]

Measured == Scaled /\ Totals

=============================================================================

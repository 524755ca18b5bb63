----------------------------- MODULE IOExpander -----------------------------
(***************************************************************************)
(* The TCA6416A IO expander and those who write its registers: start-up    *)
(* and restoreioexp (IO_Exp_Initialized), setoutioexp and setdirioexp, the *)
(* reset of the 8A34001 in restoreclock (Reset_IDT_8A34001), and listSFP   *)
(* and getSFP, which select a module on a shared bus before they read it   *)
(* and deselect it after that (QSFP_ModuleSelect).                         *)
(*                                                                         *)
(* A register is the set of its pins at 1.  A step is one transaction on   *)
(* an I2C bus; the daemon may be killed after each of them, and the        *)
(* expander keeps its registers until the power goes.                      *)
(***************************************************************************)
EXTENDS Naturals, Sequences

CONSTANTS
  Pins,        \* the pins of the expander
  Upper,       \* those of port 0, whose byte is written first
  Outputs,     \* the pins with direction 0 in the board file
  ResetPin,    \* 8A34001_EXP_RST_B, active low
  Modules,     \* the SFP, QSFP and OSFP modules
  Listing,     \* the modules in the order of the board file
  Method,      \* how a module is selected: "none", "pdi" or "pin"
  Scanned,     \* modules detected by a script instead
  SelectPin,   \* the first pin whose label contains the module's name
  UserValues,  \* values given to setoutioexp and setdirioexp
  MayFail,     \* TRUE when transactions may fail
  None

ASSUME PinsAssumption ==
  /\ Upper \subseteq Pins /\ Outputs \subseteq Pins /\ ResetPin \in Outputs
  /\ None \notin Pins /\ UserValues \subseteq SUBSET Pins
ASSUME ModulesAssumption ==
  /\ Listing \in Seq(Modules) \ {<<>>} /\ Scanned \subseteq Modules
  /\ Method \in [Modules -> {"none", "pdi", "pin"}]
  /\ SelectPin \in [Modules -> (Outputs \ {ResetPin}) \cup {None}]
  /\ MayFail \in BOOLEAN

-----------------------------------------------------------------------------

VARIABLES
  out,      \* the output register
  dir,      \* the direction register: the pins that are inputs
  pc,       \* the next step of the daemon
  op,       \* the command in progress, or the last one
  value,    \* QSFP_ModuleSelect: the output register as it was read
  todo,     \* the modules that the command in progress still has to read
  code,     \* what that command will return
  ret,      \* what the last command, or the start-up, returned
  trouble   \* history: what has meddled with the pins since they were set

vars == <<out, dir, pc, op, value, todo, code, ret, trouble>>
sfp  == <<value, todo, code>>

\* After power-up all pins are inputs, and their outputs are 1.
Init ==
  /\ out = Pins /\ dir = Pins
  /\ pc = "down" /\ op = "start" /\ ret = "none"
  /\ value = {} /\ todo = <<>> /\ code = "ok"
  /\ trouble = {}

-----------------------------------------------------------------------------
(* Access_IO_Exp.                                                          *)

\* A write that fails may have changed nothing, all, or the first byte.
Left(old, new) == {old, new, (new \cap Upper) \cup (old \ Upper)}

Done(reg, new) == reg' = new /\ UNCHANGED trouble
Failed(reg, new) == /\ MayFail /\ reg' \in Left(reg, new)
                    /\ trouble' = trouble \cup {"failed"}

Goto(label) == pc' = label /\ UNCHANGED ret
Return(c) == pc' = "idle" /\ ret' = c

-----------------------------------------------------------------------------
(* IO_Exp_Initialized: directions first, then outputs.                     *)

Start ==
  /\ pc = "down"
  /\ pc' = "directions" /\ op' = "start" /\ ret' = "none"
  /\ UNCHANGED <<out, dir, sfp, trouble>>
RestoreIOExp ==
  /\ pc = "idle"
  /\ pc' = "directions" /\ op' = "restoreioexp" /\ ret' = "none"
  /\ UNCHANGED <<out, dir, sfp, trouble>>

\* A failure ends a daemon that is starting.
GiveUp == IF op = "start" THEN pc' = "down" /\ ret' = "error"
                          ELSE Return("error")

InitDirections ==
  /\ pc = "directions"
  /\ \/ Done(dir, Pins \ Outputs) /\ Goto("outputs")
     \/ Failed(dir, Pins \ Outputs) /\ GiveUp
  /\ UNCHANGED <<out, op, sfp>>
InitOutputs ==
  /\ pc = "outputs"
  /\ \/ /\ out' = Outputs /\ trouble' = {}
        /\ IF op = "start" THEN Goto("started") ELSE Return("ok")
     \/ Failed(out, Outputs) /\ GiveUp
  /\ UNCHANGED <<dir, op, sfp>>

\* The rest of the start-up, as far as it leaves the expander alone.
Serve ==
  /\ pc = "started" /\ Return("ok")
  /\ UNCHANGED <<out, dir, op, sfp, trouble>>

-----------------------------------------------------------------------------
(* setoutioexp, setdirioexp, getioexp: one transaction each.               *)

User(reg, v) ==
  \/ reg' = v /\ trouble' = trouble \cup {"user"} /\ Return("ok")
  \/ Failed(reg, v) /\ Return("error")
SetOutIOExp(v) ==
  /\ pc = "idle" /\ op' = "setoutioexp"
  /\ User(out, v) /\ UNCHANGED <<dir, sfp>>
SetDirIOExp(v) ==
  /\ pc = "idle" /\ op' = "setdirioexp"
  /\ User(dir, v) /\ UNCHANGED <<out, sfp>>

\* Reading changes nothing, nor does a value of more bits than there are pins.
GetIOExp ==
  /\ pc = "idle" /\ op' = "getioexp"
  /\ Return("ok") \/ Return("error")
  /\ UNCHANGED <<out, dir, sfp, trouble>>

-----------------------------------------------------------------------------
(* Reset_IDT_8A34001: the whole register is written, with its own bit.     *)

AssertReset ==
  /\ pc = "idle" /\ op' = "reset"
  /\ \/ /\ out' = {} /\ trouble' = trouble \cup {"reset"} /\ Goto("release")
     \/ Failed(out, {}) /\ Return("error")
  /\ UNCHANGED <<dir, sfp>>
Bug_ReleaseReset ==              \* wrong: the bit of another pin is written
  /\ pc = "release" /\ Done(out, Outputs \ {ResetPin}) /\ Return("ok")
  /\ UNCHANGED <<dir, op, sfp>>
ReleaseReset ==
  /\ pc = "release"
  /\ \/ Done(out, {ResetPin}) /\ Return("ok")
     \/ Failed(out, {ResetPin}) /\ Return("error")
  /\ UNCHANGED <<dir, op, sfp>>

-----------------------------------------------------------------------------
(* SFP_List, SFP_Ops and QSFP_ModuleSelect.                                *)

Module == Head(todo)

\* A name that no label contains masks no bit.
OwnBit == {SelectPin[Module]} \ {None}

Begin(o, modules) ==
  /\ pc = "idle" /\ pc' = "select"
  /\ op' = o /\ todo' = modules /\ code' = "ok" /\ ret' = "none"
  /\ UNCHANGED <<out, dir, value, trouble>>
ListSFP == Begin("listSFP", Listing)
GetSFP  == \E m \in Modules : Begin("getSFP", <<m>>)

Local == value' = {} /\ todo' = <<>> /\ code' = "ok"
End(c) == Return(c) /\ Local

\* The next module of the list, unless there is none or one has failed.
Advance(c) ==
  IF Tail(todo) # <<>> /\ c = "ok"
  THEN Goto("select") /\ todo' = Tail(todo) /\ value' = {} /\ UNCHANGED code
  ELSE End(c)

ByScript == op = "listSFP" /\ Module \in Scanned
Scan ==
  /\ pc = "select" /\ ByScript
  /\ Advance("ok") \/ End("error")
  /\ UNCHANGED <<out, dir, op, trouble>>

\* Nothing to do, or a PDI to load, which may fail.
SelectOther ==
  /\ pc = "select" /\ ~ByScript /\ Method[Module] # "pin"
  /\ \/ Goto("access") /\ UNCHANGED sfp
     \/ Method[Module] = "pdi" /\ End("error")
  /\ UNCHANGED <<out, dir, op, trouble>>

SelectRead ==
  /\ pc = "select" /\ ~ByScript /\ Method[Module] = "pin"
  /\ \/ value' = out /\ Goto("drive") /\ UNCHANGED <<todo, code>>
     \/ MayFail /\ End("error")
  /\ UNCHANGED <<out, dir, op, trouble>>
\* The module may be left selected when this fails.
SelectWrite ==
  /\ pc = "drive"
  /\ \/ /\ Done(out, value \ OwnBit) /\ Goto("access")
        /\ value' = {} /\ UNCHANGED <<todo, code>>
     \/ Failed(out, value \ OwnBit) /\ End("error")
  /\ UNCHANGED <<dir, op>>

(***************************************************************************)
(* The module is read.  It fails when the bus cannot be used, or when the  *)
(* module does not answer, after which listSFP goes on.  In each case the  *)
(* module is deselected.                                                   *)
(***************************************************************************)
Bug_Access ==                    \* wrong: an error returns at once
  /\ pc = "access"
  /\ \/ IF Method[Module] = "pin" THEN Goto("deselect") /\ UNCHANGED sfp
                                   ELSE Advance("ok")
     \/ End("error")
  /\ UNCHANGED <<out, dir, op, trouble>>
Access ==
  /\ pc = "access"
  /\ \E c \in {"ok", "error"} :
       IF Method[Module] = "pin"
       THEN Goto("deselect") /\ code' = c /\ UNCHANGED <<value, todo>>
       ELSE Advance(c)
  /\ UNCHANGED <<out, dir, op, trouble>>

\* QSFP_ModuleSelect(SFP, 0), whose result is ignored.
DeselectRead ==
  /\ pc = "deselect"
  /\ \/ value' = out /\ Goto("restore") /\ UNCHANGED <<todo, code, trouble>>
     \/ MayFail /\ Advance(code) /\ trouble' = trouble \cup {"failed"}
  /\ UNCHANGED <<out, dir, op>>
Bug_DeselectWrite ==             \* wrong: the other bits are written as 0
  /\ pc = "restore"
  /\ Done(out, OwnBit) /\ Advance(code) /\ UNCHANGED <<dir, op>>
DeselectWrite ==
  /\ pc = "restore"
  /\ Done(out, value \cup OwnBit) \/ Failed(out, value \cup OwnBit)
  /\ Advance(code)
  /\ UNCHANGED <<dir, op>>

-----------------------------------------------------------------------------

Die ==
  /\ pc # "down" /\ pc' = "down" /\ ret' = "none"
  /\ trouble' = trouble \cup {"failed"} /\ Local
  /\ UNCHANGED <<out, dir, op>>
PowerCycle ==
  /\ out' = Pins /\ dir' = Pins /\ trouble' = {}
  /\ pc' = "down" /\ op' = "start" /\ ret' = "none" /\ Local

\* What the daemon does with the expander.
Step ==
  \/ Start \/ RestoreIOExp \/ InitDirections \/ InitOutputs
  \/ \E v \in UserValues : SetOutIOExp(v) \/ SetDirIOExp(v)
  \/ GetIOExp \/ AssertReset \/ ReleaseReset
  \/ ListSFP \/ GetSFP \/ Scan \/ SelectOther \/ SelectRead \/ SelectWrite
  \/ Access \/ DeselectRead \/ DeselectWrite

Next == Step \/ Serve \/ Die \/ PowerCycle

Spec == Init /\ [][Next]_vars

-----------------------------------------------------------------------------
(* Properties.                                                             *)

Labels == {"down", "directions", "outputs", "started", "idle", "release",
           "select", "drive", "access", "deselect", "restore"}
Commands == {"start", "restoreioexp", "setoutioexp", "setdirioexp",
             "getioexp", "reset", "listSFP", "getSFP"}

RegistersOK ==
  /\ out \subseteq Pins /\ dir \subseteq Pins /\ value \subseteq Pins
  /\ todo \in Seq(Modules) /\ code \in {"ok", "error"}
  /\ trouble \subseteq {"failed", "user", "reset"}

\* The registers hold pins, and the command and its step are known ones.
TypeOK == /\ RegistersOK
          /\ pc \in Labels /\ op \in Commands
          /\ ret \in {"none", "ok", "error"}

\* The pins that the expander drives low.
Low == Pins \ (out \cup dir)

SelectPins == {SelectPin[m] : m \in Modules} \ {None}
Reading == pc \in {"access", "deselect", "restore"} /\ Method[Module] = "pin"

(***************************************************************************)
(* The modules of a bus have the same address.  QSFP_ModuleSelect promises *)
(* that just the module that a command reads is selected, and none between *)
(* commands, whatever commands came before; Only(t) says so of a history   *)
(* in which nothing but t has meddled with the pins.                       *)
(***************************************************************************)
Only(t) ==
  trouble \subseteq t /\ pc \notin {"down", "release"} =>
    Low \cap SelectPins = IF Reading THEN OwnBit ELSE {}
Exclusive == Only({})
\* The same after restoreclock, which is to reset the 8A34001 and no more.
StillExclusive == Only({"reset"})

(***************************************************************************)
(* Between commands the 8A34001 is out of reset: every command that writes *)
(* the register of the reset line brings it back, restoreclock included.   *)
(***************************************************************************)
ResetReleased ==
  pc = "idle" /\ trouble \subseteq {"reset"} => ResetPin \in out \ dir

(***************************************************************************)
(* No command but restoreclock ever pulls the 8A34001 into reset, nor does *)
(* a start-up while the expander is being set up, as long as the user has  *)
(* not written the registers and no transaction has failed.                *)
(***************************************************************************)
OnlyRestoreResets ==
  [][op' # "reset" /\ trouble' \subseteq {"reset"} =>
       ResetPin \notin Low' \ Low]_vars

=============================================================================

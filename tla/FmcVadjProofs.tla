--------------------------- MODULE FmcVadjProofs ---------------------------
(***************************************************************************)
(* Proofs about FmcVadj and the IO expander under it: for any board file,  *)
(* any cards, any order of commands, failures, kills and losses of power.  *)
(***************************************************************************)
EXTENDS FmcVadj, WellFoundedInduction, TLAPS

-----------------------------------------------------------------------------
(* The invariant of the expander.                                          *)

\* The steps of a command that reads modules, and of one that reads cards.
Walking == {"select", "drive", "access", "deselect", "restore"}
Finding == {"presence", "gate", "read", "close", "set"}

BoardLabels   == Labels \cup Finding
BoardCommands == Commands \cup {"listFMC", "getFMC"}
Results == {"none", "ok", "error", "disabled", "warned", "set", "unset"}

\* There is a module to read; one that is driven is selected by a pin.
Modular ==
  /\ pc \in Walking => todo # <<>> /\ Head(todo) \in Modules
  /\ pc \in {"drive", "deselect", "restore"} => Method[Module] = "pin"

\* Nothing writes the register between its reading and its writing back.
Snapshot == pc \in {"drive", "restore"} => value = out

\* The pin of the module that a command has selected.
Selected == IF Reading THEN OwnBit ELSE {}

\* The directions are written before the outputs, whatever came before.
Directed == pc = "outputs" => dir = Pins \ Outputs

(***************************************************************************)
(* As long as nobody has meddled with the pins they are as the board file  *)
(* has them, but for the module that is being read; or the expander is     *)
(* fresh from power-up.                                                    *)
(***************************************************************************)
SetUp == trouble = {} =>
  \/ dir = Pins \ Outputs /\ out = Outputs \ Selected
  \/ pc \in {"down", "directions"} /\ dir = Pins /\ out = Pins
  \/ pc = "outputs" /\ out = Pins

\* A reset that works takes no more than its two writes.
Released == trouble \subseteq {"reset"} =>
  /\ dir = Pins \ Outputs \/ pc \in {"down", "directions"}
  /\ ResetPin \in out \/ pc = "release"
Resetting == pc = "release" => op = "reset" /\ "reset" \in trouble

ExpanderInv ==
  /\ RegistersOK /\ pc \in BoardLabels /\ op \in BoardCommands
  /\ ret \in Results
  /\ Modular /\ Snapshot /\ Directed /\ SetUp /\ Released /\ Resetting

-----------------------------------------------------------------------------
(* The invariant of the cards and of VADJ.                                 *)

CardsOK ==
  /\ card \in [Slots -> Cards \cup {None}]
  /\ gate \subseteq Gated /\ stuck \subseteq gate
  /\ volt \in Nat \cup {Off}
  /\ present \subseteq Slots /\ visit \subseteq Slots
  /\ range \in [Slots -> [min : Nat, max : Nat]]

\* A command that reads cards has one to read; only a start-up sets VADJ.
Visiting ==
  /\ pc \in {"gate", "read", "close"} => visit # {}
  /\ pc \in {"started", "presence", "set"} => op = "start"
  /\ pc = "set" => visit = {}

\* The only switch that is open is that of the card that is being read.
Gating == gate \subseteq
  stuck \cup (IF pc \in {"read", "close"} THEN {Slot} ELSE {})

Choosing == op = "start" /\ pc \in {"gate", "read", "close", "set"}

\* The cards that were found and are done with were all read.
WasRead(s) == card[s] # None /\ range[s] = RangeOf(card[s])
Ranged ==
  Choosing => /\ \A s \in present \ visit : WasRead(s)
              /\ pc = "close" /\ code = "ok" => WasRead(Slot)

\* The cards that were found are those that are there.
Detected == Choosing /\ trouble = {} => present = Plugged

CardsInv ==
  CardsOK /\ Visiting /\ Gating /\ Ranged /\ Detected /\ Fits

IInv == ExpanderInv /\ CardsInv

-----------------------------------------------------------------------------
(* Modules and their pins.                                                 *)

\* The pin of a module is an output, and never the reset of the 8A34001.
LEMMA OwnPin ==
  ASSUME ExpanderInv, pc \in Walking
  PROVE  OwnBit \subseteq Outputs \ {ResetPin} /\ OwnBit \subseteq SelectPins
<1>1. Module \in Modules /\ SelectPin[Module] \in Outputs \cup {None}
  BY ModulesAssumption DEF ExpanderInv, Modular, Module
<1>2. SelectPin[Module] # ResetPin
  BY <1>1, ModulesAssumption, PinsAssumption
<1> QED BY <1>1, <1>2 DEF OwnBit, SelectPins

\* The command that is over, or goes on with the next module.
LEMMA Advanced ==
  ASSUME todo \in Seq(Modules), todo # <<>>, code \in {"ok", "error"},
         NEW c \in {"ok", "error"}, Advance(c)
  PROVE  /\ value' = {} /\ code' \in {"ok", "error"}
         /\ todo' \in Seq(Modules)
         /\ \/ pc' = "idle" /\ ret' = c
            \/ /\ pc' = "select" /\ ret' = ret
               /\ todo' # <<>> /\ Head(todo') \in Modules
<1>1. Tail(todo) \in Seq(Modules)
  BY DEF Advance
<1>2. Tail(todo) # <<>> => Head(Tail(todo)) \in Modules
  BY <1>1
<1>3. <<>> \in Seq(Modules)
  OBVIOUS
<1> QED BY <1>1, <1>2, <1>3 DEF Advance, Goto, End, Return, Local

(***************************************************************************)
(* A step that leaves the registers and their history alone keeps the      *)
(* invariant, unless it comes to one of the steps that it speaks of.       *)
(***************************************************************************)
LEMMA Aside ==
  ASSUME ExpanderInv, UNCHANGED <<out, dir, todo, value>>,
         trouble' = trouble \/ trouble' = trouble \cup {"failed"},
         pc \notin Walking \cup {"release", "outputs", "directions", "down"},
         pc' \in BoardLabels \ (Walking \cup {"release", "outputs"}),
         op' \in BoardCommands, ret' \in Results, code' \in {"ok", "error"}
  PROVE  ExpanderInv'
<1>1. ~Reading /\ ~Reading'
  BY DEF Reading, Walking
<1>2. RegistersOK'
  BY DEF ExpanderInv, RegistersOK
<1>3. SetUp' /\ Released'
  BY <1>1 DEF ExpanderInv, SetUp, Released, Selected
<1> QED
  BY <1>2, <1>3
  DEF ExpanderInv, Modular, Walking, Snapshot, Directed, Resetting

-----------------------------------------------------------------------------
(* The commands of the expander, one lemma per action.                     *)

\* What the cards have to do with such a step: nothing.
Elsewhere ==
  /\ pc \in Labels /\ pc' \in Labels
  /\ ~(pc' = "idle" /\ op' = "start" /\ ret' = "set")
  /\ pc' = "started" => op' = "start"

\* A set-up begins and leaves the registers as they are.
LEMMA BeginSetUpInv ==
  ASSUME ExpanderInv, Start \/ RestoreIOExp
  PROVE  ExpanderInv' /\ Elsewhere
<1> USE DEF ExpanderInv, Start, RestoreIOExp, sfp
<1>1. ~Reading /\ ~Reading'
  BY DEF Reading
<1>2. RegistersOK'
  BY DEF RegistersOK
<1>3. SetUp' /\ Released'
  BY <1>1 DEF SetUp, Released, Selected
<1> QED
  BY <1>2, <1>3
  DEF Modular, Walking, Snapshot, Directed, Resetting, BoardLabels, Labels,
      BoardCommands, Commands, Results, Elsewhere

\* The directions are written.
LEMMA InitDirectionsInv ==
  ASSUME ExpanderInv, InitDirections
  PROVE  ExpanderInv' /\ Elsewhere
<1> USE DEF ExpanderInv, InitDirections, sfp, Done, Failed, Goto, GiveUp,
            Return
<1>1. ~Reading /\ ~Reading'
  BY DEF Reading
<1>2. RegistersOK'
  BY PinsAssumption DEF RegistersOK, Left
<1>3. SetUp' /\ Released'
  BY <1>1 DEF SetUp, Released, Selected
<1>4. pc' \in {"outputs", "down", "idle"} /\ pc = "directions"
  BY Zenon
<1>5. Directed'
  BY DEF Directed
<1>6. ret' = ret \/ ret' = "error"
  BY Zenon
<1>7. ~(pc' = "idle" /\ op' = "start" /\ ret' = "set")
  BY <1>4
<1> QED
  BY <1>2, <1>3, <1>4, <1>5, <1>6, <1>7
  DEF Modular, Walking, Snapshot, Resetting, BoardLabels, Labels, Results,
      Elsewhere

\* The outputs are written: from here on the pins are set up.
LEMMA InitOutputsInv ==
  ASSUME ExpanderInv, InitOutputs
  PROVE  ExpanderInv' /\ Elsewhere
<1> USE DEF ExpanderInv, InitOutputs, sfp, Failed, Goto, GiveUp, Return
<1>1. ~Reading /\ ~Reading'
  BY DEF Reading
<1>2. RegistersOK'
  BY PinsAssumption DEF RegistersOK, Left
<1>3. dir' = Pins \ Outputs
  BY DEF Directed
<1>4. SetUp' /\ Released'
  <2>1. CASE out' = Outputs /\ trouble' = {}
    <3>1. ResetPin \in out' /\ out' = Outputs \ {}
      BY <2>1, PinsAssumption
    <3> QED BY <1>1, <1>3, <3>1 DEF SetUp, Released, Selected
  <2>2. CASE "failed" \in trouble'
    BY <2>2 DEF SetUp, Released
  <2> QED BY <2>1, <2>2
<1>5. /\ pc' \in {"started", "down", "idle"} /\ pc = "outputs"
      /\ pc' = "idle" => ret' \in {"ok", "error"}
      /\ pc' = "started" => op' = "start"
  BY Zenon
<1>6. ret' \in {ret, "ok", "error"}
  BY Zenon
<1> QED
  BY <1>2, <1>4, <1>5, <1>6
  DEF Modular, Walking, Snapshot, Directed, Resetting, BoardLabels, Labels,
      Results, Elsewhere

\* The user writes a register: nothing is said of the pins any more.
LEMMA UserInv ==
  ASSUME ExpanderInv, NEW v \in UserValues, SetOutIOExp(v) \/ SetDirIOExp(v)
  PROVE  ExpanderInv' /\ Elsewhere
<1> USE DEF ExpanderInv, SetOutIOExp, SetDirIOExp, User, Failed, Return, sfp
<1>1. RegistersOK'
  BY PinsAssumption DEF RegistersOK, Left
<1>2. "user" \in trouble' \/ "failed" \in trouble'
  BY Zenon
<1>3. SetUp' /\ Released'
  BY <1>2 DEF SetUp, Released
<1>4. /\ pc' = "idle" /\ pc = "idle" /\ ret' \in {"ok", "error"}
      /\ op' \in {"setoutioexp", "setdirioexp"}
  BY Zenon
<1> QED
  BY <1>1, <1>3, <1>4
  DEF Modular, Walking, Snapshot, Directed, Resetting, BoardLabels, Labels,
      BoardCommands, Commands, Results, Elsewhere

\* Reading the registers changes nothing.
LEMMA GetIOExpInv ==
  ASSUME ExpanderInv, GetIOExp
  PROVE  ExpanderInv' /\ Elsewhere
<1>1. /\ pc = "idle" /\ pc' = "idle" /\ op' = "getioexp"
      /\ ret' \in {"ok", "error"}
      /\ UNCHANGED <<out, dir, todo, value, code, trouble>>
  BY DEF GetIOExp, Return, sfp
<1>2. code' \in {"ok", "error"}
  BY <1>1 DEF ExpanderInv, RegistersOK
<1> QED
  BY <1>1, <1>2, Aside
  DEF Walking, BoardLabels, Labels, BoardCommands, Commands, Results,
      Elsewhere

\* The reset of the 8A34001 is asserted, with all other outputs.
LEMMA AssertResetInv ==
  ASSUME ExpanderInv, AssertReset
  PROVE  ExpanderInv' /\ Elsewhere
<1> USE DEF ExpanderInv, AssertReset, Failed, Return, Goto, sfp
<1>1. RegistersOK'
  BY DEF RegistersOK, Left
<1>2. pc = "idle" /\ op' = "reset" /\ dir' = dir
  OBVIOUS
<1>3. \/ pc' = "release" /\ ret' = ret
      \/ pc' = "idle" /\ ret' = "error" /\ "failed" \in trouble'
  BY Zenon
<1>4. trouble' # {} /\ trouble \subseteq trouble'
  BY Zenon
<1>5. SetUp' /\ Released'
  BY <1>2, <1>3, <1>4 DEF SetUp, Released
<1> QED
  BY <1>1, <1>2, <1>3, <1>5
  DEF Modular, Walking, Snapshot, Directed, Resetting, BoardLabels, Labels,
      BoardCommands, Commands, Results, Elsewhere

\* It is released, the other outputs are not.
LEMMA ReleaseResetInv ==
  ASSUME ExpanderInv, ReleaseReset
  PROVE  ExpanderInv' /\ Elsewhere
<1> USE DEF ExpanderInv, ReleaseReset, Done, Failed, Return, sfp
<1>1. RegistersOK'
  BY PinsAssumption DEF RegistersOK, Left
<1>2. /\ pc = "release" /\ op' = op /\ dir' = dir
      /\ pc' = "idle" /\ ret' \in {"ok", "error"}
      /\ "reset" \in trouble
      /\ \/ out' = {ResetPin} /\ trouble' = trouble
         \/ trouble' = trouble \cup {"failed"}
  BY Zenon DEF Resetting
<1>3. SetUp' /\ Released'
  BY <1>2 DEF SetUp, Released
<1> QED
  BY <1>1, <1>2, <1>3
  DEF Modular, Walking, Snapshot, Directed, Resetting, BoardLabels, Labels,
      Results, Elsewhere

-----------------------------------------------------------------------------
(* listSFP and getSFP: a module is selected, read and deselected.          *)

\* The first module of the command is next.
LEMMA BeginInv ==
  ASSUME ExpanderInv, ListSFP \/ GetSFP
  PROVE  ExpanderInv' /\ Elsewhere
<1>1. /\ pc = "idle" /\ pc' = "select" /\ op' \in {"listSFP", "getSFP"}
      /\ code' = "ok" /\ ret' = "none"
      /\ UNCHANGED <<out, dir, value, trouble>>
  BY DEF ListSFP, GetSFP, Begin
<1>2. todo' \in Seq(Modules) /\ todo' # <<>>
  <2>1. CASE ListSFP
    BY <2>1, ModulesAssumption DEF ListSFP, Begin
  <2>2. CASE GetSFP
    BY <2>2 DEF GetSFP, Begin
  <2> QED BY <2>1, <2>2
<1>3. Head(todo') \in Modules
  BY <1>2
<1>4. ~Reading /\ ~Reading'
  BY <1>1 DEF Reading
<1>5. SetUp' /\ Released'
  BY <1>1, <1>4 DEF ExpanderInv, SetUp, Released, Selected
<1>6. RegistersOK'
  BY <1>1, <1>2 DEF ExpanderInv, RegistersOK
<1> QED
  BY <1>1, <1>2, <1>3, <1>5, <1>6
  DEF ExpanderInv, Modular, Walking, Snapshot, Directed, Resetting,
      BoardLabels, Labels, BoardCommands, Commands, Results, Elsewhere

\* While modules are read, the pins are those of the set-up but for one.
LEMMA Walked ==
  ASSUME ExpanderInv, pc \in Walking
  PROVE  /\ trouble = {} => dir = Pins \ Outputs /\ out = Outputs \ Selected
         /\ trouble \subseteq {"reset"} =>
              dir = Pins \ Outputs /\ ResetPin \in out
BY DEF ExpanderInv, Walking, SetUp, Released

(***************************************************************************)
(* The command is over, or goes on with the next module, and no module is  *)
(* selected: the outputs are as they were set up, or somebody has meddled  *)
(* with them.                                                              *)
(***************************************************************************)
LEMMA LeaveInv ==
  ASSUME ExpanderInv, pc \in Walking, UNCHANGED <<dir, op>>,
         NEW c \in {"ok", "error"}, Advance(c) \/ End(c),
         out' \subseteq Pins, trouble' \subseteq {"failed", "user", "reset"},
         trouble' = {} => dir = Pins \ Outputs /\ out' = Outputs,
         trouble' \subseteq {"reset"} =>
           dir = Pins \ Outputs /\ ResetPin \in out'
  PROVE  ExpanderInv' /\ Elsewhere
<1>1. todo \in Seq(Modules) /\ todo # <<>> /\ code \in {"ok", "error"}
  BY DEF ExpanderInv, RegistersOK, Modular
<1>2. /\ value' = {} /\ code' \in {"ok", "error"} /\ todo' \in Seq(Modules)
      /\ \/ pc' = "idle" /\ ret' = c
         \/ /\ pc' = "select" /\ ret' = ret
            /\ todo' # <<>> /\ Head(todo') \in Modules
  <2>1. CASE Advance(c)
    BY <1>1, <2>1, Advanced
  <2>2. CASE End(c)
    BY <2>2 DEF End, Return, Local
  <2> QED BY <2>1, <2>2
<1>3. RegistersOK'
  BY <1>2 DEF ExpanderInv, RegistersOK
<1>4. ~Reading'
  BY <1>2 DEF Reading
<1>5. SetUp' /\ Released'
  BY <1>4 DEF SetUp, Released, Selected
<1>6. pc \in Labels /\ pc' \in Labels /\ ret' \in Results
  BY <1>2 DEF ExpanderInv, Walking, Labels, Results
<1> QED
  BY <1>2, <1>3, <1>5, <1>6
  DEF ExpanderInv, Modular, Walking, Snapshot, Directed, Resetting,
      BoardLabels, Elsewhere

\* It stays with the module and goes on to another step of it.
LEMMA StayInv ==
  ASSUME ExpanderInv, pc \in Walking,
         UNCHANGED <<dir, op, todo, ret, trouble>>,
         pc' \in Walking, out' \subseteq Pins, value' \subseteq Pins,
         code' \in {"ok", "error"}, Modular', Snapshot',
         trouble = {} => out' = Outputs \ Selected',
         trouble \subseteq {"reset"} => ResetPin \in out'
  PROVE  ExpanderInv' /\ Elsewhere
<1>1. RegistersOK'
  BY DEF ExpanderInv, RegistersOK
<1>2. SetUp' /\ Released'
  BY Walked DEF SetUp, Released
<1>3. pc \in Labels /\ pc' \in Labels /\ pc' # "idle"
  BY DEF Walking, Labels
<1> QED
  BY <1>1, <1>2, <1>3
  DEF ExpanderInv, Walking, Directed, Resetting, BoardLabels, Elsewhere

\* A module that a script detects, and one that needs no pin.
LEMMA OtherInv ==
  ASSUME ExpanderInv, Scan \/ SelectOther
  PROVE  ExpanderInv' /\ Elsewhere
<1>1. /\ pc = "select" /\ pc \in Walking
      /\ UNCHANGED <<out, dir, op, trouble>>
  BY DEF Scan, SelectOther, Walking
<1>2. ~Reading /\ Selected = {}
  BY <1>1 DEF Reading, Selected
<1>3. out \subseteq Pins /\ trouble \subseteq {"failed", "user", "reset"}
  BY DEF ExpanderInv, RegistersOK
<1>4. CASE Advance("ok") \/ End("error")
  BY <1>1, <1>2, <1>3, <1>4, Walked, LeaveInv
<1>5. CASE Goto("access") /\ UNCHANGED sfp /\ Method[Module] # "pin"
  <2>1. pc' = "access" /\ UNCHANGED <<value, todo, code, ret>>
    BY <1>5 DEF Goto, sfp
  <2>2. ~Reading' /\ Selected' = {}
    BY <1>5, <2>1 DEF Reading, Selected, Module
  <2>3. Modular' /\ Snapshot'
    BY <1>1, <2>1 DEF ExpanderInv, Modular, Snapshot, Walking
  <2> QED
    BY <1>1, <1>2, <2>1, <2>2, <2>3, Walked, StayInv
    DEF ExpanderInv, RegistersOK, Walking
<1> QED BY <1>4, <1>5 DEF Scan, SelectOther

\* The register is read, to be written back with one bit cleared.
LEMMA SelectReadInv ==
  ASSUME ExpanderInv, SelectRead
  PROVE  ExpanderInv' /\ Elsewhere
<1>1. /\ pc = "select" /\ pc \in Walking /\ Method[Module] = "pin"
      /\ UNCHANGED <<out, dir, op, trouble>>
  BY DEF SelectRead, Walking
<1>2. ~Reading /\ Selected = {}
  BY <1>1 DEF Reading, Selected
<1>3. out \subseteq Pins /\ trouble \subseteq {"failed", "user", "reset"}
  BY DEF ExpanderInv, RegistersOK
<1>4. CASE value' = out /\ Goto("drive") /\ UNCHANGED <<todo, code>>
  <2>1. pc' = "drive" /\ ret' = ret /\ Selected' = {}
    BY <1>4 DEF Goto, Selected, Reading
  <2>2. Modular' /\ Snapshot'
    BY <1>1, <1>4, <2>1 DEF ExpanderInv, Modular, Snapshot, Walking, Module
  <2> QED
    BY <1>1, <1>2, <1>3, <1>4, <2>1, <2>2, Walked, StayInv
    DEF ExpanderInv, RegistersOK, Walking
<1>5. CASE End("error")
  BY <1>1, <1>2, <1>3, <1>5, Walked, LeaveInv
<1> QED BY <1>4, <1>5 DEF SelectRead

\* The module is selected, and nothing but it.
LEMMA SelectWriteInv ==
  ASSUME ExpanderInv, SelectWrite
  PROVE  ExpanderInv' /\ Elsewhere
<1>1. /\ pc = "drive" /\ pc \in Walking /\ Method[Module] = "pin"
      /\ value = out /\ UNCHANGED <<dir, op>>
  BY DEF SelectWrite, Walking, ExpanderInv, Modular, Snapshot
<1>2. Selected = {}
  BY <1>1 DEF Reading, Selected
<1>3. out \subseteq Pins /\ trouble \subseteq {"failed", "user", "reset"}
  BY DEF ExpanderInv, RegistersOK
<1>4. ResetPin \notin OwnBit
  BY <1>1, OwnPin
<1>5. CASE /\ Done(out, value \ OwnBit) /\ Goto("access")
           /\ value' = {} /\ UNCHANGED <<todo, code>>
  <2>1. /\ pc' = "access" /\ ret' = ret /\ trouble' = trouble
        /\ out' = out \ OwnBit /\ Selected' = OwnBit
    BY <1>1, <1>5 DEF Goto, Done, Selected, Reading, Module, OwnBit
  <2>2. Modular' /\ Snapshot'
    BY <1>1, <1>5, <2>1 DEF ExpanderInv, Modular, Snapshot, Walking
  <2> QED
    BY <1>1, <1>2, <1>3, <1>4, <1>5, <2>1, <2>2, Walked, StayInv
    DEF ExpanderInv, RegistersOK, Walking
<1>6. CASE Failed(out, value \ OwnBit) /\ End("error")
  <2>1. out' \subseteq Pins /\ trouble' = trouble \cup {"failed"}
    BY <1>1, <1>3, <1>6 DEF Failed, Left
  <2> QED BY <1>1, <1>3, <1>6, <2>1, LeaveInv
<1> QED BY <1>5, <1>6 DEF SelectWrite

\* Whatever the module answers, it is deselected if it was selected.
LEMMA AccessInv ==
  ASSUME ExpanderInv, Access
  PROVE  ExpanderInv' /\ Elsewhere
<1>1. /\ pc = "access" /\ pc \in Walking
      /\ UNCHANGED <<out, dir, op, trouble>>
  BY DEF Access, Walking
<1>2. out \subseteq Pins /\ trouble \subseteq {"failed", "user", "reset"}
  BY DEF ExpanderInv, RegistersOK
<1>3. PICK c \in {"ok", "error"} :
        IF Method[Module] = "pin"
        THEN Goto("deselect") /\ code' = c /\ UNCHANGED <<value, todo>>
        ELSE Advance(c)
  BY DEF Access
<1>4. CASE Method[Module] = "pin"
  <2>1. /\ pc' = "deselect" /\ ret' = ret /\ Selected' = Selected
        /\ UNCHANGED <<value, todo>> /\ code' = c
    BY <1>1, <1>3, <1>4 DEF Goto, Selected, Reading, Module, OwnBit
  <2>2. Modular' /\ Snapshot'
    BY <1>1, <1>4, <2>1
    DEF ExpanderInv, Modular, Snapshot, Walking, Module
  <2> QED
    BY <1>1, <1>2, <2>1, <2>2, Walked, StayInv
    DEF ExpanderInv, RegistersOK, Walking
<1>5. CASE Method[Module] # "pin"
  <2>1. Selected = {}
    BY <1>5 DEF Selected, Reading
  <2> QED BY <1>1, <1>2, <1>3, <1>5, <2>1, Walked, LeaveInv
<1> QED BY <1>4, <1>5

\* The register is read again, or the module stays selected.
LEMMA DeselectReadInv ==
  ASSUME ExpanderInv, DeselectRead
  PROVE  ExpanderInv' /\ Elsewhere
<1>1. /\ pc = "deselect" /\ pc \in Walking /\ Method[Module] = "pin"
      /\ UNCHANGED <<out, dir, op>>
  BY DEF DeselectRead, Walking, ExpanderInv, Modular
<1>2. /\ out \subseteq Pins /\ trouble \subseteq {"failed", "user", "reset"}
      /\ code \in {"ok", "error"}
  BY DEF ExpanderInv, RegistersOK
<1>3. CASE value' = out /\ Goto("restore") /\ UNCHANGED <<todo, code, trouble>>
  <2>1. pc' = "restore" /\ ret' = ret /\ Selected' = Selected
    BY <1>1, <1>3 DEF Goto, Selected, Reading, Module, OwnBit
  <2>2. Modular' /\ Snapshot'
    BY <1>1, <1>3, <2>1 DEF ExpanderInv, Modular, Snapshot, Walking, Module
  <2> QED
    BY <1>1, <1>2, <1>3, <2>1, <2>2, Walked, StayInv
    DEF ExpanderInv, RegistersOK, Walking
<1>4. CASE Advance(code) /\ trouble' = trouble \cup {"failed"}
  BY <1>1, <1>2, <1>4, LeaveInv
<1> QED BY <1>3, <1>4 DEF DeselectRead

\* The bit of the module is set again, the others stay.
LEMMA DeselectWriteInv ==
  ASSUME ExpanderInv, DeselectWrite
  PROVE  ExpanderInv' /\ Elsewhere
<1>1. /\ pc = "restore" /\ pc \in Walking /\ Method[Module] = "pin"
      /\ value = out /\ Advance(code) /\ UNCHANGED <<dir, op>>
  BY DEF DeselectWrite, Walking, ExpanderInv, Modular, Snapshot
<1>2. /\ out \subseteq Pins /\ trouble \subseteq {"failed", "user", "reset"}
      /\ code \in {"ok", "error"}
  BY DEF ExpanderInv, RegistersOK
<1>3. Selected = OwnBit /\ OwnBit \subseteq Outputs /\ OwnBit \subseteq Pins
  BY <1>1, OwnPin, PinsAssumption DEF Selected, Reading
<1>4. CASE Done(out, value \cup OwnBit)
  <2>1. out' = out \cup OwnBit /\ trouble' = trouble
    BY <1>1, <1>4 DEF Done
  <2>2. trouble = {} => out' = Outputs
    BY <1>1, <1>3, <2>1, Walked
  <2> QED BY <1>1, <1>2, <1>3, <2>1, <2>2, Walked, LeaveInv
<1>5. CASE Failed(out, value \cup OwnBit)
  <2>1. out' \subseteq Pins /\ trouble' = trouble \cup {"failed"}
    BY <1>1, <1>2, <1>3, <1>5 DEF Failed, Left
  <2> QED BY <1>1, <1>2, <2>1, LeaveInv
<1> QED BY <1>4, <1>5 DEF DeselectWrite

\* No step of the daemon on the expander breaks its invariant.
LEMMA StepInv ==
  ASSUME ExpanderInv, Step
  PROVE  ExpanderInv' /\ Elsewhere
BY BeginSetUpInv, InitDirectionsInv, InitOutputsInv, UserInv, GetIOExpInv,
   AssertResetInv, ReleaseResetInv, BeginInv, OtherInv, SelectReadInv,
   SelectWriteInv, AccessInv, DeselectReadInv, DeselectWriteInv
DEF Step

-----------------------------------------------------------------------------
(* The smallest and the largest of a set of numbers.                       *)

LEMMA Smallest ==
  ASSUME NEW T \in SUBSET Nat, T # {}
  PROVE  Min(T) \in T /\ \A y \in T : Min(T) <= y
<1> DEFINE R == {ss \in Nat \X Nat : ss[1] < ss[2]}
<1>1. IsWellFoundedOn(R, Nat)
  BY NatLessThanWellFounded DEF OpToRel
<1> HIDE DEF R
<1>2. PICK x \in T : \A y \in T : ~ (<<y, x>> \in R)
  BY <1>1, WFMin
<1>3. ASSUME NEW y \in T PROVE x <= y
  <2>1. x \in Nat /\ y \in Nat /\ ~ (<<y, x>> \in R)
    BY <1>2
  <2>2. ~ (y < x)
    BY <2>1, Zenon DEF R
  <2> QED BY <2>1, <2>2
<1> QED BY <1>3 DEF Min

\* The largest is the smallest of the bounds.
LEMMA Largest ==
  ASSUME NEW T \in SUBSET Nat, T # {}, NEW b \in Nat, \A y \in T : y <= b
  PROVE  Max(T) \in T /\ \A y \in T : y <= Max(T)
<1> DEFINE B == {u \in Nat : \A y \in T : y <= u}
<1>1. B \in SUBSET Nat /\ B # {}
  OBVIOUS
<1>2. PICK m \in B : \A u \in B : m <= u
  BY <1>1, Smallest
<1>3. m \in Nat /\ \A y \in T : y <= m
  OBVIOUS
<1>4. m \in T
  <2> SUFFICES ASSUME m \notin T PROVE FALSE
    OBVIOUS
  <2>1. \A y \in T : y \in Nat /\ y < m
    BY <1>3
  <2>2. m # 0
    <3>1. PICK y \in T : TRUE
      OBVIOUS
    <3> QED BY <1>3, <2>1, <3>1
  <2>3. PICK n \in Nat : m = n + 1
    BY <1>3, <2>2
  <2>4. \A y \in T : y <= n
    BY <2>1, <2>3
  <2>5. m <= n
    BY <1>2, <2>4
  <2> QED BY <2>3, <2>5
<1> QED BY <1>3, <1>4 DEF Max

-----------------------------------------------------------------------------
(* Cards and slots.                                                        *)

\* The range of a card is one of its records, or none.
LEMMA RangeType ==
  ASSUME NEW c \in Cards
  PROVE  RangeOf(c) \in [min : Nat, max : Nat]
<1> DEFINE Records ==
      [dc : BOOLEAN, end : BOOLEAN, output : Nat, min : Nat, max : Nat]
<1>1. c \in Seq(Records)
  BY CardsAssumption
<1> HIDE DEF Records
<1>2. CASE VadjRecords(c) = {}
  BY <1>2 DEF RangeOf
<1>3. CASE VadjRecords(c) # {}
  <2>1. DOMAIN c \subseteq Nat /\ VadjRecords(c) \subseteq DOMAIN c
    BY <1>1 DEF VadjRecords
  <2>2. PICK i \in DOMAIN c : i = Min(VadjRecords(c))
    BY <1>3, <2>1, Smallest
  <2>3. c[i] \in Records
    BY <1>1
  <2> QED BY <1>3, <2>2, <2>3 DEF RangeOf, Records
<1> QED BY <1>2, <1>3

\* The slot that is read is one of those to visit.
LEMMA SlotVisited ==
  ASSUME visit \subseteq Slots, visit # {}
  PROVE  Slot \in visit
<1>1. visit \in SUBSET Nat
  BY SlotsAssumption
<1> QED BY <1>1, Smallest DEF Slot

-----------------------------------------------------------------------------
(* The choice of the voltage.                                              *)

\* A voltage fits the common range just if it fits every card.
LEMMA Common ==
  ASSUME CardsOK, present # {}, NEW v \in Nat
  PROVE  (Lowest <= v /\ v <= Highest) <=>
           \A s \in present : range[s].min <= v /\ v <= range[s].max
<1> DEFINE Mins == {range[s].min : s \in present}
           Maxs == {range[s].max : s \in present}
<1>1. \A s \in present : range[s].min \in Nat /\ range[s].max \in Nat
  BY DEF CardsOK
<1>2. Mins \in SUBSET Nat /\ Mins # {} /\ Maxs \in SUBSET Nat /\ Maxs # {}
  BY <1>1
<1>3. PICK b \in Nat : \A s \in present : range[s].min <= b
  <2>1. \A s \in Slots : range[s].min \in Nat
    BY DEF CardsOK
  <2>2. CASE Slots = {1}
    BY <2>1, <2>2 DEF CardsOK
  <2>3. CASE Slots = {1, 2}
    <3>1. PICK m, n \in Nat : m = range[1].min /\ n = range[2].min
      BY <2>1, <2>3
    <3>2. m <= m + n /\ n <= m + n /\ m + n \in Nat
      OBVIOUS
    <3> QED BY <2>3, <3>1, <3>2 DEF CardsOK
  <2> QED BY <2>2, <2>3, SlotsAssumption
<1>4. \A m \in Mins : m <= b
  BY <1>3
<1> HIDE DEF Mins, Maxs
<1>5. Max(Mins) \in Mins /\ \A m \in Mins : m <= Max(Mins)
  BY <1>2, <1>4, Largest
<1>6. Min(Maxs) \in Maxs /\ \A m \in Maxs : Min(Maxs) <= m
  BY <1>2, Smallest
<1>7. Lowest = Max(Mins) /\ Highest = Min(Maxs)
  BY DEF Lowest, Highest, Mins, Maxs
<1>8. PICK lo, hi \in Nat :
        /\ lo = Lowest /\ lo \in Mins /\ \A m \in Mins : m <= lo
        /\ hi = Highest /\ hi \in Maxs /\ \A m \in Maxs : hi <= m
  BY <1>2, <1>5, <1>6, <1>7
<1>9. ASSUME lo <= v, v <= hi, NEW s \in present
      PROVE  range[s].min <= v /\ v <= range[s].max
  <2>1. PICK m, n \in Nat : m = range[s].min /\ n = range[s].max
    BY <1>1
  <2>2. m \in Mins /\ n \in Maxs
    BY <2>1 DEF Mins, Maxs
  <2>3. m <= lo /\ hi <= n
    BY <1>8, <2>2
  <2> QED BY <1>9, <2>1, <2>3
<1>10. ASSUME \A s \in present : range[s].min <= v /\ v <= range[s].max
       PROVE  lo <= v /\ v <= hi
  BY <1>8, <1>10 DEF Mins, Maxs
<1> QED BY <1>8, <1>9, <1>10

\* A voltage is chosen, the highest of those that fit.
LEMMA Choice ==
  /\ Chosen \in Nat
  /\ present # {} /\ Fitting # {} =>
       \E i \in Fitting : Chosen = Supported[i] /\ \A j \in Fitting : j <= i
<1>1. CASE present = {} \/ Fitting = {}
  BY <1>1, VoltsAssumption DEF Chosen
<1>2. CASE present # {} /\ Fitting # {}
  <2>1. PICK n \in Nat : n = Len(Supported) /\ DOMAIN Supported = 1 .. n
    BY VoltsAssumption
  <2>2. Fitting \in SUBSET Nat /\ \A i \in Fitting : i <= n
    BY <2>1 DEF Fitting
  <2>3. PICK i \in Fitting : i = Max(Fitting) /\ \A j \in Fitting : j <= i
    BY <1>2, <2>2, Largest
  <2>4. Supported[i] \in Nat
    BY VoltsAssumption DEF Fitting
  <2> QED BY <1>2, <2>3, <2>4 DEF Chosen
<1> QED BY <1>1, <1>2

(***************************************************************************)
(* When all cards were found and read, the voltage that is chosen is the   *)
(* one that the cards themselves ask for.                                  *)
(***************************************************************************)
LEMMA ChosenFits ==
  ASSUME CardsOK, present = Plugged, \A s \in present : WasRead(s)
  PROVE  Chosen = IF Plugged = {} \/ Accepted = {} THEN Default
                                                 ELSE Max(Accepted)
<1>1. CASE Plugged = {}
  BY <1>1 DEF Chosen
<1>2. CASE Plugged # {}
  <2>1. \A i \in DOMAIN Supported : Supported[i] \in Nat
    BY VoltsAssumption
  <2>2. \A v \in Nat :
          (Lowest <= v /\ v <= Highest) <=>
            \A s \in Plugged : Accepts(card[s], v)
    BY <1>2, Common DEF WasRead, Accepts
  <2>3. Accepted = {Supported[i] : i \in Fitting}
    BY <2>1, <2>2 DEF Accepted, Fitting
  <2>4. CASE Fitting = {}
    BY <1>2, <2>3, <2>4 DEF Chosen
  <2>5. CASE Fitting # {}
    <3>1. PICK i \in Fitting :
            Chosen = Supported[i] /\ \A j \in Fitting : j <= i
      BY <1>2, <2>5, Choice
    <3>2. Chosen \in Accepted /\ Accepted \in SUBSET Nat
      BY <2>1, <2>3, <3>1 DEF Fitting
    <3>3. ASSUME NEW j \in Fitting PROVE Supported[j] <= Chosen
      <4>1. i \in DOMAIN Supported /\ j \in DOMAIN Supported /\ j <= i
        BY <3>1 DEF Fitting
      <4>2. i \in Nat /\ j \in Nat
        BY <4>1, VoltsAssumption
      <4>3. CASE j = i
        BY <2>1, <3>1, <4>1, <4>3
      <4>4. CASE j < i
        <5>1. Supported[j] < Supported[i]
          BY <4>1, <4>4, VoltsAssumption
        <5> QED BY <2>1, <3>1, <4>1, <5>1
      <4> QED BY <4>1, <4>2, <4>3, <4>4
    <3>4. \A v \in Accepted : v <= Chosen
      BY <2>3, <3>3
    <3>5. Max(Accepted) \in Accepted /\ \A v \in Accepted : v <= Max(Accepted)
      BY <3>2, <3>4, Largest
    <3>6. PICK a, m \in Nat :
            a = Chosen /\ m = Max(Accepted) /\ a <= m /\ m <= a
      BY <3>2, <3>4, <3>5
    <3>7. a = m
      BY <3>6
    <3> QED BY <1>2, <3>2, <3>6, <3>7
  <2> QED BY <2>4, <2>5
<1> QED BY <1>1, <1>2

-----------------------------------------------------------------------------
(* The steps of the cards, one lemma per action.                           *)

\* The steps of the expander say nothing of the cards.
LEMMA ElsewhereInv ==
  ASSUME CardsInv, Elsewhere, UNCHANGED fmc
  PROVE  CardsInv'
<1>1. /\ pc \notin Finding /\ pc' \notin Finding
      /\ UNCHANGED <<card, gate, stuck, volt, present, range, visit>>
  BY DEF Elsewhere, Finding, Labels, fmc
<1>2. CardsOK'
  BY <1>1 DEF CardsInv, CardsOK
<1>3. Visiting' /\ Ranged' /\ Detected'
  BY <1>1 DEF Elsewhere, Visiting, Finding, Choosing, Ranged, Detected
<1>4. Gating'
  BY <1>1 DEF CardsInv, Finding, Gating
<1>5. Fits'
  BY DEF Elsewhere, Fits
<1> QED BY <1>2, <1>3, <1>4, <1>5 DEF CardsInv

\* VADJ may be left to the user.
LEMMA AutodetectInv ==
  ASSUME IInv, Autodetect
  PROVE  IInv'
<1>1. /\ pc = "started" /\ pc' \in {"presence", "idle", "down"}
      /\ ret' \in {ret, "disabled", "error"}
      /\ pc' = "idle" => ret' = "disabled"
      /\ UNCHANGED <<out, dir, op, value, todo, code, trouble>>
      /\ UNCHANGED <<card, gate, stuck, volt, present, range, visit>>
  BY Zenon DEF Autodetect, Goto, Return, sfp, fmc
<1>2. op = "start"
  BY <1>1 DEF IInv, CardsInv, Visiting
<1>3. ExpanderInv'
  BY <1>1, Aside
  DEF IInv, ExpanderInv, RegistersOK, Walking, BoardLabels, Labels, Finding,
      Results
<1>4. CardsOK' /\ Visiting' /\ Gating'
  BY <1>1, <1>2 DEF IInv, CardsInv, CardsOK, Visiting, Gating
<1>5. Ranged' /\ Detected' /\ Fits'
  BY <1>1 DEF Choosing, Ranged, Detected, Fits
<1> QED BY <1>3, <1>4, <1>5 DEF IInv, CardsInv

\* A start-up that fails leaves nothing to be said of the cards.
LEMMA AbortInv ==
  ASSUME IInv, pc = "presence", Abort, trouble' = trouble,
         UNCHANGED <<out, dir, op, sfp, card, gate, stuck, volt>>
  PROVE  IInv'
<1>1. /\ pc' = "down" /\ ret' = "error" /\ visit' = {} /\ present' = {}
      /\ range' = Unread /\ UNCHANGED <<value, todo, code>>
  BY DEF Abort, sfp
<1>2. ExpanderInv'
  BY <1>1, Aside
  DEF IInv, ExpanderInv, RegistersOK, Walking, BoardLabels, Labels, Finding,
      Results
<1>3. CardsOK' /\ Visiting' /\ Gating'
  BY <1>1 DEF IInv, CardsInv, CardsOK, Visiting, Gating, Unread
<1>4. Ranged' /\ Detected' /\ Fits'
  BY <1>1 DEF Choosing, Ranged, Detected, Fits
<1> QED BY <1>2, <1>3, <1>4 DEF IInv, CardsInv

\* All cards are found unless something has failed.
LEMMA FoundInv ==
  ASSUME IInv, pc = "presence", NEW slots \in SUBSET Slots, Found(slots),
         trouble' = trouble \/ trouble' = trouble \cup {"failed"},
         trouble' = {} => slots = Plugged,
         UNCHANGED <<out, dir, op, sfp, card, gate, stuck, volt>>
  PROVE  IInv'
<1>1. /\ pc' \in {"set", "gate"} /\ ret' = ret /\ range' = range
      /\ pc' = "set" <=> slots = {}
      /\ visit' = slots /\ present' = slots /\ UNCHANGED <<value, todo, code>>
  BY DEF Found, Goto, sfp
<1>2. op = "start"
  BY DEF IInv, CardsInv, Visiting
<1>3. ExpanderInv'
  BY <1>1, Aside
  DEF IInv, ExpanderInv, RegistersOK, Walking, BoardLabels, Labels, Finding
<1>4. CardsOK' /\ Visiting' /\ Gating'
  BY <1>1, <1>2 DEF IInv, CardsInv, CardsOK, Visiting, Gating
<1>5. Ranged' /\ Fits'
  BY <1>1 DEF Ranged, Fits
<1>6. Detected'
  BY <1>1 DEF Detected, Plugged
<1> QED BY <1>3, <1>4, <1>5, <1>6 DEF IInv, CardsInv

\* The presence comes from the expander, whose pins are set up, or from gpiod.
LEMMA PresenceInv ==
  ASSUME IInv, ByExpander \/ ByLines
  PROVE  IInv'
<1>1. CASE ByExpander
  <2>1. pc = "presence" /\ trouble' = trouble
    BY <1>1 DEF ByExpander
  <2>2. trouble = {} => {s \in Slots : IsLow(s)} = Plugged
    <3>1. ASSUME trouble = {} PROVE dir = Pins \ Outputs
      BY <2>1, <3>1 DEF IInv, ExpanderInv, SetUp
    <3> QED BY <3>1, SlotsAssumption DEF IsLow, Plugged
  <2>3. CASE Found({s \in Slots : IsLow(s)})
    BY <1>1, <2>1, <2>2, <2>3, FoundInv DEF ByExpander
  <2>4. CASE Abort
    BY <1>1, <2>1, <2>4, AbortInv DEF ByExpander
  <2> QED BY <1>1, <2>3, <2>4 DEF ByExpander
<1>2. CASE ByLines
  <2>1. /\ pc = "presence"
        /\ UNCHANGED <<out, dir, op, sfp, card, gate, stuck, volt>>
    BY <1>2 DEF ByLines
  <2>2. CASE Found(Plugged) /\ UNCHANGED trouble
    BY <2>1, <2>2, FoundInv DEF Plugged
  <2>3. CASE /\ trouble' = trouble \cup {"failed"}
             /\ \E lost \in (SUBSET Plugged) \ {{}} : Found(Plugged \ lost)
    <3>1. PICK lost \in SUBSET Plugged : Found(Plugged \ lost)
      BY <2>3
    <3>2. Plugged \ lost \in SUBSET Slots /\ trouble' # {}
      BY <2>3 DEF Plugged
    <3> QED BY <2>1, <2>3, <3>1, <3>2, FoundInv
  <2>4. CASE Abort /\ UNCHANGED trouble
    BY <2>1, <2>4, AbortInv
  <2> QED BY <1>2, <2>2, <2>3, <2>4 DEF ByLines
<1> QED BY <1>1, <1>2

\* A command reads the EEPROM of one card, or of all.
LEMMA ReadInv ==
  ASSUME IInv, ListFMC \/ GetFMC
  PROVE  IInv'
<1>1. /\ pc = "idle" /\ pc' = "gate" /\ op' \in {"listFMC", "getFMC"}
      /\ ret' = "none" /\ visit' \subseteq Slots /\ visit' # {}
      /\ UNCHANGED <<out, dir, value, todo, code, trouble>>
      /\ UNCHANGED <<card, gate, stuck, volt, present, range>>
  BY SlotsAssumption DEF ListFMC, GetFMC, Read, sfp
<1>2. ExpanderInv'
  BY <1>1, Aside
  DEF IInv, ExpanderInv, RegistersOK, Walking, BoardLabels, Labels, Finding,
      BoardCommands, Results
<1>3. CardsOK' /\ Visiting' /\ Gating'
  BY <1>1 DEF IInv, CardsInv, CardsOK, Visiting, Gating
<1>4. Ranged' /\ Detected' /\ Fits'
  BY <1>1 DEF Choosing, Ranged, Detected, Fits
<1> QED BY <1>2, <1>3, <1>4 DEF IInv, CardsInv

\* The switch of the card that is read is opened, if it has one.
LEMMA OpenGateInv ==
  ASSUME IInv, OpenGate
  PROVE  IInv'
<1>1. /\ pc = "gate" /\ pc' = "read" /\ ret' = ret
      /\ gate \subseteq gate' /\ gate' \subseteq gate \cup ({Slot} \cap Gated)
      /\ UNCHANGED <<out, dir, op, value, todo, code, trouble>>
      /\ UNCHANGED <<card, stuck, volt, present, range, visit>>
  BY DEF OpenGate, Goto, sfp
<1>2. Slot' = Slot
  BY <1>1 DEF Slot
<1>3. ExpanderInv'
  BY <1>1, Aside
  DEF IInv, ExpanderInv, RegistersOK, Walking, BoardLabels, Labels, Finding
<1>4. CardsOK' /\ Visiting'
  BY <1>1 DEF IInv, CardsInv, CardsOK, Visiting
<1>5. Gating'
  BY <1>1, <1>2 DEF IInv, CardsInv, Gating
<1>6. Ranged' /\ Detected' /\ Fits'
  BY <1>1
  DEF IInv, CardsInv, Choosing, Ranged, WasRead, Detected, Plugged, Fits
<1> QED BY <1>3, <1>4, <1>5, <1>6 DEF IInv, CardsInv

\* The EEPROM is read, or not; a range is kept only of one that answered.
LEMMA ReadCardInv ==
  ASSUME IInv, ReadCard
  PROVE  IInv'
<1>1. /\ pc = "read" /\ pc' = "close" /\ ret' = ret
      /\ code' \in {"ok", "error"}
      /\ UNCHANGED <<out, dir, op, value, todo, trouble>>
      /\ UNCHANGED <<card, gate, stuck, volt, present, visit>>
  BY Zenon DEF ReadCard, Goto
<1>2. Slot' = Slot /\ Slot \in visit /\ Slot \in Slots
  BY <1>1, SlotVisited DEF Slot, IInv, CardsInv, CardsOK, Visiting
<1>3. \/ /\ card[Slot] # None /\ op = "start"
         /\ range' = [range EXCEPT ![Slot] = RangeOf(card[Slot])]
      \/ range' = range /\ (op = "start" => code' = "error")
  BY Zenon DEF ReadCard, Answers
<1>4. ExpanderInv'
  BY <1>1, Aside
  DEF IInv, ExpanderInv, RegistersOK, Walking, BoardLabels, Labels, Finding
<1>5. range' \in [Slots -> [min : Nat, max : Nat]]
  <2>1. CASE range' = range
    BY <2>1 DEF IInv, CardsInv, CardsOK
  <2>2. CASE /\ card[Slot] # None
             /\ range' = [range EXCEPT ![Slot] = RangeOf(card[Slot])]
    <3>1. card[Slot] \in Cards
      BY <1>2, <2>2 DEF IInv, CardsInv, CardsOK
    <3>2. PICK r \in [min : Nat, max : Nat] : r = RangeOf(card[Slot])
      BY <3>1, RangeType
    <3> QED BY <2>2, <3>2 DEF IInv, CardsInv, CardsOK
  <2> QED BY <1>3, <2>1, <2>2
<1>6. CardsOK' /\ Visiting'
  BY <1>1, <1>5 DEF IInv, CardsInv, CardsOK, Visiting
<1>7. Gating' /\ Detected' /\ Fits'
  BY <1>1, <1>2
  DEF IInv, CardsInv, Gating, Choosing, Detected, Plugged, Fits
<1>8. Ranged'
  <2> SUFFICES ASSUME op = "start" PROVE Ranged'
    BY <1>1 DEF Ranged, Choosing
  <2>1. \A s \in Slots \ {Slot} : range'[s] = range[s]
    BY <1>3 DEF IInv, CardsInv, CardsOK
  <2>2. \A s \in present \ visit : WasRead(s)' /\ s # Slot
    BY <1>1, <1>2, <2>1
    DEF IInv, CardsInv, CardsOK, Ranged, Choosing, WasRead
  <2>3. code' = "ok" => WasRead(Slot)'
    BY <1>1, <1>2, <1>3 DEF IInv, CardsInv, CardsOK, WasRead
  <2> QED BY <1>1, <1>2, <2>2, <2>3 DEF Ranged, WasRead
<1> QED BY <1>4, <1>6, <1>7, <1>8 DEF IInv, CardsInv

\* The switch is closed again, and the next card is read, if any.
LEMMA CloseGateInv ==
  ASSUME IInv, CloseGate
  PROVE  IInv'
<1>1. /\ pc = "close" /\ Closed /\ Continue
      /\ UNCHANGED <<out, dir, op, value, todo, trouble, card, volt>>
  BY DEF CloseGate
<1>2. /\ Slot \in visit /\ Slot \in Slots /\ gate \subseteq stuck \cup {Slot}
      /\ visit \subseteq Slots /\ gate \subseteq Gated /\ stuck \subseteq gate
      /\ code \in {"ok", "error"}
  BY <1>1, SlotVisited
  DEF IInv, CardsInv, CardsOK, Visiting, Gating, ExpanderInv, RegistersOK
<1>3. /\ gate' \subseteq stuck' /\ gate' \subseteq Gated
      /\ stuck' \subseteq gate'
  BY <1>1, <1>2 DEF Closed
<1>4. CASE /\ code = "ok" /\ (visit # {Slot} \/ op = "start")
           /\ visit' = visit \ {Slot}
           /\ Goto(IF visit' = {} THEN "set" ELSE "gate")
           /\ UNCHANGED <<code, present, range>>
  <2>1. /\ pc' \in {"set", "gate"} /\ ret' = ret
        /\ pc' = "set" <=> visit' = {}
        /\ pc' = "set" => op = "start"
        /\ visit' \subseteq Slots
    BY <1>2, <1>4 DEF Goto
  <2>2. ExpanderInv'
    BY <1>1, <1>2, <1>4, <2>1, Aside
    DEF IInv, ExpanderInv, Walking, BoardLabels, Labels, Finding
  <2>3. CardsOK' /\ Visiting' /\ Gating'
    BY <1>1, <1>3, <1>4, <2>1 DEF IInv, CardsInv, CardsOK, Visiting, Gating
  <2>4. Detected' /\ Fits'
    BY <1>1, <1>4, <2>1
    DEF IInv, CardsInv, Choosing, Detected, Plugged, Fits
  <2>5. Ranged'
    <3> SUFFICES ASSUME op = "start", NEW s \in present, s \notin visit'
                 PROVE  WasRead(s)
      BY <1>1, <1>4, <2>1 DEF Ranged, Choosing, WasRead
    <3>1. s \notin visit \/ s = Slot
      BY <1>4
    <3> QED BY <1>1, <1>4, <3>1 DEF IInv, CardsInv, Ranged, Choosing
  <2> QED BY <2>2, <2>3, <2>4, <2>5 DEF IInv, CardsInv
<1>5. CASE Finish(IF op = "start" THEN "warned" ELSE code)
  <2>1. /\ pc' = "idle" /\ ret' \in {"warned", "ok", "error"} /\ code' = "ok"
        /\ present' = {} /\ range' = Unread /\ visit' = {}
    BY <1>2, <1>5 DEF Finish, Return
  <2>2. ExpanderInv'
    BY <1>1, <2>1, Aside
    DEF IInv, ExpanderInv, Walking, BoardLabels, Labels, Finding, Results
  <2>3. CardsOK' /\ Visiting' /\ Gating'
    BY <1>1, <1>3, <2>1
    DEF IInv, CardsInv, CardsOK, Visiting, Gating, Unread
  <2>4. Ranged' /\ Detected' /\ Fits'
    BY <2>1 DEF Choosing, Ranged, Detected, Fits
  <2> QED BY <2>2, <2>3, <2>4 DEF IInv, CardsInv
<1> QED BY <1>1, <1>4, <1>5 DEF Continue

\* VADJ is set to what fits all cards, unless that fails.
LEMMA SetVadjInv ==
  ASSUME IInv, SetVadj
  PROVE  IInv'
<1>1. /\ pc = "set" /\ pc' = "idle" /\ code' = "ok"
      /\ present' = {} /\ range' = Unread /\ visit' = {}
      /\ UNCHANGED <<out, dir, op, value, todo, trouble, card, gate, stuck>>
      /\ \/ volt' = Chosen /\ ret' = "set"
         \/ volt' \in {volt, Chosen, Off} /\ ret' = "unset"
  BY DEF SetVadj, Finish, Return
<1>2. op = "start" /\ visit = {} /\ gate \subseteq stuck
  BY <1>1 DEF IInv, CardsInv, Visiting, Gating
<1>3. ExpanderInv'
  BY <1>1, Aside
  DEF IInv, ExpanderInv, Walking, BoardLabels, Labels, Finding, Results
<1>4. volt' \in Nat \cup {Off}
  BY <1>1, Choice DEF IInv, CardsInv, CardsOK
<1>5. CardsOK' /\ Visiting' /\ Gating'
  BY <1>1, <1>2, <1>4
  DEF IInv, CardsInv, CardsOK, Visiting, Gating, Unread
<1>6. Ranged' /\ Detected'
  BY <1>1 DEF Choosing, Ranged, Detected
<1>7. Fits'
  <2> SUFFICES ASSUME trouble = {}, volt' = Chosen
               PROVE  volt' = IF Plugged' = {} \/ Accepted' = {} THEN Default
                                                           ELSE Max(Accepted')
    BY <1>1 DEF Fits
  <2>1. present = Plugged /\ \A s \in present : WasRead(s)
    BY <1>1, <1>2 DEF IInv, CardsInv, Detected, Ranged, Choosing
  <2>2. Plugged' = Plugged /\ Accepted' = Accepted
    BY <1>1 DEF Plugged, Accepted
  <2> QED BY <2>1, <2>2, ChosenFits DEF IInv, CardsInv
<1> QED BY <1>3, <1>5, <1>6, <1>7 DEF IInv, CardsInv

\* A kill leaves the registers, the switches and VADJ as they are.
LEMMA KilledInv ==
  ASSUME IInv, Killed
  PROVE  IInv'
<1>1. /\ pc' = "down" /\ ret' = "none" /\ trouble' = trouble \cup {"failed"}
      /\ value' = {} /\ todo' = <<>> /\ code' = "ok"
      /\ stuck' = stuck \cup gate
      /\ present' = {} /\ range' = Unread /\ visit' = {}
      /\ UNCHANGED <<out, dir, op, card, gate, volt>>
  BY DEF Killed, Die, Local
<1>2. RegistersOK'
  BY <1>1 DEF IInv, ExpanderInv, RegistersOK
<1>3. SetUp' /\ Released'
  BY <1>1 DEF SetUp, Released
<1>4. ExpanderInv'
  BY <1>1, <1>2, <1>3
  DEF IInv, ExpanderInv, Modular, Walking, Snapshot, Directed, Resetting,
      BoardLabels, Labels, Results
<1>5. CardsOK' /\ Visiting' /\ Gating'
  BY <1>1 DEF IInv, CardsInv, CardsOK, Visiting, Gating, Unread
<1>6. Ranged' /\ Detected' /\ Fits'
  BY <1>1 DEF Choosing, Ranged, Detected, Fits
<1> QED BY <1>4, <1>5, <1>6 DEF IInv, CardsInv

\* At power-up the registers and the switches are fresh.
Fresh ==
  /\ out = Pins /\ dir = Pins /\ trouble = {}
  /\ pc = "down" /\ op = "start" /\ ret = "none"
  /\ value = {} /\ todo = <<>> /\ code = "ok"
  /\ card \in [Slots -> Cards \cup {None}] /\ volt = Initial
  /\ gate = {} /\ stuck = {}
  /\ present = {} /\ range = Unread /\ visit = {}
LEMMA FreshInv == Fresh => IInv
<1> SUFFICES ASSUME Fresh PROVE IInv
  OBVIOUS
<1> USE DEF Fresh
<1>1. RegistersOK
  BY DEF RegistersOK
<1>2. ResetPin \in Pins
  BY PinsAssumption
<1>3. SetUp /\ Released
  BY <1>2 DEF SetUp, Released
<1>4. ExpanderInv
  BY <1>1, <1>3
  DEF ExpanderInv, Modular, Walking, Snapshot, Directed, Resetting,
      BoardLabels, Labels, BoardCommands, Commands, Results
<1>5. CardsOK /\ Visiting /\ Gating
  BY VoltsAssumption DEF CardsOK, Visiting, Gating, Unread
<1>6. Ranged /\ Detected /\ Fits
  BY DEF Choosing, Ranged, Detected, Fits
<1> QED BY <1>4, <1>5, <1>6 DEF IInv, CardsInv

\* A state that does not change keeps the invariant.
LEMMA StutterInv ==
  ASSUME IInv, UNCHANGED boardVars
  PROVE  IInv'
<1> USE DEF boardVars, vars, sfp, fmc
<1>1. Reading' = Reading /\ Selected' = Selected /\ Module' = Module
  BY DEF Reading, Selected, Module, OwnBit
<1>2. ExpanderInv'
  BY <1>1
  DEF IInv, ExpanderInv, RegistersOK, Modular, Snapshot, Directed, SetUp,
      Released, Resetting
<1>3. Slot' = Slot /\ Choosing' = Choosing /\ Plugged' = Plugged
  BY DEF Slot, Choosing, Plugged
<1>4. CardsOK' /\ Visiting' /\ Gating' /\ Detected'
  BY <1>3 DEF IInv, CardsInv, CardsOK, Visiting, Gating, Detected
<1>5. Ranged'
  BY <1>3 DEF IInv, CardsInv, Ranged, WasRead
<1>6. Fits'
  <2>1. Accepted' = Accepted
    BY <1>3 DEF Accepted
  <2> QED BY <1>3, <2>1 DEF IInv, CardsInv, Fits
<1> QED BY <1>2, <1>4, <1>5, <1>6 DEF IInv, CardsInv

-----------------------------------------------------------------------------
(* The theorems.                                                           *)

\* The invariant holds whatever is plugged in, fails, or is killed.
THEOREM Inductive == BoardSpec => []IInv
<1>1. BoardInit => IInv
  <2>1. BoardInit => Fresh
    BY DEF BoardInit, Init, Fresh
  <2> QED BY <2>1, FreshInv
<1>2. IInv /\ [BoardNext]_boardVars => IInv'
  <2> SUFFICES ASSUME IInv, [BoardNext]_boardVars PROVE IInv'
    OBVIOUS
  <2>1. CASE Step /\ UNCHANGED fmc
    BY <2>1, StepInv, ElsewhereInv DEF IInv
  <2>2. CASE Autodetect \/ ByExpander \/ ByLines
    BY <2>2, AutodetectInv, PresenceInv
  <2>3. CASE ListFMC \/ GetFMC \/ OpenGate \/ ReadCard \/ CloseGate
    BY <2>3, ReadInv, OpenGateInv, ReadCardInv, CloseGateInv
  <2>4. CASE SetVadj \/ Killed
    BY <2>4, SetVadjInv, KilledInv
  <2>5. CASE PowerOff
    <3>1. card' \in [Slots -> Cards \cup {None}]
      BY <2>5 DEF PowerOff, IInv, CardsInv, CardsOK
    <3>2. Unread' = Unread
      BY DEF Unread
    <3>3. Fresh'
      BY <2>5, <3>1, <3>2 DEF PowerOff, PowerCycle, Local, Fresh
    <3>4. Fresh' => IInv'
      BY FreshInv, PTL
    <3> QED BY <3>3, <3>4
  <2>6. CASE UNCHANGED boardVars
    BY <2>6, StutterInv
  <2> QED
    BY <2>1, <2>2, <2>3, <2>4, <2>5, <2>6 DEF BoardNext
<1> QED BY <1>1, <1>2, PTL DEF BoardSpec

\* Registers, slots, ranges and the voltage keep their types.
THEOREM TypeCorrect == BoardSpec => []BoardTypeOK
<1>1. IInv => BoardTypeOK
  BY DEF IInv, ExpanderInv, BoardLabels, Finding, BoardCommands, Results,
     CardsInv, CardsOK, BoardTypeOK
<1> QED BY <1>1, Inductive, PTL

(***************************************************************************)
(* Just the module that a command reads is selected, and none between      *)
(* commands, for any modules and any pins of theirs, after any history in  *)
(* which nothing else has written the pins.                                *)
(***************************************************************************)
THEOREM OneSelected == BoardSpec => []Exclusive
<1>1. IInv => Exclusive
  <2> SUFFICES ASSUME IInv, trouble = {}, pc \notin {"down", "release"}
               PROVE  Low \cap SelectPins = Selected
    BY DEF Exclusive, Only, Selected
  <2>1. Selected \subseteq Outputs /\ Selected \subseteq SelectPins
    BY OwnPin DEF IInv, Selected, Reading, Walking
  <2>2. pc \in {"directions", "outputs"} => Selected = {}
    BY DEF Selected, Reading
  <2>3. CASE dir = Pins \ Outputs /\ out = Outputs \ Selected
    BY <2>1, <2>3, PinsAssumption DEF Low
  <2>4. CASE out = Pins /\ pc \in {"directions", "outputs"}
    BY <2>2, <2>4 DEF Low
  <2> QED BY <2>3, <2>4 DEF IInv, ExpanderInv, SetUp
<1> QED BY <1>1, Inductive, PTL

\* Every command that writes the reset line has released it when it ends.
THEOREM ResetComesBack == BoardSpec => []ResetReleased
<1>1. IInv => ResetReleased
  BY PinsAssumption DEF IInv, ExpanderInv, Released, ResetReleased
<1> QED BY <1>1, Inductive, PTL

\* The 8A34001 is pulled into reset by the command for it, and by no other.
THEOREM OthersDoNotReset == BoardSpec => OnlyRestoreResets
<1>1. IInv' => (op' # "reset" /\ trouble' \subseteq {"reset"} =>
                 ResetPin \notin Low' \ Low)
  BY DEF IInv, ExpanderInv, Released, Resetting, Low
<1>2. IInv' => [op' # "reset" /\ trouble' \subseteq {"reset"} =>
                 ResetPin \notin Low' \ Low]_vars
  BY <1>1
<1> QED BY <1>2, Inductive, PTL DEF OnlyRestoreResets

(***************************************************************************)
(* No error leaves the switch of a card open between commands, whatever    *)
(* the number of cards and whichever of them are behind a switch.          *)
(***************************************************************************)
THEOREM GatesShut == BoardSpec => []GatesClosed
<1>1. IInv => GatesClosed
  BY DEF IInv, CardsInv, Gating, GatesClosed
<1> QED BY <1>1, Inductive, PTL

(***************************************************************************)
(* For any cards and any list of voltages, the voltage that a start-up     *)
(* sets is the highest that all cards accept, or the default.              *)
(***************************************************************************)
THEOREM VadjFits == BoardSpec => []Fits
<1>1. IInv => Fits
  BY DEF IInv, CardsInv
<1> QED BY <1>1, Inductive, PTL

\* VADJ changes only once every card that was found has told its range.
THEOREM VadjNeverGuessed == BoardSpec => NeverGuessed
<1>1. ASSUME IInv, BoardNext, volt' # volt, pc' # "down"
      PROVE  \A s \in present : card[s] # None /\ range[s] = RangeOf(card[s])
  <2>1. SetVadj
    BY <1>1
    DEF BoardNext, fmc, Autodetect, ByExpander, ByLines, ListFMC, GetFMC,
        Read, OpenGate, ReadCard, CloseGate, Killed, PowerOff, PowerCycle
  <2>2. Choosing /\ visit = {}
    BY <1>1, <2>1 DEF SetVadj, IInv, CardsInv, Visiting, Choosing
  <2> QED BY <1>1, <2>2 DEF IInv, CardsInv, Ranged, WasRead
<1>2. IInv /\ [BoardNext]_boardVars =>
        [volt' # volt /\ pc' # "down" =>
           \A s \in present :
             card[s] # None /\ range[s] = RangeOf(card[s])]_boardVars
  BY <1>1
<1> QED BY <1>2, Inductive, PTL DEF BoardSpec, NeverGuessed

=============================================================================

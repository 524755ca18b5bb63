-------------------------- MODULE Idt8A34001Proofs --------------------------
(***************************************************************************)
(* Proofs about Idt8A34001, for every set of designs, every choice of      *)
(* those that have an EEPROM image, and every sequence of failures, kills  *)
(* and losses of power.                                                    *)
(*                                                                         *)
(* The properties speak of the moment at which a command is over.  They    *)
(* are not inductive: IInv says what holds at each step on the way there.  *)
(***************************************************************************)
EXTENDS Idt8A34001, TLAPS

\* Which command a step belongs to.
Steps ==
  /\ pc \in {"program", "remove", "append"} => op \in {"setboot", "restore"}
  /\ pc \in {"reset", "rm", "sed"} => op = "restore"
  /\ pc \in {"verify", "print"} => op = "get"

(***************************************************************************)
(* How far a restore has come.  Its design has an image, so that it never  *)
(* gets to the clock file by the way of setbootclock.                      *)
(***************************************************************************)
Restoring ==
  op = "restore" =>
    /\ design = Default
    /\ pc \notin {"remove", "append"}
    /\ "file" \notin trouble =>
         /\ pc \in {"write", "mark", "program"} => entry = None
         /\ pc \in {"mark", "program"} => chip = Default
         /\ pc = "program" => mark = Default

\* A mark may be wrong only while a command is changing the chip.  Without one
\* the chip is as its EEPROM has it, unless it has kept an earlier design.
Telling ==
  trouble = {} =>
    /\ pc = "mark" => chip = design
    /\ pc \in {"print", "program", "remove", "append"} =>
         mark # None /\ chip = mark
    /\ pc = "idle" /\ mark # None => chip = mark
    /\ pc = "verify" => mark = None
    /\ pc \in {"idle", "verify"} /\ mark = None /\ ~warm => chip = eeprom

IInv == TypeOK /\ Steps /\ Restoring /\ Telling /\ Restored /\ Answered

-----------------------------------------------------------------------------

\* A set begins: nothing is changed yet.
LEMMA SetIInv ==
  ASSUME IInv, NEW o \in {"set", "setboot"}, NEW d \in Designs, Set(o, d)
  PROVE  IInv'
<1> USE DesignsAssumption DEF IInv, Set
<1>1. TypeOK'
  BY DEF TypeOK, Labels
<1>2. Steps'
  BY DEF Steps
<1>3. Restoring'
  BY DEF Restoring
<1>4. Telling'
  BY DEF Telling
<1>5. Restored' /\ Answered'
  BY DEF Restored, Answered
<1> QED BY <1>1, <1>2, <1>3, <1>4, <1>5

\* The chip is set, or left between two designs.
LEMMA WriteChipIInv ==
  ASSUME IInv, WriteChip
  PROVE  IInv'
<1> USE DesignsAssumption DEF IInv, WriteChip, Goto, Fail
<1>1. TypeOK'
  <2>1. chip' \in Images
    BY DEF TypeOK, Images
  <2>2. trouble' \subseteq Troubles
    BY DEF TypeOK, Troubles
  <2> QED BY <2>1, <2>2 DEF TypeOK, Labels
<1>2. Steps'
  BY DEF Steps
<1>3. Restoring'
  BY DEF Restoring
<1>4. Telling'
  BY DEF Telling
<1>5. Restored' /\ Answered'
  BY DEF Restored, Answered
<1> QED BY <1>1, <1>2, <1>3, <1>4, <1>5

\* The mark is written after the chip.
LEMMA WriteMarkIInv ==
  ASSUME IInv, WriteMark
  PROVE  IInv'
<1> USE DesignsAssumption DEF IInv, WriteMark, Goto, Return, Fail, Refused,
        Mode1
<1>1. TypeOK'
  <2>1. trouble' \subseteq Troubles
    BY DEF TypeOK, Troubles
  <2>2. pc' \in Labels /\ ret' \in {"none", "ok", "error", "booted"}
    BY DEF TypeOK, Labels
  <2>3. mark' \in Designs \cup {None}
    BY DEF TypeOK
  <2>4. UNCHANGED <<chip, eeprom, entry, op, design, answer>>
    OBVIOUS
  <2> QED BY <2>1, <2>2, <2>3, <2>4 DEF TypeOK
<1>2. Steps'
  BY DEF Steps
<1>3. Restoring'
  BY DEF Restoring
<1>4. Telling'
  BY DEF Telling, TypeOK
<1>5. Restored' /\ Answered'
  BY DEF Restored, Answered
<1> QED BY <1>1, <1>2, <1>3, <1>4, <1>5

\* The last step of a restore, and of a setboot with an image.
LEMMA ProgramIInv ==
  ASSUME IInv, Program
  PROVE  IInv'
<1> USE DesignsAssumption DEF IInv, Program, Return, Fail
<1>1. TypeOK'
  <2>1. eeprom' \in Images /\ trouble' \subseteq Troubles
    BY DEF TypeOK, Images, Troubles
  <2>2. pc' \in Labels /\ ret' \in {"none", "ok", "error", "booted"}
    BY DEF TypeOK, Labels
  <2>3. UNCHANGED <<chip, mark, entry, op, design, answer, warm>>
    OBVIOUS
  <2> QED BY <2>1, <2>2, <2>3 DEF TypeOK
<1>2. Steps'
  BY DEF Steps
<1>3. Restoring'
  BY DEF Restoring
<1>4. Telling'
  BY DEF Telling
<1>5. Restored' /\ Answered'
  BY DEF Restored, Answered, Steps, Restoring
<1> QED BY <1>1, <1>2, <1>3, <1>4, <1>5

\* The clock file is changed, for a design without an image.
LEMMA EntryIInv ==
  ASSUME IInv, Remove \/ AppendEntry
  PROVE  IInv'
<1> USE DesignsAssumption DEF IInv, Remove, AppendEntry, Goto, Return, Fail,
        Refused
<1>1. TypeOK'
  <2>1. eeprom' = eeprom /\ entry' \in Designs \cup {None}
    BY DEF TypeOK
  <2>2. trouble' \subseteq Troubles
    BY DEF TypeOK, Troubles
  <2>3. pc' \in Labels /\ ret' \in {"none", "ok", "error", "booted"}
    BY DEF TypeOK, Labels
  <2>4. UNCHANGED <<chip, mark, op, design, answer>>
    OBVIOUS
  <2> QED BY <2>1, <2>2, <2>3, <2>4 DEF TypeOK
<1>2. Steps'
  BY DEF Steps
<1>3. Restoring'
  BY DEF Restoring
<1>4. Telling'
  BY DEF Telling
<1>5. Restored' /\ Answered'
  BY DEF Restored, Answered, Steps, Restoring
<1> QED BY <1>1, <1>2, <1>3, <1>4, <1>5

\* A restore begins, and resets the chip.
LEMMA RestoreIInv ==
  ASSUME IInv, Restore \/ Reset
  PROVE  IInv'
<1> USE DesignsAssumption DEF IInv, Restore, Reset, Goto, Fail
<1>1. TypeOK'
  BY DEF TypeOK, Images, Labels, Troubles
<1>2. Steps'
  BY DEF Steps
<1>3. Restoring'
  BY DEF Restoring
<1>4. Telling'
  BY DEF Telling
<1>5. Restored' /\ Answered'
  BY DEF Restored, Answered
<1> QED BY <1>1, <1>2, <1>3, <1>4, <1>5

\* A restore forgets the mark and the entry.
LEMMA ClearIInv ==
  ASSUME IInv, RemoveMark \/ RemoveEntry
  PROVE  IInv'
<1> USE DesignsAssumption DEF IInv, RemoveMark, RemoveEntry, Goto, Fail,
        Refused
<1>1. TypeOK'
  BY DEF TypeOK, Labels, Troubles
<1>2. Steps'
  BY DEF Steps
<1>3. Restoring'
  BY DEF Restoring
<1>4. Telling'
  BY DEF Telling
<1>5. Restored' /\ Answered'
  BY DEF Restored, Answered
<1> QED BY <1>1, <1>2, <1>3, <1>4, <1>5

\* A get begins, and prints what the mark says.
LEMMA GetIInv ==
  ASSUME IInv, Get \/ PrintMark
  PROVE  IInv'
<1> USE DesignsAssumption DEF IInv, Get, PrintMark, Return, Fail
<1>1. TypeOK'
  BY DEF TypeOK, Images, Labels, Troubles
<1>2. Steps'
  BY DEF Steps
<1>3. Restoring'
  BY DEF Restoring
<1>4. Telling'
  BY DEF Telling
<1>5. Restored' /\ Answered'
  BY DEF Restored, Answered, Steps, Telling
<1> QED BY <1>1, <1>2, <1>3, <1>4, <1>5

\* Without a mark the EEPROM is looked at.
LEMMA VerifyIInv ==
  ASSUME IInv, Verify
  PROVE  IInv'
<1> USE DesignsAssumption DEF IInv, Verify, Goto, Return, Fail
<1>1. TypeOK'
  BY DEF TypeOK, Labels, Troubles
<1>2. Steps'
  BY DEF Steps
<1>3. Restoring'
  BY DEF Restoring, Steps
<1>4. Telling'
  BY DEF Telling
<1>5. Restored' /\ Answered'
  BY DEF Restored, Answered, Steps, Telling
<1> QED BY <1>1, <1>2, <1>3, <1>4, <1>5

\* The daemon starts without a mark.
LEMMA BootIInv ==
  ASSUME IInv, Boot
  PROVE  IInv'
<1> USE DesignsAssumption DEF IInv, Boot
<1>1. TypeOK'
  BY DEF TypeOK, Labels
<1>2. Steps'
  BY DEF Steps
<1>3. Restoring'
  BY DEF Restoring
<1>4. Telling'
  BY DEF Telling
<1>5. Restored' /\ Answered'
  BY DEF Restored, Answered
<1> QED BY <1>1, <1>2, <1>3, <1>4, <1>5

\* Kills and losses of power.
LEMMA CrashIInv ==
  ASSUME IInv, Die \/ PowerCycle
  PROVE  IInv'
<1> USE DesignsAssumption DEF IInv, Die, PowerCycle, HalfDone
<1>1. TypeOK'
  BY DEF TypeOK, Images, Labels
<1>2. Steps'
  BY DEF Steps
<1>3. Restoring'
  BY DEF Restoring
<1>4. Telling'
  BY DEF Telling
<1>5. Restored' /\ Answered'
  BY DEF Restored, Answered
<1> QED BY <1>1, <1>2, <1>3, <1>4, <1>5

\* A state that does not change keeps the invariant.
LEMMA StutterIInv ==
  ASSUME IInv, UNCHANGED vars
  PROVE  IInv'
BY DEF IInv, TypeOK, Steps, Restoring, Telling, Restored, Answered, vars,
   state

(***************************************************************************)
(* The invariant holds in every state, however commands, failures and      *)
(* crashes follow each other.                                              *)
(***************************************************************************)
THEOREM Inductive == Spec => []IInv
<1>1. Init => IInv
  BY DesignsAssumption
  DEF Init, IInv, TypeOK, Images, Labels, Steps, Restoring, Telling, Restored,
      Answered
<1>2. IInv /\ [Next]_vars => IInv'
  <2> SUFFICES ASSUME IInv, [Next]_vars PROVE IInv'
    OBVIOUS
  <2>1. CASE \E o \in {"set", "setboot"}, d \in Designs : Set(o, d)
    BY <2>1, SetIInv
  <2>2. CASE Restore \/ Reset
    BY <2>2, RestoreIInv
  <2>3. CASE Get \/ PrintMark
    BY <2>3, GetIInv
  <2>4. CASE WriteChip
    BY <2>4, WriteChipIInv
  <2>5. CASE WriteMark
    BY <2>5, WriteMarkIInv
  <2>6. CASE Program
    BY <2>6, ProgramIInv
  <2>7. CASE Remove \/ AppendEntry
    BY <2>7, EntryIInv
  <2>8. CASE RemoveMark \/ RemoveEntry
    BY <2>8, ClearIInv
  <2>9. CASE Verify
    BY <2>9, VerifyIInv
  <2>10. CASE Boot
    BY <2>10, BootIInv
  <2>11. CASE Die \/ PowerCycle
    BY <2>11, CrashIInv
  <2>12. CASE UNCHANGED vars
    BY <2>12, StutterIInv
  <2> QED
    BY <2>1, <2>2, <2>3, <2>4, <2>5, <2>6, <2>7, <2>8, <2>9, <2>10, <2>11,
       <2>12
    DEF Next
<1> QED BY <1>1, <1>2, PTL DEF Spec

\* The places, the step and the command keep their types.
THEOREM TypeCorrect == Spec => []TypeOK
<1>1. IInv => TypeOK
  BY DEF IInv
<1> QED BY <1>1, Inductive, PTL

(***************************************************************************)
(* A successful restore has the default design in the chip, its EEPROM and *)
(* the mark file, and no entry in the clock file: for any designs, from    *)
(* any state that failures and crashes have left.                          *)
(***************************************************************************)
THEOREM RestoreRestores == Spec => []Restored
<1>1. IInv => Restored
  BY DEF IInv
<1> QED BY <1>1, Inductive, PTL

(***************************************************************************)
(* While no step has failed, the mark and the answer of getclock name the  *)
(* design that the chip outputs; but the answer of a blank EEPROM does so  *)
(* only if the daemon was not started on a chip that had kept a design.    *)
(***************************************************************************)
THEOREM ReadsAreTrue == Spec => []ReadsTell
<1>1. IInv => ReadsTell
  BY DEF IInv, MarkTells, Telling, ReadsTell
<1> QED BY <1>1, Inductive, PTL

(***************************************************************************)
(* No step of a set, a get, or a start-up, and no crash outside a setboot  *)
(* or a restore, changes what the next boot outputs.                       *)
(***************************************************************************)
THEOREM SetIsVolatile == Spec => VolatileSet
<1>1. IInv /\ [Next]_vars =>
        (NextBoot' # NextBoot => op \in {"setboot", "restore"})
  <2> SUFFICES ASSUME IInv, [Next]_vars, op \notin {"setboot", "restore"}
               PROVE  NextBoot' = NextBoot
    OBVIOUS
  <2>1. pc \notin {"program", "remove", "append", "reset", "rm", "sed"}
    BY DEF IInv, Steps
  <2>2. eeprom' = eeprom /\ entry' = entry
    BY <2>1
    DEF Next, vars, state, Set, Restore, Get, WriteChip, WriteMark, Program,
        Remove, AppendEntry, Reset, RemoveMark, RemoveEntry, Verify,
        PrintMark, Boot, Die, PowerCycle, HalfDone
  <2> QED BY <2>2 DEF NextBoot
<1> QED BY <1>1, Inductive, PTL DEF Spec, VolatileSet

=============================================================================

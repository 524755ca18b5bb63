----------------------------- MODULE Idt8A34001 -----------------------------
(***************************************************************************)
(* The IDT 8A34001 clock chip (src/src/sc_common.c): Set_IDT_8A34001,      *)
(* Get_IDT_8A34001 and Restore_IDT_8A34001, with the start-up of the       *)
(* daemon (Boot_Set_Clocks).  What the chip outputs is a "design", and a   *)
(* design is kept in four places:                                          *)
(*   chip    the registers of the chip, lost with the power,               *)
(*   eeprom  the image the chip loads at power-up and after a reset,       *)
(*   mark    the file '8A34001': the design last set since start-up,       *)
(*   entry   the line of the chip in the 'clock' file, set at start-up.    *)
(* The commands move them one at a time; each access may fail, and the     *)
(* daemon may be killed or the board lose power between two of them.       *)
(***************************************************************************)
EXTENDS Naturals

CONSTANTS
  Designs,   \* the designs whose clock files are installed
  HasBin,    \* those with a '.bin' image for the EEPROM
  Default,   \* Default_Design of the board file
  Blank,     \* an empty EEPROM; the chip then outputs 0 Hz
  Torn,      \* what a write that failed half-way leaves
  None

\* Restoring looks for the default image, which the package installs.
ASSUME DesignsAssumption ==
  /\ HasBin \subseteq Designs /\ Default \in HasBin
  /\ {Blank, Torn, None} \cap Designs = {}
  /\ Blank # Torn /\ Blank # None /\ Torn # None

Images == Designs \cup {Blank, Torn}

-----------------------------------------------------------------------------

VARIABLES
  chip, eeprom, mark, entry,
  pc,      \* the next step of the daemon
  op,      \* the command in progress, or the last one
  design,  \* the Clock_Files argument of Set_IDT_8A34001
  ret,     \* what the last command came to
  answer,  \* the design that getclock printed
  warm,    \* history: the daemon was started on a chip that was not as its
           \* EEPROM has it: the design of an earlier run was kept
  trouble  \* history: what has ever gone wrong, see Troubles

state == <<chip, eeprom, mark, entry, pc, op, design, ret, answer>>
vars  == <<state, warm, trouble>>

\* A step of a command that failed, and a change of a file that was refused.
Troubles == {"step", "file"}

Labels == {"down", "idle", "write", "mark", "program", "remove", "append",
           "reset", "rm", "sed", "verify", "print"}

Init ==
  /\ eeprom \in {Blank, Default} /\ chip = eeprom
  /\ mark = None /\ entry = None
  /\ pc = "down" /\ op = "boot"
  /\ design \in Designs
  /\ ret = "none" /\ answer = None
  /\ warm = FALSE /\ trouble = {}

Goto(label)  == pc' = label /\ UNCHANGED ret
Return(code) == pc' = "idle" /\ ret' = code

\* A failed step ends the command; at start-up it ends the daemon.
Fail == /\ ret' = "error"
        /\ pc' = IF op = "boot" THEN "down" ELSE "idle"
        /\ trouble' = trouble \cup {"step"}

\* The file system refuses a change.  The step is a shell command that ends
\* in "; sync", or a stream whose errors nobody looks at: it goes on.
Refused(f) == UNCHANGED f /\ trouble' = trouble \cup {"file"}

-----------------------------------------------------------------------------
(* Set_IDT_8A34001: Mode is 1 for setbootclock and restoreclock.           *)

Bug_Mode1 == TRUE                \* wrong: every set is a setboot
Mode1 == op \in {"setboot", "restore"}

\* setclock and setbootclock; the clock files of the design are looked up.
Set(o, d) ==
  /\ pc = "idle" /\ o \in {"set", "setboot"}
  /\ op' = o /\ design' = d /\ pc' = "write" /\ ret' = "none"
  /\ UNCHANGED <<chip, eeprom, mark, entry, answer, trouble, warm>>

\* Two-byte addressing, then the registers listed in the '.txt' file.
WriteChip ==
  /\ pc = "write"
  /\ \/ chip' = design /\ Goto("mark") /\ UNCHANGED trouble
     \/ chip' \in {chip, Torn} /\ Fail
  /\ UNCHANGED <<eeprom, mark, entry, op, design, answer, warm>>

\* A get goes on to print what the mark says.
WriteMark ==
  /\ pc = "mark"
  /\ \/ /\ (mark' = design /\ UNCHANGED trouble) \/ Refused(mark)
        /\ \/ Mode1 /\ Goto(IF design \in HasBin THEN "program" ELSE "remove")
           \/ op = "get" /\ Goto("print")
           \/ op = "set" /\ Return("ok")
           \/ op = "boot" /\ Return("booted")
     \/ Fail /\ UNCHANGED mark
  /\ UNCHANGED <<chip, eeprom, entry, op, design, answer, warm>>

Program ==
  /\ pc = "program"
  /\ \/ eeprom' = design /\ Return("ok") /\ UNCHANGED trouble
     \/ eeprom' \in {eeprom, Torn} /\ Fail
  /\ UNCHANGED <<chip, mark, entry, op, design, answer, warm>>

\* Without an image the clock file is used: sed, then append.
Remove ==
  /\ pc = "remove"
  /\ (entry' = None /\ UNCHANGED trouble) \/ Refused(entry)
  /\ Goto("append")
  /\ UNCHANGED <<chip, eeprom, mark, op, design, answer, warm>>
AppendEntry ==
  /\ pc = "append"
  /\ \/ /\ (entry' = design /\ UNCHANGED trouble) \/ Refused(entry)
        /\ Return("ok")
     \/ Fail /\ UNCHANGED entry
  /\ UNCHANGED <<chip, eeprom, mark, op, design, answer, warm>>

-----------------------------------------------------------------------------
(* Restore_IDT_8A34001.                                                    *)

Restore ==
  /\ pc = "idle"
  /\ op' = "restore" /\ design' = Default /\ pc' = "reset" /\ ret' = "none"
  /\ UNCHANGED <<chip, eeprom, mark, entry, answer, trouble, warm>>

\* Out of reset the chip loads its EEPROM; held in reset it outputs nothing.
Reset ==
  /\ pc = "reset"
  /\ \/ chip' = eeprom /\ Goto("rm") /\ UNCHANGED trouble
     \/ chip' \in {chip, Torn} /\ Fail
  /\ UNCHANGED <<eeprom, mark, entry, op, design, answer, warm>>

RemoveMark ==
  /\ pc = "rm"
  /\ \/ /\ (mark' = None /\ UNCHANGED trouble) \/ Refused(mark)
        /\ Goto("sed")
     \/ mark' \in {mark, None} /\ Fail
  /\ UNCHANGED <<chip, eeprom, entry, op, design, answer, warm>>

Bug_RemoveEntry ==               \* wrong: the clock file is forgotten
  /\ pc = "sed" /\ Goto("write")
  /\ UNCHANGED <<chip, eeprom, mark, entry, op, design, answer, trouble, warm>>
RemoveEntry ==
  /\ pc = "sed"
  /\ \/ /\ (entry' = None /\ UNCHANGED trouble) \/ Refused(entry)
        /\ Goto("write")
     \/ entry' \in {entry, None} /\ Fail
  /\ UNCHANGED <<chip, eeprom, mark, op, design, answer, warm>>

-----------------------------------------------------------------------------
(* Get_IDT_8A34001.                                                        *)

Get ==
  /\ pc = "idle"
  /\ op' = "get" /\ ret' = "none" /\ answer' = None
  /\ pc' = IF mark = None THEN "verify" ELSE "print"
  /\ UNCHANGED <<chip, eeprom, mark, entry, design, trouble, warm>>

(***************************************************************************)
(* Without a mark the EEPROM is compared with the blank image, then with   *)
(* every image installed; the design found is set on the chip.             *)
(***************************************************************************)
Bug_Verify ==                    \* wrong: the design found is not set
  /\ pc = "verify"
  /\ \/ eeprom = Blank /\ answer' = Blank /\ Return("ok") /\ UNCHANGED mark
     \/ eeprom \in HasBin /\ mark' = eeprom /\ Goto("print")
          /\ UNCHANGED answer
     \/ eeprom \notin HasBin \cup {Blank} /\ Return("error")
          /\ UNCHANGED <<answer, mark>>
  /\ UNCHANGED <<chip, eeprom, entry, op, design, trouble, warm>>
Verify ==
  /\ pc = "verify"
  /\ \/ /\ eeprom = Blank
        /\ answer' = Blank /\ Return("ok") /\ UNCHANGED design
        /\ UNCHANGED trouble
     \/ /\ eeprom \in HasBin
        /\ design' = eeprom /\ Goto("write") /\ UNCHANGED <<answer, trouble>>
     \/ /\ eeprom \notin HasBin \cup {Blank}
        /\ Return("error") /\ UNCHANGED <<design, answer, trouble>>
     \/ Fail /\ UNCHANGED <<design, answer>>
  /\ UNCHANGED <<chip, eeprom, mark, entry, op, warm>>

PrintMark ==
  /\ pc = "print"
  /\ \/ /\ mark # None
        /\ answer' = mark /\ Return("ok") /\ UNCHANGED trouble
     \/ Fail /\ UNCHANGED answer
  /\ UNCHANGED <<chip, eeprom, mark, entry, op, design, warm>>

-----------------------------------------------------------------------------
(* Start-up, crashes and power.                                            *)

Boot ==
  /\ pc = "down"
  /\ op' = "boot" /\ mark' = None /\ warm' = (chip # eeprom)
  /\ IF entry = None
       THEN pc' = "idle" /\ ret' = "booted" /\ UNCHANGED design
       ELSE pc' = "write" /\ ret' = "none" /\ design' = entry
  /\ UNCHANGED <<chip, eeprom, entry, answer, trouble>>

\* A kill in the middle of a write leaves it half-way.
HalfDone(label, old) == IF pc = label THEN {old, Torn} ELSE {old}

Die ==
  /\ pc # "down" /\ pc' = "down" /\ ret' = "none"
  /\ chip' \in HalfDone("write", chip)
  /\ eeprom' \in HalfDone("program", eeprom)
  /\ UNCHANGED <<mark, entry, op, design, answer, trouble, warm>>

PowerCycle ==
  /\ pc' = "down" /\ ret' = "none"
  /\ eeprom' \in HalfDone("program", eeprom) /\ chip' = eeprom'
  /\ UNCHANGED <<mark, entry, op, design, answer, trouble, warm>>

Next ==
  \/ \E o \in {"set", "setboot"}, d \in Designs : Set(o, d)
  \/ Restore \/ Get
  \/ WriteChip \/ WriteMark \/ Program \/ Remove \/ AppendEntry
  \/ Reset \/ RemoveMark \/ RemoveEntry \/ Verify \/ PrintMark
  \/ Boot \/ Die \/ PowerCycle

Spec == Init /\ [][Next]_vars

-----------------------------------------------------------------------------
(* Properties.                                                             *)

TypeOK ==
  /\ chip \in Images /\ eeprom \in Images
  /\ mark \in Designs \cup {None} /\ entry \in Designs \cup {None}
  /\ pc \in Labels /\ op \in {"set", "setboot", "restore", "get", "boot"}
  /\ design \in Designs
  /\ ret \in {"none", "ok", "error", "booted"}
  /\ answer \in Images \cup {None}
  /\ warm \in BOOLEAN
  /\ trouble \subseteq Troubles

\* What the chip outputs once the board is next powered and the daemon is up.
NextBoot == IF entry # None THEN entry ELSE eeprom

(***************************************************************************)
(* The README says of setbootclock that it sets the frequency at boot      *)
(* time: after a success the next boot outputs the design.                 *)
(***************************************************************************)
BootDesign ==
  "file" \notin trouble /\ pc = "idle" /\ ret = "ok" /\ op = "setboot" =>
    NextBoot = design

(***************************************************************************)
(* A successful restore leaves the default design everywhere, whatever     *)
(* earlier commands had failed or were cut short, as long as the file      *)
(* system took the changes.                                                *)
(***************************************************************************)
Restored ==
  "file" \notin trouble /\ pc = "idle" /\ ret = "ok" /\ op = "restore" =>
    chip = Default /\ eeprom = Default /\ mark = Default /\ entry = None

(***************************************************************************)
(* The mark never lies while no step fails: the daemon serves commands     *)
(* only with a mark that names what the chip outputs, or with none, even   *)
(* after it was killed between setting the chip and writing the mark.      *)
(***************************************************************************)
MarkTells == trouble = {} /\ pc = "idle" /\ mark # None => chip = mark

(***************************************************************************)
(* The design that getclock prints is the one the chip outputs, also when  *)
(* there was no mark and it was found by reading the EEPROM.  One answer   *)
(* can be wrong: with a blank EEPROM it says 0 MHz, and nothing is set, so *)
(* that a daemon that was started again while the chip kept an earlier     *)
(* design says it of a chip that does output.  The comment before the test *)
(* takes the missing mark for a chip that was not programmed since boot    *)
(* time, which is right only without such a start.                         *)
(***************************************************************************)
Answered ==
  trouble = {} /\ pc = "idle" /\ ret = "ok" /\ op = "get"
    /\ (answer = Blank => ~warm) =>
      chip = answer

\* The mark and getclock tell the design, with the exception of Answered.
ReadsTell == MarkTells /\ Answered

(***************************************************************************)
(* Only setbootclock and restoreclock change what the next boot outputs.   *)
(***************************************************************************)
VolatileSet ==
  [][NextBoot' # NextBoot => op \in {"setboot", "restore"}]_vars

=============================================================================

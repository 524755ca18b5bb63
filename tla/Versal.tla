------------------------------- MODULE Versal -------------------------------
(***************************************************************************)
(* The Versal device of the board and what sc_appd does to its boot        *)
(* (src/src/sc_common.c, src/src/sc_appd.c, src/src/sc_board.c): reset,    *)
(* setbootmode, loadPDI, setbootPDI, resetbootPDI, the PDI that selects a  *)
(* QSFP module, and the PDI loaded at start-up.                            *)
(*                                                                         *)
(* A PDI is loaded by a script, once the silicon revision of the device    *)
(* is known.  The revision is kept in a variable of the daemon and in the  *)
(* file 'silicon'; only without both is the device asked.  The daemon may  *)
(* be killed between any two steps, and the board may lose power.          *)
(***************************************************************************)
EXTENDS Naturals

CONSTANTS
  Modes,      \* the boot modes of the board file
  NumLines,   \* mode lines; the code has four
  Ones,       \* Ones[m]: the lines that are 1 in mode m
  Switch,     \* the lines that the boot mode switch does not pull to 0
  Readback,   \* FALSE when the board cannot read the switch
  PDIs,
  Revisions,  \* "ES1" and "PROD"
  Actual,     \* the revision of the device
  Default,    \* Default[r]: the name of the default PDI for revision r
  Ignored,    \* TRUE with "Silicon_Revision: 0" in the 'config' file
  Garbled,    \* a revision that is not exactly "ES1" or "PROD"
  Empty,      \* what a file holds that was created and not written
  None

Lines == 0 .. NumLines - 1

ASSUME LinesAssumption ==
  /\ NumLines \in Nat \ {0}
  /\ Ones \in [Modes -> SUBSET Lines] /\ Switch \subseteq Lines
ASSUME RevisionAssumption ==
  /\ Actual \in Revisions /\ Default \in [Revisions -> PDIs]
  /\ \A r, q \in Revisions : Default[r] = Default[q] => r = q
  /\ {Garbled, Empty, None} \cap Revisions = {}
  /\ {Empty, None} \cap Modes = {}
  /\ \A p \in PDIs : p \notin Modes /\ \A s \in SUBSET Lines : p # s
  /\ None # Garbled /\ None # Empty /\ None \notin PDIs
  /\ Readback \in BOOLEAN /\ Ignored \in BOOLEAN

-----------------------------------------------------------------------------

VARIABLES
  lines,     \* the mode lines that the daemon leaves at 1
  runs,      \* the pins or the mode the device booted from, the PDI loaded
             \* since, or None while it is held in reset
  alt,       \* the file 'boot_mode': the alternative boot mode
  boot,      \* the file 'PDI': the PDI to load at start-up
  silicon,   \* the file 'silicon'
  revision,  \* Silicon_Revision, None when it is empty
  link,      \* the revision whose PDI default.pdi points to
  pc,        \* the next step of the daemon
  op, arg,   \* the command in progress, or the last one, and its target
  line,      \* the next mode line
  ret,       \* what the last command came to
  sure,      \* history: no failure of that command was hidden from it
  chosen     \* history: the mode that setbootmode last set for certain

device == <<lines, runs>>
files  == <<alt, boot, silicon, link>>
vars   == <<device, files, revision, pc, op, arg, line, ret, sure, chosen>>

Labels == {"down", "idle", "revision", "idcode", "record", "link", "check",
           "assert", "release", "alternative", "load", "store", "serve",
           "clear", "switch", "drive"}

Init ==
  /\ lines = Lines /\ runs = Switch
  /\ alt = None /\ boot = None /\ silicon = None /\ link = None
  /\ revision = None
  /\ pc = "down" /\ op = "boot" /\ arg = None /\ line = 0
  /\ ret = "none" /\ sure = TRUE /\ chosen = None

Goto(label)  == pc' = label /\ UNCHANGED ret
\* A start-up goes on whatever became of its PDI.
Return(code) == ret' = code /\ pc' = IF op = "boot" THEN "serve" ELSE "idle"
Fail         == Return("error")

\* The next command begins.
Begin(o, a, label) ==
  /\ pc = "idle"
  /\ op' = o /\ arg' = a /\ pc' = label /\ ret' = "none" /\ sure' = TRUE

(***************************************************************************)
(* XSDB_Op() with a script that is to make the device run x.  The status   *)
(* of "xsdb ... | tee" is that of tee: a script that fails is not noticed. *)
(* A device that is held in reset is out of reach.                         *)
(***************************************************************************)
Script(x, done) ==
  \/ runs # None /\ runs' = x /\ done /\ UNCHANGED sure
  \/ UNCHANGED runs /\ done /\ sure' = FALSE
  \/ runs' \in {runs, IF runs = None THEN None ELSE x} /\ Fail
       /\ UNCHANGED sure

-----------------------------------------------------------------------------
(* Get_Silicon_Revision() and Identify_PDI().                              *)

\* The variable, then the file, then the device.
Revision ==
  /\ pc = "revision"
  /\ \/ revision # None /\ Goto("link") /\ UNCHANGED revision
     \/ revision = None /\ silicon \in Revisions
          /\ revision' = silicon /\ Goto("link")
     \/ revision = None /\ silicon = None
          /\ Goto(IF Ignored THEN "check" ELSE "idcode") /\ UNCHANGED revision
     \/ revision = None /\ silicon = Empty /\ Fail /\ UNCHANGED revision
     \/ revision = None /\ Fail /\ UNCHANGED revision
  /\ UNCHANGED <<device, files, op, arg, line, sure, chosen>>

(***************************************************************************)
(* The script prints the revision.  An unexpected output is dropped and    *)
(* the command goes on without; after an error what was printed stays in   *)
(* the variable, with its newline.                                         *)
(***************************************************************************)
Bug_Idcode ==                    \* wrong: any output is taken
  /\ pc = "idcode"
  /\ revision' \in Revisions /\ Goto("record")
  /\ UNCHANGED <<device, files, op, arg, line, sure, chosen>>
Idcode ==
  /\ pc = "idcode"
  /\ \/ runs # None /\ revision' = Actual /\ Goto("record")
     \/ revision' = None /\ Goto("check")
     \/ revision' \in {None, Garbled} /\ Fail
  /\ UNCHANGED <<device, files, op, arg, line, sure, chosen>>

\* fopen() is checked; what fputs() wrote is lost when the disk is full.
Record ==
  /\ pc = "record"
  /\ \/ silicon' \in {revision, Empty} /\ Goto("link")
     \/ silicon' \in {silicon, Empty} /\ Fail
  /\ UNCHANGED <<device, alt, boot, link, revision, op, arg, line, sure,
                 chosen>>

\* An existing link is kept; a board may come without a PDI for it.
Link ==
  /\ pc = "link"
  /\ \/ link # None /\ Goto("check") /\ UNCHANGED link
     \/ link = None /\ revision # Garbled
          /\ link' \in {None, revision} /\ Goto("check")
     \/ link = None /\ Fail /\ UNCHANGED link
  /\ UNCHANGED <<device, alt, boot, silicon, revision, op, arg, line, sure,
                 chosen>>

-----------------------------------------------------------------------------
(* PDIs: Validate_PDI(), PDI_Ops(), Boot_Load_PDI().                       *)

\* The default PDI of a revision needs a device of that revision.
Bug_Fits == TRUE                 \* wrong: default PDIs are like the others
Fits == \A r \in Revisions : arg = Default[r] => revision = r

\* A module select needs the unique id that goes with the revision.
Check ==
  /\ pc = "check"
  /\ \/ op = "load"   /\ Fits /\ Goto("assert")
     \/ op = "setpdi" /\ Fits /\ Goto("store")
     \/ op = "boot"   /\ Fits /\ Goto("load")
     \/ op = "sfp"    /\ revision # None /\ Goto("load")
     \/ Fail
  /\ UNCHANGED <<device, files, revision, op, arg, line, sure, chosen>>

LoadPDI(p) ==
  /\ Begin("load", p, "revision")
  /\ UNCHANGED <<device, files, revision, line, chosen>>
SetBootPDI(p) ==
  /\ Begin("setpdi", p, "revision")
  /\ UNCHANGED <<device, files, revision, line, chosen>>
ModuleSelect ==
  /\ Begin("sfp", None, "revision")
  /\ UNCHANGED <<device, files, revision, line, chosen>>

\* The module select has default.pdi loaded.
Image == IF op = "sfp" THEN IF link = None THEN None ELSE Default[link]
         ELSE arg

Load ==
  /\ pc = "load"
  /\ IF Image = None THEN UNCHANGED runs /\ Return("ok") /\ sure' = FALSE
                     ELSE Script(Image, Return("ok"))
  /\ UNCHANGED <<lines, files, revision, op, arg, line, chosen>>

\* "echo ... > PDI; sync": the status is sync's.
Store ==
  /\ pc = "store" /\ Return("ok")
  /\ \/ boot' = arg /\ UNCHANGED sure
     \/ boot' \in {boot, Empty} /\ sure' = FALSE
  /\ UNCHANGED <<device, alt, silicon, link, revision, op, arg, line, chosen>>

\* "rm PDI; touch PDI; sync"
ResetBootPDI ==
  /\ Begin("resetpdi", None, "idle") /\ boot' \in {boot, Empty}
  /\ UNCHANGED <<device, alt, silicon, link, revision, line, chosen>>

-----------------------------------------------------------------------------
(* Reset_Op().                                                             *)

Reset ==
  /\ Begin("reset", None, "assert")
  /\ UNCHANGED <<device, files, revision, line, chosen>>

Assert ==
  /\ pc = "assert"
  /\ \/ runs' = None /\ Goto("release")
     \/ runs' \in {runs, None} /\ Fail
  /\ UNCHANGED <<lines, files, revision, op, arg, line, sure, chosen>>

\* What the device samples: a line that is 1 and not pulled to 0.
Pins == lines \cap Switch

\* Out of reset the device boots from its pins; after a failure it may stay.
Release ==
  /\ pc = "release"
  /\ \/ runs' = Pins /\ Goto("alternative")
     \/ runs' \in {runs, Pins} /\ Fail
  /\ UNCHANGED <<lines, files, revision, op, arg, line, sure, chosen>>

Bug_AfterReset == Return("ok")   \* wrong: the PDI is not loaded
AfterReset == IF op = "load" THEN Goto("load") ELSE Return("ok")

\* Set_AltBootMode() has a script set the mode and reset the device again.
Alternative ==
  /\ pc = "alternative"
  /\ \/ alt = None /\ AfterReset /\ UNCHANGED <<runs, sure>>
     \/ alt \in Modes /\ Script(alt, AfterReset)
     \/ alt # None /\ Fail /\ UNCHANGED <<runs, sure>>
  /\ UNCHANGED <<lines, files, revision, op, arg, line, chosen>>

-----------------------------------------------------------------------------
(* Set_BootMode().                                                         *)

SetAltBootMode(m) ==
  /\ Begin("alt", m, "idle")
  /\ alt' \in {alt, Empty, m}
  /\ UNCHANGED <<device, boot, silicon, link, revision, line, chosen>>

SetBootMode(m) ==
  /\ Begin("mode", m, "clear") /\ line' = 0 /\ chosen' = None
  /\ UNCHANGED <<device, files, revision>>

Last == line = NumLines - 1
NextLine == line' = IF Last THEN 0 ELSE line + 1

\* All lines go to 1 first, or the switch could not be read back.
Clear ==
  /\ pc = "clear"
  /\ \/ /\ lines' = lines \cup {line} /\ NextLine
        /\ Goto(IF Last THEN "switch" ELSE "clear")
     \/ Fail /\ UNCHANGED <<lines, line>>
  /\ UNCHANGED <<runs, files, revision, op, arg, sure, chosen>>

\* A switch that cannot be read, on this board or this time, counts as all
\* OFF, with a warning.
Unread == sure' = FALSE

\* A mode is refused when the switch pulls one of its lines to 0.
ReadSwitch ==
  /\ pc = "switch"
  /\ \/ Readback /\ Ones[arg] \subseteq Switch /\ Goto("drive")
          /\ UNCHANGED sure
     \/ Readback /\ ~(Ones[arg] \subseteq Switch) /\ Fail /\ UNCHANGED sure
     \/ Unread /\ Goto("drive")
  /\ UNCHANGED <<device, files, revision, op, arg, line, chosen>>

Bug_Drive ==                     \* wrong: lines that are to be 0 stay at 1
  /\ pc = "drive" /\ NextLine
  /\ lines' = IF line \in Ones[arg] THEN lines \cup {line} ELSE lines
  /\ IF Last THEN Return("ok") ELSE Goto("drive")
  /\ chosen' = IF Last /\ sure THEN arg ELSE None
  /\ UNCHANGED <<runs, files, revision, op, arg, sure>>
Drive ==
  /\ pc = "drive"
  /\ \/ /\ lines' = IF line \in Ones[arg] THEN lines \cup {line}
                                         ELSE lines \ {line}
        /\ NextLine
        /\ IF Last THEN Return("ok") ELSE Goto("drive")
        /\ chosen' = IF Last /\ sure THEN arg ELSE None
     \/ Fail /\ UNCHANGED <<lines, line, chosen>>
  /\ UNCHANGED <<runs, files, revision, op, arg, sure>>

-----------------------------------------------------------------------------
(* Start-up, crashes and power.                                            *)

\* The daemon reads the 'PDI' file; without an entry nothing is loaded.
Start ==
  /\ pc = "down"
  /\ op' = "boot" /\ arg' = boot /\ ret' = "ok" /\ sure' = TRUE
  /\ pc' = IF boot \in PDIs THEN "revision" ELSE "serve"
  /\ revision' = None /\ line' = 0
  /\ UNCHANGED <<device, files, chosen>>

\* A boot mode of an earlier run is dropped before commands are served.
Serve ==
  /\ pc = "serve" /\ pc' = "idle" /\ alt' = None
  /\ UNCHANGED <<device, boot, silicon, link, revision, op, arg, line, ret,
                 sure, chosen>>

\* Killed: the device and the lines stay as they are.
Die ==
  /\ pc # "down" /\ pc' = "down" /\ ret' = "none"
  /\ silicon' \in IF pc = "record" THEN {silicon, Empty} ELSE {silicon}
  /\ UNCHANGED <<device, alt, boot, link, revision, op, arg, line, sure,
                 chosen>>

PowerCycle ==
  /\ pc' = "down" /\ ret' = "none"
  /\ lines' = Lines /\ runs' = Switch /\ chosen' = None
  /\ UNCHANGED <<files, revision, op, arg, line, sure>>

Step == \/ Revision \/ Idcode \/ Record \/ Link \/ Check \/ Load \/ Store
        \/ Assert \/ Release \/ Alternative \/ Clear \/ ReadSwitch \/ Drive
        \/ Serve

Next ==
  \/ \E p \in PDIs : LoadPDI(p) \/ SetBootPDI(p)
  \/ \E m \in Modes : SetBootMode(m) \/ SetAltBootMode(m)
  \/ Reset \/ ModuleSelect \/ ResetBootPDI
  \/ Step \/ Start \/ Die \/ PowerCycle

Spec == Init /\ [][Next]_vars

-----------------------------------------------------------------------------
(* Properties.                                                             *)

TypeOK ==
  /\ lines \subseteq Lines /\ line \in Lines
  /\ runs \in (SUBSET Switch) \cup Modes \cup PDIs \cup {None}
  /\ alt \in Modes \cup {None, Empty} /\ boot \in PDIs \cup {None, Empty}
  /\ silicon \in Revisions \cup {None, Empty}
  /\ revision \in Revisions \cup {None, Garbled}
  /\ link \in Revisions \cup {None}
  /\ pc \in Labels
  /\ op \in {"boot", "mode", "alt", "reset", "load", "setpdi", "resetpdi",
             "sfp"}
  /\ ret \in {"none", "ok", "error"} /\ sure \in BOOLEAN
  /\ chosen \in Modes \cup {None}

(***************************************************************************)
(* The comment at Validate_PDI: the default PDI of another silicon         *)
(* revision is never loaded, not even after a revision was read wrong, cut *)
(* short in its file, or not read at all.                                  *)
(***************************************************************************)
DefaultFits == \A r \in Revisions : runs = Default[r] => r = Actual

(***************************************************************************)
(* What outlives the daemon is true: neither the file 'silicon' nor the    *)
(* link default.pdi ever names a revision that the device does not have.   *)
(***************************************************************************)
RevisionTrue == silicon \in {None, Empty, Actual} /\ link \in {None, Actual}

Done(o) == pc = "idle" /\ op = o /\ ret = "ok" /\ sure

(***************************************************************************)
(* After a successful loadPDI the device is out of reset and runs the PDI, *)
(* with or without an alternative boot mode, whatever had failed before,   *)
(* unless a script failed without being noticed.                           *)
(***************************************************************************)
Loaded == Done("load") => runs = arg

\* A successful reset boots from the alternative mode, if one is set.
ResetBoots ==
  Done("reset") => runs = IF alt = None THEN Pins ELSE alt

(***************************************************************************)
(* The mode that setbootmode last set, with a switch that could be read,   *)
(* is the one that a later reset boots from, whatever loads, resets, kills *)
(* and refused modes came in between.  A setgpio on the mode lines is not  *)
(* among these: it drives them as it likes.                                *)
(***************************************************************************)
BootsAsSet ==
  Done("reset") /\ alt = None /\ chosen # None => runs = Ones[chosen]

(***************************************************************************)
(* A start-up that reports no failure has the device run the boot PDI,     *)
(* also when the silicon revision has to be asked for first.               *)
(***************************************************************************)
BootPDI == Done("boot") /\ boot \in PDIs => runs = boot

\* A success in loading a PDI, by command or at start-up, means what it says.
RunsPDI == Loaded /\ BootPDI

\* So does the success of a reset, for either kind of boot mode.
RunsMode == ResetBoots /\ BootsAsSet

=============================================================================

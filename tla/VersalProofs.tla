---------------------------- MODULE VersalProofs ----------------------------
(***************************************************************************)
(* Proofs about Versal, for every board: its modes, mode lines and switch, *)
(* its PDIs, the revision of its device, and every sequence of failures,   *)
(* seen or unseen, kills and losses of power.                              *)
(***************************************************************************)
EXTENDS Versal, TLAPS

Asking == {"revision", "idcode", "record", "link", "check"}

\* Which command a step belongs to.
Belongs ==
  /\ pc \in Asking => op \in {"load", "setpdi", "sfp", "boot"}
  /\ pc \in {"assert", "release", "alternative"} => op \in {"reset", "load"}
  /\ pc \in {"clear", "switch", "drive"} => op = "mode"
  /\ pc = "store" => op = "setpdi"
  /\ pc = "load" => op \in {"load", "sfp", "boot"}
  /\ pc = "serve" => op = "boot"

\* What a command is about; a start-up is about the boot PDI.
Targets ==
  /\ op \in {"load", "setpdi"} => arg \in PDIs
  /\ op \in {"mode", "alt"} => arg \in Modes
  /\ op = "boot" => arg = boot
  /\ op = "boot" /\ pc \in Asking \cup {"load"} => arg \in PDIs

(***************************************************************************)
(* What the variable may hold: nothing, the truth, or the text of an error *)
(* that never gets as far as the file or the link.                         *)
(***************************************************************************)
Known == /\ revision \in {None, Garbled, Actual}
         /\ pc = "record" => revision = Actual

\* A PDI that has passed its check is not one for another revision.
Checked ==
  pc \in {"assert", "release", "alternative", "load"}
    /\ op \in {"load", "boot"} =>
    \A r \in Revisions : arg = Default[r] => r = Actual

\* The pins were sampled, and the boot PDI was loaded.
Sampled == pc = "alternative" => runs = Pins
Started ==
  pc = "serve" /\ ret = "ok" /\ sure /\ boot \in PDIs => runs = boot

\* The mode lines are driven in order, for a mode that the switch allows.
Driving ==
  /\ pc \in {"clear", "switch", "drive"} => chosen = None
  /\ pc = "switch" => line = 0
  /\ pc = "drive" =>
       /\ sure => Ones[arg] \subseteq Switch
       /\ \A i \in Lines : i < line => (i \in lines <=> i \in Ones[arg])

Standing == chosen # None => Pins = Ones[chosen]

IInv == /\ TypeOK /\ Belongs /\ Targets /\ Known /\ Checked /\ Sampled
        /\ Started /\ Driving /\ Standing
        /\ DefaultFits /\ RevisionTrue /\ Loaded /\ ResetBoots /\ BootsAsSet
        /\ BootPDI

-----------------------------------------------------------------------------

\* Neither a mode, nor what is on the pins, nor a held reset is a PDI.
LEMMA Apart ==
  ASSUME NEW p \in PDIs
  PROVE  /\ p # None /\ p \notin Modes
         /\ \A s \in SUBSET Switch : p # s
<1>1. \A s \in SUBSET Switch : s \in SUBSET Lines
  BY LinesAssumption
<1> QED BY <1>1, RevisionAssumption

\* There is a first line.
LEMMA FirstLine == 0 \in Lines
BY LinesAssumption DEF Lines

\* After each line but the last there is another one.
LEMMA NextLines == \A i \in Lines : i # NumLines - 1 => i + 1 \in Lines
BY LinesAssumption DEF Lines

\* The pins are those of the switch that are not pulled to 0.
LEMMA PinsType == Pins \in SUBSET Switch
BY DEF Pins

\* A command begins: nothing is done yet.
LEMMA LoadPDIIInv ==
  ASSUME IInv, NEW p \in PDIs, LoadPDI(p) \/ SetBootPDI(p)
  PROVE  IInv'
<1> USE RevisionAssumption DEF IInv, device, files, Begin, LoadPDI, SetBootPDI
<1>1. TypeOK'
  BY PinsType DEF TypeOK, Labels, Targets, Known, Belongs
<1>2. Belongs' /\ Targets'
  BY DEF TypeOK, Belongs, Targets, Asking
<1>3. Known' /\ RevisionTrue'
  BY DEF TypeOK, Known, RevisionTrue
<1>4. Checked'
  BY DEF Checked, Known, Fits
<1>5. DefaultFits'
  BY Apart, PinsType, LinesAssumption
  DEF TypeOK, Checked, DefaultFits, Belongs, Targets, RevisionTrue, Image
<1>6. Sampled' /\ Started'
  BY DEF TypeOK, Sampled, Started, Pins, Belongs, Targets, Image
<1>7. Driving' /\ Standing'
  BY DEF TypeOK, Driving, Standing, Pins
<1>8. Loaded' /\ BootPDI'
  BY DEF TypeOK, Loaded, BootPDI, Done, Started, Belongs, Targets, Image
<1>9. ResetBoots' /\ BootsAsSet'
  BY DEF TypeOK, ResetBoots, BootsAsSet, Done, Sampled, Standing, Belongs, Pins
<1> QED BY <1>1, <1>2, <1>3, <1>4, <1>5, <1>6, <1>7, <1>8, <1>9

\* A boot mode is to be set, or is written to its file.
LEMMA ModeIInv ==
  ASSUME IInv, NEW m \in Modes, SetBootMode(m) \/ SetAltBootMode(m)
  PROVE  IInv'
<1> USE RevisionAssumption
        DEF IInv, device, files, Begin, SetBootMode, SetAltBootMode
<1>1. TypeOK'
  <2>1. lines' \subseteq Lines /\ line' \in Lines
    BY FirstLine, NextLines DEF TypeOK
  <2>2. runs' \in (SUBSET Switch) \cup Modes \cup PDIs \cup {None}
    BY DEF TypeOK
  <2>3. /\ alt' \in Modes \cup {None, Empty}
        /\ boot' \in PDIs \cup {None, Empty}
        /\ silicon' \in Revisions \cup {None, Empty}
        /\ revision' \in Revisions \cup {None, Garbled}
        /\ link' \in Revisions \cup {None}
    BY DEF TypeOK, Known, Targets, Belongs
  <2>4. pc' \in Labels
    BY DEF TypeOK, Labels
  <2>5. /\ op' \in {"boot", "mode", "alt", "reset", "load", "setpdi",
                   "resetpdi", "sfp"}
        /\ ret' \in {"none", "ok", "error"} /\ sure' \in BOOLEAN
        /\ chosen' \in Modes \cup {None}
    BY DEF TypeOK, Belongs, Targets
  <2> QED BY <2>1, <2>2, <2>3, <2>4, <2>5 DEF TypeOK
<1>2. Belongs' /\ Targets'
  BY DEF TypeOK, Belongs, Targets, Asking
<1>3. Known' /\ RevisionTrue'
  BY DEF TypeOK, Known, RevisionTrue
<1>4. Checked'
  BY DEF Checked, Known, Fits
<1>5. DefaultFits'
  BY Apart, PinsType, LinesAssumption
  DEF TypeOK, Checked, DefaultFits, Belongs, Targets, RevisionTrue, Image
<1>6. Sampled' /\ Started'
  BY DEF TypeOK, Sampled, Started, Pins, Belongs, Targets, Image
<1>7. Driving' /\ Standing'
  BY DEF TypeOK, Driving, Standing, Pins
<1>8. Loaded' /\ BootPDI'
  BY DEF TypeOK, Loaded, BootPDI, Done, Started, Belongs, Targets, Image
<1>9. ResetBoots' /\ BootsAsSet'
  BY DEF TypeOK, ResetBoots, BootsAsSet, Done, Sampled, Standing, Belongs, Pins
<1> QED BY <1>1, <1>2, <1>3, <1>4, <1>5, <1>6, <1>7, <1>8, <1>9

\* The commands without a target.
LEMMA BeginIInv ==
  ASSUME IInv, Reset \/ ModuleSelect \/ ResetBootPDI
  PROVE  IInv'
<1> USE RevisionAssumption
        DEF IInv, device, files, Begin, Reset, ModuleSelect, ResetBootPDI
<1>1. TypeOK'
  BY PinsType DEF TypeOK, Labels, Targets, Known, Belongs
<1>2. Belongs' /\ Targets'
  BY DEF TypeOK, Belongs, Targets, Asking
<1>3. Known' /\ RevisionTrue'
  BY DEF TypeOK, Known, RevisionTrue
<1>4. Checked'
  BY DEF Checked, Known, Fits
<1>5. DefaultFits'
  BY Apart, PinsType, LinesAssumption
  DEF TypeOK, Checked, DefaultFits, Belongs, Targets, RevisionTrue, Image
<1>6. Sampled' /\ Started'
  BY DEF TypeOK, Sampled, Started, Pins, Belongs, Targets, Image
<1>7. Driving' /\ Standing'
  BY DEF TypeOK, Driving, Standing, Pins
<1>8. Loaded' /\ BootPDI'
  BY DEF TypeOK, Loaded, BootPDI, Done, Started, Belongs, Targets, Image
<1>9. ResetBoots' /\ BootsAsSet'
  BY DEF TypeOK, ResetBoots, BootsAsSet, Done, Sampled, Standing, Belongs, Pins
<1> QED BY <1>1, <1>2, <1>3, <1>4, <1>5, <1>6, <1>7, <1>8, <1>9

\* The revision comes from the variable or the file.
LEMMA RevisionIInv ==
  ASSUME IInv, Revision
  PROVE  IInv'
<1> USE RevisionAssumption
        DEF IInv, device, files, Revision, Goto, Return, Fail
<1>1. TypeOK'
  BY PinsType DEF TypeOK, Labels, Targets, Known, Belongs
<1>2. Belongs' /\ Targets'
  BY DEF TypeOK, Belongs, Targets, Asking
<1>3. Known' /\ RevisionTrue'
  BY DEF TypeOK, Known, RevisionTrue
<1>4. Checked'
  BY DEF Checked, Known, Fits
<1>5. DefaultFits'
  BY Apart, PinsType, LinesAssumption
  DEF TypeOK, Checked, DefaultFits, Belongs, Targets, RevisionTrue, Image
<1>6. Sampled' /\ Started'
  BY DEF TypeOK, Sampled, Started, Pins, Belongs, Targets, Image
<1>7. Driving' /\ Standing'
  BY DEF TypeOK, Driving, Standing, Pins
<1>8. Loaded' /\ BootPDI'
  BY DEF TypeOK, Loaded, BootPDI, Done, Started, Belongs, Targets, Image
<1>9. ResetBoots' /\ BootsAsSet'
  BY DEF TypeOK, ResetBoots, BootsAsSet, Done, Sampled, Standing, Belongs, Pins
<1> QED BY <1>1, <1>2, <1>3, <1>4, <1>5, <1>6, <1>7, <1>8, <1>9

\* The device is asked for its revision.
LEMMA IdcodeIInv ==
  ASSUME IInv, Idcode
  PROVE  IInv'
<1> USE RevisionAssumption DEF IInv, device, files, Idcode, Goto, Return, Fail
<1>1. TypeOK'
  BY PinsType DEF TypeOK, Labels, Targets, Known, Belongs
<1>2. Belongs' /\ Targets'
  BY DEF TypeOK, Belongs, Targets, Asking
<1>3. Known' /\ RevisionTrue'
  BY DEF TypeOK, Known, RevisionTrue
<1>4. Checked'
  BY DEF Checked, Known, Fits
<1>5. DefaultFits'
  BY Apart, PinsType, LinesAssumption
  DEF TypeOK, Checked, DefaultFits, Belongs, Targets, RevisionTrue, Image
<1>6. Sampled' /\ Started'
  BY DEF TypeOK, Sampled, Started, Pins, Belongs, Targets, Image
<1>7. Driving' /\ Standing'
  BY DEF TypeOK, Driving, Standing, Pins
<1>8. Loaded' /\ BootPDI'
  BY DEF TypeOK, Loaded, BootPDI, Done, Started, Belongs, Targets, Image
<1>9. ResetBoots' /\ BootsAsSet'
  BY DEF TypeOK, ResetBoots, BootsAsSet, Done, Sampled, Standing, Belongs, Pins
<1> QED BY <1>1, <1>2, <1>3, <1>4, <1>5, <1>6, <1>7, <1>8, <1>9

\* Only what the device has said is written down.
LEMMA RecordIInv ==
  ASSUME IInv, Record
  PROVE  IInv'
<1> USE RevisionAssumption DEF IInv, device, files, Record, Goto, Return, Fail
<1>1. TypeOK'
  BY PinsType DEF TypeOK, Labels, Targets, Known, Belongs
<1>2. Belongs' /\ Targets'
  BY DEF TypeOK, Belongs, Targets, Asking
<1>3. Known' /\ RevisionTrue'
  BY DEF TypeOK, Known, RevisionTrue
<1>4. Checked'
  BY DEF Checked, Known, Fits
<1>5. DefaultFits'
  BY Apart, PinsType, LinesAssumption
  DEF TypeOK, Checked, DefaultFits, Belongs, Targets, RevisionTrue, Image
<1>6. Sampled' /\ Started'
  BY DEF TypeOK, Sampled, Started, Pins, Belongs, Targets, Image
<1>7. Driving' /\ Standing'
  BY DEF TypeOK, Driving, Standing, Pins
<1>8. Loaded' /\ BootPDI'
  BY DEF TypeOK, Loaded, BootPDI, Done, Started, Belongs, Targets, Image
<1>9. ResetBoots' /\ BootsAsSet'
  BY DEF TypeOK, ResetBoots, BootsAsSet, Done, Sampled, Standing, Belongs, Pins
<1> QED BY <1>1, <1>2, <1>3, <1>4, <1>5, <1>6, <1>7, <1>8, <1>9

\* The link is made once, for the right revision.
LEMMA LinkIInv ==
  ASSUME IInv, Link
  PROVE  IInv'
<1> USE RevisionAssumption DEF IInv, device, files, Link, Goto, Return, Fail
<1>1. TypeOK'
  BY PinsType DEF TypeOK, Labels, Targets, Known, Belongs, Image, Asking
<1>2. Belongs' /\ Targets'
  BY DEF TypeOK, Belongs, Targets, Asking
<1>3. Known' /\ RevisionTrue'
  BY DEF TypeOK, Known, RevisionTrue
<1>4. Checked'
  BY DEF Checked, Known, Fits
<1>5. DefaultFits'
  BY Apart, PinsType, LinesAssumption
  DEF TypeOK, Checked, DefaultFits, Belongs, Targets, RevisionTrue, Image
<1>6. Sampled' /\ Started'
  BY DEF TypeOK, Sampled, Started, Pins, Belongs, Targets, Image
<1>7. Driving' /\ Standing'
  BY DEF TypeOK, Driving, Standing, Pins
<1>8. Loaded' /\ BootPDI'
  BY DEF TypeOK, Loaded, BootPDI, Done, Started, Belongs, Targets, Image
<1>9. ResetBoots' /\ BootsAsSet'
  BY DEF TypeOK, ResetBoots, BootsAsSet, Done, Sampled, Standing, Belongs, Pins
<1> QED BY <1>1, <1>2, <1>3, <1>4, <1>5, <1>6, <1>7, <1>8, <1>9

\* A default PDI of another revision is refused.
LEMMA CheckIInv ==
  ASSUME IInv, Check
  PROVE  IInv'
<1> USE RevisionAssumption DEF IInv, device, files, Check, Goto, Return, Fail
<1>1. TypeOK'
  BY PinsType DEF TypeOK, Labels, Targets, Known, Belongs
<1>2. Belongs' /\ Targets'
  BY DEF TypeOK, Belongs, Targets, Asking
<1>3. Known' /\ RevisionTrue'
  BY DEF TypeOK, Known, RevisionTrue
<1>4. Checked'
  BY DEF Checked, Known, Fits
<1>5. DefaultFits'
  BY Apart, PinsType, LinesAssumption
  DEF TypeOK, Checked, DefaultFits, Belongs, Targets, RevisionTrue, Image
<1>6. Sampled' /\ Started'
  BY DEF TypeOK, Sampled, Started, Pins, Belongs, Targets, Image
<1>7. Driving' /\ Standing'
  BY DEF TypeOK, Driving, Standing, Pins
<1>8. Loaded' /\ BootPDI'
  BY DEF TypeOK, Loaded, BootPDI, Done, Started, Belongs, Targets, Image
<1>9. ResetBoots' /\ BootsAsSet'
  BY DEF TypeOK, ResetBoots, BootsAsSet, Done, Sampled, Standing, Belongs, Pins
<1> QED BY <1>1, <1>2, <1>3, <1>4, <1>5, <1>6, <1>7, <1>8, <1>9

\* The PDI is loaded by a script.
LEMMA LoadIInv ==
  ASSUME IInv, Load
  PROVE  IInv'
<1> USE RevisionAssumption
        DEF IInv, device, files, Load, Script, Goto, Return, Fail
<1>1. TypeOK'
  <2>1. lines' \subseteq Lines /\ line' \in Lines
    BY DEF TypeOK
  <2>2. runs' \in (SUBSET Switch) \cup Modes \cup PDIs \cup {None}
    BY DEF TypeOK, Targets, Belongs, Image, Asking
  <2>3. /\ alt' \in Modes \cup {None, Empty}
        /\ boot' \in PDIs \cup {None, Empty}
        /\ silicon' \in Revisions \cup {None, Empty}
        /\ revision' \in Revisions \cup {None, Garbled}
        /\ link' \in Revisions \cup {None}
    BY DEF TypeOK, Known, Targets, Belongs
  <2>4. pc' \in Labels
    BY DEF TypeOK, Labels
  <2>5. /\ op' \in {"boot", "mode", "alt", "reset", "load", "setpdi",
                   "resetpdi", "sfp"}
        /\ ret' \in {"none", "ok", "error"} /\ sure' \in BOOLEAN
        /\ chosen' \in Modes \cup {None}
    BY DEF TypeOK, Belongs, Targets
  <2> QED BY <2>1, <2>2, <2>3, <2>4, <2>5 DEF TypeOK
<1>2. Belongs' /\ Targets'
  BY DEF TypeOK, Belongs, Targets, Asking
<1>3. Known' /\ RevisionTrue'
  BY DEF TypeOK, Known, RevisionTrue
<1>4. Checked'
  BY DEF Checked, Known, Fits
<1>5. DefaultFits'
  BY Apart, PinsType, LinesAssumption
  DEF TypeOK, Checked, DefaultFits, Belongs, Targets, RevisionTrue, Image
<1>6. Sampled' /\ Started'
  BY DEF TypeOK, Sampled, Started, Pins, Belongs, Targets, Image
<1>7. Driving' /\ Standing'
  BY DEF TypeOK, Driving, Standing, Pins
<1>8. Loaded' /\ BootPDI'
  BY DEF TypeOK, Loaded, BootPDI, Done, Started, Belongs, Targets, Image
<1>9. ResetBoots' /\ BootsAsSet'
  BY DEF TypeOK, ResetBoots, BootsAsSet, Done, Sampled, Standing, Belongs, Pins
<1> QED BY <1>1, <1>2, <1>3, <1>4, <1>5, <1>6, <1>7, <1>8, <1>9

\* The boot PDI is written to its file.
LEMMA StoreIInv ==
  ASSUME IInv, Store
  PROVE  IInv'
<1> USE RevisionAssumption DEF IInv, device, files, Store, Goto, Return, Fail
<1>1. TypeOK'
  <2>1. boot' \in PDIs \cup {None, Empty}
    BY DEF TypeOK, Targets, Belongs
  <2>2. UNCHANGED <<device, alt, silicon, link, revision, op, line, chosen>>
    OBVIOUS
  <2>3. pc' \in Labels /\ ret' \in {"none", "ok", "error"} /\ sure' \in BOOLEAN
    BY DEF TypeOK, Labels
  <2> QED BY <2>1, <2>2, <2>3 DEF TypeOK
<1>2. Belongs' /\ Targets'
  BY DEF TypeOK, Belongs, Targets, Asking
<1>3. Known' /\ RevisionTrue'
  BY DEF TypeOK, Known, RevisionTrue
<1>4. Checked'
  BY DEF Checked, Known, Fits
<1>5. DefaultFits'
  BY Apart, PinsType, LinesAssumption
  DEF TypeOK, Checked, DefaultFits, Belongs, Targets, RevisionTrue, Image
<1>6. Sampled' /\ Started'
  BY DEF TypeOK, Sampled, Started, Pins, Belongs, Targets, Image
<1>7. Driving' /\ Standing'
  BY DEF TypeOK, Driving, Standing, Pins
<1>8. Loaded' /\ BootPDI'
  BY DEF TypeOK, Loaded, BootPDI, Done, Started, Belongs, Targets, Image
<1>9. ResetBoots' /\ BootsAsSet'
  BY DEF TypeOK, ResetBoots, BootsAsSet, Done, Sampled, Standing, Belongs, Pins
<1> QED BY <1>1, <1>2, <1>3, <1>4, <1>5, <1>6, <1>7, <1>8, <1>9

\* The device is held in reset.
LEMMA AssertIInv ==
  ASSUME IInv, Assert
  PROVE  IInv'
<1> USE RevisionAssumption DEF IInv, device, files, Assert, Goto, Return, Fail
<1>1. TypeOK'
  BY PinsType DEF TypeOK, Labels, Targets, Known, Belongs, Image, Asking
<1>2. Belongs' /\ Targets'
  BY DEF TypeOK, Belongs, Targets, Asking
<1>3. Known' /\ RevisionTrue'
  BY DEF TypeOK, Known, RevisionTrue
<1>4. Checked'
  BY DEF Checked, Known, Fits
<1>5. DefaultFits'
  BY Apart, PinsType, LinesAssumption
  DEF TypeOK, Checked, DefaultFits, Belongs, Targets, RevisionTrue, Image
<1>6. Sampled' /\ Started'
  BY DEF TypeOK, Sampled, Started, Pins, Belongs, Targets, Image
<1>7. Driving' /\ Standing'
  BY DEF TypeOK, Driving, Standing, Pins
<1>8. Loaded' /\ BootPDI'
  BY DEF TypeOK, Loaded, BootPDI, Done, Started, Belongs, Targets, Image
<1>9. ResetBoots' /\ BootsAsSet'
  BY DEF TypeOK, ResetBoots, BootsAsSet, Done, Sampled, Standing, Belongs, Pins
<1> QED BY <1>1, <1>2, <1>3, <1>4, <1>5, <1>6, <1>7, <1>8, <1>9

\* The device comes out of reset and samples its pins.
LEMMA ReleaseIInv ==
  ASSUME IInv, Release
  PROVE  IInv'
<1> USE RevisionAssumption DEF IInv, device, files, Release, Goto, Return, Fail
<1>1. TypeOK'
  BY PinsType DEF TypeOK, Labels, Targets, Known, Belongs, Image, Asking
<1>2. Belongs' /\ Targets'
  BY DEF TypeOK, Belongs, Targets, Asking
<1>3. Known' /\ RevisionTrue'
  BY DEF TypeOK, Known, RevisionTrue
<1>4. Checked'
  BY DEF Checked, Known, Fits
<1>5. DefaultFits'
  BY Apart, PinsType, LinesAssumption
  DEF TypeOK, Checked, DefaultFits, Belongs, Targets, RevisionTrue, Image
<1>6. Sampled' /\ Started'
  BY DEF TypeOK, Sampled, Started, Pins, Belongs, Targets, Image
<1>7. Driving' /\ Standing'
  BY DEF TypeOK, Driving, Standing, Pins
<1>8. Loaded' /\ BootPDI'
  BY DEF TypeOK, Loaded, BootPDI, Done, Started, Belongs, Targets, Image
<1>9. ResetBoots' /\ BootsAsSet'
  BY DEF TypeOK, ResetBoots, BootsAsSet, Done, Sampled, Standing, Belongs, Pins
<1> QED BY <1>1, <1>2, <1>3, <1>4, <1>5, <1>6, <1>7, <1>8, <1>9

\* A script sets the alternative mode.
LEMMA AlternativeIInv ==
  ASSUME IInv, Alternative
  PROVE  IInv'
<1> USE RevisionAssumption
        DEF IInv, device, files, Alternative, AfterReset, Script, Goto,
            Return, Fail
<1>1. TypeOK'
  <2>1. lines' \subseteq Lines /\ line' \in Lines
    BY DEF TypeOK
  <2>2. runs' \in (SUBSET Switch) \cup Modes \cup PDIs \cup {None}
    BY DEF TypeOK
  <2>3. /\ alt' \in Modes \cup {None, Empty}
        /\ boot' \in PDIs \cup {None, Empty}
        /\ silicon' \in Revisions \cup {None, Empty}
        /\ revision' \in Revisions \cup {None, Garbled}
        /\ link' \in Revisions \cup {None}
    BY DEF TypeOK, Known, Targets, Belongs
  <2>4. pc' \in Labels
    BY DEF TypeOK, Labels
  <2>5. /\ op' \in {"boot", "mode", "alt", "reset", "load", "setpdi",
                   "resetpdi", "sfp"}
        /\ ret' \in {"none", "ok", "error"} /\ sure' \in BOOLEAN
        /\ chosen' \in Modes \cup {None}
    BY DEF TypeOK, Belongs, Targets
  <2> QED BY <2>1, <2>2, <2>3, <2>4, <2>5 DEF TypeOK
<1>2. Belongs' /\ Targets'
  BY DEF TypeOK, Belongs, Targets, Asking
<1>3. Known' /\ RevisionTrue'
  BY DEF TypeOK, Known, RevisionTrue
<1>4. Checked'
  BY DEF Checked, Known, Fits
<1>5. DefaultFits'
  BY Apart, PinsType, LinesAssumption
  DEF TypeOK, Checked, DefaultFits, Belongs, Targets, RevisionTrue, Image
<1>6. Sampled' /\ Started'
  BY DEF TypeOK, Sampled, Started, Pins, Belongs, Targets, Image
<1>7. Driving' /\ Standing'
  BY DEF TypeOK, Driving, Standing, Pins
<1>8. Loaded' /\ BootPDI'
  BY DEF TypeOK, Loaded, BootPDI, Done, Started, Belongs, Targets, Image
<1>9. ResetBoots' /\ BootsAsSet'
  BY DEF TypeOK, ResetBoots, BootsAsSet, Done, Sampled, Standing, Belongs, Pins
<1> QED BY <1>1, <1>2, <1>3, <1>4, <1>5, <1>6, <1>7, <1>8, <1>9

\* The lines go to 1.
LEMMA ClearIInv ==
  ASSUME IInv, Clear
  PROVE  IInv'
<1> USE RevisionAssumption
        DEF IInv, device, files, Clear, NextLine, Last, Goto, Return, Fail
<1>1. TypeOK'
  <2>1. lines' \subseteq Lines /\ line' \in Lines
    BY FirstLine, NextLines DEF TypeOK
  <2>2. runs' \in (SUBSET Switch) \cup Modes \cup PDIs \cup {None}
    BY DEF TypeOK
  <2>3. /\ alt' \in Modes \cup {None, Empty}
        /\ boot' \in PDIs \cup {None, Empty}
        /\ silicon' \in Revisions \cup {None, Empty}
        /\ revision' \in Revisions \cup {None, Garbled}
        /\ link' \in Revisions \cup {None}
    BY DEF TypeOK, Known, Targets, Belongs
  <2>4. pc' \in Labels
    BY DEF TypeOK, Labels
  <2>5. /\ op' \in {"boot", "mode", "alt", "reset", "load", "setpdi",
                   "resetpdi", "sfp"}
        /\ ret' \in {"none", "ok", "error"} /\ sure' \in BOOLEAN
        /\ chosen' \in Modes \cup {None}
    BY DEF TypeOK, Belongs, Targets
  <2> QED BY <2>1, <2>2, <2>3, <2>4, <2>5 DEF TypeOK
<1>2. Belongs' /\ Targets'
  BY DEF TypeOK, Belongs, Targets, Asking
<1>3. Known' /\ RevisionTrue'
  BY DEF TypeOK, Known, RevisionTrue
<1>4. Checked'
  BY DEF Checked, Known, Fits
<1>5. DefaultFits'
  BY Apart, PinsType, LinesAssumption
  DEF TypeOK, Checked, DefaultFits, Belongs, Targets, RevisionTrue, Image
<1>6. Sampled' /\ Started'
  BY DEF TypeOK, Sampled, Started, Pins, Belongs, Targets, Image
<1>7. Driving' /\ Standing'
  BY DEF TypeOK, Driving, Standing, Pins
<1>8. Loaded' /\ BootPDI'
  BY DEF TypeOK, Loaded, BootPDI, Done, Started, Belongs, Targets, Image
<1>9. ResetBoots' /\ BootsAsSet'
  BY DEF TypeOK, ResetBoots, BootsAsSet, Done, Sampled, Standing, Belongs, Pins
<1> QED BY <1>1, <1>2, <1>3, <1>4, <1>5, <1>6, <1>7, <1>8, <1>9

\* The switch is read back.
LEMMA SwitchIInv ==
  ASSUME IInv, ReadSwitch
  PROVE  IInv'
<1> USE RevisionAssumption
        DEF IInv, device, files, ReadSwitch, Unread, Goto, Return, Fail
<1>1. TypeOK'
  <2>1. lines' \subseteq Lines /\ line' \in Lines
    BY DEF TypeOK
  <2>2. runs' \in (SUBSET Switch) \cup Modes \cup PDIs \cup {None}
    BY DEF TypeOK
  <2>3. /\ alt' \in Modes \cup {None, Empty}
        /\ boot' \in PDIs \cup {None, Empty}
        /\ silicon' \in Revisions \cup {None, Empty}
        /\ revision' \in Revisions \cup {None, Garbled}
        /\ link' \in Revisions \cup {None}
    BY DEF TypeOK, Known, Targets, Belongs
  <2>4. pc' \in Labels
    BY DEF TypeOK, Labels
  <2>5. /\ op' \in {"boot", "mode", "alt", "reset", "load", "setpdi",
                   "resetpdi", "sfp"}
        /\ ret' \in {"none", "ok", "error"} /\ sure' \in BOOLEAN
        /\ chosen' \in Modes \cup {None}
    BY DEF TypeOK, Belongs, Targets
  <2> QED BY <2>1, <2>2, <2>3, <2>4, <2>5 DEF TypeOK
<1>2. Belongs' /\ Targets'
  BY DEF TypeOK, Belongs, Targets, Asking
<1>3. Known' /\ RevisionTrue'
  BY DEF TypeOK, Known, RevisionTrue
<1>4. Checked'
  BY DEF Checked, Known, Fits
<1>5. DefaultFits'
  BY Apart, PinsType, LinesAssumption
  DEF TypeOK, Checked, DefaultFits, Belongs, Targets, RevisionTrue, Image
<1>6. Sampled' /\ Started'
  BY DEF TypeOK, Sampled, Started, Pins, Belongs, Targets, Image
<1>7. Driving' /\ Standing'
  <2>1. /\ pc = "switch" /\ line = 0 /\ chosen = None
        /\ line' = 0 /\ chosen' = None
    BY DEF Driving
  <2>2. \A i \in Lines : ~(i < 0)
    BY LinesAssumption DEF Lines
  <2> QED BY <2>1, <2>2 DEF Driving, Standing, Belongs
<1>8. Loaded' /\ BootPDI'
  BY DEF TypeOK, Loaded, BootPDI, Done, Started, Belongs, Targets, Image
<1>9. ResetBoots' /\ BootsAsSet'
  BY DEF TypeOK, ResetBoots, BootsAsSet, Done, Sampled, Standing, Belongs, Pins
<1> QED BY <1>1, <1>2, <1>3, <1>4, <1>5, <1>6, <1>7, <1>8, <1>9

\* The lines of the mode are driven.
LEMMA DriveIInv ==
  ASSUME IInv, Drive
  PROVE  IInv'
<1> USE RevisionAssumption
        DEF IInv, device, files, Drive, NextLine, Last, Goto, Return, Fail
<1>1. TypeOK'
  <2>1. lines' \subseteq Lines /\ line' \in Lines
    BY FirstLine, NextLines DEF TypeOK
  <2>2. runs' \in (SUBSET Switch) \cup Modes \cup PDIs \cup {None}
    BY DEF TypeOK
  <2>3. /\ alt' \in Modes \cup {None, Empty}
        /\ boot' \in PDIs \cup {None, Empty}
        /\ silicon' \in Revisions \cup {None, Empty}
        /\ revision' \in Revisions \cup {None, Garbled}
        /\ link' \in Revisions \cup {None}
    BY DEF TypeOK, Known, Targets, Belongs
  <2>4. pc' \in Labels
    BY DEF TypeOK, Labels
  <2>5. /\ op' \in {"boot", "mode", "alt", "reset", "load", "setpdi",
                   "resetpdi", "sfp"}
        /\ ret' \in {"none", "ok", "error"} /\ sure' \in BOOLEAN
        /\ chosen' \in Modes \cup {None}
    BY DEF TypeOK, Belongs, Targets
  <2> QED BY <2>1, <2>2, <2>3, <2>4, <2>5 DEF TypeOK
<1>2. Belongs' /\ Targets'
  BY DEF TypeOK, Belongs, Targets, Asking
<1>3. Known' /\ RevisionTrue'
  BY DEF TypeOK, Known, RevisionTrue
<1>4. Checked'
  BY DEF Checked, Known, Fits
<1>5. DefaultFits'
  BY Apart, PinsType, LinesAssumption
  DEF TypeOK, Checked, DefaultFits, Belongs, Targets, RevisionTrue, Image
<1>6. Sampled' /\ Started'
  BY DEF TypeOK, Sampled, Started, Pins, Belongs, Targets, Image
<1>7. Driving' /\ Standing'
  <2>1. /\ pc = "drive" /\ op = "mode" /\ arg \in Modes /\ chosen = None
        /\ \A i \in Lines : i < line => (i \in lines <=> i \in Ones[arg])
        /\ sure => Ones[arg] \subseteq Switch
    BY DEF Driving, Belongs, Targets
  <2>2. CASE UNCHANGED <<lines, line, chosen>>
    BY <2>1, <2>2 DEF Driving, Standing
  <2>3. CASE /\ lines' = IF line \in Ones[arg] THEN lines \cup {line}
                                            ELSE lines \ {line}
             /\ line' = IF Last THEN 0 ELSE line + 1
             /\ IF Last THEN Return("ok") ELSE Goto("drive")
             /\ chosen' = IF Last /\ sure THEN arg ELSE None
    <3>1. \A i \in Lines : i < line + 1 => (i \in lines' <=> i \in Ones[arg])
      BY <2>1, <2>3, LinesAssumption DEF TypeOK, Lines
    <3>2. CASE Last
      <4>1. \A i \in Lines : i < line + 1
        BY <3>2, LinesAssumption DEF Lines, Last
      <4>2. lines' \subseteq Lines /\ Ones[arg] \subseteq Lines
        BY <1>1, <2>1, LinesAssumption DEF TypeOK
      <4>3. lines' = Ones[arg]
        BY <3>1, <4>1, <4>2
      <4> QED BY <2>1, <2>3, <3>2, <4>3 DEF Driving, Standing, Pins
    <3>3. CASE ~Last
      BY <2>1, <2>3, <3>1, <3>3 DEF Driving, Standing
    <3> QED BY <3>2, <3>3
  <2> QED BY <2>2, <2>3
<1>8. Loaded' /\ BootPDI'
  BY DEF TypeOK, Loaded, BootPDI, Done, Started, Belongs, Targets, Image
<1>9. ResetBoots' /\ BootsAsSet'
  BY DEF TypeOK, ResetBoots, BootsAsSet, Done, Sampled, Standing, Belongs, Pins
<1> QED BY <1>1, <1>2, <1>3, <1>4, <1>5, <1>6, <1>7, <1>8, <1>9

\* The daemon starts, and serves.
LEMMA StartIInv ==
  ASSUME IInv, Start \/ Serve
  PROVE  IInv'
<1> USE RevisionAssumption DEF IInv, device, files, Start, Serve
<1>1. TypeOK'
  <2>1. lines' \subseteq Lines /\ line' \in Lines
    BY FirstLine, NextLines DEF TypeOK
  <2>2. runs' \in (SUBSET Switch) \cup Modes \cup PDIs \cup {None}
    BY DEF TypeOK
  <2>3. /\ alt' \in Modes \cup {None, Empty}
        /\ boot' \in PDIs \cup {None, Empty}
        /\ silicon' \in Revisions \cup {None, Empty}
        /\ revision' \in Revisions \cup {None, Garbled}
        /\ link' \in Revisions \cup {None}
    BY DEF TypeOK, Known, Targets, Belongs
  <2>4. pc' \in Labels
    BY DEF TypeOK, Labels
  <2>5. /\ op' \in {"boot", "mode", "alt", "reset", "load", "setpdi",
                   "resetpdi", "sfp"}
        /\ ret' \in {"none", "ok", "error"} /\ sure' \in BOOLEAN
        /\ chosen' \in Modes \cup {None}
    BY DEF TypeOK, Belongs, Targets
  <2> QED BY <2>1, <2>2, <2>3, <2>4, <2>5 DEF TypeOK
<1>2. Belongs' /\ Targets'
  BY DEF TypeOK, Belongs, Targets, Asking
<1>3. Known' /\ RevisionTrue'
  BY DEF TypeOK, Known, RevisionTrue
<1>4. Checked'
  BY DEF Checked, Known, Fits
<1>5. DefaultFits'
  BY Apart, PinsType, LinesAssumption
  DEF TypeOK, Checked, DefaultFits, Belongs, Targets, RevisionTrue, Image
<1>6. Sampled' /\ Started'
  BY DEF TypeOK, Sampled, Started, Pins, Belongs, Targets, Image
<1>7. Driving' /\ Standing'
  BY DEF TypeOK, Driving, Standing, Pins
<1>8. Loaded' /\ BootPDI'
  BY DEF TypeOK, Loaded, BootPDI, Done, Started, Belongs, Targets, Image
<1>9. ResetBoots' /\ BootsAsSet'
  BY DEF TypeOK, ResetBoots, BootsAsSet, Done, Sampled, Standing, Belongs, Pins
<1> QED BY <1>1, <1>2, <1>3, <1>4, <1>5, <1>6, <1>7, <1>8, <1>9

\* Kills and losses of power.
LEMMA CrashIInv ==
  ASSUME IInv, Die \/ PowerCycle
  PROVE  IInv'
<1> USE RevisionAssumption DEF IInv, device, files, Die, PowerCycle
<1>1. TypeOK'
  <2>1. lines' \subseteq Lines /\ line' \in Lines
    BY FirstLine, NextLines DEF TypeOK
  <2>2. runs' \in (SUBSET Switch) \cup Modes \cup PDIs \cup {None}
    BY DEF TypeOK
  <2>3. /\ alt' \in Modes \cup {None, Empty}
        /\ boot' \in PDIs \cup {None, Empty}
        /\ silicon' \in Revisions \cup {None, Empty}
        /\ revision' \in Revisions \cup {None, Garbled}
        /\ link' \in Revisions \cup {None}
    BY DEF TypeOK, Known, Targets, Belongs
  <2>4. pc' \in Labels
    BY DEF TypeOK, Labels
  <2>5. /\ op' \in {"boot", "mode", "alt", "reset", "load", "setpdi",
                   "resetpdi", "sfp"}
        /\ ret' \in {"none", "ok", "error"} /\ sure' \in BOOLEAN
        /\ chosen' \in Modes \cup {None}
    BY DEF TypeOK, Belongs, Targets
  <2> QED BY <2>1, <2>2, <2>3, <2>4, <2>5 DEF TypeOK
<1>2. Belongs' /\ Targets'
  BY DEF TypeOK, Belongs, Targets, Asking
<1>3. Known' /\ RevisionTrue'
  BY DEF TypeOK, Known, RevisionTrue
<1>4. Checked'
  BY DEF Checked, Known, Fits
<1>5. DefaultFits'
  BY Apart, PinsType, LinesAssumption
  DEF TypeOK, Checked, DefaultFits, Belongs, Targets, RevisionTrue, Image
<1>6. Sampled' /\ Started'
  BY DEF TypeOK, Sampled, Started, Pins, Belongs, Targets, Image
<1>7. Driving' /\ Standing'
  BY DEF TypeOK, Driving, Standing, Pins
<1>8. Loaded' /\ BootPDI'
  BY DEF TypeOK, Loaded, BootPDI, Done, Started, Belongs, Targets, Image
<1>9. ResetBoots' /\ BootsAsSet'
  BY DEF TypeOK, ResetBoots, BootsAsSet, Done, Sampled, Standing, Belongs, Pins
<1> QED BY <1>1, <1>2, <1>3, <1>4, <1>5, <1>6, <1>7, <1>8, <1>9

\* A state that does not change keeps the invariant.
LEMMA StutterIInv ==
  ASSUME IInv, UNCHANGED vars
  PROVE  IInv'
<1> USE RevisionAssumption DEF IInv, device, files, vars
<1>1. TypeOK'
  BY PinsType DEF TypeOK, Labels, Targets, Known, Belongs
<1>2. Belongs' /\ Targets'
  BY DEF TypeOK, Belongs, Targets, Asking
<1>3. Known' /\ RevisionTrue'
  BY DEF TypeOK, Known, RevisionTrue
<1>4. Checked'
  BY DEF Checked, Known, Fits
<1>5. DefaultFits'
  BY Apart, PinsType, LinesAssumption
  DEF TypeOK, Checked, DefaultFits, Belongs, Targets, RevisionTrue, Image
<1>6. Sampled' /\ Started'
  BY DEF TypeOK, Sampled, Started, Pins, Belongs, Targets, Image
<1>7. Driving' /\ Standing'
  BY DEF TypeOK, Driving, Standing, Pins
<1>8. Loaded' /\ BootPDI'
  BY DEF TypeOK, Loaded, BootPDI, Done, Started, Belongs, Targets, Image
<1>9. ResetBoots' /\ BootsAsSet'
  BY DEF TypeOK, ResetBoots, BootsAsSet, Done, Sampled, Standing, Belongs, Pins
<1> QED BY <1>1, <1>2, <1>3, <1>4, <1>5, <1>6, <1>7, <1>8, <1>9

(***************************************************************************)
(* The invariant holds in every state, however commands, failures and      *)
(* crashes follow each other.                                              *)
(***************************************************************************)
THEOREM Inductive == Spec => []IInv
<1>1. Init => IInv
  <2> SUFFICES ASSUME Init PROVE IInv
    OBVIOUS
  <2> USE RevisionAssumption DEF Init
  <2>1. TypeOK
    BY FirstLine DEF TypeOK, Labels
  <2>2. DefaultFits
    BY Apart DEF DefaultFits
  <2> QED
    BY <2>1, <2>2
    DEF IInv, Belongs, Targets, Known, Checked, Sampled, Started, Driving,
        Standing, RevisionTrue, Loaded, ResetBoots, BootsAsSet, BootPDI, Done,
        Asking
<1>2. IInv /\ [Next]_vars => IInv'
  <2> SUFFICES ASSUME IInv, [Next]_vars PROVE IInv'
    OBVIOUS
  <2>1. CASE \E p \in PDIs : LoadPDI(p) \/ SetBootPDI(p)
    BY <2>1, LoadPDIIInv
  <2>2. CASE \E m \in Modes : SetBootMode(m) \/ SetAltBootMode(m)
    BY <2>2, ModeIInv
  <2>3. CASE Reset \/ ModuleSelect \/ ResetBootPDI
    BY <2>3, BeginIInv
  <2>4. CASE Start \/ Serve
    BY <2>4, StartIInv
  <2>5. CASE Die \/ PowerCycle
    BY <2>5, CrashIInv
  <2>6. CASE UNCHANGED vars
    BY <2>6, StutterIInv
  <2>7. CASE Revision
    BY <2>7, RevisionIInv
  <2>8. CASE Idcode
    BY <2>8, IdcodeIInv
  <2>9. CASE Record
    BY <2>9, RecordIInv
  <2>10. CASE Link
    BY <2>10, LinkIInv
  <2>11. CASE Check
    BY <2>11, CheckIInv
  <2>12. CASE Load
    BY <2>12, LoadIInv
  <2>13. CASE Store
    BY <2>13, StoreIInv
  <2>14. CASE Assert
    BY <2>14, AssertIInv
  <2>15. CASE Release
    BY <2>15, ReleaseIInv
  <2>16. CASE Alternative
    BY <2>16, AlternativeIInv
  <2>17. CASE Clear
    BY <2>17, ClearIInv
  <2>18. CASE ReadSwitch
    BY <2>18, SwitchIInv
  <2>19. CASE Drive
    BY <2>19, DriveIInv
  <2> QED
    BY <2>1, <2>2, <2>3, <2>4, <2>5, <2>6, <2>7, <2>8, <2>9, <2>10, <2>11,
       <2>12, <2>13, <2>14, <2>15, <2>16, <2>17, <2>18, <2>19
    DEF Next, Step
<1> QED BY <1>1, <1>2, PTL DEF Spec

\* The device, the files, the command and its step keep their types.
THEOREM TypeCorrect == Spec => []TypeOK
<1>1. IInv => TypeOK
  BY DEF IInv
<1> QED BY <1>1, Inductive, PTL

(***************************************************************************)
(* For any board and any history of errors, the device never runs the      *)
(* default PDI of another silicon revision.                                *)
(***************************************************************************)
THEOREM RevisionSafe == Spec => []DefaultFits
<1>1. IInv => DefaultFits
  BY DEF IInv
<1> QED BY <1>1, Inductive, PTL

(***************************************************************************)
(* Neither the file 'silicon' nor the link default.pdi ever names a        *)
(* revision that the device does not have, wherever the daemon was killed. *)
(***************************************************************************)
THEOREM RevisionRecorded == Spec => []RevisionTrue
<1>1. IInv => RevisionTrue
  BY DEF IInv
<1> QED BY <1>1, Inductive, PTL

(***************************************************************************)
(* A loadPDI, or a start-up with a boot PDI, of which no failure was seen  *)
(* or hidden has the device run that PDI.                                  *)
(***************************************************************************)
THEOREM PDIsAreLoaded == Spec => []RunsPDI
<1>1. IInv => RunsPDI
  BY DEF IInv, RunsPDI
<1> QED BY <1>1, Inductive, PTL

(***************************************************************************)
(* A reset boots from the alternative mode or from the pins, and the pins  *)
(* show the mode that setbootmode last set, for any number of lines and    *)
(* any position of the switch.                                             *)
(***************************************************************************)
THEOREM ResetsBoot == Spec => []RunsMode
<1>1. IInv => RunsMode
  BY DEF IInv, RunsMode
<1> QED BY <1>1, Inductive, PTL

=============================================================================

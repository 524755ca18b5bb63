------------------------------ MODULE JtagMux ------------------------------
(***************************************************************************)
(* The JTAG multiplexer of the board (src/src/sc_common.c,                 *)
(* src/src/sc_appd.c, src/src/sc_BIT.c).  Two GPIO lines select who is the *)
(* JTAG controller.  setJTAGselect drives them and records the choice;     *)
(* every run of xsdb (XSDB_Op, and DDRMC_Test around its own script)       *)
(* switches the mux to the System Controller and, once the script is done, *)
(* back to the recorded choice.  Each line is a GPIO access of its own     *)
(* that may fail, and the result of both switches around a script is       *)
(* ignored.                                                                *)
(***************************************************************************)
EXTENDS Integers

CONSTANTS
  Selects,  \* the names of the board file
  Value,    \* Value[s]: the two bits that select s
  SC, FTDI, \* the System Controller, and the USB cable of the host
  MayFail   \* TRUE when a GPIO access may fail

\* Parse_JTAGSelect insists on this value for "FTDI", the initial choice;
\* "Current" is what the code itself calls the way back.
ASSUME SelectsAssumption ==
  /\ SC \in Selects /\ FTDI \in Selects /\ "Current" \notin Selects
  /\ Value \in [Selects -> 0 .. 3] /\ Value[FTDI] = 1
  /\ MayFail \in BOOLEAN

-----------------------------------------------------------------------------

VARIABLES
  lines,    \* lines[i]: what Select_Lines[i] is driven to, or In
  current,  \* JTAGSelects->Current
  pc,       \* the next line to access, or "script", or "idle"
  op,       \* the command in progress, or the last one
  goal,     \* the select being applied, or "Current"
  ret,      \* what the last command returned
  failed    \* history: a GPIO access of the last command failed

vars == <<lines, current, pc, op, goal, ret, failed>>

In == -1     \* a line that is an input, left to the board
Levels == {In, 0, 1}

Init ==
  /\ lines \in [{0, 1} -> {In}]
  /\ current = Value[FTDI]
  /\ pc = "idle" /\ op = "none" /\ goal = "Current"
  /\ ret = "none" /\ failed = FALSE

Bug_Bits(v) == [i \in {0, 1} |-> IF i = 0 THEN v % 2 ELSE v]  \* wrong
Bits(v) == [i \in {0, 1} |-> IF i = 0 THEN v % 2 ELSE v \div 2]
Released == [i \in {0, 1} |-> In]

(***************************************************************************)
(* Set_JTAGSelect(goal).  A name is driven; "Current" is driven too, but   *)
(* for FTDI the lines are read, which turns them back into inputs.         *)
(***************************************************************************)
Home(v) == IF v = 1 THEN Released ELSE Bits(v)

Pattern == IF goal = "Current" THEN Home(current) ELSE Bits(Value[goal])

\* Where the caller goes on after Set_JTAGSelect has returned.
Succeeded ==
  \/ /\ op = "select"
     /\ pc' = "idle" /\ ret' = "ok" /\ current' = Value[goal]
     /\ UNCHANGED goal
  \/ /\ op = "xsdb" /\ goal = SC
     /\ pc' = "script" /\ UNCHANGED <<current, goal, ret>>
  \/ /\ op = "xsdb" /\ goal = "Current"
     /\ pc' = "idle" /\ UNCHANGED <<current, goal, ret>>

Bug_Failed ==                    \* wrong: the choice is recorded at once
  /\ UNCHANGED goal
  /\ \/ /\ op = "select" /\ pc' = "idle" /\ ret' = "error"
        /\ current' = Value[goal]
     \/ /\ op = "xsdb" /\ UNCHANGED <<current, ret>>
        /\ pc' = IF goal = SC THEN "script" ELSE "idle"
Failed ==
  \/ /\ op = "select"
     /\ pc' = "idle" /\ ret' = "error" /\ UNCHANGED <<current, goal>>
  \/ /\ op = "xsdb" /\ goal = SC
     /\ pc' = "script" /\ UNCHANGED <<current, goal, ret>>
  \/ /\ op = "xsdb" /\ goal = "Current"
     /\ pc' = "idle" /\ UNCHANGED <<current, goal, ret>>

-----------------------------------------------------------------------------

\* setJTAGselect, with a target that the board file names.
Select(s) ==
  /\ pc = "idle"
  /\ op' = "select" /\ goal' = s /\ pc' = "line0"
  /\ ret' = "none" /\ failed' = FALSE
  /\ UNCHANGED <<lines, current>>

\* Any command that runs a script on the Versal device.
Bug_Xsdb ==                      \* wrong: only one line is switched
  /\ pc = "idle"
  /\ op' = "xsdb" /\ goal' = SC /\ pc' = "line1"
  /\ ret' = "none" /\ failed' = FALSE
  /\ UNCHANGED <<lines, current>>
Xsdb ==
  /\ pc = "idle"
  /\ op' = "xsdb" /\ goal' = SC /\ pc' = "line0"
  /\ ret' = "none" /\ failed' = FALSE
  /\ UNCHANGED <<lines, current>>

\* One line is set or released; a failure skips the other one.
Line0 ==
  /\ pc = "line0" /\ UNCHANGED op
  /\ \/ /\ lines' = [lines EXCEPT ![0] = Pattern[0]]
        /\ pc' = "line1" /\ UNCHANGED <<current, goal, ret, failed>>
     \/ MayFail /\ failed' = TRUE /\ Failed /\ UNCHANGED lines
Line1 ==
  /\ pc = "line1" /\ UNCHANGED op
  /\ \/ /\ lines' = [lines EXCEPT ![1] = Pattern[1]]
        /\ Succeeded /\ UNCHANGED failed
     \/ MayFail /\ failed' = TRUE /\ Failed /\ UNCHANGED lines

\* The script ends, well or not; then the mux is switched back.
Bug_Script ==                    \* wrong: a failed script returns at once
  /\ pc = "script"
  /\ \/ ret' = "ok" /\ pc' = "line0" /\ goal' = "Current"
     \/ ret' = "error" /\ pc' = "idle" /\ UNCHANGED goal
  /\ UNCHANGED <<lines, current, op, failed>>
Script ==
  /\ pc = "script"
  /\ ret' \in {"ok", "error"}
  /\ goal' = "Current" /\ pc' = "line0"
  /\ UNCHANGED <<lines, current, op, failed>>

\* The daemon is restarted: the board file is parsed, the lines stay.
Restart ==
  /\ current' = Value[FTDI]
  /\ pc' = "idle" /\ op' = "none" /\ goal' = "Current"
  /\ ret' = "none" /\ failed' = FALSE
  /\ UNCHANGED lines

Step == Line0 \/ Line1 \/ Script

Next ==
  \/ \E s \in Selects : Select(s)
  \/ Xsdb
  \/ Step
  \/ Restart

Spec == Init /\ [][Next]_vars

-----------------------------------------------------------------------------
(* Properties.                                                             *)

TypeOK ==
  /\ lines \in [{0, 1} -> Levels]
  /\ current \in {Value[s] : s \in Selects}
  /\ pc \in {"idle", "line0", "line1", "script"}
  /\ op \in {"none", "select", "xsdb"}
  /\ goal \in Selects \cup {"Current"}
  /\ ret \in {"none", "ok", "error"}
  /\ failed \in BOOLEAN

(***************************************************************************)
(* A script runs with the System Controller as the JTAG controller,        *)
(* wherever earlier failures or a restart had left the mux, unless a line  *)
(* could not be set for this very script.                                  *)
(***************************************************************************)
ScriptOnSC == pc = "script" /\ ~failed => lines = Bits(Value[SC])

(***************************************************************************)
(* After a script, failed or not, the mux is where the last successful     *)
(* setJTAGselect put it; for FTDI it is left to the board.                 *)
(***************************************************************************)
BackToCurrent ==
  pc = "idle" /\ op = "xsdb" /\ ~failed => lines = Home(current)

(***************************************************************************)
(* What setJTAGselect answers agrees with what later scripts come back to: *)
(* after a success the choice asked for, driven on both lines; after an    *)
(* error, maybe with one line already switched, the choice of before.      *)
(***************************************************************************)
Chosen ==
  pc = "idle" /\ op = "select" /\ ret = "ok" =>
    current = Value[goal] /\ lines = Bits(Value[goal])
FailedKeeps == [][ret' = "error" => current' = current]_vars
Recorded == []Chosen /\ FailedKeeps

=============================================================================

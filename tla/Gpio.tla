-------------------------------- MODULE Gpio --------------------------------
(***************************************************************************)
(* GPIO_Ops() (src/src/sc_appd.c) and the two functions below it that      *)
(* touch a line, Get_GPIO() and Set_GPIO() (src/src/sc_common.c): reading  *)
(* lines, driving them and making them inputs, one line or a group.        *)
(*                                                                         *)
(* The lines are those of the whole board, the two of the JTAG mux among   *)
(* them: the module extends JtagMux, whose variable "lines" setgpio        *)
(* changes behind the back of the recorded choice.                         *)
(***************************************************************************)
EXTENDS JtagMux, Sequences

CONSTANTS
  Others,   \* the lines besides those of the mux
  Type,     \* Type[l]: what a line may be asked for
  Groups    \* Groups[g]: the type and the lines of a group, first bit highest

GpioLines == {0, 1} \cup Others
Types == {"RW", "RO", "OD"}    \* OD: driven to 0, or left as an input

\* The lines of a group are lines of the board, each of them once.
ASSUME GpioAssumption ==
  /\ Type \in [GpioLines -> Types]
  /\ \A g \in DOMAIN Groups :
       /\ Groups[g].type \in Types
       /\ Groups[g].lines \in Seq(GpioLines) /\ Groups[g].lines # <<>>
       /\ \A i, j \in DOMAIN Groups[g].lines :
            Groups[g].lines[i] = Groups[g].lines[j] => i = j

IsGroup(t) == t \in DOMAIN Groups
Members(t) == IF IsGroup(t) THEN Groups[t].lines ELSE <<t>>
Kind(t) == IF IsGroup(t) THEN Groups[t].type ELSE Type[t]

\* Names that are neither a line nor a group, and a command without -v.
Nothing == -2
All == -3    \* the "all" of getgpio

-----------------------------------------------------------------------------

VARIABLES
  level,   \* level[l]: what another line is driven to, or In
  gpc,     \* "lines" while a command goes from line to line, else "idle"
  gcall,   \* the command: what it does, its target and its value
  done     \* how many lines it has dealt with

gpiovars == <<level, gpc, gcall, done>>

GpioInit ==
  /\ level = [l \in Others |-> In]
  /\ gpc = "idle" /\ done = 0
  /\ gcall = [op |-> "none", target |-> Nothing, value |-> Nothing]

NoGpioCall ==
  /\ gpc' = "idle" /\ done' = 0
  /\ gcall' = [op |-> "none", target |-> Nothing, value |-> Nothing]

Level(l) == IF l \in Others THEN level[l] ELSE lines[l]

Drive(l, to) ==
  IF l \in Others
    THEN level' = [level EXCEPT ![l] = to] /\ UNCHANGED lines
    ELSE lines' = [lines EXCEPT ![l] = to] /\ UNCHANGED level

\* Bit i of n: (State >> ((Numbers - 1) - i)) & 1, counted from 1 here.
Bit(v, n, i) == IF (v \div 2^(n - i)) % 2 = 1 THEN 1 ELSE 0

\* An open-drain line is released for a 1.
For(t, bit) == IF Kind(t) = "OD" /\ bit = 1 THEN In ELSE bit

(***************************************************************************)
(* What each line of the target is to be, in the order of the loop.        *)
(* Nothing is done to lines that are read only, and that is a success.     *)
(***************************************************************************)
Plan(c) ==
  LET ls == Members(c.target) n == Len(ls) IN
  IF c.op = "setgpio" /\ Kind(c.target) = "RO" THEN <<>>
  ELSE [i \in 1 .. n |->
          [line |-> ls[i],
           to |-> IF c.op = "setgpio" THEN For(c.target, Bit(c.value, n, i))
                                      ELSE In]]

\* A group takes any number and leaves the bits it has no line for.
Refused(c) ==
  \/ c.target = Nothing
  \/ c.op = "setgpio" /\ c.value = Nothing
  \/ c.op = "setgpio" /\ ~IsGroup(c.target) /\ c.value \notin {0, 1}

-----------------------------------------------------------------------------

\* setgpio and setinputgpio, up to the first line.
ChangeGPIO(c) ==
  /\ gpc = "idle" /\ c.op \in {"setgpio", "setinputgpio"}
  /\ gcall' = c /\ done' = 0
  /\ \/ Refused(c) /\ gpc' = "idle" /\ ret' = "error"
     \/ ~Refused(c) /\ Plan(c) = <<>> /\ gpc' = "idle" /\ ret' = "ok"
     \/ ~Refused(c) /\ Plan(c) # <<>> /\ gpc' = "lines" /\ UNCHANGED ret
  /\ UNCHANGED <<lines, level>>

\* wrong: a line that fails is skipped
Bug_ChangeLine ==
  /\ gpc = "lines"
  /\ LET next == Plan(gcall)[done + 1] IN
     \/ Drive(next.line, next.to)
     \/ MayFail /\ UNCHANGED <<lines, level>>
  /\ done' = done + 1
  /\ IF done' = Len(Plan(gcall)) THEN gpc' = "idle" /\ ret' = "ok"
                                 ELSE UNCHANGED <<gpc, ret>>
  /\ UNCHANGED gcall
\* The next line; a failure leaves the lines before it as they are now.
ChangeLine ==
  /\ gpc = "lines" /\ UNCHANGED gcall
  /\ LET next == Plan(gcall)[done + 1] IN
     \/ /\ Drive(next.line, next.to)
        /\ done' = done + 1
        /\ IF done' = Len(Plan(gcall)) THEN gpc' = "idle" /\ ret' = "ok"
                                       ELSE UNCHANGED <<gpc, ret>>
     \/ /\ MayFail /\ gpc' = "idle" /\ ret' = "error"
        /\ UNCHANGED <<lines, level, done>>

\* getgpio asks for the direction a line has, so that nothing changes.
GetGPIO(c) ==
  /\ gpc = "idle" /\ c.op = "getgpio"
  /\ gcall' = c /\ done' = 0 /\ UNCHANGED gpc
  /\ \/ c.target # Nothing /\ ret' = "ok"
     \/ (MayFail \/ c.target = Nothing) /\ ret' = "error"
  /\ UNCHANGED <<lines, level>>

-----------------------------------------------------------------------------
(* Properties.                                                             *)

GpioTypeOK ==
  /\ level \in [Others -> Levels]
  /\ gpc \in {"idle", "lines"}
  /\ done \in Nat
  /\ gpc = "lines" => done < Len(Plan(gcall))

\* What getgpio would print of a group: Value = (Value << 1) | State.
Shown(t) ==
  LET ls == Members(t)
      value[i \in 0 .. Len(ls)] ==
        IF i = 0 THEN 0 ELSE 2 * value[i - 1] + Level(ls[i])
  IN value[Len(ls)]

(***************************************************************************)
(* A command that succeeded has dealt with all lines of its target, and    *)
(* one that failed with those before the failure; each of them has the     *)
(* level it was to get, whatever is done to the lines after it.            *)
(***************************************************************************)
Driven ==
  gpc = "idle" /\ gcall.op \in {"setgpio", "setinputgpio"} =>
    /\ ret = "ok" => done = Len(Plan(gcall))
    /\ \A i \in 1 .. done :
         Level(Plan(gcall)[i].line) = Plan(gcall)[i].to

(***************************************************************************)
(* After a setgpio that succeeded, getgpio of the same target prints the   *)
(* value back: both walk the group from its highest bit.                   *)
(***************************************************************************)
ShownBack ==
  /\ gpc = "idle" /\ gcall.op = "setgpio" /\ ret = "ok"
  /\ Kind(gcall.target) = "RW"
  => Shown(gcall.target) = gcall.value % 2^Len(Members(gcall.target))

\* What a setgpio has done, seen on the lines and through getgpio.
Whole == Driven /\ ShownBack

=============================================================================

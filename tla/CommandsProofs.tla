--------------------------- MODULE CommandsProofs ---------------------------
(***************************************************************************)
(* Proofs about Commands and its handlers, for any board file, requests,   *)
(* failures, restarts and losses of power.  What is proved of the mux and  *)
(* of the sensors alone (the first part, and PowerProofs) holds under the  *)
(* loop, because only one handler runs at a time and the loop leaves it    *)
(* alone.                                                                  *)
(***************************************************************************)
EXTENDS Commands, PowerProofs, FiniteSetTheorems, FunctionTheorems

-----------------------------------------------------------------------------
(* JtagMux alone, for every set of selects that the board file may name    *)
(* and every sequence of failing GPIO accesses and restarts.               *)

\* Who a step belongs to, and what it is after.
Steps ==
  /\ op = "select" => goal \in Selects
  /\ op = "xsdb" => goal \in {SC, "Current"}
  /\ pc # "idle" => op # "none"
  /\ pc = "script" => op = "xsdb" /\ goal = SC
  /\ pc = "idle" /\ op = "xsdb" => goal = "Current"

\* The second line is only switched when the first one was.
HalfWay == pc = "line1" => lines[0] = Pattern[0]

IInv == TypeOK /\ Steps /\ HalfWay /\ ScriptOnSC /\ Chosen /\ BackToCurrent

\* The bits of a select drive both lines.
LEMMA BitsType ==
  ASSUME NEW v \in 0 .. 3
  PROVE  Bits(v) \in [{0, 1} -> {0, 1}]
<1>1. v \in {0, 1, 2, 3}
  OBVIOUS
<1>2. v % 2 \in {0, 1} /\ v \div 2 \in {0, 1}
  BY <1>1
<1> QED BY <1>2 DEF Bits

\* What the lines are to be is a level for each of them.
LEMMA HomeType ==
  /\ \A s \in Selects : Bits(Value[s]) \in [{0, 1} -> Levels]
  /\ \A s \in Selects : Home(Value[s]) \in [{0, 1} -> Levels]
<1>1. ASSUME NEW s \in Selects
      PROVE  Bits(Value[s]) \in [{0, 1} -> Levels]
  <2>1. Value[s] \in 0 .. 3
    BY SelectsAssumption
  <2> QED BY <2>1, BitsType DEF Levels
<1>2. Released \in [{0, 1} -> Levels]
  BY DEF Released, Levels
<1> QED BY <1>1, <1>2 DEF Home

\* Two patterns that agree on each line are the same.
LEMMA BothLines ==
  ASSUME NEW f \in [{0, 1} -> Levels], NEW g \in [{0, 1} -> Levels],
         f[0] = g[0]
  PROVE  [f EXCEPT ![1] = g[1]] = g
OBVIOUS

\* What a step drives a line to is a level.
LEMMA PatternType ==
  ASSUME TypeOK
  PROVE  /\ Pattern \in [{0, 1} -> Levels]
         /\ goal \in Selects => Pattern = Bits(Value[goal])
BY HomeType, SelectsAssumption DEF TypeOK, Pattern

\* A command begins; a selection or a script, with nothing switched yet.
LEMMA BeginIInv ==
  ASSUME IInv, Xsdb \/ \E s \in Selects : Select(s)
  PROVE  IInv'
BY SelectsAssumption
DEF IInv, TypeOK, Steps, HalfWay, ScriptOnSC, Chosen, BackToCurrent, Xsdb,
    Select

\* The first line is switched, or the second one is skipped.
LEMMA Line0IInv ==
  ASSUME IInv, Line0
  PROVE  IInv'
<1> USE DEF Line0, Failed
<1>1. TypeOK'
  BY PatternType, SelectsAssumption DEF IInv, TypeOK, Steps
<1>2. Steps'
  BY SelectsAssumption DEF IInv, TypeOK, Steps
<1>3. HalfWay'
  BY PatternType DEF IInv, TypeOK, Steps, HalfWay, Pattern
<1>4. ScriptOnSC' /\ Chosen' /\ BackToCurrent'
  BY DEF IInv, TypeOK, Steps, ScriptOnSC, Chosen, BackToCurrent
<1> QED BY <1>1, <1>2, <1>3, <1>4 DEF IInv

\* The second line completes the pattern.
LEMMA Line1IInv ==
  ASSUME IInv, Line1
  PROVE  IInv'
<1>1. CASE /\ lines' = [lines EXCEPT ![1] = Pattern[1]]
            /\ Succeeded /\ UNCHANGED <<op, failed>>
  <2>1. pc = "line1" /\ lines \in [{0, 1} -> Levels] /\ lines[0] = Pattern[0]
    BY DEF Line1, IInv, TypeOK, HalfWay
  <2>2. lines' = Pattern
    BY <1>1, <2>1, PatternType, BothLines DEF IInv
  <2>3. TypeOK'
    BY <1>1, <2>2, PatternType, SelectsAssumption
    DEF IInv, TypeOK, Steps, Succeeded
  <2>4. Steps'
    BY <1>1, <2>1, SelectsAssumption DEF IInv, TypeOK, Steps, Succeeded
  <2>5. HalfWay'
    BY <1>1 DEF Succeeded, HalfWay
  <2>6. ScriptOnSC'
    BY <1>1, <2>1, <2>2, PatternType, SelectsAssumption
    DEF IInv, Steps, Succeeded, ScriptOnSC
  <2>7. Chosen'
    BY <1>1, <2>1, <2>2, PatternType, SelectsAssumption
    DEF IInv, Steps, Succeeded, Chosen
  <2>8. BackToCurrent'
    BY <1>1, <2>1, <2>2, SelectsAssumption
    DEF IInv, Steps, Succeeded, BackToCurrent, Pattern
  <2> QED BY <2>3, <2>4, <2>5, <2>6, <2>7, <2>8 DEF IInv
<1>2. CASE failed' = TRUE /\ Failed /\ UNCHANGED <<op, lines>>
  <2>1. pc = "line1"
    BY DEF Line1
  <2> QED
    BY <1>2, <2>1, SelectsAssumption
    DEF IInv, TypeOK, Steps, HalfWay, ScriptOnSC, Chosen, BackToCurrent, Failed
<1> QED BY <1>1, <1>2 DEF Line1

\* The script is over, and the way back begins.
LEMMA ScriptIInv ==
  ASSUME IInv, Script
  PROVE  IInv'
BY SelectsAssumption
DEF IInv, TypeOK, Steps, HalfWay, ScriptOnSC, Chosen, BackToCurrent, Script

\* A restart forgets the choice and leaves the lines.
LEMMA RestartIInv ==
  ASSUME IInv, Restart
  PROVE  IInv'
BY SelectsAssumption
DEF IInv, TypeOK, Steps, HalfWay, ScriptOnSC, Chosen, BackToCurrent, Restart

\* A state that does not change keeps the invariant.
LEMMA StutterIInv ==
  ASSUME IInv, UNCHANGED vars
  PROVE  IInv'
BY DEF IInv, TypeOK, Steps, HalfWay, ScriptOnSC, Chosen, BackToCurrent,
   Pattern, vars

\* The invariant holds in every state of the mux.
THEOREM MuxInductive == Spec => []IInv
<1>1. Init => IInv
  BY SelectsAssumption
  DEF Init, IInv, TypeOK, Steps, HalfWay, ScriptOnSC, Chosen, BackToCurrent,
      Levels
<1>2. IInv /\ [Next]_vars => IInv'
  BY BeginIInv, Line0IInv, Line1IInv, ScriptIInv, RestartIInv, StutterIInv
  DEF Next, Step
<1> QED BY <1>1, <1>2, PTL DEF Spec

\* The lines, the choice and the step keep their types.
THEOREM MuxTypeCorrect == Spec => []TypeOK
<1>1. IInv => TypeOK
  BY DEF IInv
<1> QED BY <1>1, MuxInductive, PTL

(***************************************************************************)
(* Whatever was selected, had failed or was restarted before, a script     *)
(* whose own switching did not fail runs on the System Controller, and the *)
(* mux then goes back to the recorded choice.                              *)
(***************************************************************************)
THEOREM ScriptsAreSafe == Spec => [](ScriptOnSC /\ BackToCurrent)
<1>1. IInv => ScriptOnSC /\ BackToCurrent
  BY DEF IInv
<1> QED BY <1>1, MuxInductive, PTL

(***************************************************************************)
(* A setJTAGselect that answers success has driven both lines and recorded *)
(* the choice, and a step that fails a command leaves the choice alone.    *)
(***************************************************************************)
THEOREM SelectIsRecorded == Spec => Recorded
<1>1. IInv => Chosen
  BY DEF IInv
<1>2. [Next]_vars => (ret' = "error" => current' = current)
  <2> SUFFICES ASSUME [Next]_vars, ret' = "error" PROVE current' = current
    OBVIOUS
  <2> QED
    BY DEF Next, Step, Select, Xsdb, Line0, Line1, Script, Restart, Succeeded,
       Failed, vars
<1> QED BY <1>1, <1>2, MuxInductive, PTL DEF Spec, Recorded, FailedKeeps

-----------------------------------------------------------------------------
(* The loop and its handlers.                                              *)

\* The phase the loop is in, and the rule and the handler it came to.
Loop ==
  /\ dpc \in {"wait", "phases", "run"}
  /\ dpc = "phases" => rule = RuleFor(req) /\ pos \in 0 .. Len(PhasesOf(rule))
  /\ dpc = "run" =>
       /\ command = req.command
       /\ rule = RuleFor(req) /\ pos = Len(PhasesOf(rule))
       /\ rule # 0 => Constraints[rule].type = "Complete"

\* No handler runs outside of the loop's call, and never two of them.
Alone ==
  /\ dpc # "run" => pc = "idle" /\ op = "none" /\ gpc = "idle" /\ ppc = "idle"
  /\ gpc # "idle" => pc = "idle" /\ op = "none"
  /\ gpc \in {"idle", "lines"}

-----------------------------------------------------------------------------
(* The rule of a request.                                                  *)

LEMMA RuleMatches ==
  ASSUME NEW r, RuleFor(r) # 0
  PROVE  /\ RuleFor(r) \in DOMAIN Constraints
         /\ Matches(r, Constraints[RuleFor(r)])
<1> DEFINE found ==
      {i \in DOMAIN Constraints : Matches(r, Constraints[i])}
<1>1. found # {}
  BY DEF RuleFor
<1>2. found \in SUBSET Nat
  BY CommandsAssumption
<1>3. \E i \in found : \A j \in found : i <= j
  BY <1>1, <1>2, Smallest
<1>4. RuleFor(r) \in found
  BY <1>1, <1>3 DEF RuleFor
<1> QED BY <1>4

\* The phases of a rule are a sequence; no rule has none.
LEMMA PhasesSeq ==
  ASSUME NEW r
  PROVE  /\ Len(PhasesOf(RuleFor(r))) \in Nat
         /\ DOMAIN PhasesOf(RuleFor(r)) = 1 .. Len(PhasesOf(RuleFor(r)))
<1>1. CASE RuleFor(r) = 0
  BY <1>1, EmptySeq DEF PhasesOf
<1>2. CASE RuleFor(r) # 0
  <2>1. PICK p : p = Constraints[RuleFor(r)].phases /\ \E S : p \in Seq(S)
    BY <1>2, RuleMatches, CommandsAssumption
  <2>2. Len(p) \in Nat /\ DOMAIN p = 1 .. Len(p)
    BY <2>1, LenProperties
  <2> QED BY <1>2, <2>1, <2>2 DEF PhasesOf
<1> QED BY <1>1, <1>2

-----------------------------------------------------------------------------
(* The loop.                                                               *)

LEMMA LoopInv ==
  ASSUME Loop, [CommandsNext]_allvars
  PROVE  Loop'
<1>1. CASE \E r \in Requests : Receive(r)
  <2>1. PICK r \in Requests : Receive(r)
    BY <1>1
  <2>2. CASE Done
    BY <2>2 DEF Done, Loop
  <2>3. CASE dpc' = "phases" /\ req' = r /\ rule' = RuleFor(r) /\ pos' = 0
    BY <2>3, PhasesSeq DEF Loop
  <2> QED BY <2>1, <2>2, <2>3 DEF Receive
<1>2. CASE Phase
  <2>1. CASE Done
    BY <2>1 DEF Done, Loop
  <2>2. CASE pos' = pos + 1 /\ UNCHANGED <<dpc, req, rule, command>>
    <3>1. /\ dpc = "phases" /\ rule = RuleFor(req)
          /\ pos \in 0 .. Len(PhasesOf(rule)) /\ pos < Len(PhasesOf(rule))
      BY <1>2 DEF Phase, Loop
    <3>2. PICK n \in Nat : n = Len(PhasesOf(rule))
      BY <3>1, PhasesSeq
    <3>3. pos + 1 \in 0 .. n
      BY <3>1, <3>2
    <3> QED BY <2>2, <3>1, <3>2, <3>3 DEF Loop
  <2> QED BY <1>2, <2>1, <2>2 DEF Phase
<1>3. CASE Call
  <2>1. CASE Done
    BY <2>1 DEF Done, Loop
  <2>2. CASE /\ ~Terminates /\ dpc' = "run" /\ command' = req.command
             /\ UNCHANGED <<req, rule, pos>>
    <3>1. /\ dpc = "phases" /\ rule = RuleFor(req)
          /\ pos = Len(PhasesOf(rule))
      BY <1>3 DEF Call, Loop
    <3>2. rule # 0 => Constraints[rule].type = "Complete"
      BY <2>2, <3>1, RuleMatches, CommandsAssumption DEF Terminates
    <3> QED BY <2>2, <3>1, <3>2 DEF Loop
  <2> QED BY <1>3, <2>1, <2>2 DEF Call
<1>4. CASE Return \/ RestartAll \/ OutageAll
  BY <1>4 DEF Return, RestartAll, OutageAll, Died, Done, Loop
<1>5. CASE UNCHANGED <<dpc, req, rule, pos, command>>
  BY <1>5 DEF Loop
<1> QED
  BY <1>1, <1>2, <1>3, <1>4, <1>5
  DEF CommandsNext, Work, SwapCards, Measuring, allvars, loopvars

(***************************************************************************)
(* Whatever is requested, fails or is restarted: the handler that runs is  *)
(* that of the request, and all phases of its constraint were passed.      *)
(***************************************************************************)
THEOREM RequestsAreServed == CommandsSpec => []Served
<1>1. CommandsInit => Loop
  BY DEF CommandsInit, Loop
<1>2. Loop => Served
  BY DEF Loop, Served
<1> QED BY <1>1, <1>2, LoopInv, PTL DEF CommandsSpec

-----------------------------------------------------------------------------
(* The JTAG mux and the GPIO lines under the loop.                         *)

GpioInv ==
  /\ level \in [Others -> Levels]
  /\ done \in Nat
  /\ gpc = "lines" =>
       /\ gcall.op \in {"setgpio", "setinputgpio"}
       /\ gcall.target \in GpioLines \cup DOMAIN Groups
       /\ ~Refused(gcall) /\ done < Len(Plan(gcall))

MuxInv == IInv /\ Alone /\ GpioInv

\* What a command does to its lines: a level for each, in their order.
LEMMA PlanType ==
  ASSUME NEW c, c.target \in GpioLines \cup DOMAIN Groups
  PROVE  /\ Len(Plan(c)) \in Nat /\ DOMAIN Plan(c) = 1 .. Len(Plan(c))
         /\ \A i \in DOMAIN Plan(c) :
              /\ Plan(c)[i].line \in GpioLines /\ Plan(c)[i].to \in Levels
              /\ i \in DOMAIN Members(c.target)
              /\ Plan(c)[i].line = Members(c.target)[i]
              /\ Plan(c)[i].to = 1 => c.op = "setgpio"
<1>1. PICK ls \in Seq(GpioLines) : ls = Members(c.target)
  <2>1. CASE IsGroup(c.target)
    BY <2>1, GpioAssumption DEF IsGroup, Members
  <2>2. CASE ~IsGroup(c.target)
    <3>1. c.target \in GpioLines /\ Members(c.target) = <<c.target>>
      BY <2>2 DEF IsGroup, Members
    <3>2. PICK t \in GpioLines : t = c.target
      BY <3>1
    <3>3. <<t>> \in Seq(GpioLines)
      OBVIOUS
    <3> QED BY <3>1, <3>2, <3>3
  <2> QED BY <2>1, <2>2
<1>2. PICK n \in Nat : n = Len(ls) /\ DOMAIN ls = 1 .. n
  BY <1>1, LenProperties
<1>3. \A i \in 1 .. n : ls[i] \in GpioLines
  BY <1>1, <1>2, ElementOfSeq
<1>4. \A i : Bit(c.value, n, i) \in {0, 1}
  BY DEF Bit
<1>5. \A bit \in {0, 1} : For(c.target, bit) \in Levels
  BY DEF For, Levels
<1>6. CASE c.op = "setgpio" /\ Kind(c.target) = "RO"
  <2>1. Plan(c) = <<>>
    BY <1>6 DEF Plan
  <2> QED BY <2>1, EmptySeq
<1>7. CASE ~(c.op = "setgpio" /\ Kind(c.target) = "RO")
  <2>1. PICK p : /\ p = Plan(c)
                 /\ p = [i \in 1 .. n |->
                          [line |-> ls[i],
                           to |-> IF c.op = "setgpio"
                                    THEN For(c.target, Bit(c.value, n, i))
                                    ELSE In]]
    BY <1>1, <1>2, <1>7 DEF Plan
  <2>2. \A i \in 1 .. n : p[i].to \in Levels
    BY <2>1, <1>4, <1>5 DEF Levels
  <2>3. \A i \in 1 .. n : p[i].to = 1 => c.op = "setgpio"
    BY <2>1 DEF In
  <2>4. p \in Seq([line : GpioLines, to : Levels]) /\ Len(p) = n
    BY <2>1, <2>2, <1>3
  <2> QED BY <2>1, <2>2, <2>3, <2>4, <1>1, <1>2, <1>3
<1> QED BY <1>6, <1>7

\* The target that the strings of a request stand for.
LEMMA TargetType ==
  ASSUME NEW c, c \in {"setgpio", "setinputgpio"}, ~Refused(GpioCall(c))
  PROVE  /\ req.target \in DOMAIN Line
         /\ GpioCall(c).target = Line[req.target]
         /\ GpioCall(c).target \in GpioLines \cup DOMAIN Groups
         /\ GpioCall(c).op = c
<1>1. req.target \in DOMAIN Line
  BY DEF GpioCall, Refused, Nothing
<1>2. GpioCall(c).target = Line[req.target] /\ GpioCall(c).op = c
  BY <1>1 DEF GpioCall
<1> QED BY <1>1, <1>2, CommandsAssumption

\* A command leaves the lines alone until its first line.
LEMMA CallGpioInv ==
  ASSUME MuxInv, NEW c, CallGpio(c), pc = "idle", op = "none"
  PROVE  IInv' /\ GpioInv' /\ gpc' \in {"idle", "lines"}
<1>1. /\ UNCHANGED <<lines, level, current, pc, op, goal, failed>>
      /\ ret' \in {"none", "ok", "error"}
      /\ gpc' \in {"idle", "lines"} /\ done' = 0 /\ gcall' = GpioCall(c)
  BY DEF CallGpio, ChangeGPIO, GetGPIO, MuxInv, IInv, TypeOK
<1>2. IInv'
  BY <1>1 DEF MuxInv, IInv, TypeOK, Steps, HalfWay, ScriptOnSC, Chosen,
              BackToCurrent, Pattern
<1>3. GpioInv'
  <2>1. CASE gpc' = "idle"
    BY <1>1, <2>1 DEF MuxInv, GpioInv
  <2>2. CASE gpc' = "lines"
    <3>1. /\ GpioCall(c).op \in {"setgpio", "setinputgpio"}
          /\ ~Refused(GpioCall(c)) /\ Plan(GpioCall(c)) # <<>>
      BY <2>2, <1>1 DEF CallGpio, ChangeGPIO, GetGPIO, MuxInv, Alone
    <3>2. c \in {"setgpio", "setinputgpio"}
      BY <3>1 DEF GpioCall
    <3>3. GpioCall(c).target \in GpioLines \cup DOMAIN Groups
      BY <3>1, <3>2, TargetType
    <3>4. PICK p : p = Plan(GpioCall(c)) /\ p # <<>>
      BY <3>1
    <3>5. Len(p) \in Nat /\ DOMAIN p = 1 .. Len(p)
      BY <3>3, <3>4, PlanType
    <3>6. 0 < Len(p)
      BY <3>4, <3>5
    <3> QED BY <1>1, <3>1, <3>3, <3>4, <3>6 DEF MuxInv, GpioInv
  <2> QED BY <1>1, <2>1, <2>2
<1> QED BY <1>1, <1>2, <1>3

\* The next line of a command, which no script waits for.
LEMMA ChangeLineInv ==
  ASSUME MuxInv, ChangeLine, UNCHANGED <<current, pc, op, goal, failed>>
  PROVE  IInv' /\ GpioInv' /\ gpc' \in {"idle", "lines"}
<1>1. /\ pc = "idle" /\ op = "none" /\ gcall' = gcall
      /\ done \in Nat /\ done < Len(Plan(gcall))
      /\ gcall.target \in GpioLines \cup DOMAIN Groups
      /\ gcall.op \in {"setgpio", "setinputgpio"} /\ ~Refused(gcall)
  BY DEF ChangeLine, MuxInv, Alone, GpioInv
<1>2. PICK next : next = Plan(gcall)[done + 1]
  OBVIOUS
<1>3. next.line \in GpioLines /\ next.to \in Levels
  <2>1. done + 1 \in DOMAIN Plan(gcall)
    BY <1>1, PlanType
  <2> QED BY <1>1, <1>2, <2>1, PlanType
<1>4. /\ lines' \in [{0, 1} -> Levels] /\ level' \in [Others -> Levels]
      /\ done' \in Nat
      /\ gpc' = "lines" => done' < Len(Plan(gcall))
      /\ gpc' \in {"idle", "lines"} /\ ret' \in {"none", "ok", "error"}
  <2>1. lines \in [{0, 1} -> Levels] /\ level \in [Others -> Levels]
        /\ ret \in {"none", "ok", "error"}
    BY DEF MuxInv, IInv, TypeOK, GpioInv
  <2>2. CASE UNCHANGED <<lines, level, done>> /\ gpc' = "idle"
               /\ ret' = "error"
    BY <2>1, <2>2, <1>1
  <2>3. CASE /\ Drive(next.line, next.to) /\ done' = done + 1
             /\ IF done' = Len(Plan(gcall)) THEN gpc' = "idle" /\ ret' = "ok"
                                            ELSE UNCHANGED <<gpc, ret>>
    <3>1. lines' \in [{0, 1} -> Levels] /\ level' \in [Others -> Levels]
      BY <2>1, <2>3, <1>3 DEF Drive, GpioLines
    <3>2. Len(Plan(gcall)) \in Nat
      BY <1>1, PlanType
    <3>3. gpc = "lines"
      BY DEF ChangeLine
    <3> QED BY <2>1, <2>3, <1>1, <3>1, <3>2, <3>3
  <2> QED BY <1>2, <2>2, <2>3 DEF ChangeLine
<1>5. IInv'
  BY <1>1, <1>4
  DEF MuxInv, IInv, TypeOK, Steps, HalfWay, ScriptOnSC, Chosen, BackToCurrent
<1>6. GpioInv'
  BY <1>1, <1>4 DEF GpioInv
<1> QED BY <1>4, <1>5, <1>6

\* A handler begins.
LEMMA CallHandlerInv ==
  ASSUME MuxInv, dpc = "phases", NEW c, CallHandler(c)
  PROVE  /\ IInv' /\ GpioInv' /\ gpc' \in {"idle", "lines"}
         /\ gpc' # "idle" => pc' = "idle" /\ op' = "none"
<1>1. pc = "idle" /\ op = "none" /\ gpc = "idle"
  BY DEF MuxInv, Alone
<1>2. CASE CallGpio(c)
  BY <1>1, <1>2, CallGpioInv DEF CallGpio
<1>3. CASE CallSelect
  <2>1. IInv'
    <3>1. CASE \E s \in Selects : Select(s)
      BY <3>1, BeginIInv DEF MuxInv
    <3>2. CASE ret' = "error" /\ UNCHANGED <<lines, current, pc, op, goal,
                                            failed>>
      BY <1>1, <3>2
      DEF MuxInv, IInv, TypeOK, Steps, HalfWay, ScriptOnSC, Chosen,
          BackToCurrent
    <3> QED BY <1>3, <3>1, <3>2 DEF CallSelect
  <2> QED BY <1>1, <1>3, <2>1 DEF CallSelect, gpiovars, MuxInv, GpioInv
<1>4. CASE CallXsdb
  <2>1. IInv'
    BY <1>4, BeginIInv DEF CallXsdb, MuxInv
  <2> QED BY <1>1, <1>4, <2>1 DEF CallXsdb, gpiovars, MuxInv, GpioInv
<1>5. CASE UNCHANGED <<vars, gpiovars>>
  <2>1. IInv'
    BY <1>5, StutterIInv DEF MuxInv
  <2> QED BY <1>1, <1>5, <2>1 DEF vars, gpiovars, MuxInv, GpioInv
<1> QED
  BY <1>2, <1>3, <1>4, <1>5 DEF CallHandler, CallPower, board

\* The handler in progress.
LEMMA WorkInv ==
  ASSUME MuxInv, Work
  PROVE  MuxInv'
<1>1. dpc' = "run" /\ dpc = "run"
  BY DEF Work, loopvars
<1>2. CASE Step /\ UNCHANGED gpiovars
  <2>1. IInv'
    BY <1>2, Line0IInv, Line1IInv, ScriptIInv DEF MuxInv, Step
  <2>2. pc # "idle"
    BY <1>2 DEF Step, Line0, Line1, Script
  <2>3. gpc' = "idle"
    BY <1>2, <2>2 DEF MuxInv, Alone, gpiovars
  <2> QED BY <1>1, <1>2, <2>1, <2>3 DEF MuxInv, Alone, GpioInv, gpiovars
<1>3. CASE ChangeLine /\ UNCHANGED <<current, pc, op, goal, failed>>
  <2>1. pc = "idle" /\ op = "none"
    BY <1>3 DEF ChangeLine, MuxInv, Alone
  <2> QED BY <1>1, <1>3, <2>1, ChangeLineInv DEF MuxInv, Alone
<1>4. CASE UNCHANGED <<vars, gpiovars>>
  <2>1. IInv'
    BY <1>4, StutterIInv DEF MuxInv
  <2> QED BY <1>1, <1>4, <2>1 DEF vars, gpiovars, MuxInv, Alone, GpioInv
<1> QED BY <1>2, <1>3, <1>4 DEF Work

\* The loop, the world around it, and the end of a handler.
LEMMA AroundInv ==
  ASSUME MuxInv, Return \/ RestartAll \/ OutageAll
  PROVE  MuxInv'
<1>1. dpc' = "wait" /\ gpc' = "idle" /\ ppc' = "idle" /\ done' = 0
      /\ pc' = "idle" /\ op' = "none" /\ ret' = "none" /\ failed' = FALSE
      /\ goal' = "Current"
  BY DEF Return, RestartAll, OutageAll, Died, Done, NoGpioCall, NoCall,
         Restart, Outage, PowerRestart
<1>2. /\ lines' \in [{0, 1} -> Levels] /\ level' \in [Others -> Levels]
      /\ current' \in {Value[s] : s \in Selects}
  BY SelectsAssumption
  DEF Return, RestartAll, OutageAll, Restart, Released, Levels, MuxInv, IInv,
      TypeOK, GpioInv
<1>3. IInv'
  BY <1>1, <1>2
  DEF IInv, TypeOK, Steps, HalfWay, ScriptOnSC, Chosen, BackToCurrent
<1> QED BY <1>1, <1>2, <1>3 DEF MuxInv, Alone, GpioInv

LEMMA MuxNextInv ==
  ASSUME MuxInv, [CommandsNext]_allvars
  PROVE  MuxInv'
<1>1. CASE UNCHANGED <<vars, gpiovars>> /\ (dpc' # "run" => dpc # "run")
             /\ UNCHANGED ppc
  <2>1. IInv'
    BY <1>1, StutterIInv DEF MuxInv
  <2> QED BY <1>1, <2>1 DEF vars, gpiovars, MuxInv, Alone, GpioInv
<1>2. CASE (\E r \in Requests : Receive(r)) \/ Phase \/ SwapCards
  BY <1>1, <1>2 DEF Receive, Phase, SwapCards, board, powervars
<1>3. CASE Call
  <2>1. CASE dpc' = "run" /\ CallHandler(req.command)
    BY <1>3, <2>1, CallHandlerInv DEF Call, MuxInv, Alone
  <2>2. CASE UNCHANGED board
    BY <1>1, <1>3, <2>2 DEF Call, board, powervars
  <2> QED BY <1>3, <2>1, <2>2 DEF Call
<1>4. CASE Measuring \/ UNCHANGED allvars
  BY <1>1, <1>4 DEF Measuring, Measure, allvars, loopvars, board, powervars
<1> QED
  BY <1>2, <1>3, <1>4, WorkInv, AroundInv DEF CommandsNext

LEMMA MuxInitInv ==
  ASSUME CommandsInit
  PROVE  MuxInv
<1>1. IInv
  BY SelectsAssumption
  DEF CommandsInit, Init, IInv, TypeOK, Steps, HalfWay, ScriptOnSC, Chosen,
      BackToCurrent, Levels
<1> QED
  BY <1>1
  DEF CommandsInit, Init, GpioInit, PowerInit, MuxInv, Alone, GpioInv, Levels

(***************************************************************************)
(* What was proved of the mux alone holds beside setgpio, which switches   *)
(* the same lines behind its back, and under the loop of requests: a       *)
(* script runs on the System Controller and the mux goes back.             *)
(***************************************************************************)
THEOREM ScriptsAmongCommands ==
  CommandsSpec => [](ScriptOnSC /\ BackToCurrent)
<1>1. MuxInv => ScriptOnSC /\ BackToCurrent
  BY DEF MuxInv, IInv
<1> QED BY <1>1, MuxInitInv, MuxNextInv, PTL DEF CommandsSpec

(***************************************************************************)
(* A setJTAGselect among other requests records the choice it answers for, *)
(* and no step of any request that fails changes the choice.               *)
(***************************************************************************)
THEOREM RecordedAmongCommands == CommandsSpec => Recorded
<1>1. MuxInv => Chosen
  BY DEF MuxInv, IInv
<1>2. [CommandsNext]_allvars =>
        [ret' = "error" => current' = current]_vars
  <2> SUFFICES ASSUME [CommandsNext]_allvars, ret' = "error"
               PROVE  current' = current
    OBVIOUS
  <2>1. CASE CommandsNext
    BY <2>1
    DEF CommandsNext, Receive, Phase, Call, CallHandler, CallGpio, CallSelect,
        CallXsdb, CallPower, Work, Return, SwapCards, Measuring, RestartAll,
        OutageAll, Restart, Select, Xsdb, Step, Line0, Line1, Script,
        Succeeded, Failed, board, vars
  <2>2. CASE UNCHANGED allvars
    BY <2>2 DEF allvars, board, vars
  <2> QED BY <2>1, <2>2
<1> QED
  BY <1>1, <1>2, MuxInitInv, MuxNextInv, PTL
  DEF CommandsSpec, Recorded, FailedKeeps

\* The lines, the board's other lines and the step between them.
THEOREM LinesAmongCommands == CommandsSpec => [](TypeOK /\ GpioTypeOK)
<1>1. MuxInv => TypeOK /\ GpioTypeOK
  BY DEF MuxInv, IInv, Alone, GpioInv, GpioTypeOK
<1> QED BY <1>1, MuxInitInv, MuxNextInv, PTL DEF CommandsSpec

-----------------------------------------------------------------------------
(* What a command does to a group of lines.                                *)

\* The command is one of GPIO_Ops while it runs, and forgotten after it.
Owned ==
  /\ dpc # "run" => gcall.op = "none"
  /\ gcall.op # "none" => pc = "idle"

\* The lines dealt with so far have their levels, from the first one on.
SoFar ==
  gcall.op \in {"setgpio", "setinputgpio"} =>
    /\ gpc = "idle" /\ ret = "ok" => done = Len(Plan(gcall))
    /\ done > 0 => gcall.target \in GpioLines \cup DOMAIN Groups
    /\ \A i \in 1 .. done :
         /\ i \in DOMAIN Plan(gcall)
         /\ Level(Plan(gcall)[i].line) = Plan(gcall)[i].to

DrivenInv == Owned /\ SoFar

\* No two places of a plan are the same line.
LEMMA PlanDistinct ==
  ASSUME NEW c, c.target \in GpioLines \cup DOMAIN Groups,
         NEW i \in DOMAIN Plan(c), NEW j \in DOMAIN Plan(c), i # j
  PROVE  Plan(c)[i].line # Plan(c)[j].line
<1>1. /\ i \in DOMAIN Members(c.target) /\ j \in DOMAIN Members(c.target)
      /\ Plan(c)[i].line = Members(c.target)[i]
      /\ Plan(c)[j].line = Members(c.target)[j]
  BY PlanType
<1>2. CASE IsGroup(c.target)
  BY <1>1, <1>2, GpioAssumption DEF IsGroup, Members
<1>3. CASE ~IsGroup(c.target)
  <2>1. Members(c.target) = <<c.target>>
    BY <1>3 DEF Members
  <2>2. i = 1 /\ j = 1
    BY <1>1, <2>1
  <2> QED BY <2>2
<1> QED BY <1>2, <1>3

\* Driving a line leaves the levels of all the others.
LEMMA DriveOne ==
  ASSUME level \in [Others -> Levels], lines \in [{0, 1} -> Levels],
         NEW l \in GpioLines, NEW to \in Levels, Drive(l, to)
  PROVE  /\ Level(l)' = to
         /\ \A k \in GpioLines \ {l} : Level(k)' = Level(k)
BY DEF Drive, Level, GpioLines

\* The next line gets its level, and those before it keep theirs.
LEMMA ChangeLineDriven ==
  ASSUME MuxInv, DrivenInv, ChangeLine
  PROVE  SoFar'
<1>1. /\ gcall.op \in {"setgpio", "setinputgpio"} /\ gcall' = gcall
      /\ gcall.target \in GpioLines \cup DOMAIN Groups
      /\ done \in Nat /\ done < Len(Plan(gcall))
      /\ level \in [Others -> Levels] /\ lines \in [{0, 1} -> Levels]
  BY DEF ChangeLine, MuxInv, GpioInv, IInv, TypeOK
<1>2. PICK n \in Nat : n = Len(Plan(gcall)) /\ DOMAIN Plan(gcall) = 1 .. n
  BY <1>1, PlanType
<1>3. done + 1 \in DOMAIN Plan(gcall)
  BY <1>1, <1>2
<1>4. ASSUME NEW i \in 1 .. done
      PROVE  /\ i \in DOMAIN Plan(gcall) /\ i # done + 1
             /\ Level(Plan(gcall)[i].line) = Plan(gcall)[i].to
  BY <1>1 DEF DrivenInv, SoFar
<1>5. CASE UNCHANGED <<lines, level, done>> /\ gpc' = "idle"
             /\ ret' = "error"
  <2>1. \A l : Level(l)' = Level(l)
    BY <1>5 DEF Level
  <2> QED BY <1>1, <1>4, <1>5, <2>1 DEF SoFar
<1>6. CASE /\ Drive(Plan(gcall)[done + 1].line, Plan(gcall)[done + 1].to)
           /\ done' = done + 1
           /\ IF done' = Len(Plan(gcall)) THEN gpc' = "idle" /\ ret' = "ok"
                                          ELSE UNCHANGED <<gpc, ret>>
  <2>1. PICK plan, next : /\ plan = Plan(gcall) /\ plan = Plan(gcall')
                          /\ next = plan[done + 1]
    BY <1>1
  <2>2. next.line \in GpioLines /\ next.to \in Levels
    BY <1>1, <1>3, <2>1, PlanType
  <2>3. /\ Level(next.line)' = next.to
        /\ \A k \in GpioLines \ {next.line} : Level(k)' = Level(k)
    BY <1>1, <1>6, <2>1, <2>2, DriveOne
  <2>4. ASSUME NEW i \in 1 .. done'
        PROVE  i \in DOMAIN plan /\ Level(plan[i].line)' = plan[i].to
    <3>1. CASE i = done + 1
      BY <3>1, <1>3, <2>1, <2>3
    <3>2. CASE i \in 1 .. done
      <4>1. /\ plan[i].line # next.line /\ plan[i].line \in GpioLines
            /\ i \in DOMAIN plan /\ Level(plan[i].line) = plan[i].to
        BY <1>1, <1>3, <1>4, <2>1, <3>2, PlanDistinct, PlanType
      <4>2. PICK k \in GpioLines \ {next.line} : k = plan[i].line
        BY <4>1
      <4>3. Level(k)' = Level(k)
        BY <2>3
      <4> QED BY <4>1, <4>2, <4>3
    <3> QED BY <1>1, <1>6, <3>1, <3>2
  <2>5. gpc' = "idle" => done' = Len(Plan(gcall))
    BY <1>6 DEF ChangeLine
  <2> QED BY <1>1, <2>1, <2>4, <2>5 DEF SoFar
<1> QED BY <1>5, <1>6 DEF ChangeLine

\* A command begins with no line done, and one without lines is complete.
LEMMA CallDriven ==
  ASSUME MuxInv, DrivenInv, dpc = "phases", dpc' = "run",
         NEW c, CallHandler(c)
  PROVE  DrivenInv'
<1>1. gcall.op = "none" /\ pc = "idle" /\ gpc = "idle"
  BY DEF DrivenInv, Owned, MuxInv, Alone
<1>2. CASE UNCHANGED gpiovars
  BY <1>1, <1>2 DEF gpiovars, DrivenInv, Owned, SoFar
<1>3. CASE CallGpio(c)
  <2>1. done' = 0 /\ pc' = "idle"
    BY <1>1, <1>3 DEF CallGpio, ChangeGPIO, GetGPIO
  <2>2. gcall'.op \in {"setgpio", "setinputgpio"} /\ gpc' = "idle"
          /\ ret' = "ok" => Plan(gcall') = <<>>
    BY <1>3 DEF CallGpio, ChangeGPIO, GetGPIO
  <2>3. Len(<<>>) = 0
    BY EmptySeq
  <2>4. \A i \in 1 .. done' : FALSE
    BY <2>1
  <2> QED BY <2>1, <2>2, <2>3, <2>4 DEF DrivenInv, Owned, SoFar
<1> QED
  BY <1>2, <1>3 DEF CallHandler, CallSelect, CallXsdb, CallPower, board

LEMMA DrivenNextInv ==
  ASSUME MuxInv, DrivenInv, [CommandsNext]_allvars
  PROVE  DrivenInv'
<1>1. CASE UNCHANGED <<vars, gpiovars>> /\ (dpc' # "run" => dpc # "run")
  <2>1. UNCHANGED <<lines, pc, ret, level, gpc, gcall, done>>
    BY <1>1 DEF vars, gpiovars
  <2>2. \A l : Level(l)' = Level(l)
    BY <2>1 DEF Level
  <2> QED BY <1>1, <2>1, <2>2 DEF DrivenInv, Owned, SoFar
<1>2. CASE (\E r \in Requests : Receive(r)) \/ Phase \/ SwapCards
  BY <1>1, <1>2 DEF Receive, Phase, SwapCards, board
<1>3. CASE Call
  <2>1. CASE dpc' = "run" /\ CallHandler(req.command)
    BY <1>3, <2>1, CallDriven DEF Call
  <2>2. CASE UNCHANGED board
    BY <1>1, <1>3, <2>2 DEF Call, board
  <2> QED BY <1>3, <2>1, <2>2 DEF Call
<1>4. CASE Work
  <2>1. dpc = "run" /\ dpc' = "run"
    BY <1>4 DEF Work, loopvars
  <2>2. CASE Step /\ UNCHANGED gpiovars
    <3>1. pc # "idle"
      BY <2>2 DEF Step, Line0, Line1, Script
    <3> QED BY <2>1, <2>2, <3>1 DEF gpiovars, DrivenInv, Owned, SoFar
  <2>3. CASE ChangeLine /\ UNCHANGED pc
    BY <2>1, <2>3, ChangeLineDriven DEF ChangeLine, DrivenInv, Owned
  <2>4. CASE UNCHANGED <<vars, gpiovars>>
    BY <1>1, <2>1, <2>4
  <2> QED BY <1>4, <2>2, <2>3, <2>4 DEF Work
<1>5. CASE Return \/ RestartAll \/ OutageAll
  <2>1. gcall'.op = "none"
    BY <1>5 DEF Return, RestartAll, OutageAll, Died, NoGpioCall
  <2> QED BY <2>1 DEF DrivenInv, Owned, SoFar
<1>6. CASE Measuring \/ UNCHANGED allvars
  BY <1>1, <1>6 DEF Measuring, allvars, loopvars, board
<1> QED BY <1>2, <1>3, <1>4, <1>5, <1>6 DEF CommandsNext

-----------------------------------------------------------------------------
(* What getgpio shows after a setgpio.                                     *)

\* Dividing with a remainder has one result only.
LEMMA DivMod ==
  ASSUME NEW m \in Nat \ {0}, NEW s \in Int, NEW t \in 0 .. m - 1
  PROVE  (m * s + t) \div m = s /\ (m * s + t) % m = t
<1>1. PICK a \in Int : a = m * s + t
  OBVIOUS
<1>2. PICK q \in Int, r \in 0 .. m - 1 :
        q = a \div m /\ r = a % m /\ a = m * q + r
  BY <1>1
<1>3. m * (q - s) = t - r
  BY <1>1, <1>2
<1>4. PICK d \in Int : d = q - s
  OBVIOUS
<1>5. ~(d >= 1)
  BY <1>3, <1>4
<1>6. ~(d <= -1)
  BY <1>3, <1>4
<1>7. q = s
  BY <1>4, <1>5, <1>6
<1> QED BY <1>1, <1>2, <1>3, <1>7

\* Powers of two, by the number of subsets.
LEMMA TwoTimes ==
  ASSUME NEW n \in Nat
  PROVE  2^(n + 1) = 2 * 2^n /\ 2^n \in Nat \ {0}
<1> DEFINE A == SUBSET (1 .. n)
           B == {S \cup {n + 1} : S \in A}
<1>1. IsFiniteSet(1 .. n) /\ Cardinality(1 .. n) = n
  BY FS_Interval
<1>2. IsFiniteSet(1 .. n + 1) /\ Cardinality(1 .. n + 1) = n + 1
  BY FS_Interval
<1>3. IsFiniteSet(A) /\ Cardinality(A) = 2^n
  BY <1>1, FS_SUBSET
<1>4. Cardinality(SUBSET (1 .. n + 1)) = 2^(n + 1)
  BY <1>2, FS_SUBSET
<1>5. IsFiniteSet(B) /\ Cardinality(B) = Cardinality(A)
  <2> DEFINE f == [S \in A |-> S \cup {n + 1}]
  <2>1. \A S \in A : n + 1 \notin S
    OBVIOUS
  <2>2. \A S, T \in A : f[S] = f[T] => S = T
    BY <2>1
  <2>3. f \in [A -> B] /\ \A U \in B : \E S \in A : f[S] = U
    OBVIOUS
  <2>4. f \in Bijection(A, B)
    BY <2>2, <2>3 DEF Bijection, Injection, Surjection, IsInjective
  <2>5. ExistsBijection(A, B)
    BY <2>4 DEF ExistsBijection
  <2> QED BY <1>3, <2>5, FS_Bijection
<1>6. A \cup B = SUBSET (1 .. n + 1)
  <2>1. \A S \in A : S \in SUBSET (1 .. n + 1)
    OBVIOUS
  <2>2. \A S \in A : S \cup {n + 1} \in SUBSET (1 .. n + 1)
    OBVIOUS
  <2>3. ASSUME NEW U \in SUBSET (1 .. n + 1) PROVE U \in A \cup B
    <3>1. CASE n + 1 \notin U
      BY <3>1
    <3>2. CASE n + 1 \in U
      <4>1. PICK S : S = U \ {n + 1}
        OBVIOUS
      <4>2. S \in A
        BY <4>1
      <4>3. U = S \cup {n + 1}
        BY <3>2, <4>1
      <4>4. U \in B
        BY <4>2, <4>3
      <4> QED BY <4>4
    <3> QED BY <3>1, <3>2
  <2>4. \A S \in B : S \in SUBSET (1 .. n + 1)
    BY <2>2
  <2> HIDE DEF A, B
  <2> QED BY <2>1, <2>3, <2>4
<1>7. A \cap B = {}
  <2>1. \A S \in A : n + 1 \notin S
    OBVIOUS
  <2>2. \A S \in B : n + 1 \in S
    OBVIOUS
  <2> QED BY <2>1, <2>2
<1>8. 2^n \in Nat /\ 2^n # 0
  <2>1. {} \in A
    OBVIOUS
  <2>2. A # {}
    BY <2>1
  <2> HIDE DEF A
  <2>3. Cardinality(A) \in Nat /\ Cardinality(A) # 0
    BY <1>3, <2>2, FS_CardinalityType, FS_EmptySet
  <2> QED BY <1>3, <2>3
<1>9. Cardinality(A \cap B) = 0
  BY <1>7, FS_EmptySet
<1> HIDE DEF A, B
<1>10. Cardinality(A \cup B) = Cardinality(A) + Cardinality(B)
  BY <1>3, <1>5, <1>8, <1>9, FS_Union
<1>11. PICK x, y : x = 2^(n + 1) /\ y = 2^n
  OBVIOUS
<1>12. x = y + y /\ y \in Nat \ {0}
  BY <1>3, <1>4, <1>5, <1>6, <1>8, <1>10, <1>11
<1>13. x = 2 * y
  BY <1>12
<1> QED BY <1>11, <1>12, <1>13

\* One more bit of a number, from the highest.
LEMMA OneMoreBit ==
  ASSUME NEW v \in Nat, NEW p \in Nat \ {0}, NEW w \in Nat \ {0}
  PROVE  (v \div p) % (2 * w) =
           2 * ((v \div (2 * p)) % w) + ((v \div p) % 2)
<1>1. PICK q \in Nat, r \in 0 .. p - 1 : q = v \div p /\ v = p * q + r
  <2>1. v \div p \in Nat /\ v % p \in 0 .. p - 1
        /\ v = p * (v \div p) + (v % p)
    OBVIOUS
  <2> QED BY <2>1
<1>2. PICK s \in Nat, b \in 0 .. 1 : b = q % 2 /\ q = 2 * s + b
  <2>1. q \div 2 \in Nat /\ q % 2 \in 0 .. 1 /\ q = 2 * (q \div 2) + (q % 2)
    OBVIOUS
  <2> QED BY <2>1
<1>3. PICK m \in Nat \ {0}, t \in Nat : m = 2 * p /\ t = p * b + r
  <2>1. p * b \in Nat
    BY <1>2
  <2> QED BY <2>1
<1>4. v = m * s + t /\ t <= m - 1
  <2>1. b = 0 \/ b = 1
    OBVIOUS
  <2>2. p * q = p * (2 * s) + p * b
    BY <1>2
  <2>3. p * (2 * s) = m * s
    BY <1>3
  <2>4. p * b <= p
    BY <2>1
  <2> QED BY <1>1, <1>3, <2>2, <2>3, <2>4
<1>5. v \div m = s
  <2>1. s \in Int /\ t \in 0 .. m - 1
    BY <1>4
  <2> QED BY <1>4, <2>1, DivMod
<1>6. PICK a \in Nat, c \in 0 .. w - 1 : c = s % w /\ s = w * a + c
  <2>1. s \div w \in Nat /\ s % w \in 0 .. w - 1
        /\ s = w * (s \div w) + (s % w)
    OBVIOUS
  <2> QED BY <2>1
<1>7. PICK h \in Nat \ {0} : h = 2 * w
  OBVIOUS
<1>8. q = h * a + (2 * c + b) /\ 2 * c + b \in 0 .. h - 1
  <2>1. PICK x \in Nat : x = w * a
    OBVIOUS
  <2>2. h * a = 2 * x
    BY <1>7, <2>1
  <2>3. s = x + c
    BY <1>6, <2>1
  <2>4. q = 2 * x + (2 * c + b)
    BY <1>2, <2>3
  <2>5. 2 * c + b \in 0 .. h - 1
    BY <1>7
  <2> QED BY <2>2, <2>4, <2>5
<1>9. q % h = 2 * c + b
  <2>1. PICK t1 \in 0 .. h - 1 : t1 = 2 * c + b
    BY <1>8
  <2>2. (h * a + t1) % h = t1
    BY DivMod
  <2> QED BY <1>8, <2>1, <2>2
<1> QED BY <1>1, <1>2, <1>3, <1>5, <1>6, <1>7, <1>9

\* Bits in the order of the loops make up the number again.
LEMMA ShownValue ==
  ASSUME NEW t, NEW n \in Nat, Len(Members(t)) = n, NEW v \in Nat,
         \A i \in 1 .. n : Level(Members(t)[i]) = Bit(v, n, i)
  PROVE  Shown(t) = v % 2^n
<1> DEFINE Next1(h, i) == IF i = 0 THEN 0
                          ELSE 2 * h[i - 1] + Level(Members(t)[i])
           Adds(h) == h = [i \in 0 .. n |-> Next1(h, i)]
           g == [i \in 0 .. n |-> (v \div 2^(n - i)) % 2^i]
<1>1. g[0] = 0 /\ g[n] = v % 2^n
  <2>1. \A x \in Int : x % 1 = 0 /\ x \div 1 = x
    OBVIOUS
  <2>2. 2^0 = 1 /\ n - n = 0
    OBVIOUS
  <2>3. 2^n \in Nat \ {0} /\ v \div 2^n \in Int
    BY TwoTimes
  <2>4. g[0] = (v \div 2^n) % 2^0 /\ g[n] = (v \div 2^0) % 2^n
    OBVIOUS
  <2> QED BY <2>1, <2>2, <2>3, <2>4
<1>2. ASSUME NEW k \in Nat, k < n
      PROVE  g[k + 1] = 2 * g[k] + Level(Members(t)[k + 1])
  <2>1. PICK j \in Nat : n - (k + 1) = j /\ n - k = j + 1
    BY <1>2
  <2>2. PICK p \in Nat \ {0} : p = 2^j /\ 2^(n - k) = 2 * p
    BY <2>1, TwoTimes
  <2>3. PICK w \in Nat \ {0} : w = 2^k /\ 2^(k + 1) = 2 * w
    BY TwoTimes
  <2>4. g[k] = (v \div (2 * p)) % w /\ g[k + 1] = (v \div p) % (2 * w)
    <3>1. k \in 0 .. n /\ k + 1 \in 0 .. n
      BY <1>2
    <3>2. g[k] = (v \div 2^(n - k)) % 2^k
      BY <3>1
    <3>3. g[k + 1] = (v \div 2^(n - (k + 1))) % 2^(k + 1)
      BY <3>1
    <3>4. g[k + 1] = (v \div 2^j) % 2^(k + 1)
      BY <2>1, <3>3
    <3> HIDE DEF g
    <3> QED BY <2>2, <2>3, <3>2, <3>4
  <2>5. Level(Members(t)[k + 1]) = (v \div p) % 2
    <3>1. Level(Members(t)[k + 1]) = Bit(v, n, k + 1)
      BY <1>2
    <3>2. (v \div p) % 2 \in {0, 1}
      OBVIOUS
    <3> QED BY <2>1, <2>2, <3>1, <3>2 DEF Bit
  <2>6. (v \div p) % (2 * w) = 2 * ((v \div (2 * p)) % w) + ((v \div p) % 2)
    BY OneMoreBit
  <2> HIDE DEF g
  <2> QED BY <2>4, <2>5, <2>6
<1> HIDE DEF g
<1>3. \A i \in 0 .. n : g[i] = Next1(g, i)
  <2>1. ASSUME NEW i \in 0 .. n, i # 0 PROVE g[i] = Next1(g, i)
    <3>1. PICK k \in Nat : i = k + 1 /\ k = i - 1 /\ k < n
      BY <2>1
    <3> QED BY <1>2, <2>1, <3>1
  <2> QED BY <1>1, <2>1
<1>4. Adds(g)
  <2>1. g = [i \in 0 .. n |-> g[i]]
    BY DEF g
  <2> HIDE DEF Next1
  <2> QED BY <1>3, <2>1
<1>5. PICK h : Adds(h) /\ Shown(t) = h[n]
  BY <1>4, Zenon DEF Shown
<1>6. \A i \in 0 .. n : h[i] = Next1(h, i)
  <2> HIDE DEF Next1
  <2> QED BY <1>5
<1> DEFINE Bad == {i \in Nat : i <= n /\ h[i] # g[i]}
<1>7. Bad = {}
  <2> SUFFICES ASSUME Bad # {} PROVE FALSE
    OBVIOUS
  <2>1. PICK m \in Bad : \A i \in Bad : m <= i
    BY Smallest
  <2>2. m \in 0 .. n /\ h[m] # g[m]
    OBVIOUS
  <2>3. m # 0
    BY <1>1, <1>6, <2>2
  <2>4. PICK k \in Nat : m = k + 1 /\ k = m - 1 /\ k \in 0 .. n
    BY <2>2, <2>3
  <2>5. h[k] = g[k]
    BY <2>1, <2>4
  <2> QED BY <1>3, <1>6, <2>2, <2>3, <2>4, <2>5
<1>8. h[n] = g[n]
  BY <1>7
<1> QED BY <1>1, <1>5, <1>8

\* A setgpio that succeeds, or is on its way, has a number and a target.
Asked ==
  gcall.op = "setgpio" /\ (gpc = "lines" \/ ret = "ok") =>
    /\ gcall.value \in Nat
    /\ gcall.target \in GpioLines \cup DOMAIN Groups

LEMMA CallAsked ==
  ASSUME NEW c, CallGpio(c)
  PROVE  Asked'
<1>1. CASE ~(gcall'.op = "setgpio" /\ (gpc' = "lines" \/ ret' = "ok"))
  BY <1>1 DEF Asked
<1>2. CASE gcall'.op = "setgpio" /\ (gpc' = "lines" \/ ret' = "ok")
  <2>1. gcall' = GpioCall(c) /\ ~Refused(GpioCall(c)) /\ c = "setgpio"
    BY <1>2 DEF CallGpio, ChangeGPIO, GetGPIO, GpioCall
  <2>2. GpioCall(c).target \in GpioLines \cup DOMAIN Groups
    BY <2>1, TargetType
  <2>3. GpioCall(c).value \in Nat
    <3>1. GpioCall(c).value # Nothing /\ GpioCall(c).op = "setgpio"
      BY <2>1, Zenon DEF Refused, GpioCall
    <3> QED BY <3>1, CommandsAssumption DEF GpioCall
  <2> QED BY <2>1, <2>2, <2>3 DEF Asked
<1> QED BY <1>1, <1>2

LEMMA AskedInv ==
  ASSUME DrivenInv, Asked, [CommandsNext]_allvars
  PROVE  Asked'
<1>1. CASE UNCHANGED <<gcall, gpc, ret>>
  BY <1>1 DEF Asked
<1>2. CASE gcall'.op # "setgpio"
  BY <1>2 DEF Asked
<1>3. CASE (\E r \in Requests : Receive(r)) \/ Phase \/ SwapCards
  BY <1>1, <1>3 DEF Receive, Phase, SwapCards, board, vars, gpiovars
<1>4. CASE Call
  <2>1. CASE \E c : CallGpio(c)
    BY <2>1, CallAsked
  <2>2. CASE UNCHANGED gpiovars
    <3>1. dpc # "run"
      BY <1>4 DEF Call
    <3> QED BY <1>2, <2>2, <3>1 DEF gpiovars, DrivenInv, Owned
  <2> QED BY <1>4, <2>1, <2>2
          DEF Call, CallHandler, CallSelect, CallXsdb, CallPower, board
<1>5. CASE Work
  <2>1. CASE Step /\ UNCHANGED gpiovars
    <3>1. pc # "idle"
      BY <2>1 DEF Step, Line0, Line1, Script
    <3> QED BY <1>2, <2>1, <3>1 DEF gpiovars, DrivenInv, Owned
  <2>2. CASE ChangeLine
    BY <2>2 DEF ChangeLine, Asked
  <2>3. CASE UNCHANGED <<vars, gpiovars>>
    BY <1>1, <2>3 DEF vars, gpiovars
  <2> QED BY <1>5, <2>1, <2>2, <2>3 DEF Work
<1>6. CASE Return \/ RestartAll \/ OutageAll
  <2>1. gcall'.op = "none"
    BY <1>6 DEF Return, RestartAll, OutageAll, Died, NoGpioCall
  <2> QED BY <1>2, <2>1
<1>7. CASE Measuring \/ UNCHANGED allvars
  BY <1>1, <1>7 DEF Measuring, allvars, loopvars, board, vars, gpiovars
<1> QED BY <1>3, <1>4, <1>5, <1>6, <1>7 DEF CommandsNext

\* The levels of the lines are the bits of the number that was asked for.
LEMMA DrivenShows ==
  ASSUME DrivenInv, Asked
  PROVE  ShownBack
<1> SUFFICES ASSUME gpc = "idle", gcall.op = "setgpio", ret = "ok",
                    Kind(gcall.target) = "RW"
             PROVE  Shown(gcall.target)
                      = gcall.value % 2^Len(Members(gcall.target))
  BY DEF ShownBack
<1>1. /\ gcall.value \in Nat
      /\ gcall.target \in GpioLines \cup DOMAIN Groups
      /\ done = Len(Plan(gcall))
      /\ \A i \in 1 .. done : i \in DOMAIN Plan(gcall)
           /\ Level(Plan(gcall)[i].line) = Plan(gcall)[i].to
  BY DEF Asked, DrivenInv, SoFar
<1>2. PICK t, v, ls, n, p :
        /\ t = gcall.target /\ v = gcall.value /\ ls = Members(t)
        /\ n = Len(ls) /\ p = Plan(gcall)
  OBVIOUS
<1>3. n \in Nat
  <2>1. CASE IsGroup(t)
    BY <1>2, <2>1, GpioAssumption, LenProperties DEF IsGroup, Members
  <2>2. CASE ~IsGroup(t)
    BY <1>2, <2>2 DEF Members
  <2> QED BY <2>1, <2>2
<1>4. p = [i \in 1 .. n |-> [line |-> ls[i],
                             to |-> For(t, Bit(v, n, i))]]
  BY <1>2 DEF Plan
<1>5. Len(p) = n
  BY <1>3, <1>4
<1>6. ASSUME NEW i \in 1 .. n
      PROVE  Level(Members(t)[i]) = Bit(v, n, i)
  <2>1. p[i].line = ls[i] /\ p[i].to = For(t, Bit(v, n, i))
    BY <1>4
  <2>2. For(t, Bit(v, n, i)) = Bit(v, n, i)
    BY <1>2 DEF For
  <2>3. Level(p[i].line) = p[i].to
    BY <1>1, <1>2, <1>5
  <2> QED BY <1>2, <2>1, <2>2, <2>3
<1>7. Len(Members(t)) = n /\ v \in Nat
  BY <1>1, <1>2
<1>8. Shown(t) = v % 2^n
  BY <1>3, <1>6, <1>7, ShownValue
<1> QED BY <1>2, <1>8

(***************************************************************************)
(* What a setgpio that succeeds has asked for is what getgpio shows, for   *)
(* groups of any length and any number: the three loops of GPIO_Ops agree  *)
(* on the order of the lines, and no line is changed after its turn.       *)
(***************************************************************************)
THEOREM GroupsAreWhole == CommandsSpec => []Whole
<1>1. CommandsInit => Asked
  BY DEF CommandsInit, GpioInit, Asked
<1>2. DrivenInv /\ Asked => ShownBack
  BY DrivenShows
<1>3. CommandsInit => DrivenInv
  BY DEF CommandsInit, GpioInit, DrivenInv, Owned, SoFar
<1>4. DrivenInv /\ Asked => Whole
  BY <1>2 DEF DrivenInv, SoFar, Driven, Whole
<1> QED
  BY <1>1, <1>3, <1>4, MuxInitInv, MuxNextInv, DrivenNextInv, AskedInv, PTL
  DEF CommandsSpec

-----------------------------------------------------------------------------
(* The sensors under the loop.                                             *)

LEMMA PowerAmongInv ==
  ASSUME PowerInv, [CommandsNext]_allvars
  PROVE  PowerInv'
<1>1. CASE UNCHANGED powervars
  BY <1>1, PowerStutterInv
<1>2. CASE (\E r \in Requests : Receive(r)) \/ Phase \/ SwapCards
  BY <1>1, <1>2 DEF Receive, Phase, SwapCards, board
<1>3. CASE Call
  <2>1. CASE UNCHANGED powervars
    BY <2>1, <1>1
  <2>2. CASE \E c : StartPower(c)
    BY <2>2, StartPowerInv
  <2> QED
    BY <1>3, <2>1, <2>2
    DEF Call, CallHandler, CallGpio, CallSelect, CallXsdb, CallPower, board
<1>4. CASE Work
  BY <1>1, <1>4, PowerStepInv DEF Work
<1>5. CASE Return
  <2>1. NoCall /\ UNCHANGED <<rails, cal, conv>>
    BY <1>5 DEF Return
  <2> QED BY <2>1, NoCallInv DEF PowerInv, PowerTyped
<1>6. CASE Measuring
  BY <1>6, MeasureInv DEF Measuring
<1>7. CASE RestartAll \/ OutageAll
  BY <1>7, PowerRestartInv DEF RestartAll, OutageAll
<1>8. CASE UNCHANGED allvars
  BY <1>1, <1>8 DEF allvars, board
<1> QED
  BY <1>2, <1>3, <1>4, <1>5, <1>6, <1>7, <1>8 DEF CommandsNext

(***************************************************************************)
(* Between requests of all other kinds, too, the powers are scaled for the *)
(* calibration they were measured with, and a domain's are all added up.   *)
(***************************************************************************)
THEOREM MeasuredAmongCommands == Unambiguous /\ CommandsSpec => []Measured
<1> DEFINE Inv == Unambiguous /\ PowerInv
<1>1. Unambiguous /\ CommandsInit => Inv
  BY PowerInitInv DEF CommandsInit
<1>2. Inv /\ [CommandsNext]_allvars => Inv'
  BY PowerAmongInv DEF Unambiguous, Found
<1>3. Inv => Measured
  BY InvMeasured DEF Measured
<1> HIDE DEF Inv
<1> QED BY <1>1, <1>2, <1>3, PTL DEF CommandsSpec

\* No power command among the others needs unambiguous names for that.
THEOREM ScaledAmongCommands == CommandsSpec => [](PowerTypeOK /\ Scaled)
<1>1. CommandsInit => PowerInv
  BY PowerInitInv DEF CommandsInit
<1>2. PowerInv => PowerTypeOK /\ Scaled
  BY InvTyped, InvMeasured
<1> QED BY <1>1, <1>2, PowerAmongInv, PTL DEF CommandsSpec

-----------------------------------------------------------------------------
(* The types of the whole.                                                 *)

LoopTyped ==
  /\ dpc = "wait" => rule = 0 /\ pos = 0
  /\ command \in DOMAIN Table \cup {NoArg}
  /\ passed \subseteq PowerUpPhases

LEMMA LoopTypedInv ==
  ASSUME LoopTyped, [CommandsNext]_allvars
  PROVE  LoopTyped'
<1>1. CASE UNCHANGED <<dpc, rule, pos, command, passed>>
  BY <1>1 DEF LoopTyped
<1>2. CASE (\E r \in Requests : Receive(r)) \/ Phase
  BY <1>2 DEF Receive, Phase, Done, LoopTyped
<1>3. CASE Call
  BY <1>3 DEF Call, Done, LoopTyped
<1>4. CASE Return \/ RestartAll \/ OutageAll
  BY <1>4 DEF Return, RestartAll, OutageAll, Died, Done, LoopTyped
<1>5. CASE SwapCards
  BY <1>5 DEF SwapCards, LoopTyped
<1> QED
  BY <1>1, <1>2, <1>3, <1>4, <1>5
  DEF CommandsNext, Work, Measuring, allvars, loopvars

(***************************************************************************)
(* The loop, the mux, the lines and the sensors keep their types for any   *)
(* table, constraints and requests; between requests no handler is left in *)
(* the middle of its work.                                                 *)
(***************************************************************************)
THEOREM CommandsTypeCorrect == CommandsSpec => []CommandsTypeOK
<1>1. CommandsInit => Loop /\ LoopTyped /\ PowerInv
  BY PowerInitInv DEF CommandsInit, Loop, LoopTyped
<1>2. Loop /\ LoopTyped /\ MuxInv /\ PowerInv => CommandsTypeOK
  <2> SUFFICES ASSUME Loop, LoopTyped, MuxInv, PowerInv
               PROVE  CommandsTypeOK
    OBVIOUS
  <2>1. TypeOK /\ GpioTypeOK
    BY DEF MuxInv, IInv, Alone, GpioInv, GpioTypeOK
  <2>2. PowerTypeOK
    BY InvTyped
  <2>3. PICK n \in Nat : n = Len(Constraints) /\ DOMAIN Constraints = 1 .. n
    BY CommandsAssumption, LenProperties
  <2>4. PICK m \in Nat : m = Len(PhasesOf(RuleFor(req)))
    BY PhasesSeq
  <2>5. Len(PhasesOf(0)) = 0
    BY EmptySeq DEF PhasesOf
  <2>6. rule \in 0 .. n /\ pos \in 0 .. Len(PhasesOf(rule))
    <3>1. CASE dpc = "wait"
      BY <3>1, <2>3, <2>5 DEF LoopTyped
    <3>2. CASE dpc \in {"phases", "run"}
      <4>1. rule = RuleFor(req) /\ pos \in 0 .. m
        BY <3>2, <2>4 DEF Loop
      <4>2. rule # 0 => rule \in 1 .. n
        BY <4>1, <2>3, RuleMatches
      <4> QED BY <4>1, <4>2, <2>3, <2>4
    <3> QED BY <3>1, <3>2 DEF Loop
  <2> QED
    BY <2>1, <2>2, <2>3, <2>6 DEF LoopTyped, Loop, MuxInv, Alone,
                                  CommandsTypeOK
<1> QED
  BY <1>1, <1>2, LoopInv, LoopTypedInv, MuxInitInv, MuxNextInv, PowerAmongInv,
     PTL DEF CommandsSpec

-----------------------------------------------------------------------------
(* The power line.                                                         *)

PowerRules ==
  {k \in DOMAIN Constraints :
     /\ Constraints[k].command = "setgpio"
     /\ Constraints[k].target \in DOMAIN Line
     /\ Line[Constraints[k].target] = PowerLine}

\* The board file names the power line in one constraint at most, has no
\* constraint for whatever line is set, and no group with the power line.
OneRule ==
  /\ \A k, j \in PowerRules : k = j
  /\ \A k \in DOMAIN Constraints :
       Constraints[k].command = "setgpio" => Constraints[k].target # AnyArg
  /\ \A g \in DOMAIN Groups :
       \A i \in DOMAIN Groups[g].lines : Groups[g].lines[i] # PowerLine

\* The line is on, or is about to be switched on.
Going == gpc = "lines" /\ SwitchesOn(gcall)

PassedSoFar ==
  dpc = "phases" =>
    \A j \in 1 .. pos :
      PhasesOf(rule)[j] \in PowerUpPhases => PhasesOf(rule)[j] \in passed

Prepared ==
  Going \/ level[PowerLine] = 1 => bypassed \/ PowerUpPhases \subseteq passed

PowerUpInv == Loop /\ MuxInv /\ PassedSoFar /\ Prepared

\* With one rule for the power line, its phases are all there are.
LEMMA PhasesOfRule ==
  ASSUME OneRule, NEW k \in PowerRules
  PROVE  PowerUpPhases = {Constraints[k].phases[j] :
                            j \in DOMAIN Constraints[k].phases}
<1>1. PowerRules = {k}
  BY DEF OneRule
<1>2. PowerUpPhases = UNION {{c.phases[j] : j \in DOMAIN c.phases} :
                               c \in {Constraints[i] : i \in PowerRules}}
  BY DEF PowerUpPhases, PowerRules
<1> QED BY <1>1, <1>2

\* A request with a rule that switches the power on is one of that rule.
LEMMA RuleOfPower ==
  ASSUME OneRule, NEW c, c = req.command, SwitchesOn(GpioCall(c)),
         RuleFor(req) # 0, c \in {"setgpio", "setinputgpio"}
  PROVE  RuleFor(req) \in PowerRules
<1>1. PICK t : t = GpioCall(c).target
  OBVIOUS
<1>2. /\ req.target \in DOMAIN Line /\ t = Line[req.target]
      /\ t \in GpioLines \cup DOMAIN Groups
      /\ GpioCall(c).op = c
  BY <1>1, TargetType DEF SwitchesOn
<1>3. PICK i \in DOMAIN Plan(GpioCall(c)) :
        Plan(GpioCall(c))[i] = [line |-> PowerLine, to |-> 1]
  BY DEF SwitchesOn
<1>4. c = "setgpio" /\ i \in DOMAIN Members(t) /\ Members(t)[i] = PowerLine
  <2>1. PICK g : g = GpioCall(c) /\ g.target = t /\ g.op = c
    BY <1>1, <1>2
  <2>2. /\ i \in DOMAIN Members(t) /\ Plan(g)[i].line = Members(t)[i]
        /\ Plan(g)[i].to = 1 => c = "setgpio"
    BY <2>1, <1>2, <1>3, PlanType
  <2>3. Plan(g)[i].line = PowerLine /\ Plan(g)[i].to = 1
    BY <2>1, <1>3
  <2> QED BY <2>2, <2>3
<1>5. t = PowerLine
  BY <1>4 DEF OneRule, Members, IsGroup
<1>6. /\ RuleFor(req) \in DOMAIN Constraints
      /\ Matches(req, Constraints[RuleFor(req)])
  BY RuleMatches
<1>7. Constraints[RuleFor(req)].target = req.target
  BY <1>4, <1>6 DEF Matches, Agrees, OneRule
<1> QED BY <1>2, <1>4, <1>5, <1>6, <1>7 DEF PowerRules, Matches

\* All phases of the rule were passed when its handler is called.
LEMMA CallPrepared ==
  ASSUME OneRule, PowerUpInv, Call
  PROVE  Prepared'
<1>1. gpc = "idle" /\ dpc = "phases" /\ rule = RuleFor(req)
      /\ pos = Len(PhasesOf(rule)) /\ UNCHANGED passed
  BY DEF Call, PowerUpInv, Loop, MuxInv, Alone
<1>2. CASE UNCHANGED <<board, bypassed>>
  BY <1>1, <1>2 DEF board, gpiovars, PowerUpInv, Prepared, Going
<1>3. CASE UNCHANGED <<gpiovars, bypassed>>
  BY <1>1, <1>3 DEF gpiovars, PowerUpInv, Prepared, Going
<1>4. CASE CallGpio(req.command)
  <2>1. /\ UNCHANGED level /\ gcall' = GpioCall(req.command)
        /\ bypassed' =
             (bypassed \/ (SwitchesOn(GpioCall(req.command)) /\ rule = 0))
        /\ gpc' = "lines" =>
             GpioCall(req.command).op \in {"setgpio", "setinputgpio"}
    BY <1>1, <1>4 DEF CallGpio, ChangeGPIO, GetGPIO
  <2>2. CASE ~Going'
    BY <1>1, <2>1, <2>2 DEF PowerUpInv, Prepared
  <2>3. CASE Going' /\ rule = 0
    BY <2>1, <2>3 DEF Prepared, Going
  <2>4. CASE Going' /\ rule # 0
    <3>1. SwitchesOn(GpioCall(req.command))
          /\ req.command \in {"setgpio", "setinputgpio"}
      BY <2>1, <2>4 DEF Going, GpioCall
    <3>2. RuleFor(req) \in PowerRules
      BY <1>1, <2>4, <3>1, RuleOfPower
    <3>3. PICK ph : ph = PhasesOf(rule) /\ ph = Constraints[rule].phases
      BY <1>1, <2>4 DEF PhasesOf
    <3>4. DOMAIN ph = 1 .. pos
      BY <1>1, <3>3, PhasesSeq
    <3>5. PowerUpPhases = {ph[j] : j \in 1 .. pos}
      BY <1>1, <3>2, <3>3, <3>4, PhasesOfRule
    <3>6. PowerUpPhases \subseteq passed
      BY <1>1, <3>3, <3>5 DEF PowerUpInv, PassedSoFar
    <3> QED BY <1>1, <3>6 DEF Prepared
  <2> QED BY <2>2, <2>3, <2>4
<1> QED
  BY <1>2, <1>3, <1>4
  DEF Call, CallHandler, CallSelect, CallXsdb, CallPower, board

\* One more phase is passed, or the request is given up.
LEMMA PhasePassed ==
  ASSUME PowerUpInv, Phase
  PROVE  PassedSoFar' /\ Prepared'
<1>1. passed \subseteq passed' /\ UNCHANGED <<gpiovars, bypassed>>
  BY DEF Phase, board
<1>2. Prepared'
  BY <1>1 DEF PowerUpInv, Prepared, Going, gpiovars
<1>3. PassedSoFar'
  <2>1. CASE Done
    BY <2>1 DEF Done, PassedSoFar
  <2>2. CASE /\ pos' = pos + 1 /\ UNCHANGED <<dpc, req, rule, command>>
             /\ passed' = passed \cup
                  ({PhasesOf(rule)[pos + 1]} \cap PowerUpPhases)
    <3>1. dpc = "phases" /\ pos \in Nat
      BY PhasesSeq DEF Phase, PowerUpInv, Loop
    <3>2. \A j \in 1 .. pos' : j \in 1 .. pos \/ j = pos + 1
      BY <2>2, <3>1
    <3>3. PICK ph : ph = PhasesOf(rule) /\ ph = PhasesOf(rule')
      BY <2>2
    <3>4. ASSUME NEW j \in 1 .. pos', ph[j] \in PowerUpPhases
          PROVE  ph[j] \in passed'
      BY <2>2, <3>1, <3>2, <3>3, <3>4 DEF PowerUpInv, PassedSoFar
    <3> QED BY <3>3, <3>4 DEF PassedSoFar
  <2> QED BY <2>1, <2>2 DEF Phase
<1> QED BY <1>2, <1>3

\* A line is only driven to 1 for a command that switches it on.
LEMMA WorkPrepared ==
  ASSUME PowerUpInv, Work
  PROVE  PassedSoFar' /\ Prepared'
<1>1. dpc' = "run" /\ UNCHANGED <<passed, bypassed>>
  BY DEF Work, loopvars
<1>2. CASE UNCHANGED gpiovars
  BY <1>1, <1>2 DEF PowerUpInv, PassedSoFar, Prepared, Going, gpiovars
<1>3. CASE ChangeLine
  <2>1. PICK next : next = Plan(gcall)[done + 1]
    OBVIOUS
  <2>2. /\ gpc = "lines" /\ gcall' = gcall /\ ~Refused(gcall)
        /\ gcall.target \in GpioLines \cup DOMAIN Groups
        /\ done \in Nat /\ done < Len(Plan(gcall))
        /\ level \in [Others -> Levels]
    BY <1>3 DEF ChangeLine, PowerUpInv, MuxInv, GpioInv
  <2>3. done + 1 \in DOMAIN Plan(gcall)
    BY <2>2, PlanType
  <2>4. \/ UNCHANGED level
        \/ level' = [level EXCEPT ![next.line] = next.to]
    BY <1>3, <2>1 DEF ChangeLine, Drive
  <2>5. level'[PowerLine] = 1 /\ level[PowerLine] # 1 =>
          next.line = PowerLine /\ next.to = 1
    BY <2>2, <2>4, CommandsAssumption
  <2>6. next.line = PowerLine /\ next.to = 1 => SwitchesOn(gcall)
    <3> SUFFICES ASSUME next.line = PowerLine, next.to = 1
                 PROVE  SwitchesOn(gcall)
      OBVIOUS
    <3>1. next = [line |-> next.line, to |-> next.to]
      BY <2>1, <2>2, <2>3 DEF Plan
    <3> QED BY <2>1, <2>2, <2>3, <3>1 DEF SwitchesOn
  <2>7. gpc' = "lines" => gpc = "lines"
    BY <2>2
  <2> QED
    BY <1>1, <2>2, <2>5, <2>6, <2>7
    DEF PowerUpInv, PassedSoFar, Prepared, Going
<1> QED BY <1>2, <1>3 DEF Work

LEMMA PowerUpNextInv ==
  ASSUME OneRule, PowerUpInv, [CommandsNext]_allvars
  PROVE  PowerUpInv'
<1>1. Loop' /\ MuxInv'
  BY LoopInv, MuxNextInv DEF PowerUpInv
<1>2. PassedSoFar' /\ Prepared'
  <2>1. CASE \E r \in Requests : Receive(r)
    <3>1. gpc = "idle"
      BY <2>1 DEF Receive, PowerUpInv, MuxInv, Alone
    <3>2. pos' = 0 /\ UNCHANGED <<passed, gpiovars>>
          /\ bypassed' = (bypassed /\ level[PowerLine] = 1)
      BY <2>1 DEF Receive, Done, board
    <3>3. \A j \in 1 .. pos' : FALSE
      BY <3>2
    <3> QED
      BY <3>1, <3>2, <3>3
      DEF PowerUpInv, PassedSoFar, Prepared, Going, gpiovars
  <2>2. CASE Call
    <3>1. PassedSoFar'
      BY <2>2 DEF Call, Done, PassedSoFar
    <3> QED BY <2>2, <3>1, CallPrepared
  <2>3. CASE Return \/ RestartAll \/ OutageAll
    <3>1. dpc' = "wait" /\ gpc' = "idle" /\ UNCHANGED <<passed, bypassed>>
      BY <2>3 DEF Return, RestartAll, OutageAll, Died, Done, NoGpioCall
    <3>2. level'[PowerLine] = 1 => level[PowerLine] = 1
      BY <2>3, CommandsAssumption DEF Return, RestartAll, OutageAll, In
    <3> QED
      BY <3>1, <3>2 DEF PowerUpInv, PassedSoFar, Prepared, Going
  <2>4. CASE SwapCards
    <3>1. dpc' = "wait" /\ gpc' = "idle" /\ level'[PowerLine] # 1
      BY <2>4 DEF SwapCards, board, gpiovars, PowerUpInv, MuxInv, Alone
    <3> QED BY <3>1 DEF PassedSoFar, Prepared, Going
  <2>5. CASE Measuring \/ UNCHANGED allvars
    <3>1. UNCHANGED <<loopvars, gpiovars>>
      BY <2>5 DEF Measuring, allvars, board
    <3> QED
      BY <3>1
      DEF loopvars, gpiovars, PowerUpInv, PassedSoFar, Prepared, Going
  <2> QED
    BY <2>1, <2>2, <2>3, <2>4, <2>5, PhasePassed, WorkPrepared
    DEF CommandsNext
<1> QED BY <1>1, <1>2 DEF PowerUpInv

(***************************************************************************)
(* Whatever requests, failures, swaps of cards, restarts and losses of     *)
(* power come together: the power is on only after all phases of the       *)
(* board's constraint, or because a request went around the constraint.    *)
(***************************************************************************)
THEOREM PowerIsPrepared == OneRule /\ CommandsSpec => []PoweredPrepared
<1> DEFINE Inv == OneRule /\ PowerUpInv
<1>1. OneRule /\ CommandsInit => Inv
  <2>1. CommandsInit => Loop /\ PassedSoFar
    BY DEF CommandsInit, Loop, PassedSoFar
  <2>2. CommandsInit => Prepared
    BY CommandsAssumption
    DEF CommandsInit, GpioInit, Prepared, Going, In
  <2> QED BY <2>1, <2>2, MuxInitInv DEF PowerUpInv
<1>2. Inv /\ [CommandsNext]_allvars => Inv'
  <2>1. OneRule => OneRule'
    BY DEF OneRule, PowerRules
  <2> QED BY <2>1, PowerUpNextInv
<1>3. Inv => PoweredPrepared
  BY DEF PowerUpInv, Prepared, PoweredPrepared
<1> HIDE DEF Inv
<1> QED BY <1>1, <1>2, <1>3, PTL DEF CommandsSpec

=============================================================================

------------------------------ MODULE Commands ------------------------------
(***************************************************************************)
(* What the daemon does with one request (src/src/sc_appd.c): the options  *)
(* are parsed, the first matching entry of the "Constraints" of the board  *)
(* file is looked up and its phases are run, the command is looked up in   *)
(* the table, and its handler is called.  The handlers are those of        *)
(* JtagMux, Gpio and Power; the module composes them under the loop that   *)
(* runs one of them at a time, while cards are swapped, sensors measure    *)
(* and the daemon dies.                                                    *)
(*                                                                         *)
(* The names and values of a request are the strings that the user typed;  *)
(* constraints compare strings, handlers what the strings stand for.       *)
(***************************************************************************)
EXTENDS Gpio, Power

CONSTANTS
  Table,        \* Table[c]: the handler of command c, for c in the table
  Line,         \* Line[n]: the line or the group that n is a name of
  Number,       \* Number[v]: what strtol makes of the text v
  Constraints,  \* the constraints of the board file, in their order
  PowerLine,    \* the line that switches the board's power on
  Requests      \* the requests of the clients

NoArg == "none"    \* an option that was not given, an entry that is NULL
AnyArg == "$ANY"

Handlers == {"GPIO_Ops", "JTAG_Ops", "XSDB", "Power", "other"}

ASSUME CommandsAssumption ==
  /\ Table \in [DOMAIN Table -> Handlers]
  /\ Line \in [DOMAIN Line -> GpioLines \cup DOMAIN Groups]
  /\ "all" \notin DOMAIN Line
  /\ Number \in [DOMAIN Number -> Nat]
  /\ PowerLine \in Others
  /\ Constraints \in Seq({Constraints[i] : i \in DOMAIN Constraints})
  /\ \A i \in DOMAIN Constraints :
       /\ Constraints[i].type \in {"Complete", "Terminate"}
       /\ Constraints[i].phases
            \in Seq({Constraints[i].phases[j]
                       : j \in DOMAIN Constraints[i].phases})

-----------------------------------------------------------------------------

VARIABLES
  dpc,       \* where the loop is
  req,       \* the request being served, or the last one
  rule,      \* the constraint that matches it, 0 if none does
  pos,       \* how many of its phases have been passed
  command,   \* Command, the entry of the table whose handler is running
  passed,    \* history: the phases passed since cards could be swapped
  bypassed   \* history: a request without a rule switched the power on

loopvars == <<dpc, req, rule, pos, command, passed, bypassed>>
board == <<vars, gpiovars, powervars>>
allvars == <<loopvars, board>>

NoRequest ==
  [command |-> NoArg, target |-> NoArg, value |-> NoArg, set |-> <<>>]

CommandsInit ==
  /\ Init /\ GpioInit /\ PowerInit
  /\ dpc = "wait" /\ req = NoRequest /\ rule = 0 /\ pos = 0
  /\ command = NoArg /\ passed = {} /\ bypassed = FALSE

-----------------------------------------------------------------------------

\* Both absent, or the entry's text, or any text at all.
Agrees(given, entry) ==
  \/ given = entry
  \/ entry = AnyArg /\ given # NoArg

Matches(r, c) ==
  /\ r.command = c.command
  /\ Agrees(r.target, c.target)
  /\ Agrees(r.value, c.value)

\* The first constraint that matches.
RuleFor(r) ==
  LET found == {i \in DOMAIN Constraints : Matches(r, Constraints[i])} IN
  IF found = {} THEN 0 ELSE CHOOSE i \in found : \A j \in found : i <= j

PhasesOf(i) == IF i = 0 THEN <<>> ELSE Constraints[i].phases

\* The phases that the board file asks for before the power goes on.
PowerUpPhases ==
  UNION {{c.phases[j] : j \in DOMAIN c.phases} :
           c \in {Constraints[i] : i \in
                    {k \in DOMAIN Constraints :
                       /\ Constraints[k].command = "setgpio"
                       /\ Constraints[k].target \in DOMAIN Line
                       /\ Line[Constraints[k].target] = PowerLine}}}

\* What a client sends that Parse_Options turns down: no or wrong options, -h.
Malformed(r) == r.command = "?"

\* The label Next of the loop: back to accept(); nothing of the request is
\* of use any more.  (Command keeps its value, and is assigned before it is
\* read again.)
Done ==
  /\ dpc' = "wait" /\ req' = NoRequest /\ rule' = 0 /\ pos' = 0
  /\ command' = NoArg

\* recv() returns a request; it is parsed and matched.
Receive(r) ==
  /\ dpc = "wait"
  /\ \/ Malformed(r) /\ Done
     \/ /\ ~Malformed(r)
        /\ dpc' = "phases" /\ req' = r /\ rule' = RuleFor(r) /\ pos' = 0
        /\ UNCHANGED command
  /\ bypassed' = (bypassed /\ level[PowerLine] = 1)
  /\ UNCHANGED <<passed, board>>

\* wrong: the phases after one that fails are still run, and then the command
Bug_Phase ==
  /\ dpc = "phases" /\ pos < Len(PhasesOf(rule))
  /\ pos' = pos + 1
  /\ \/ passed' = passed \cup ({PhasesOf(rule)[pos + 1]} \cap PowerUpPhases)
     \/ MayFail /\ UNCHANGED passed
  /\ UNCHANGED <<dpc, req, rule, command, bypassed, board>>
(***************************************************************************)
(* One phase.  A script has failed when popen() does or when it prints     *)
(* "ERROR: "; its exit status is not looked at.  FMC_Autodetect_Vadj fails *)
(* when the daemon cannot tell or set the voltage of the cards.            *)
(***************************************************************************)
Phase ==
  /\ dpc = "phases" /\ pos < Len(PhasesOf(rule))
  /\ \/ /\ pos' = pos + 1
        /\ passed' = passed \cup ({PhasesOf(rule)[pos + 1]} \cap PowerUpPhases)
        /\ UNCHANGED <<dpc, req, rule, command>>
     \/ MayFail /\ Done /\ UNCHANGED passed
  /\ UNCHANGED <<bypassed, board>>

-----------------------------------------------------------------------------
(* The handlers, called with what the strings of the request stand for.    *)

GpioCall(c) ==
  [op |-> c,
   target |-> CASE c = "getgpio" /\ req.target = "all" -> All
                [] req.target \in DOMAIN Line -> Line[req.target]
                [] OTHER -> Nothing,
   value |-> IF req.value \in DOMAIN Number THEN Number[req.value]
                                            ELSE Nothing]

SwitchesOn(call) ==
  /\ ~Refused(call)
  /\ \E i \in DOMAIN Plan(call) :
       Plan(call)[i] = [line |-> PowerLine, to |-> 1]

CallGpio(c) ==
  /\ ChangeGPIO(GpioCall(c)) \/ GetGPIO(GpioCall(c))
  /\ bypassed' = (bypassed \/ (SwitchesOn(GpioCall(c)) /\ rule = 0))
  /\ UNCHANGED <<current, pc, op, goal, failed, powervars>>

\* setJTAGselect; a name that the board file does not have is refused.
CallSelect ==
  /\ \/ req.target \in Selects /\ Select(req.target)
     \/ /\ req.target \notin Selects /\ ret' = "error"
        /\ UNCHANGED <<lines, current, pc, op, goal, failed>>
  /\ UNCHANGED <<gpiovars, powervars, bypassed>>

CallXsdb == Xsdb /\ UNCHANGED <<gpiovars, powervars, bypassed>>

CallPower(c) ==
  /\ StartPower([op |-> c, target |-> req.target, set |-> req.set])
  /\ UNCHANGED <<vars, gpiovars, bypassed>>

\* The handler that the table gives for c; "other" is modelled elsewhere.
CallHandler(c) ==
  \/ Table[c] = "GPIO_Ops" /\ CallGpio(c)
  \/ Table[c] = "JTAG_Ops" /\ CallSelect
  \/ Table[c] = "XSDB" /\ CallXsdb
  \/ Table[c] = "Power" /\ CallPower(c)
  \/ Table[c] = "other" /\ UNCHANGED <<board, bypassed>>

Terminates == rule # 0 /\ Constraints[rule].type = "Terminate"

\* wrong: without Valid_Command, a handler of an earlier request is called
Bug_Call ==
  /\ dpc = "phases" /\ pos = Len(PhasesOf(rule)) /\ ~Terminates
  /\ \E c \in DOMAIN Table :
       /\ req.command \in DOMAIN Table => c = req.command
       /\ dpc' = "run" /\ command' = c /\ CallHandler(c)
       /\ UNCHANGED <<req, rule, pos>>
  /\ UNCHANGED passed
\* All phases are passed.  "Terminate": they were all there was to do.
Call ==
  /\ dpc = "phases" /\ pos = Len(PhasesOf(rule))
  /\ \/ Terminates /\ Done /\ UNCHANGED <<board, bypassed>>
     \/ /\ ~Terminates /\ req.command \notin DOMAIN Table
        /\ Done /\ UNCHANGED <<board, bypassed>>
     \/ /\ ~Terminates /\ req.command \in DOMAIN Table
        /\ dpc' = "run" /\ command' = req.command /\ CallHandler(req.command)
        /\ UNCHANGED <<req, rule, pos>>
  /\ UNCHANGED passed

\* The steps of the handler in progress.
Work ==
  /\ dpc = "run"
  /\ \/ Step /\ UNCHANGED <<gpiovars, powervars>>
     \/ ChangeLine /\ UNCHANGED <<current, pc, op, goal, failed, powervars>>
     \/ PowerStep /\ UNCHANGED <<vars, gpiovars>>
  /\ UNCHANGED loopvars

\* The handler returns to the loop, which does not look at its answer.
Return ==
  /\ dpc = "run" /\ pc = "idle" /\ gpc = "idle" /\ ppc = "idle" /\ Done
  /\ op' = "none" /\ goal' = "Current" /\ ret' = "none" /\ failed' = FALSE
  /\ NoGpioCall /\ NoCall
  /\ UNCHANGED <<lines, current, pc, level, rails, cal, conv>>
  /\ UNCHANGED <<passed, bypassed>>

-----------------------------------------------------------------------------
(* The world around the loop.                                              *)

\* Cards are swapped with the power off, and not while a request is served.
SwapCards ==
  /\ dpc = "wait" /\ level[PowerLine] # 1
  /\ passed' = {}
  /\ UNCHANGED <<dpc, req, rule, pos, command, bypassed, board>>

\* A sensor ends a measurement, whatever the daemon is doing.
Measuring == \E s \in SensorSet : Measure(s)
               /\ UNCHANGED <<vars, gpiovars, loopvars>>

\* The daemon dies and is started again; the lines stay as they are.
Died ==
  /\ Done /\ NoGpioCall
  /\ UNCHANGED <<passed, bypassed>>
RestartAll == Died /\ Restart /\ PowerRestart /\ UNCHANGED level
\* The board loses its supply: the lines are inputs again.
OutageAll ==
  /\ Died /\ Outage
  /\ lines' = Released /\ level' = [l \in Others |-> In]
  /\ current' = Value[FTDI] /\ pc' = "idle" /\ op' = "none"
  /\ goal' = "Current" /\ ret' = "none" /\ failed' = FALSE

CommandsNext ==
  \/ \E r \in Requests : Receive(r)
  \/ Phase \/ Call \/ Work \/ Return
  \/ SwapCards \/ Measuring \/ RestartAll \/ OutageAll

CommandsSpec == CommandsInit /\ [][CommandsNext]_allvars

-----------------------------------------------------------------------------
(* Properties.                                                             *)

CommandsTypeOK ==
  /\ TypeOK /\ GpioTypeOK /\ PowerTypeOK
  /\ dpc \in {"wait", "phases", "run"}
  /\ rule \in 0 .. Len(Constraints)
  /\ pos \in 0 .. Len(PhasesOf(rule))
  /\ command \in DOMAIN Table \cup {NoArg}
  /\ passed \subseteq PowerUpPhases
  /\ dpc # "run" => pc = "idle" /\ gpc = "idle" /\ ppc = "idle"

(***************************************************************************)
(* "Process commands with pre_phase constraints": the handler that is      *)
(* called is the one of the request, after all phases of its constraint,   *)
(* and no handler is called for a constraint that ends with its phases.    *)
(***************************************************************************)
Served ==
  dpc = "run" =>
    /\ command = req.command
    /\ rule = RuleFor(req) /\ pos = Len(PhasesOf(rule))
    /\ rule # 0 => Constraints[rule].type = "Complete"

(***************************************************************************)
(* The board is powered only after the phases that its board file asks for *)
(* were passed with the cards that are plugged in, whatever phases, line   *)
(* accesses and restarts came between.  The exception are requests that    *)
(* spell the line or the value in another way than the constraint does:    *)
(* no constraint matches them, and GPIO_Ops takes them all the same.       *)
(***************************************************************************)
PoweredPrepared ==
  level[PowerLine] = 1 => bypassed \/ PowerUpPhases \subseteq passed

=============================================================================

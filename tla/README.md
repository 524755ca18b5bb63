# System Controller application: TLA+ models, checks and proofs

The repository is the software of the *System Controller* (SC), a small
processor on Xilinx/AMD Versal evaluation boards.  A daemon, `sc_appd`, runs
on the SC and owns the board: the voltage regulators, the programmable clocks,
the boot mode and the reset of the Versal device, its JTAG chain, the plug-in
modules.  A command-line client, `sc_app`, sends one command line over a Unix
stream socket and prints what comes back.

This directory holds TLA+ modules of the parts of that software with state of
their own, TLC configurations that check them on small instances, and proofs
that TLAPS checks for every instance.  `tlc -config X.cfg MCModule` runs a
check, `tlapm ModuleProofs.tla` the proofs.  `PROJECT.json` lists the runs, the
lines of code behind every definition, one deliberate bug (`Bug_...`) for every
property checked, the hazards, and what the models have found.

## The system

The daemon is single-threaded.  Interleaving comes from outside: from clients,
from the kernel (pieces of a stream, write-back of files), from chips that keep
their registers while the daemon does not, and above all from failure: each
command is a long sequence of I2C transactions, GPIO accesses, `system()` calls
and file operations on several places that must agree, any of which may fail or
be the last thing the daemon does before it is killed or the board loses power.
Almost nothing is rolled back: a failed step makes the command return, and the
next command finds what was left.

Start-up (`main` of `sc_appd.c`, 313-461), in this order: board file, IO
expander, FMC VADJ, boot clocks, boot voltages (a failure of any ends the
daemon), boot PDI (a failure is logged), the alternative boot mode is dropped,
workarounds, socket; then the loop accept / recv / command / close.

| component | state | operations | hard behaviour | correct when |
|---|---|---|---|---|
| client, server loop | connections, backlog, descriptors, exit status | accept, recv, run, send, close; connect, send, recv | pieces of a stream, kills of either side, leaked descriptors, one blocking `recv` | an answer reaches its client, status 0 means that the command was taken, nobody waits for ever |
| voltage regulators | PAGE, OPERATION, VOUT, four limits per rail | `Access_Regulator`: get, set, get all | output off in the middle of a call, stale page, 16-bit limits, retries | an enabled rail is never above its limits or out of its range |
| boot settings | two files, their part on disk, the devices | set, setboot, restore; apply at start-up | `sed` and append are two steps, `fsync` last, status of `sed; sync` | a stored setting survives; no setting but its own is touched |
| 8A34001 clock chip | chip, EEPROM, mark file, line of the clock file | set, setboot, get, restore | four places, each step may fail | the places agree when a command says so |
| JTAG mux and scripts | two GPIO lines, the current choice | setJTAGselect; every `xsdb` script | two lines switched one by one, results ignored | a script runs on the SC, the user's choice comes back |
| Versal boot | mode lines, what the device runs, three files and a link, cached silicon revision | setbootmode, reset, loadPDI, setbootPDI, resetbootPDI, module select, start-up | unseen script failures, device held in reset, cached revision | the device runs what was asked for, never a default PDI of another revision |
| IO expander, QSFP, SFP | output and direction registers | start-up, restoreioexp, setoutioexp, setdirioexp, reset of the 8A34001, module select | several writers of one register, results ignored | a writer keeps the bits of the others |
| FMC cards, VADJ | presence, EEPROM ranges, VADJ rail | autodetect at start-up, listFMC, getFMC | empty intersection of ranges, unreadable EEPROM, bus switch left open | VADJ is the highest voltage that fits every card, or the default |
| GPIO lines | levels and directions, groups | getgpio, setgpio, setinputgpio of a line or a group | failure in the middle of a group; lines that other components own | the value set is the value shown, a failure stops and leaves what is done |
| power, INA226, domains | calibration registers, the measurement the chip holds | getpower, getcalpower, powerdomain, get and set of the registers | the chip measures between the transactions of a command; names of sensors within others | a value is scaled for the calibration it was measured with; a total is that of the domain's sensors |
| dispatch, constraints | the request in globals, the phases passed | parse, match, run the phases, call the handler | phases that fail, texts that mean the same, stale globals, cards swapped in between | the right handler, after all phases; the power comes on prepared |
| workarounds | none of its own | calls of board routines | - | not modelled |
| board tests (BIT) | none of its own | scripts, comparisons | uses the mux itself | mux as in every script |
| EEPROM, DIMM, temperature, board parser, clock utilities | none after start-up | formatting, parsing, external programs | string processing | not modelled, see below |

How they meet: the boot files call the regulators and clocks; scripts go
through the JTAG mux; a reset goes through a script when an alternative boot
mode is set; module selects load a PDI; every command runs inside the server
loop and sends its messages to that loop's `Client_FD`, after the phases of its
constraint, one of which is the choice of VADJ; setgpio may move the lines of the
JTAG mux behind the back of setJTAGselect.

## The modules

Every module has the state of one component as variables, one action per
operation or step of it, and a type invariant.  A step is the code between two
points at which something outside the daemon can fail or be seen: one
transaction, one GPIO access, one shell command, one file operation.  Each step
has the outcomes the code distinguishes, and those it does not: a write that
fails may or may not have reached the chip; an ignored status is a disjunct
that goes on with nothing changed.  A *history* variable never guards an action.

**Regulator** (`Access_Regulator`, sc_common.c 395-640).  One PMBus chip with
one rail or several behind PAGE.  `pc` is the next transaction; `Start` holds
the range check, `FailRead`/`FailWrite` the `goto` that closes the bus, `Die` a
kill inside a call, after which the chip keeps its registers.  Registers count
units of 2^Exponent V; requests and ranges are finer, in `Parts` of a unit, and
are rounded only when they are written (`Nearest`, the `round()` of the code),
after the range was checked: 0.91 V, the end of the range of `MGTYAVCC` on the
VCK190, is written as 233 / 256 V, which is 0.9102 V.  `OutputInRange` therefore
allows half a unit (`Within`).  A write sends two bytes of what was rounded
(`Sent`; of a negative number, whose conversion C leaves undefined, any of the
outcomes of usual hardware), a read fills a signed short (`Signed16`), and a
limit is compared with the exact percentage (`Target`).  A rail with -1 for its
range, as all rails of the VN-P-B2197-00, the VE-P-A2112-00, the VE-X-A2112-00
and the VEK385 have, takes any request (`Limited` has the others); what does
not fit its registers is cut to two bytes, and the limits then say nothing.
`Tame` are the rails whose accepted requests all fit: every rail with a range
(lemma `RangeFits`), and one without if it is asked for nothing else.  The
format says who keeps the limits: software (absolute or fixed) or the chip
(relative).

**RegulatorFaults** extends it by one history variable, `failed`: a call was cut
short since the rails were set up.  The undervoltage limits, which a retry loses,
hold until then.

**BootFile**, **BootSettings** (`Voltage_Ops`, `Clock_Ops`,
`Boot_Set_Voltages`, `Boot_Set_Clocks`, sc_appd.c).  `file` is what processes
see and `disk` what a loss of power leaves; `WriteBack` is the kernel's.  The
regulator call is here one step with the outcomes that Regulator allows (old
value, new value, off).  Values keep one digit more than the file, so that
`"%.3f"` is a rounding.  `kind` says which of the two files an instance is: they
differ in what is refused and in what a failing device is left at.  The `sed` of
a restore may do nothing and be answered as a success, and the shell may fail
before or after it, which is answered as an error (`Clean`, `Flush`).  `refused`
is history: the file system refused a change to the command in progress.
`BootSettings` is the abstract specification: a
setting per device, and the set of those that nothing can lose.  The
refinement `Settings` maps a setting to the last entry of its name, and
"settled" to file and disk agreeing outside the command in progress.

**Idt8A34001** (`Set_`, `Get_`, `Restore_IDT_8A34001`, sc_common.c 1850-2180).
A design in four places; `trouble` remembers failed steps and refused file
changes, so that a property can say which failures it tolerates, and `warm` that
the daemon was started over a chip that kept another design than that of its
EEPROM.  The start deletes the mark; with a blank EEPROM getclock then answers
0 MHz for a chip that does output (sc_common.c 1829-1842, whose comment takes
the missing mark for a chip not programmed since boot time).  `Answered` names
this exception; with any other image getclock sets the chip to it.

**JtagMux** (`Set_JTAGSelect`, `XSDB_Op`, `JTAGSelect_Ops`, `DDRMC_Test`).
Line by line; what a script does is Versal's part.  It is checked under Commands.

**Versal** (`Reset_Op`, `Set_AltBootMode`, `Set_BootMode`,
`Get_Silicon_Revision`, `Identify_PDI`, `Validate_PDI`, `PDI_Ops`,
`Boot_Load_PDI`, the module select of sc_board.c).  `runs` is the mode or PDI
the device is in, or `None` in reset.  `Script` is `XSDB_Op`: seen failure,
unseen failure (`| tee`), success; the mux around it is JtagMux.  `sure` is
history: no failure of the command in progress was hidden from it.  External
to the code are the pins: a line driven to 1 is 0 where the boot mode switch
pulls it.  A setgpio on the mode lines is not in this module: `BootsAsSet` is
about what the boot commands, resets, failures and crashes do to the mode.

**Server** (`main` of sc_app.c and the loop of sc_appd.c).  Clients are called
again and again (`Again`), connect, send, receive; the daemon takes one command,
sends its messages, closes.  Messages are sequences of bytes.  One `send()` of the daemon
puts a whole message into the socket, and one `recv()` takes all bytes that are
there, up to the size of the buffer: so a piece is any number of whole messages,
or ends where the buffer ends (`SOCKBUF_MAX`, 4096), which may be inside a
message and inside its "ERROR: ".  `Verdicts` is `strstr()` on a piece; a piece
that fills the buffer has no terminating zero, so that `strstr()` reads on
behind it and may find anything.  The last piece decides the exit status: after
an answer of 4096 bytes or more the code can exit with 0 although its last
message is an error.  The model does so too, and `ExitTells` is about shorter
answers.  A client whose connection is gone is ended by SIGPIPE in `send()`
(status "sigpipe").  A command is what the loop depends on: its messages, the
descriptors it opens (`Opens`) and those it does not close (`Leaks`).  The leaking commands are setclock on the
8A34001 (`Set_IDT_8A34001` returns without closing the bus), and those that go
through `FMC_Vadj_Range`, `EBM_List` and `DDR_Ops`.

**IOExpander** (`Access_IO_Exp`, `IO_Exp_Initialized`, `IO_Exp_Ops`,
`Reset_IDT_8A34001`, `QSFP_ModuleSelect`, `SFP_List`, `SFP_Ops`).  The output
and the direction register are sets of pins at 1; a write that fails may have
changed the first byte only (`Left`).  A select is a read and a write of the
output register, with the value between them in `value`.  `trouble` is history:
what has meddled with the pins since they were set up - a failed transaction or
a kill, a user's write, a reset.  A property names what it tolerates.

**FmcVadj** (`FMC_Autodetect_Vadj`, `FMCAutoVadj_Op`, `FMC_Vadj_Range`,
`FMC_Access`, `FMC_List`, `FMC_Ops`) extends IOExpander and composes with it
(`BoardNext`): the start-up sets up the expander before it finds the cards,
which may be through the expander's inputs, and later commands of both kinds
follow each other.  The boards that give the second presence pin of the expander
as an input (VCK190, VMK180) have two slots, the others give -1 for it, so that
no card is found in a slot that is not there.  A card is the list of the records in its EEPROM; `gate` is
the set of bus switches that are open.  The regulator call is one step with the
outcomes of Regulator.

**Gpio** (`GPIO_Ops`, `Get_GPIO`, `Set_GPIO`, sc_appd.c 2610-2880,
sc_common.c 1088-1222) extends JtagMux: two of its lines are those of the mux.
`Plan` is what a command does to which line, in the order of the loops;
`ChangeLine` is one `Set_GPIO`, which may fail.  `Whole` is `Driven`, each line
of the command at its level, and `ShownBack`, the value that getgpio then shows.

**Power** (`Get_Power`, `Read_INA226`, `Write_INA226`, `Power_Ops`,
`Power_Domain_Ops`, sc_appd.c 1410-1995; `Parse_PowerDomain`, sc_parse.c
652-699).  `cal` is the calibration register of a sensor and `conv` the
calibration that its Current and Power registers were computed with; `Measure`,
external, is the end of a measurement, at any moment.  A value is *right* when
the daemon scales it with the calibration it stems from; what the number is does
not matter.  A rail of a domain for which the parser finds no sensor keeps any
index (`Parsed`).

**Commands** (the loop of `main`, `Constraint_Pre_Ops`, the table, sc_appd.c
246-304, 400-456, 463-672) extends Gpio and Power and composes the three
handlers under the loop: `Receive` parses a request and finds its constraint,
`Phase` runs one of its phases, `Call` is `(*Command.CmdOps)()`, `Work` a step of
the handler, `Return` the way back to `accept()`.  Names and values of a request
are the texts the user typed; `Line` and `Number` are what the handlers make of
them.  Cards are swapped while the power is off (`SwapCards`); a kill keeps the
lines and the registers, a loss of power does not.  `passed` and `bypassed` are
history.  The other handlers are single steps here ("other"), and modelled in
the modules above.

The `MC...` modules give the constants their values for TLC.

## The runs

All twelve explore their whole state space; a *violation* run has one property,
taken from the repository's own words, that the code does not keep.

| run | what it shows |
|---|---|
| `regulator_faults` | a failure at any transaction and kills: no enabled rail above its limits, limits never crossed, output in its range up to the rounding, a success is one, other pages untouched, no register written while the output is on; until a call is cut short the undervoltage limits hold too, and a rail turned off comes back (liveness) |
| `regulator_undervoltage` | *violation*: a retry after a failure leaves a rail under its undervoltage limits |
| `bootfile` | both boot files over crashes, power losses, failing devices and a file system that refuses changes: what a command has stored or cleared, once it answered success, survives (`Durable`) and is applied, the last entry counts; start-up never refuses what a command stored; implements BootSettings |
| `bootfile_restore` | *violation*: restorevoltage answers success with the entry still there |
| `board` | expander, modules and cards with failures and kills: one module selected, and none between commands; the clock chip never pulled into reset by another command; cards found, VADJ fits them, never set without all ranges; bus switches closed |
| `ioexp_restoreclock` | *violation*: after restoreclock both modules of a bus stay selected |
| `idt` | restore repairs everything; mark and getclock tell the chip, but for 0 MHz after a restart over a chip that was set; a set or a get never changes the next boot |
| `idt_bootdesign` | *violation*: setbootclock does not set what the next boot outputs |
| `commands` | requests through the loop: the right handler after all its phases; the power on only when prepared with the cards plugged in; a group set as a whole or up to the failure; powers scaled as measured and domains added up; scripts on the SC, the choice comes back, failures keep it, with setgpio on the same lines |
| `power_domain` | *violation*: the domain HBM of the VHK158 adds up VCCAUX in the place of VCCAUX_HBM |
| `versal` | the device runs what a successful command asked for; a default PDI only on its own revision |
| `server` | answers go where they belong, byte for byte; no descriptor shortage at accept; the exit status of answers that fit the buffer; every client comes to an end |

Bounds, and why they are enough.

- *Regulator*: two rails (a stale page needs a second one).  The first has the
  range of `VADJ_FMC` of the VCK190, 0 V to 1.55 V, the end of which is 396.8
  units and rounds out of the range; the second has none.  The requests are 0 V,
  that end, 256 V, of which two bytes hold 0, and a negative voltage; only the
  second rail takes the last two.  A unit has a hundred parts, in which the
  voltages of the board files are whole numbers.  Calls repeat without bound.
  `regulator_undervoltage` has one rail and requests between which it moves up
  and down.  The other formats and all values are covered by the proofs.
- *BootFile*: two devices with a range (symmetric), values that are rounded up to
  the end of the range, the default, and refused; for clocks a third one without
  a range.  At most two entries: enough for both kinds of neighbours, a second
  entry of the same device and one of another.  `MaxEntries` is the only bound in
  a guard.
- *IOExpander, FmcVadj*: two modules on pins of one byte, one through a PDI, one
  detected by a script; the reset line and the presence lines in the other byte.
  Users write the registers with all pins at 0, which is an output at the wrong
  level for each of them.  Two slots, one behind a switch; cards that accept
  both voltages of the board, the lower one, the higher one, and one whose record
  is not found; any pair of them, so that ranges are disjoint, too.
  `ioexp_restoreclock` has the two selects of the VPK120 and no failures.
- *Idt8A34001*: two designs with an EEPROM image, two without; commands,
  crashes and failures without bound.
- *Commands, Gpio, JtagMux, Power*: the three selects of the board files; the
  power line with its constraint of two phases, a script and the choice of VADJ,
  as on the VN-P-B2197-00; a read-only and an open-drain line and a group of the
  two lines of the mux; two sensors, the name of one of which is a part of the
  other's, in a domain of both; settings that fit the register, do not fit it,
  are refused, are none.  38 requests: each command with good, bad and missing
  arguments, and the two spellings of the power-up that no constraint
  matches.  Requests, swaps, kills and failures without bound.
  `power_domain` has the sensors of the VHK158 and no failures.
- *Versal*: two mode lines, one pulled low, so that a mode is refused, one with
  a line at 1 is not, and one has none; both revisions and a custom PDI.
- *Server*: two clients that call any number of times, a backlog of one, a
  descriptor limit three above the daemon's own, so that leaks reach it.  The
  prefix of an error is two bytes and the buffer four; one answer is longer than
  the buffer and has an error across its end, the others are shorter, with an
  error first, last, or not at all.
  `MaxFds` and `Backlog` are constants of the system, not bounds of the model.

Fairness.  `RegulatorFaults!FaultsSpec` is weak fairness of a step of the call,
be it one that fails: the daemon goes on with the call it is in.  `ComesBack`
is about calls that are not cut short, since a failed set really leaves the rail
off.  `Server!FairSpec` is weak fairness of
`Serve` and of each client's `Proceed`: processes that can run are scheduled.
Nothing is assumed of kills, of restarts, or of users calling again.  A client
that stays connected and never sends is excluded by that fairness: `sc_app`
sends right after it has connected, but the code has no timeout against a
client that does not.

Deadlock is checked in every run.

## The proofs

Each theorem is about a whole specification, for every value of its constants
within the named assumptions.  The pattern is always the same: an inductive
invariant, one lemma per action (`...Step` puts them together), and a last
step in temporal logic.  What follows says why each invariant is needed.

`RegulatorProofs` proves, for every chip, board file, request and data format,
`TypeOK`, `OverLimits` (with `Bounded`: the limits are not crossed, the output
is in range up to half a unit), `OnlyTheRailAsked`, `NeverWrittenLive`,
`Promise` and, with the history of RegulatorFaults, `UnderLimits`.  The
assumptions: a chip without pages has one rail; the ranges of the board file are
positive and their ends fit a signed register with its 10 % margin; rails power
up enabled between their limits.  Nothing is assumed of the requests: what is
said of limits is said of `Tame` rails, and of the others that their registers
hold two bytes (`Wild`).  The arithmetic of rounding is in the first lemmas:
`Nearest` is monotone, and it moves by half a unit at most (`HalfUnit`), from
which `RangeKept` and the order of rounded limits follow.
None of these is inductive, since a limit is right only because of what the
call read or wrote before.  `IInv` adds what holds between the transactions:
the chip is on the page of the call (`OnPage`); only a checked set gets past
the read (`Setting`); the output is off while registers change (`Dark`); the
reading lies under the overvoltage warning, and before VOUT is written so does
the new voltage (`Covered`); the fault limit is out of the way before the
warning limit moves (`FaultMoved`); a limit is written only when it is too
tight (`Tight`); VOUT is in place before the output is enabled (`Commanded`).
`Covered` is the heart: a rail left off reads 0 V, so any set is a rise and
moves the limits; the same reading 0 V is why the *under*voltage limits are
lost (run `regulator_undervoltage`).  `PromiseInv` says how far each kind of
call has come.  `LowInv` is the mirror of `Covered` for the undervoltage
limits, as long as no call was cut short: only the rail of the call is ever off
(`OnlyOwnOff`), so its reading is its voltage (`Carried`).

`BootFileProofs` proves, for any devices, ranges and values, files of any
length with whatever a kill left in them, `TypeOK`, `NeverLocksOut`, `Durable`,
`Booted`, and that the files implement `BootSettings` (`FilesImplement`).
The lemmas are about what `sed` leaves and which entry counts: `Without` drops
the setting of one name and keeps every other (`WithoutSettings`), an appended
line is the entry of its name (`AppendSettings`); both by the least
counterexample among the lengths of a file, since the library's induction
theorems cannot be used.  `FileInv` adds that what is on its way to the file
was not refused (`Asked`) and that both files hold only accepted lines (`Fine`):
rounding does not leave a range that is given in the unit of the file.
The refinement needs no more: a step on the file changes the setting of the
command in progress, and that one is not settled.  `Durable` has
`DurableInv`: the file has the new entry before `fsync`, and both have it
after, which the kernel's write-back keeps.  Its hypothesis `NoFixedClock`: the
file found first has no line of a clock without a range, since restoreclock
answers for such a clock without looking at the file.  `Booted` has `SoFar`:
the devices have what the lines read so far say (`UpTo`).  Its hypothesis
`NoRetired`: the file found first names only devices of the board file, since
the code sets the device of the line before for any other name.

`FmcVadjProofs`, about the expander and the cards together, proves
`BoardTypeOK`, `Exclusive`, `ResetReleased`, `OnlyRestoreResets`, `GatesClosed`,
`Fits` and `NeverGuessed`, for any pins, modules, slots, cards and list of
voltages.  `ExpanderInv`: the value of a read-modify-write is the register, as
nobody else writes in between (`Snapshot`), directions and outputs are set up
unless something has meddled (`Directed`, `SetUp`), and where the reset line
and the selects stand in each step (`Released`, `Resetting`, `Modular`).
`CardsInv`: at most the switch of the card being visited is open or to be closed
(`Visiting`, `Gating`), the ranges are those of the cards seen so far
(`Ranged`), and what was seen is there (`Detected`).

`Idt8A34001Proofs` proves, for every set of designs, whichever of them have an
EEPROM image (the default has one), `Restored`, `ReadsTell` (`MarkTells` and
`Answered`) and the action property `VolatileSet`.  `IInv` adds which command a
step belongs to (`Steps`), how far a restore has come at each of its steps
(`Restoring`: each place is right once its step is over and stays right, and a
restore never takes the way through the clock file), and that a mark may be
wrong only while a command is changing the chip (`Telling`), which also says
that without a mark and without a warm start the chip has the EEPROM's design.

`PowerProofs` proves, for any sensors, shunts, domains and settings,
`PowerTypeOK`, `Scaled`, and `Measured` (`Scaled` and `Totals`).  Only `Totals`
needs the hypothesis `Unambiguous`: the search finds for every rail the sensor
that the board file means, which the run `power_domain` shows to be no idle
hypothesis.  `PowerInv` adds that a settled sensor measures with the
calibration it has, also while a command goes on (`Steady`), that what was read
of it stems from there (`Read`), and that the sensors added up and those to be
read are, together and in their order, those of the domain (`Adding`).

`CommandsProofs` is about the loop.  It holds the proofs of the JTAG mux -
`ScriptOnSC`, `BackToCurrent`, `Recorded` (`Chosen` and `FailedKeeps`), for
every set of selects of a board file, from who a step belongs to (`Steps`) and
that the second line is only switched after the first one (`HalfWay`) - and
uses them and the lemmas of PowerProofs again for the whole loop (`Measured`
included): `Alone` says that never two handlers are at work and none outside
of a call, so that each step of the loop is a step of one handler or leaves
its variables alone.  `CommandsTypeOK` is proved, with `LoopTyped`.  `Served`
needs only that the rule and the number of phases passed are those of the
request (`Loop`).  `PoweredPrepared` has the hypothesis `OneRule`: one
constraint of the board file names the power line, no constraint is for any
line at all, no group has the power line - true of the three boards with such
a constraint.  `Prepared` makes it inductive: the phases are passed not only
while the power is on but from the moment that a handler is about to switch it
on, and in between no card can be swapped.  `GroupsAreWhole` is `Whole` for
groups of any length: the lines dealt with are the first ones of the group, each
at its level, since no line is in a group twice (`DrivenInv`); that the bits
make up the number again (`ShownValue`) is arithmetic on powers of two, whose
law `TwoTimes` comes from the number of subsets of a set.

`VersalProofs` proves, for every board (modes, lines, switch, PDIs, revisions),
`DefaultFits`, `RevisionTrue`, `RunsPDI` (`Loaded`, `BootPDI`) and `RunsMode`
(`ResetBoots`, `BootsAsSet`).  The assumptions: the device has one of the known
revisions, revisions have different default PDIs, and a PDI is neither a mode
nor the state of the pins.  The heart of `IInv` is `Known`: the cached revision
is nothing, the truth, or the text of an error, and such a text never gets as
far as the file or the link.  With it a PDI that has passed its check is not
one of another revision (`Checked`), across the reset between check and load.
`Driving` says how far setbootmode has come, by induction over the lines, and
`Standing` that a mode once set stays on the pins.  `Belongs`, `Targets`,
`Sampled` and `Started` tell which command a step serves and what is done.

`ServerProofs` proves, for any clients, commands, leaks, backlog and limit of
descriptors, `AcceptSucceeds`, `OkMeansTaken`, `OwnAnswer` and `ExitTells`.
For the first, `Counted`: the descriptor of the open connection is one that a
leaking command cannot take.  For the second, `Waiting`, `Serving` and `Taken`:
a client is in the backlog at most once and not while it is served, so that
closing a connection ends that of the client whose command was taken and of no
other.  For the answers, `AnswerInv`: what a client has received and what is in
the stream to it are, in this order, all that was sent for it.  Of an answer
shorter than the buffer (`Short`) no message is ever cut: the last message is
either still whole at the end of the stream (`Ahead`) or was the end of the
piece that decided the status (`Heard`).  The lemmas `OccursAtEnd` and
`OccursBefore` say where the prefix occurs in two sequences put together.

Every safety invariant, action property and refinement that a passing run
checks is stated by a theorem.  Model-checked only: liveness (`ComesBack` of
RegulatorFaults, `Answered` of Server), since ENABLED is out of the prover's
reach.  `Totals` and `PoweredPrepared`, `Durable` and `Booted` are proved from
the hypotheses named above, which are about the board file and the boot file
that the daemon finds first; TLC checks them on instances that satisfy these.

## Not modelled

- EEPROM, DIMM and temperature commands: stateless formatting of bytes.
- The board-file parser: fills the constants of the models once; jsmn is a
  third-party library.
- Workarounds: calls of board routines and scripts, without state of their own.
- Vendor clock utilities, BIT scripts, Tcl and Makefiles: other programs.
- String processing: `strtok` cutting a design name at one of the characters of
  ".bin" (sc_common.c 1860), and the bus path in place (1779); `Voltage_Multiplier`
  in getvoltage and not in setvoltage; the first label that contains a module's
  name is its select (2684), a constant of IOExpander.
- Lines of a boot file with a name that the board file no longer has: BootFile
  models what the code does (`Named`: the pointer of the line before), and no run
  has such names, with which the device of the line before is set.
- A board file whose FMC regulator does not exist, which ends the start-up.
- What a script of a constraint does; that it is passed is all that is known
  of it.  The values of the other registers of an INA226, and the numbers read.
- An index of no sensor at all in a power domain, with which the daemon ends.
- A request that is not a number: `strtof()` is not checked (sc_appd.c 1338), and
  "nan" passes every comparison; and the inexactness of `float` next to a tie of
  the rounding.
- Memory safety and the contents of messages, but for the prefix of an error.

## Plan

Done: all modules above, and their proofs.

Next, in this order:

1. `Startup`: the order of the start-up steps as a composition of the modules,
   in which the failure of one ends the daemon.
2. FmcVadj under the loop of Commands, as the phase that it is there.
3. BootFile over boards whose files have names that are no longer there.

The theorems worth proving next: that the steps in which BootFile and FmcVadj
set a regulator are what a whole call of Regulator does, as a refinement.

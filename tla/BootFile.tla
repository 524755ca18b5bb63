------------------------------ MODULE BootFile ------------------------------
(***************************************************************************)
(* The boot files of sc_appd and the commands that keep them: setvoltage,  *)
(* setbootvoltage and restorevoltage (Voltage_Ops), setclock, setbootclock *)
(* and restoreclock (Clock_Ops, for clocks with a driver), and the daemon  *)
(* setting the devices at start-up (Boot_Set_Voltages, Boot_Set_Clocks).   *)
(*                                                                         *)
(* A command is a sequence of steps on the device and on the file.  The    *)
(* daemon may be killed between any two of them, and the board may lose    *)
(* power: then the devices are back at their power-up values and the file  *)
(* at what had reached the disk.                                           *)
(*                                                                         *)
(* Values are in tenths of the unit the file keeps (1 mV or 1 kHz).        *)
(***************************************************************************)
EXTENDS Integers, Sequences, FiniteSetsExt

CONSTANTS
  Devices,     \* the "voltage" and "clock" devices that the board file names
  Retired,     \* names that only an earlier board file had
  Ranged,      \* the known devices that have a range
  Low, High,   \* their ranges
  Default,     \* Typical_Volt or Default_Freq
  PowerUp,     \* what the devices start with
  Requests,    \* the values that commands ask for
  Files,       \* the files an earlier release may have left
  MaxEntries,  \* bound: the entries of the file in a run
  MayFail,     \* TRUE when device accesses may fail
  FileFails,   \* TRUE when the file system may refuse a change, or the
               \* shell that is to make it may fail
  Off,         \* the output of a regulator that is left disabled
  None

\* A value as it is read back from the file, which keeps "%.3f" of it.
Rounded(v) == 10 * ((v + 5) \div 10)

Kinds == {"voltage", "clock"}
Names == Devices["voltage"] \cup Devices["clock"] \cup Retired
Entries == [name : Names, value : Nat]

InRange(n, v) == Low[n] <= v /\ v <= High[n]

ASSUME NamesAssumption ==
  /\ DOMAIN Devices = Kinds
  /\ \A k \in Kinds : Devices[k] \cap Retired = {}
  /\ Ranged \subseteq Names \ Retired
ASSUME ValuesAssumption ==
  /\ Requests \subseteq Nat /\ MaxEntries \in Nat
  /\ \A n \in Names \ Retired : Default[n] \in Nat /\ PowerUp[n] \in Nat
\* Ranges are given to the unit of the file, and hold the default.
ASSUME RangeAssumption ==
  \A n \in Ranged : /\ Low[n] \in Nat /\ Low[n] % 10 = 0
                    /\ High[n] \in Nat /\ High[n] % 10 = 0
                    /\ InRange(n, Default[n])
\* So are the values of an older file, which were in range as well.
ASSUME FilesAssumption ==
  /\ Files \subseteq Seq(Entries)
  /\ \A f \in Files :
       /\ Len(f) <= MaxEntries
       /\ \A i \in DOMAIN f :
            /\ f[i].value % 10 = 0
            /\ f[i].name \in Ranged => InRange(f[i].name, f[i].value)

-----------------------------------------------------------------------------

VARIABLES
  kind,   \* which of the two boot files this is; it never changes
  dev,    \* dev[n]: what device n is set to
  file,   \* VOLTAGEFILE or CLOCKFILE as processes see it
  disk,   \* the part of it that a loss of power leaves
  pc,     \* the next step of the daemon
  call,   \* the command in progress, or the last one
  pos,    \* Boot_Set_*: the line to read
  last,   \* Boot_Set_*: the Regulator or Clock pointer
  ret,    \* what the last command, or the boot, came to
  refused \* history: a change of the file was refused to this command

vars == <<kind, dev, file, disk, pc, call, pos, last, ret, refused>>

Known == Devices[kind]

Labels == {"down", "boot", "idle", "device", "remove", "append", "sync",
           "clean", "flush"}

Calls ==
  [op : {"set", "setboot"}, name : Known, value : Requests]
    \cup {[op |-> "restore", name |-> n, value |-> Default[n]] : n \in Known}

Init ==
  /\ kind \in Kinds
  /\ dev = [n \in Known |-> PowerUp[n]]
  /\ file \in Files /\ disk = file
  /\ pc = "down"
  /\ call \in Calls
  /\ pos = 1 /\ last = None
  /\ ret = "none" /\ refused = FALSE

\* The entry that counts for n: the last one, for boot applies them in order.
Entry(f, n) ==
  LET at == {i \in DOMAIN f : f[i].name = n} IN
  IF at = {} THEN None ELSE f[Max(at)].value

\* sed '/^n:/d': the lines of n are left out.
Without(f, n) ==
  LET kept[i \in 0 .. Len(f)] ==
        IF i = 0 THEN <<>>
        ELSE IF f[i].name = n THEN kept[i - 1]
                              ELSE Append(kept[i - 1], f[i])
  IN kept[Len(f)]

\* A device access that fails may leave a regulator disabled.
Left(n, v) == IF kind = "voltage" THEN {dev[n], v, Off} ELSE {dev[n], v}

-----------------------------------------------------------------------------
(* Commands.                                                               *)

Return(code) == pc' = "idle" /\ ret' = code
Goto(label) == pc' = label /\ UNCHANGED ret

(***************************************************************************)
(* A range of -1 means any value to a regulator, and no change to a clock. *)
(***************************************************************************)
Bug_Refused(c) == FALSE          \* wrong: the command checks no range
Refused(c) ==
  IF c.name \in Ranged THEN ~InRange(c.name, c.value)
                       ELSE kind = "clock" /\ c.op # "restore"

FixedClock(c) == kind = "clock" /\ c.name \notin Ranged

Start(c) ==
  /\ pc = "idle"
  /\ call' = c /\ refused' = FALSE
  /\ \/ Refused(c) /\ Return("error")
     \/ ~Refused(c) /\ FixedClock(c) /\ Return("ok")
     \/ ~Refused(c) /\ ~FixedClock(c) /\ pc' = "device" /\ ret' = "none"
  /\ UNCHANGED <<kind, dev, file, disk, pos, last>>

\* The device is set first; after a failure the file is left alone.
SetDevice ==
  /\ pc = "device"
  /\ \/ /\ dev' = [dev EXCEPT ![call.name] = call.value]
        /\ \/ call.op = "set" /\ Return("ok")
           \/ call.op = "setboot" /\ Goto("remove")
           \/ call.op = "restore" /\ Goto("clean")
     \/ /\ MayFail /\ Return("error")
        /\ \E v \in Left(call.name, call.value) :
             dev' = [dev EXCEPT ![call.name] = v]
  /\ UNCHANGED <<kind, file, disk, call, pos, last, refused>>

\* The file system is full or read-only, or no shell can be started.
Keeps(v) == FileFails /\ v' = v /\ refused' = TRUE

\* setboot: the result of sed is ignored, and nothing is synced yet.
Bug_Remove ==                    \* wrong: the file is emptied
  /\ pc = "remove"
  /\ file' = <<>> /\ Goto("append")
  /\ UNCHANGED <<kind, dev, disk, call, pos, last, refused>>
Remove ==
  /\ pc = "remove"
  /\ \/ file' = Without(file, call.name) /\ UNCHANGED refused
     \/ Keeps(file)
  /\ Goto("append")
  /\ UNCHANGED <<kind, dev, disk, call, pos, last>>

\* setboot: fopen(), fprintf() and fflush(); only fopen() is checked.
Bug_AppendEntry ==                    \* wrong: the value is not rounded
  /\ pc = "append"
  /\ file' = Append(file, [name |-> call.name, value |-> call.value])
  /\ Goto("sync") /\ UNCHANGED <<kind, dev, disk, call, pos, last, refused>>
AppendEntry ==
  /\ pc = "append" /\ Len(file) < MaxEntries
  /\ \/ /\ file' = Append(file, [name |-> call.name,
                                 value |-> Rounded(call.value)])
        /\ Goto("sync") /\ UNCHANGED refused
     \/ Keeps(file) /\ (Goto("sync") \/ Return("error"))
  /\ UNCHANGED <<kind, dev, disk, call, pos, last>>

\* setboot: fsync(), not checked.
Bug_Sync ==                      \* wrong: the file is not synced
  /\ pc = "sync" /\ Return("ok")
  /\ UNCHANGED <<kind, dev, file, disk, call, pos, last, refused>>
Sync ==
  /\ pc = "sync" /\ Return("ok")
  /\ (disk' = file /\ UNCHANGED refused) \/ Keeps(disk)
  /\ UNCHANGED <<kind, dev, file, call, pos, last>>

\* restore: "sed ...; sync" is one shell command, its status is sync's.  The
\* restore fails when no shell can be started, or when sync does.
Clean ==
  /\ pc = "clean"
  /\ \/ /\ file' = Without(file, call.name)
        /\ Goto("flush") /\ UNCHANGED refused
     \/ Keeps(file) /\ (Goto("flush") \/ Return("error"))
  /\ UNCHANGED <<kind, dev, disk, call, pos, last>>
Flush ==
  /\ pc = "flush"
  /\ \/ disk' = file /\ Return("ok") /\ UNCHANGED refused
     \/ Keeps(disk) /\ Return("error")
  /\ UNCHANGED <<kind, dev, file, call, pos, last>>

-----------------------------------------------------------------------------
(* Start-up, crashes and power.                                            *)

Restart ==
  /\ pc = "down"
  /\ pc' = "boot" /\ ret' = "none"
  /\ UNCHANGED <<kind, dev, file, disk, call, pos, last, refused>>

\* The start-up is over; its variables are gone.
Ended == pos' = 1 /\ last' = None

(***************************************************************************)
(* One line of the file.  The pointer keeps the device of the line before  *)
(* when the name is not found.  A failure ends the daemon.                 *)
(***************************************************************************)
Named(e) == IF e.name \in Known THEN e.name ELSE last

BootRefuses(n, v) ==
  n = None \/ (kind = "voltage" /\ n \in Ranged /\ ~InRange(n, v))

Bug_BootLine ==                  \* wrong: only the first line is read
  /\ pc = "boot" /\ pos <= Len(file)
  /\ dev' = [dev EXCEPT ![Named(file[1])] = file[1].value]
  /\ pos' = Len(file) + 1 /\ last' = Named(file[1])
  /\ UNCHANGED <<kind, file, disk, pc, call, ret, refused>>
BootLine ==
  /\ pc = "boot" /\ pos <= Len(file)
  /\ LET e == file[pos]
         n == Named(e) IN
     \/ /\ BootRefuses(n, e.value) /\ Ended /\ UNCHANGED dev
        /\ pc' = "down" /\ ret' = "error"
     \/ /\ ~BootRefuses(n, e.value) /\ UNCHANGED <<pc, ret>>
        /\ dev' = [dev EXCEPT ![n] = e.value]
        /\ pos' = pos + 1 /\ last' = n
     \/ /\ ~BootRefuses(n, e.value) /\ MayFail /\ Ended
        /\ pc' = "down" /\ ret' = "error"
        /\ \E v \in Left(n, e.value) : dev' = [dev EXCEPT ![n] = v]
  /\ UNCHANGED <<kind, file, disk, call, refused>>

BootDone ==
  /\ pc = "boot" /\ pos > Len(file)
  /\ Return("booted") /\ Ended
  /\ UNCHANGED <<kind, dev, file, disk, call, refused>>

\* The daemon is killed; devices and file stay as they are.
Die ==
  /\ pc # "down"
  /\ pc' = "down" /\ ret' = "none" /\ Ended
  /\ UNCHANGED <<kind, dev, file, disk, call, refused>>

PowerCycle ==
  /\ dev' = [n \in Known |-> PowerUp[n]] /\ file' = disk
  /\ pc' = "down" /\ ret' = "none" /\ Ended
  /\ UNCHANGED <<kind, disk, call, refused>>

\* The kernel writes the file back in its own time.
WriteBack ==
  /\ disk # file /\ disk' = file
  /\ UNCHANGED <<kind, dev, file, pc, call, pos, last, ret, refused>>

Next ==
  \/ \E c \in Calls : Start(c)
  \/ SetDevice \/ Remove \/ AppendEntry \/ Sync \/ Clean \/ Flush
  \/ Restart \/ BootLine \/ BootDone
  \/ Die \/ PowerCycle \/ WriteBack

Spec == Init /\ [][Next]_vars

-----------------------------------------------------------------------------
(* Properties.                                                             *)

\* Whatever is stored is in units that the file can keep.
TypeOK ==
  /\ kind \in Kinds /\ refused \in BOOLEAN
  /\ dev \in [Known -> Nat \cup {Off}]
  /\ file \in Seq(Entries) /\ disk \in Seq(Entries)
  /\ \A i \in DOMAIN file : file[i].value % 10 = 0
  /\ pc \in Labels
  /\ call \in Calls
  /\ pos \in 1 .. MaxEntries + 1
  /\ last \in Known \cup {None}
  /\ ret \in {"none", "ok", "error", "booted"}

(***************************************************************************)
(* A successful setboot survives a loss of power, and a successful restore *)
(* leaves nothing that a later boot would set, whatever failures have left *)
(* in the file before, unless the file system refused a change to it.      *)
(***************************************************************************)
Succeeded(o) == pc = "idle" /\ ret = "ok" /\ call.op = o
Gone(n) == Entry(file, n) = None /\ Entry(disk, n) = None
Durable ==
  ~refused =>
    /\ Succeeded("setboot") => Entry(disk, call.name) = Rounded(call.value)
    /\ Succeeded("restore") => Gone(call.name)
\* Taking the success of a restore at its word, as its caller does.
Forgotten == Succeeded("restore") => Gone(call.name)

(***************************************************************************)
(* After start-up every device with a boot setting has that setting, even  *)
(* when crashes and failures have left several entries for it.             *)
(***************************************************************************)
Booted ==
  pc = "idle" /\ ret = "booted" =>
    \A n \in Known : Entry(file, n) # None => dev[n] = Entry(file, n)

(***************************************************************************)
(* No entry that a command wrote is refused at start-up: a stored setting  *)
(* alone never keeps the daemon from starting, in spite of the rounding.   *)
(***************************************************************************)
NeverLocksOut ==
  \A i \in DOMAIN file :
    file[i].name \in Ranged => InRange(file[i].name, file[i].value)

-----------------------------------------------------------------------------

\* The devices whose entry is being changed by the command in progress.
Changing ==
  IF pc \in {"device", "remove", "append", "sync", "clean", "flush"}
     /\ call.op # "set" THEN {call.name} ELSE {}

Settings == INSTANCE BootSettings WITH
  boot    <- [n \in Names |-> Entry(file, n)],
  settled <- {n \in Names \ Changing : Entry(file, n) = Entry(disk, n)}

(***************************************************************************)
(* The files implement the boot settings: a command, its failure, a crash  *)
(* or a loss of power in any of its steps touches no setting but its own.  *)
(***************************************************************************)
Implements == Settings!Spec

=============================================================================

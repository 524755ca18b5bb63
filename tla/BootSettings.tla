---------------------------- MODULE BootSettings ----------------------------
(***************************************************************************)
(* What the boot commands promise, without files or daemons: every device  *)
(* has a boot setting, the value the next boot gives it, or none.  A       *)
(* setting is settled unless a command on that very device is under way or *)
(* has failed; a settled setting is the same before and after a crash or a *)
(* loss of power, whatever is done to other devices.                       *)
(***************************************************************************)
EXTENDS Naturals

CONSTANTS Names, None

VARIABLES
  boot,     \* boot[n]: what the next boot sets device n to, or None
  settled   \* the devices whose setting cannot be lost

settings == <<boot, settled>>

TypeOK ==
  boot \in [Names -> Nat \cup {None}] /\ settled \subseteq Names

Init == boot \in [Names -> Nat \cup {None}] /\ settled = Names

\* A command that changes the boot setting of one device begins.
Begin(n) == settled' = settled \ {n} /\ UNCHANGED boot

\* The settings that are not settled take any value; more may settle.
Change ==
  /\ settled \subseteq settled' /\ settled' \subseteq Names
  /\ DOMAIN boot' = Names
  /\ \A n \in Names : boot'[n] # boot[n] => n \notin settled

Next == Change \/ \E n \in Names : Begin(n)

Spec == Init /\ [][Next]_settings

=============================================================================

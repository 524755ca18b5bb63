-------------------------- MODULE RegulatorFaults --------------------------
(***************************************************************************)
(* Regulator with a history variable: whether a transaction has failed or  *)
(* the daemon has died in the middle of a call.  The code and the chip do  *)
(* not see it; it only lets a property say "as long as nothing failed" of  *)
(* the same runs in which things do fail.                                  *)
(***************************************************************************)
EXTENDS Regulator

VARIABLE failed

allvars == <<vars, failed>>

\* A call that was on the bus ended, and not with success.
CutShort == pc # "idle" /\ pc' = "idle" /\ ret' # "ok"

Remember == failed' = (failed \/ CutShort)

FaultsInit == Init /\ failed = FALSE
FaultsNext == Next /\ Remember

\* The call runs to its end unless the daemon dies.
FaultsSpec ==
  FaultsInit /\ [][FaultsNext]_allvars /\ WF_allvars(Step /\ Remember)

-----------------------------------------------------------------------------
(* Properties.                                                             *)

(***************************************************************************)
(* The comment above the limit handling: in the absolute format the        *)
(* software keeps the undervoltage limits.  Until a first call is cut      *)
(* short, an enabled rail never stands below them.                         *)
(***************************************************************************)
UnderLimits == ~failed => UnderLimitsHold

(***************************************************************************)
(* A rail that Access_Regulator has turned off is turned on again, unless  *)
(* a call was cut short.                                                   *)
(***************************************************************************)
ComesBack == \A r \in Rails : ~chip[r].on ~> (chip[r].on \/ failed)

=============================================================================

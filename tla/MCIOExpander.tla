---------------------------- MODULE MCIOExpander ----------------------------
(***************************************************************************)
(* An instance of IOExpander: the VPK120 with its two QSFP-DD modules on   *)
(* one bus, and a module without a select.                                 *)
(***************************************************************************)
EXTENDS IOExpander

CONSTANTS p1, p2, reset, prsnt, q1, q2, sfp1

MCListing == <<q1, sfp1, q2>>
MCMethod == [m \in Modules |-> IF m = sfp1 THEN "none" ELSE "pin"]
MCSelectPin ==
  [m \in Modules |-> CASE m = q1 -> p1 [] m = q2 -> p2 [] OTHER -> None]

=============================================================================

----------------------------- MODULE MCFmcVadj -----------------------------
(***************************************************************************)
(* An instance of FmcVadj and IOExpander: two slots, the second one behind *)
(* a switch; two modules on one bus that are selected by pins, one by a    *)
(* PDI and one that listSFP detects by a script.  Voltages are in tenths   *)
(* of a volt.                                                              *)
(***************************************************************************)
EXTENDS FmcVadj

CONSTANTS p1, p2, reset, prsnt1, prsnt2, q1, q2, viaPdi, scanned

MCListing == <<q1, viaPdi, scanned, q2>>
MCMethod == [m \in Modules |-> CASE m \in {q1, q2} -> "pin"
                                 [] m = viaPdi     -> "pdi"
                                 [] m = scanned    -> "none"]
MCSelectPin ==
  [m \in Modules |-> CASE m = q1 -> p1 [] m = q2 -> p2 [] OTHER -> None]
MCUserValues == {{}}

MCPresencePin == <<prsnt1, prsnt2>>
MCSupported == <<12, 15>>

Record(out_, lo, hi, last) ==
  [dc |-> TRUE, end |-> last, output |-> out_, min |-> lo, max |-> hi]
\* Both voltages, the lower, the higher one, and no record to be found.
MCCards == {<<Record(1, 33, 33, FALSE), Record(0, 10, 33, FALSE)>>,
            <<Record(0, 11, 13, FALSE), Record(0, 14, 33, FALSE)>>,
            <<Record(0, 14, 20, FALSE)>>,
            <<Record(1, 12, 12, FALSE), Record(0, 10, 33, TRUE)>>}

=============================================================================

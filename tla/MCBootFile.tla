----------------------------- MODULE MCBootFile -----------------------------
(***************************************************************************)
(* An instance of BootFile.  Two devices with a range, a and b, and a      *)
(* clock c with none.  Values are tenths of a millivolt, or of a kilohertz. *)
(***************************************************************************)
EXTENDS BootFile, TLC

CONSTANTS a, b, c

MCDevices == [k \in Kinds |-> IF k = "clock" THEN {a, b, c} ELSE {a, b}]
MCRanged  == {a, b}
MCLow     == [n \in Ranged |-> 8000]
MCHigh    == [n \in Ranged |-> 9000]
MCDefault == [n \in {a, b, c} |-> 8500]
MCPowerUp == [n \in {a, b, c} |-> 8500]

\* A value that is rounded up to the limit, the default one, one refused.
MCRequests == {8996, 8500, 9006}

NoFile == {<<>>}

\* The devices with a range are alike.
Alike == Permutations({a, b})

=============================================================================

---------------------------- MODULE MCRegulator ----------------------------
(***************************************************************************)
(* Instances of Regulator: a chip with a rail that has a range and one     *)
(* that has none, in the absolute format, and a chip with a single rail.   *)
(* A register unit is 2^-8 V, and a part of it a hundredth, in which the   *)
(* voltages of the board files are whole numbers.                          *)
(***************************************************************************)
EXTENDS RegulatorFaults

CONSTANTS r1, r2

MCLimited == {r1}

\* VADJ_FMC of the VCK190: 0 V - 1.55 V, 396.8 units.
MCMinVolt == [r \in MCLimited |-> 0]
MCMaxVolt == [r \in MCLimited |-> 39680]

\* Limits as a chip is delivered with them: +/- 10 and 3 per cent of units.
Delivered(units) ==
  LET near(pct) == Nearest(pct * Parts * units) IN
  [on |-> TRUE, vout |-> units,
   lim |-> [ovf |-> near(110), ovw |-> near(103),
            uvw |-> near(97), uvf |-> near(90)]]

MCPowerUp == [r \in Rails |-> Delivered(IF r = r1 THEN 384 ELSE 307)]

\* 0 V and the end of the range; what only the rail without a range takes:
\* 256 V, of which two bytes hold 0, and a negative voltage.
MCRequests == {0, 39680, 6553600, -100}

\* Those between which the output moves in either direction.
WideRequests == {0, 10000, 25600, 38400, 39680}

=============================================================================

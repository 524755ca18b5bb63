------------------------------ MODULE MCVersal ------------------------------
(***************************************************************************)
(* An instance of Versal: two mode lines, line 1 pulled to 0 by the boot   *)
(* mode switch, so that the mode sd is refused; production silicon, and a  *)
(* custom PDI beside the two default ones.                                 *)
(***************************************************************************)
EXTENDS Versal

CONSTANTS jtag, sd, qspi, custom, pdiES1, pdiPROD

MCOnes == [m \in Modes |-> CASE m = jtag -> {} [] m = qspi -> {0}
                             [] m = sd -> {0, 1}]
MCDefault == [r \in Revisions |-> IF r = "ES1" THEN pdiES1 ELSE pdiPROD]

=============================================================================

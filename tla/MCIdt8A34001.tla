---------------------------- MODULE MCIdt8A34001 ----------------------------
(***************************************************************************)
(* Instances of Idt8A34001: the default design d0 and d1 have an EEPROM    *)
(* image, the custom designs c1 and c2 have none.                          *)
(***************************************************************************)
EXTENDS Idt8A34001

CONSTANTS d0, d1, c1, c2

=============================================================================

-------------------------------- MODULE MCPs2 ---------------------------------
(* Enter pressed and released, whose break code 9C also reads as a          *)
(* configuration byte that turns the keyboard off; a long move to the right  *)
(* with the left button down, a fast move that overflows, and one to the     *)
(* left.                                                                     *)
EXTENDS Ps2

MCPackets == {<<9, 127, 8>>, <<72, 255, 0>>, <<24, 200, 0>>}
===============================================================================

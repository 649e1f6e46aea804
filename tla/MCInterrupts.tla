----------------------------- MODULE MCInterrupts ----------------------------
(* The timer, the mouse, and the lowest line of each chip, on which real    *)
(* and spurious interrupts meet.                                            *)
EXTENDS Interrupts
==============================================================================

-------------------------------- MODULE MCBoot --------------------------------
(* Up to two display controllers of seven kinds, in every order.              *)
EXTENDS Boot

Controller(intel, vga, bar0, bar2, powers) ==
    [intel |-> intel, vga |-> vga, bar0 |-> bar0, bar2 |-> bar2, powers |-> powers]

MCDisplays ==
    {Controller(FALSE, TRUE, "unmapped", "unmapped", TRUE),
     Controller(TRUE, FALSE, "unmapped", "unmapped", TRUE),
     Controller(TRUE, TRUE, "unmapped", "unmapped", TRUE),
     Controller(TRUE, TRUE, "mapped", "null", TRUE),
     Controller(TRUE, TRUE, "mapped", "mapped", FALSE),
     Controller(TRUE, TRUE, "mapped", "mapped", TRUE),
     Controller(TRUE, TRUE, "mapped", "unmapped", TRUE)}
===============================================================================

------------------------------ MODULE MCDesktop -------------------------------
(* Where the pointer's points fall on the screen, before and after the drag   *)
(* that takes the calculator to the top, as far right as the drag went.       *)
(* - Windows: columns 80, 210 and 250, rows 35 and 145.  Before: "4", "*",    *)
(*   the title bar and the close button of the calculator; after: "4", "*",   *)
(*   "C" and "="; the title bar and the close button of the one window.       *)
(* - Divisions: columns 81 and 211, rows 110 and 162: "7", "1", "/", "-".     *)
(* - Points: columns 212 and 252, rows 37 and 112.  Before: "/", title bar    *)
(*   and close button; after: "6", "*", ".", "+".                             *)
EXTENDS Desktop

MCRegions == {{160, 420, 500} \X {84, 348},
              {162, 422} \X {264, 389},
              {424, 504} \X {89, 269}}
MCShapes == {[x |-> 120, y |-> 136, w |-> 150, h |-> 36]}

\* Whatever simple_ftoa shows of a number, negative, with a fraction, beyond
\* the range of an int, is near it where ResultShown says it is.
ASSUME ConversionsAgree ==
    \A v \in (-Beyond - Unit) .. (Beyond + Unit) : \A text \in Shown(v) : Agrees(text, v)
===============================================================================

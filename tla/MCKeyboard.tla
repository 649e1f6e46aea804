----------------------------- MODULE MCKeyboard ------------------------------
(* A ring of 3 slots, which fills, drops and wraps within five keystrokes.  *)
EXTENDS Keyboard

MCPlain == [a |-> "a", enter |-> "nl", f1 |-> "nul"]
MCShifted == [a |-> "A", enter |-> "nl", f1 |-> "nul"]
==============================================================================

------------------------------- MODULE MCShell --------------------------------
(* A screen of 3 rows and 4 columns, a scrollback of 2 lines and a line of 4 *)
(* characters: lines wrap, scroll and overrun every buffer.  "c" clears, "e"  *)
(* echoes, and there is one command that only prints, "ec".                   *)
EXTENDS Shell

MCPrompt == <<"z", ">">>
MCBanner == <<"s", Newline>>
MCUnknown == <<"u">>
MCTexts == (<<"e", "c">> :> <<"h", Newline, "h", Newline>>)
MCClear == <<"c">>
MCEcho == <<"e">>
MCGlyphs == {" ", "c", "e", "z", ">", "s", "u", "h"}
MCKeys == {" ", "c", "e", Backspace, TabKey}
===============================================================================

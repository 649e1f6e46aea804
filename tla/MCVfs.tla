-------------------------------- MODULE MCVfs --------------------------------
(* A component holds two letters, a directory part four characters: the name  *)
(* "aba" is taken for "ab/a", and a file made as "/ab/b/a" lands in "/ab".    *)
EXTENDS Vfs

CONSTANTS a, b, D, F, G

MCNameLists == {<<n>> : n \in {<<a>>, <<b>>, <<a, b>>}} \cup
               {<<m, n>> : m \in {<<a>>, <<a, b>>}, n \in {<<a>>, <<b>>}}

MCPaths == {<<Slash>>, <<a>>, <<Slash, b>>, <<a, b>>, <<Slash, a, Slash, b>>,
            <<Slash, a, b, Slash, a>>, <<a, b, Slash>>, <<a, b, a>>, <<Slash, a, b, Slash, b, Slash, a>>}

MCMoves == {-1, 1}
==============================================================================

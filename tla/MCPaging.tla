------------------------------ MODULE MCPaging -------------------------------
(* Three directory entries for a pool of two tables of two entries, the     *)
(* first table holding the identity map: one entry must go without a table. *)
EXTENDS Paging

MCFrames == {<<0, 0>>, <<0, 1>>, <<1, 0>>}
==============================================================================

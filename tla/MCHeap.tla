------------------------------- MODULE MCHeap --------------------------------
(* A heap of 24 words: room for six blocks of one word, and for      *)
(* every case of the split test (leftover of 0..4 words, more than 4).      *)
EXTENDS Heap
==============================================================================

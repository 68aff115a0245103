------------------------------ MODULE BlockHeap ------------------------------
(***************************************************************************)
(* What the memory manager of gplib/mm promises about its variable-size    *)
(* part: blocks of words that never overlap, each put where nothing is and *)
(* taken away again.                                                       *)
(***************************************************************************)
EXTENDS Integers

CONSTANT Words   (* The words that may be handed out.                       *)

VARIABLE blocks  (* The blocks in use, as pairs <<first word, last word>>.  *)

Overlap(b, c) == b[1] <= c[2] /\ c[1] <= b[2]

BlocksInit == blocks = {}

Reserve(b) ==
  /\ b[1] <= b[2]
  /\ \A c \in blocks : ~ Overlap(b, c)
  /\ blocks' = blocks \cup {b}

Release(b) ==
  /\ b \in blocks
  /\ blocks' = blocks \ {b}

BlocksNext ==
  \/ \E b \in Words \X Words : Reserve(b)
  \/ \E b \in blocks : Release(b)

BlocksSpec == BlocksInit /\ [][BlocksNext]_blocks

=============================================================================

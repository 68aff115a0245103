------------------------------- MODULE MCHeap -------------------------------
(* Instances of Heap for TLC.                                               *)
EXTENDS Heap

\* One block of 4 bytes.
MCPools == << <<4, 1>> >>

=============================================================================

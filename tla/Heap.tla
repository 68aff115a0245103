-------------------------------- MODULE Heap --------------------------------
(***************************************************************************)
(* The memory manager of gplib/mm: pools of blocks of fixed sizes, and     *)
(* above them one heap whose used blocks form a list in the order of their *)
(* addresses.  A block of the heap begins with two words: the address of   *)
(* the next header and that of the last word of its own data.              *)
(*                                                                         *)
(* A semaphore guards both.  The tasks that wait for it, the walk along    *)
(* the list (one action per header) and the moment after its release are   *)
(* all steps of their own; the search of the pools, which touches nothing  *)
(* but its own flags under the semaphore, is one.                          *)
(*                                                                         *)
(* Addresses are in words of 4 bytes, sizes and alignments in bytes, as in *)
(* the calls.  A request of 0 bytes returns NULL at once and is left out.  *)
(***************************************************************************)
EXTENDS Integers, Sequences, FiniteSets

CONSTANTS
  Tasks,     (* The tasks that allocate and release memory.                 *)
  Pools,     (* The fixed sizes, ascending: <<bytes, blocks>> each.         *)
  Base,      (* The first word of the memory.                               *)
  HeapEnd,   (* The first word behind the memory.                           *)
  Sizes,     (* The sizes asked for.                                        *)
  Aligns     (* The alignments asked for.                                   *)

NULL == 0
Nobody == "nobody"

WordsOf(bytes) == (bytes + 3) \div 4

\* Where the blocks of pool number c begin; one further, where the heap does.
PoolStart[c \in 1 .. Len(Pools) + 1] ==
  IF c = 1 THEN Base
  ELSE PoolStart[c - 1] + Pools[c - 1][2] * WordsOf(Pools[c - 1][1])

HeapStart == PoolStart[Len(Pools) + 1]

PoolBlock(c, i) == PoolStart[c] + i * WordsOf(Pools[c][1])
BlocksOfPool(c) == {PoolBlock(c, i) : i \in 0 .. Pools[c][2] - 1}
PoolBlocks == UNION {BlocksOfPool(c) : c \in 1 .. Len(Pools)}

\* The blocks that gp_fixed_size_malloc tries for a request of this size.
PoolBlocksFor(bytes) ==
  UNION {BlocksOfPool(c) : c \in {k \in 1 .. Len(Pools) : bytes <= Pools[k][1]}}

HeapHead == HeapStart
HeapTail == HeapEnd - 2
Addr == HeapStart .. HeapEnd
Junk == -1           \* A word that holds no header any more.

ASSUME HeapAssumption ==
  /\ Nobody \notin Tasks
  /\ Base \in Nat \ {0}
  /\ HeapStart \in Nat \ {0}
  /\ HeapEnd \in Nat
  /\ HeapStart + 4 <= HeapEnd
  /\ PoolBlocks \subseteq Nat \ {0}
  /\ \A a \in PoolBlocks : a < HeapStart
  /\ Sizes \subseteq Nat \ {0}
  /\ Aligns \subseteq Nat

VARIABLES
  used,      (* The blocks of the pools whose flag is set.                  *)
  next,      (* Memory: the first word of a header at each address.         *)
  end,       (* Memory: the second word of a header at each address.        *)
  lock,      (* The task that holds the semaphore.                          *)
  pc,        (* Where each task is in its call.                             *)
  call,      (* The call it is in, with its arguments.                      *)
  pmm,       (* The header its walk has come to.                            *)
  live,      (* History: pointers given out and not yet released.           *)
  hdrs,      (* History: the headers in the list.                           *)
  made,      (* History: the data of the block gp_malloc has just inserted. *)
  strayed    (* History: has gp_malloc returned another address than that?  *)

hvars == <<used, next, end, lock, pc, call, pmm, live, hdrs,
           made, strayed>>
memory == <<used, next, end, hdrs>>

CallOf(o, s, a, p) == [op |-> o, size |-> s, align |-> a, ptr |-> p]
NoCall == CallOf("none", 0, 1, NULL)
Calls == [op : {"none", "gp_malloc", "gp_malloc_align", "gp_free"},
          size : Nat, align : Nat \ {0}, ptr : Nat]

TypeOK ==
  /\ used \subseteq PoolBlocks
  /\ next \in [Addr -> Addr \cup {NULL, Junk}]
  /\ end \in [Addr -> Addr \cup {NULL}]
  /\ lock \in Tasks \cup {Nobody}
  /\ pc \in [Tasks -> {"idle", "pool", "heap", "walk", "unlocked"}]
  /\ call \in [Tasks -> Calls]
  /\ pmm \in [Tasks -> Addr]
  /\ live \subseteq Nat
  /\ hdrs \subseteq Addr
  /\ made \in [Tasks -> Nat]
  /\ strayed \in BOOLEAN

Init ==
  /\ used = {}
  /\ next = [a \in Addr |-> IF a = HeapHead THEN HeapTail ELSE NULL]
  /\ end = [a \in Addr |-> IF a = HeapHead THEN HeapHead + 1 ELSE NULL]
  /\ lock = Nobody
  /\ pc = [t \in Tasks |-> "idle"]
  /\ call = [t \in Tasks |-> NoCall]
  /\ pmm = [t \in Tasks |-> HeapHead]
  /\ live = {}
  /\ hdrs = {HeapHead, HeapTail}
  /\ made = [t \in Tasks |-> NULL]
  /\ strayed = FALSE

-----------------------------------------------------------------------------
(* The calls: their arguments, and what they do before the semaphore.       *)

\* Mutant of AlignWords: the alignment is taken as it comes.
AlignWordsUnchecked(bytes) == bytes \div 4

\* An alignment that is no power of 2, or below 4 bytes, counts as 4 bytes.
AlignWords(bytes) ==
  IF bytes >= 4 /\ \E k \in 2 .. 30 : bytes = 2^k THEN bytes \div 4 ELSE 1

Enter(t, label, c) ==
  /\ pc[t] = "idle"
  /\ pc' = [pc EXCEPT ![t] = label]
  /\ call' = [call EXCEPT ![t] = c]
  /\ pmm' = [pmm EXCEPT ![t] = HeapHead]
  /\ UNCHANGED <<memory, lock, made, strayed>>

Leave(t) ==
  /\ pc' = [pc EXCEPT ![t] = "idle"]
  /\ call' = [call EXCEPT ![t] = NoCall]
  /\ pmm' = [pmm EXCEPT ![t] = HeapHead]

\* A request no pool is made for goes straight to the heap.
GpMalloc(t) ==
  /\ \E s \in Sizes :
       Enter(t, IF PoolBlocksFor(s) = {} THEN "heap" ELSE "pool",
             CallOf("gp_malloc", s, 1, NULL))
  /\ UNCHANGED live

GpMallocAlign(t) ==
  /\ \E s \in Sizes, a \in Aligns :
       Enter(t, "heap", CallOf("gp_malloc_align", s, AlignWords(a), NULL))
  /\ UNCHANGED live

\* Any task may release what any task was given.
GpFree(t) ==
  \E p \in live :
    /\ Enter(t, IF p < HeapStart THEN "pool" ELSE "heap",
             CallOf("gp_free", 0, 1, p))
    /\ live' = live \ {p}

-----------------------------------------------------------------------------
(* The pools.                                                               *)

Least(S) == CHOOSE x \in S : \A y \in S : x <= y

\* The pools lie in ascending order, and each is searched from its start.
GpFixedSizeMalloc(t) ==
  LET free == PoolBlocksFor(call[t].size) \ used IN
  /\ pc[t] = "pool"
  /\ call[t].op = "gp_malloc"
  /\ lock = Nobody
  /\ IF free # {}
     THEN /\ used' = used \cup {Least(free)}
          /\ live' = live \cup {Least(free)}
          /\ Leave(t)
     ELSE /\ pc' = [pc EXCEPT ![t] = "heap"]
          /\ UNCHANGED <<used, live, call, pmm>>
  /\ UNCHANGED <<next, end, lock, hdrs, made, strayed>>

GpFixedSizeFree(t) ==
  /\ pc[t] = "pool"
  /\ call[t].op = "gp_free"
  /\ lock = Nobody
  /\ used' = used \ {call[t].ptr}
  /\ Leave(t)
  /\ UNCHANGED <<next, end, lock, live, hdrs, made, strayed>>

-----------------------------------------------------------------------------
(* The heap, under the semaphore.                                           *)

\* Mutant of Lock: the semaphore is not waited for.
LockAnyway(t) ==
  /\ pc[t] = "heap"
  /\ lock' = t
  /\ pc' = [pc EXCEPT ![t] = "walk"]
  /\ UNCHANGED <<memory, call, pmm, live, made, strayed>>

Lock(t) ==
  /\ pc[t] = "heap"
  /\ lock = Nobody
  /\ lock' = t
  /\ pc' = [pc EXCEPT ![t] = "walk"]
  /\ UNCHANGED <<memory, call, pmm, live, made, strayed>>

\* Mutant of AlignUp: rounds down, over the header of the new block.
AlignDown(a, n) == a - (a % n)

AlignUp(a, n) == a + ((n - (a % n)) % n)

\* Where the data of a new block behind the header h would begin.
DataBehind(t, h) == AlignUp(end[h] + 3, call[t].align)

\* Mutant of Fits: gp_malloc takes a gap one word too small.
FitsTooTight(t, h) ==
  CASE call[t].op = "gp_malloc" ->
         next[h] - end[h] >= WordsOf(call[t].size) + 2
    [] call[t].op = "gp_malloc_align" ->
         /\ DataBehind(t, h) < next[h]
         /\ next[h] - DataBehind(t, h) >= WordsOf(call[t].size)
    [] call[t].op = "gp_free" ->
         next[h] + 2 = call[t].ptr

\* Mutant of Fits: gp_malloc_align passes a gap by that fits exactly.
FitsNotExactly(t, h) ==
  CASE call[t].op = "gp_malloc" ->
         next[h] - end[h] > WordsOf(call[t].size) + 2
    [] call[t].op = "gp_malloc_align" ->
         /\ DataBehind(t, h) < next[h]
         /\ next[h] - DataBehind(t, h) > WordsOf(call[t].size)
    [] call[t].op = "gp_free" ->
         next[h] + 2 = call[t].ptr

\* gp_malloc counts the words between the end and the next header;
\* gp_malloc_align those left behind the aligned address.
Fits(t, h) ==
  CASE call[t].op = "gp_malloc" ->
         next[h] - end[h] > WordsOf(call[t].size) + 2
    [] call[t].op = "gp_malloc_align" ->
         /\ DataBehind(t, h) < next[h]
         /\ next[h] - DataBehind(t, h) >= WordsOf(call[t].size)
    [] call[t].op = "gp_free" ->
         next[h] + 2 = call[t].ptr

Walking(t) == pc[t] = "walk" /\ next[pmm[t]] # NULL

\* The header and the data of the new block overwrite what was there.
InsertBlock(t) ==
  LET h == pmm[t]
      d == DataBehind(t, h)
      e == d + WordsOf(call[t].size) - 1
  IN /\ Walking(t)
     /\ Fits(t, h)
     /\ next' = [a \in Addr |-> CASE a = h -> d - 2
                                  [] a = d - 2 -> next[h]
                                  [] a \in d - 1 .. e -> Junk
                                  [] OTHER -> next[a]]
     /\ end' = [end EXCEPT ![d - 2] = e]
     /\ hdrs' = hdrs \cup {d - 2}
     /\ lock' = Nobody
     /\ UNCHANGED used

MallocInserts(t) ==
  /\ call[t].op = "gp_malloc"
  /\ InsertBlock(t)
  /\ made' = [made EXCEPT ![t] = DataBehind(t, pmm[t])]
  /\ pc' = [pc EXCEPT ![t] = "unlocked"]
  /\ UNCHANGED <<call, pmm, live, strayed>>

\* gp_malloc reads the header it stopped at again, without the semaphore, to
\* find the block it has made.  When something else stands there by now, the
\* caller gets the address of another block, or of none; what it does with
\* that is not modelled.
MallocReturns(t) ==
  /\ pc[t] = "unlocked"
  /\ IF next[pmm[t]] + 2 = made[t]
     THEN live' = live \cup {made[t]} /\ UNCHANGED strayed
     ELSE strayed' = TRUE /\ UNCHANGED live
  /\ made' = [made EXCEPT ![t] = NULL]
  /\ Leave(t)
  /\ UNCHANGED <<memory, lock>>

MallocAlignInserts(t) ==
  /\ call[t].op = "gp_malloc_align"
  /\ InsertBlock(t)
  /\ live' = live \cup {DataBehind(t, pmm[t])}
  /\ Leave(t)
  /\ UNCHANGED <<made, strayed>>

\* The end of a block out of the list is not read again, and is forgotten.
Unlink(t) ==
  LET h == pmm[t] IN
  /\ call[t].op = "gp_free"
  /\ Walking(t)
  /\ Fits(t, h)
  /\ next' = [next EXCEPT ![h] = next[next[h]]]
  /\ end' = [end EXCEPT ![next[h]] = NULL]
  /\ hdrs' = hdrs \ {next[h]}
  /\ lock' = Nobody
  /\ Leave(t)
  /\ UNCHANGED <<used, live, made, strayed>>

\* Mutant of Advance: gp_malloc_align stays where the gap is too small.
AdvanceNot(t) ==
  LET n == next[pmm[t]] IN
  /\ Walking(t)
  /\ ~ Fits(t, pmm[t])
  /\ IF n \in Addr
     THEN /\ pmm' = [pmm EXCEPT ![t] =
                      IF call[t].op = "gp_malloc_align" THEN @ ELSE n]
          /\ UNCHANGED <<pc, call>>
     ELSE Leave(t)
  /\ UNCHANGED <<memory, lock, live, made, strayed>>

\* One header further.  An address outside the heap ("MM Error") ends the
\* call with the semaphore still held.
Advance(t) ==
  LET n == next[pmm[t]] IN
  /\ Walking(t)
  /\ ~ Fits(t, pmm[t])
  /\ IF n \in Addr
     THEN pmm' = [pmm EXCEPT ![t] = n] /\ UNCHANGED <<pc, call>>
     ELSE Leave(t)
  /\ UNCHANGED <<memory, lock, live, made, strayed>>

\* The end of the list: NULL for a request, nothing done for a release.
NotFound(t) ==
  /\ pc[t] = "walk"
  /\ next[pmm[t]] = NULL
  /\ lock' = Nobody
  /\ Leave(t)
  /\ UNCHANGED <<memory, live, made, strayed>>

-----------------------------------------------------------------------------

Step(t) ==
  \/ GpFixedSizeMalloc(t) \/ GpFixedSizeFree(t)
  \/ Lock(t) \/ Advance(t) \/ NotFound(t)
  \/ MallocInserts(t) \/ MallocReturns(t)
  \/ MallocAlignInserts(t) \/ Unlink(t)

Next == \E t \in Tasks : GpMalloc(t) \/ GpMallocAlign(t) \/ GpFree(t) \/ Step(t)

Spec == Init /\ [][Next]_hvars

\* A task that has begun a call goes on, and the semaphore is given to each
\* task that waits for it (uC/OS-II gives it to the highest priority among the
\* waiting ones; the others come when that one sleeps).
FairSpec == Spec /\ \A t \in Tasks : SF_hvars(Step(t))

-----------------------------------------------------------------------------
(* The list.                                                                *)

Blocks == hdrs \ {HeapHead, HeapTail}

\* Each header but the last is followed by the next higher one, and its data
\* ends before that.
ListSound ==
  /\ {HeapHead, HeapTail} \subseteq hdrs
  /\ \A h \in hdrs : HeapHead <= h /\ h <= HeapTail
  /\ next[HeapTail] = NULL
  /\ end[HeapHead] = HeapHead + 1
  /\ \A h \in hdrs \ {HeapTail} :
       /\ h < end[h] /\ end[h] < next[h]
       /\ next[h] \in hdrs
       /\ \A g \in hdrs : g <= h \/ next[h] <= g

\* What a block occupies, its header included.
Occupied(h) == IF h = HeapTail THEN h .. HeapEnd - 1 ELSE h .. end[h]

\* A place for the data of the request of t: aligned, and with its header on
\* words that no block occupies.
Place(t, d) ==
  /\ d % call[t].align = 0
  /\ \A h \in hdrs :
       (d - 2 .. d + WordsOf(call[t].size) - 1) \cap Occupied(h) = {}

\* A walk that comes to the end of the list has missed nothing: a request is
\* refused only when no place in the whole heap would do, and a release is
\* given up only when there is no such block.
WalkMissesNothing ==
  \A t \in Tasks :
    pc[t] = "walk" /\ pmm[t] = HeapTail =>
      IF call[t].op = "gp_free"
      THEN call[t].ptr - 2 \notin Blocks
      ELSE ~ \E d \in HeapStart + 4 .. HeapEnd - 3 : Place(t, d)

\* Every call returns: no walk goes round in a circle, and none leaves the
\* list ("MM Error") with the semaphore held, which would stop every other
\* task at its next call.
CallsReturn == \A t \in Tasks : (pc[t] # "idle") ~> (pc[t] = "idle")

\* What is given out is in use, and nothing is given out twice: neither while
\* somebody has it, nor while it is on its way back, nor while gp_malloc is
\* about to return it.
Allocated == used \cup {h + 2 : h \in Blocks}

InHand(t) ==
  IF pc[t] = "unlocked" THEN {made[t]}
  ELSE IF call[t].op = "gp_free" THEN {call[t].ptr} ELSE {}

OwnedOnce ==
  /\ live \subseteq Allocated
  /\ \A t \in Tasks : InHand(t) \subseteq Allocated \ live
  /\ \A t, u \in Tasks : t # u => InHand(t) \cap InHand(u) = {}

\* A walk begins at the first header.  The task that walks holds the
\* semaphore, stands on a header of the list, and no header it has passed
\* would have done.
Walker(t) ==
  /\ pc[t] \in {"pool", "heap"} => pmm[t] = HeapHead /\ call[t].op # "none"
  /\ pc[t] = "walk" =>
       /\ lock = t
       /\ pmm[t] \in hdrs
       /\ call[t].op # "none"
       /\ \A h \in hdrs : h < pmm[t] => ~ Fits(t, h)
  /\ call[t].op = "gp_malloc" => call[t].align = 1

Walkers == \A t \in Tasks : Walker(t)

\* The inductive invariant.
HeapInv == TypeOK /\ ListSound /\ OwnedOnce /\ Walkers

\* gp_malloc returns the block that it has inserted.  The code breaks it when
\* another task runs between the release of the semaphore and the return
\* (README, section 5): no run has it.
ReturnsItsBlock == ~ strayed

\* The blocks of the list, header included, are blocks that never overlap.
Heap == INSTANCE BlockHeap WITH
  Words <- Addr, blocks <- {<<h, end[h]>> : h \in Blocks}

ImplementsBlocks == Heap!BlocksSpec

=============================================================================

----------------------------- MODULE HeapProofs -----------------------------
(***************************************************************************)
(* Proofs about Heap, for every number of tasks, pools and words, and for  *)
(* every size and alignment asked for.                                     *)
(***************************************************************************)
EXTENDS Heap, LeastElements, TLAPS

-----------------------------------------------------------------------------
(* Addresses, sizes, alignments.                                            *)

LEMMA Places ==
  /\ HeapHead \in Nat /\ HeapTail \in Nat /\ HeapEnd \in Nat
  /\ 0 < HeapHead /\ HeapHead + 2 <= HeapTail /\ HeapTail = HeapEnd - 2
  /\ HeapHead = HeapStart
  /\ Addr = HeapHead .. HeapEnd
  /\ HeapHead \in Addr /\ HeapTail \in Addr
  /\ NULL = 0 /\ Junk = -1 /\ NULL \notin Addr /\ Junk \notin Addr
  /\ \A a \in PoolBlocks : a \in Nat /\ a < HeapHead
BY HeapAssumption DEF HeapHead, HeapTail, Addr, NULL, Junk

LEMMA AddrNat == \A a \in Addr : a \in Nat /\ a # NULL /\ a # Junk
BY Places

LEMMA WordsOfNat == \A s \in Nat : WordsOf(s) \in Nat
BY DEF WordsOf

LEMMA AlignWordsNat == \A b \in Nat : AlignWords(b) \in Nat \ {0}
BY DEF AlignWords

\* Rounding up to an alignment never goes down.
LEMMA AlignUpAbove ==
  ASSUME NEW a \in Nat, NEW n \in Nat \ {0}
  PROVE  AlignUp(a, n) \in Nat /\ a <= AlignUp(a, n)
<1>1. a % n \in 0 .. n - 1
  OBVIOUS
<1>2. (n - (a % n)) % n \in 0 .. n - 1
  BY <1>1
<1> QED
  BY <1>2 DEF AlignUp

LEMMA AlignUpByOne == \A a \in Nat : AlignUp(a, 1) = a
BY DEF AlignUp

-----------------------------------------------------------------------------
(* A new block lies between the header it follows and the next one.         *)

NewEnd(t, h) == DataBehind(t, h) + WordsOf(call[t].size) - 1

LEMMA CallTypes ==
  ASSUME TypeOK, NEW t \in Tasks
  PROVE  /\ call[t].op \in {"none", "gp_malloc", "gp_malloc_align", "gp_free"}
         /\ call[t].size \in Nat /\ call[t].align \in Nat \ {0}
         /\ call[t].ptr \in Nat
BY DEF TypeOK, Calls

LEMMA ListPlaces ==
  ASSUME TypeOK, ListSound, NEW h \in hdrs, h # HeapTail
  PROVE  /\ h \in Addr /\ next[h] \in Addr /\ end[h] \in Addr /\ next[h] \in hdrs
         /\ h \in Nat /\ next[h] \in Nat /\ end[h] \in Nat
         /\ h < end[h] /\ end[h] < next[h] /\ next[h] <= HeapTail
         /\ HeapHead <= h /\ next[h] # NULL
<1>1. h \in Addr /\ h \in Nat
  BY AddrNat DEF TypeOK
<1>2. next[h] \in hdrs /\ next[h] \in Addr /\ next[h] \in Nat
  <2>1. next[h] \in hdrs
    BY DEF ListSound
  <2> QED
    BY <2>1, AddrNat DEF TypeOK
<1>3. end[h] \in Addr \cup {NULL}
  BY <1>1 DEF TypeOK
<1>4. h < end[h] /\ end[h] < next[h] /\ HeapHead <= h /\ next[h] <= HeapTail
  BY <1>2 DEF ListSound
<1>5. end[h] \in Addr /\ end[h] \in Nat
  BY <1>1, <1>3, <1>4, Places
<1> QED
  BY <1>1, <1>2, <1>4, <1>5, Places

LEMMA BlockFits ==
  ASSUME HeapInv, NEW t \in Tasks, NEW h \in hdrs, h # HeapTail, Fits(t, h),
         call[t].op \in {"gp_malloc", "gp_malloc_align"}
  PROVE  /\ DataBehind(t, h) \in Nat /\ NewEnd(t, h) \in Nat
         /\ end[h] < DataBehind(t, h) - 2
         /\ DataBehind(t, h) - 2 < NewEnd(t, h)
         /\ NewEnd(t, h) < next[h]
<1>1. TypeOK /\ ListSound
  BY DEF HeapInv
<1>2. end[h] \in Nat /\ next[h] \in Nat
  BY <1>1, ListPlaces
<1>3. WordsOf(call[t].size) \in Nat
  BY <1>1, CallTypes, WordsOfNat
<1>4. DataBehind(t, h) \in Nat /\ end[h] + 3 <= DataBehind(t, h)
  BY <1>1, <1>2, CallTypes, AlignUpAbove DEF DataBehind
<1>5. DataBehind(t, h) + WordsOf(call[t].size) <= next[h]
  <2>1. CASE call[t].op = "gp_malloc"
    <3>1. DataBehind(t, h) = end[h] + 3
      BY <2>1, <1>2, AlignUpByOne DEF DataBehind, HeapInv, Walkers, Walker
    <3>2. next[h] - end[h] > WordsOf(call[t].size) + 2
      BY <2>1 DEF Fits
    <3> QED
      BY <3>1, <3>2, <1>2, <1>3
  <2>2. CASE call[t].op = "gp_malloc_align"
    <3>1. next[h] - DataBehind(t, h) >= WordsOf(call[t].size)
      BY <2>2 DEF Fits
    <3> QED
      BY <3>1, <1>2, <1>3, <1>4
  <2> QED
    BY <2>1, <2>2
<1> QED
  BY <1>2, <1>3, <1>4, <1>5 DEF NewEnd

-----------------------------------------------------------------------------
(* Insertion.                                                               *)

\* What InsertBlock does to the list: n is the new header, e the end of its
\* data.
Inserted(t, n, e) ==
  /\ n = DataBehind(t, pmm[t]) - 2
  /\ n \in Addr /\ e \in Addr
  /\ pmm[t] \in hdrs /\ pmm[t] # HeapTail
  /\ end[pmm[t]] < n /\ n < e /\ e < next[pmm[t]]
  /\ n \notin hdrs
  /\ hdrs' = hdrs \cup {n}
  /\ next'[pmm[t]] = n
  /\ next'[n] = next[pmm[t]]
  /\ \A g \in hdrs \ {pmm[t]} : next'[g] = next[g]
  /\ end'[n] = e
  /\ \A g \in hdrs : end'[g] = end[g]
  /\ next' \in [Addr -> Addr \cup {NULL, Junk}]
  /\ end' \in [Addr -> Addr \cup {NULL}]
  /\ lock = t /\ lock' = Nobody /\ used' = used

\* No header of the list lies strictly between a header and its successor.
LEMMA NoneBetween ==
  ASSUME TypeOK, ListSound, NEW h \in hdrs, h # HeapTail, NEW a \in Nat,
         end[h] < a, a < next[h]
  PROVE  a \notin hdrs
<1>1. h \in Nat /\ end[h] \in Nat /\ next[h] \in Nat /\ h < end[h]
  BY ListPlaces
<1>2. \A g \in hdrs : g <= h \/ next[h] <= g
  BY DEF ListSound
<1> QED
  BY <1>1, <1>2

LEMMA InsertionFacts ==
  ASSUME HeapInv, NEW t \in Tasks, InsertBlock(t),
         call[t].op \in {"gp_malloc", "gp_malloc_align"}
  PROVE  \E n, e \in Addr : Inserted(t, n, e)
<1> DEFINE h == pmm[t]
           d == DataBehind(t, h)
           n == d - 2
           e == NewEnd(t, h)
<1>1. TypeOK /\ ListSound
  BY DEF HeapInv
<1>2. pc[t] = "walk" /\ next[h] # NULL /\ Fits(t, h)
  BY DEF InsertBlock, Walking
<1>3. h \in hdrs /\ lock = t
  BY <1>2 DEF HeapInv, Walkers, Walker
<1>4. h # HeapTail
  BY <1>1, <1>2 DEF ListSound
<1>5. d \in Nat /\ e \in Nat /\ end[h] < n /\ n < e /\ e < next[h]
  BY <1>2, <1>3, <1>4, BlockFits
<1>6. /\ h \in Addr /\ next[h] \in Addr /\ end[h] \in Nat /\ h \in Nat
      /\ next[h] \in Nat /\ h < end[h] /\ HeapHead <= h /\ next[h] <= HeapTail
  BY <1>1, <1>3, <1>4, ListPlaces
<1>7. n \in Nat /\ n \in Addr /\ e \in Addr
  BY <1>5, <1>6, Places
<1>8. n \notin hdrs
  BY <1>1, <1>3, <1>4, <1>5, <1>6, <1>7, NoneBetween
<1>9. /\ next' = [a \in Addr |-> CASE a = h -> n
                                   [] a = n -> next[h]
                                   [] a \in d - 1 .. e -> Junk
                                   [] OTHER -> next[a]]
      /\ end' = [end EXCEPT ![n] = e]
      /\ hdrs' = hdrs \cup {n} /\ lock' = Nobody /\ used' = used
  BY DEF InsertBlock, NewEnd
<1>10. h # n /\ h \notin d - 1 .. e /\ n \notin d - 1 .. e
  BY <1>5, <1>6, <1>7
<1>11. \A g \in hdrs : g # h => g # n /\ g \notin d - 1 .. e /\ g \in Addr
  <2> SUFFICES ASSUME NEW g \in hdrs, g # h
               PROVE  g # n /\ g \notin d - 1 .. e /\ g \in Addr
    OBVIOUS
  <2>1. g \in Addr /\ g \in Nat
    BY <1>1, AddrNat DEF TypeOK
  <2>2. g <= h \/ next[h] <= g
    BY <1>1, <1>3, <1>4 DEF ListSound
  <2> QED
    BY <2>1, <2>2, <1>5, <1>6, <1>7
<1> HIDE DEF n, e, d, h
<1>12. /\ next'[h] = n /\ next'[n] = next[h]
       /\ \A g \in hdrs \ {h} : next'[g] = next[g]
  BY <1>6, <1>7, <1>9, <1>10, <1>11
<1>13. end'[n] = e /\ \A g \in hdrs : end'[g] = end[g]
  BY <1>1, <1>7, <1>8, <1>9 DEF TypeOK
<1>14. next' \in [Addr -> Addr \cup {NULL, Junk}]
  <2> SUFFICES ASSUME NEW a \in Addr
               PROVE  (CASE a = h -> n [] a = n -> next[h]
                         [] a \in d - 1 .. e -> Junk [] OTHER -> next[a])
                      \in Addr \cup {NULL, Junk}
    BY <1>9
  <2>1. next[a] \in Addr \cup {NULL, Junk}
    BY <1>1 DEF TypeOK
  <2> QED
    BY <1>6, <1>7, <2>1
<1>15. end' \in [Addr -> Addr \cup {NULL}]
  BY <1>1, <1>7, <1>9 DEF TypeOK
<1> QED
  <2>1. Inserted(t, n, e)
    BY <1>3, <1>4, <1>5, <1>7, <1>8, <1>9, <1>12, <1>13, <1>14, <1>15
    DEF Inserted, h, n, d
  <2> QED
    BY <2>1, <1>7

LEMMA InsertionKeepsList ==
  ASSUME HeapInv, NEW t \in Tasks, NEW n \in Addr, NEW e \in Addr,
         Inserted(t, n, e)
  PROVE  ListSound'
<1> DEFINE h == pmm[t]
<1>1. TypeOK /\ ListSound
  BY DEF HeapInv
<1>2. h \in hdrs /\ h # HeapTail
  BY DEF Inserted
<1>3. /\ h \in Nat /\ end[h] \in Nat /\ next[h] \in Nat /\ next[h] \in hdrs
      /\ h < end[h] /\ HeapHead <= h /\ next[h] <= HeapTail
  BY <1>1, <1>2, ListPlaces
<1>4. n \in Nat /\ e \in Nat /\ end[h] < n /\ n < e /\ e < next[h]
  BY AddrNat DEF Inserted
<1>5. HeapHead <= n /\ n <= HeapTail /\ n # HeapTail
  BY <1>3, <1>4, Places
<1>6. hdrs' = hdrs \cup {n} /\ n \notin hdrs
  BY DEF Inserted
<1>7. {HeapHead, HeapTail} \subseteq hdrs'
  BY <1>1, <1>6 DEF ListSound
<1>8. \A g \in hdrs' : HeapHead <= g /\ g <= HeapTail
  BY <1>1, <1>5, <1>6 DEF ListSound
<1>9. next'[HeapTail] = NULL
  BY <1>1, <1>2 DEF ListSound, Inserted
<1>10. end'[HeapHead] = HeapHead + 1
  BY <1>1 DEF ListSound, Inserted
<1>11. ASSUME NEW g \in hdrs', g # HeapTail
       PROVE  /\ g < end'[g] /\ end'[g] < next'[g]
              /\ next'[g] \in hdrs'
              /\ \A k \in hdrs' : k <= g \/ next'[g] <= k
  <2>1. CASE g = n
    <3>1. end'[g] = e /\ next'[g] = next[h]
      BY <2>1 DEF Inserted
    <3>2. \A k \in hdrs : k <= n \/ next[h] <= k
      <4> SUFFICES ASSUME NEW k \in hdrs PROVE k <= n \/ next[h] <= k
        OBVIOUS
      <4>1. k \in Nat /\ (k <= h \/ next[h] <= k)
        BY <1>1, <1>2, AddrNat DEF ListSound, TypeOK
      <4> QED
        BY <4>1, <1>3, <1>4
    <3> QED
      BY <2>1, <3>1, <3>2, <1>3, <1>4, <1>6
  <2>2. CASE g = h
    <3>1. end'[g] = end[h] /\ next'[g] = n
      BY <2>2, <1>2 DEF Inserted
    <3>2. \A k \in hdrs : k <= h \/ n <= k
      <4> SUFFICES ASSUME NEW k \in hdrs PROVE k <= h \/ n <= k
        OBVIOUS
      <4>1. k \in Nat /\ (k <= h \/ next[h] <= k)
        BY <1>1, <1>2, AddrNat DEF ListSound, TypeOK
      <4> QED
        BY <4>1, <1>3, <1>4
    <3> QED
      BY <2>2, <3>1, <3>2, <1>3, <1>4, <1>6
  <2>3. CASE g # n /\ g # h
    <3>1. g \in hdrs /\ end'[g] = end[g] /\ next'[g] = next[g]
      BY <2>3, <1>6, <1>11 DEF Inserted
    <3>2. /\ g \in Nat /\ next[g] \in Nat /\ next[g] \in hdrs
          /\ g < end[g] /\ end[g] < next[g]
      BY <3>1, <1>1, <1>11, ListPlaces
    <3>3. \A k \in hdrs : k <= g \/ next[g] <= k
      BY <3>1, <1>1, <1>11 DEF ListSound
    <3>4. n <= g \/ next[g] <= n
      <4>1. (h <= g \/ next[g] <= h) /\ (g <= h \/ next[h] <= g)
        BY <3>1, <1>2, <3>3, <1>1 DEF ListSound
      <4> QED
        BY <4>1, <2>3, <3>2, <1>3, <1>4
    <3> QED
      BY <3>1, <3>2, <3>3, <3>4, <1>6
  <2> QED
    BY <2>1, <2>2, <2>3
<1> QED
  BY <1>7, <1>8, <1>9, <1>10, <1>11 DEF ListSound

-----------------------------------------------------------------------------
(* Removal.                                                                 *)

\* The block that a release finds lies in the heap, and its header is neither
\* the first nor the last.
LEMMA UnlinkedBlock ==
  ASSUME HeapInv, NEW t \in Tasks, Unlink(t)
  PROVE  /\ pmm[t] \in hdrs /\ pmm[t] # HeapTail /\ lock = t
         /\ next[pmm[t]] \in Blocks
         /\ next[pmm[t]] + 2 = call[t].ptr
<1>1. TypeOK /\ ListSound /\ OwnedOnce
  BY DEF HeapInv
<1>2. /\ call[t].op = "gp_free" /\ pc[t] = "walk"
      /\ next[pmm[t]] # NULL /\ Fits(t, pmm[t])
  BY DEF Unlink, Walking
<1>3. pmm[t] \in hdrs /\ lock = t
  BY <1>2 DEF HeapInv, Walkers, Walker
<1>4. pmm[t] # HeapTail
  BY <1>1, <1>2 DEF ListSound
<1>5. next[pmm[t]] + 2 = call[t].ptr
  BY <1>2 DEF Fits
<1>6. /\ pmm[t] \in Nat /\ next[pmm[t]] \in Nat /\ next[pmm[t]] \in hdrs
      /\ pmm[t] < next[pmm[t]] /\ HeapHead <= pmm[t]
  <2>1. end[pmm[t]] \in Nat /\ pmm[t] < end[pmm[t]] /\ end[pmm[t]] < next[pmm[t]]
    BY <1>1, <1>3, <1>4, ListPlaces
  <2> QED
    BY <2>1, <1>1, <1>3, <1>4, ListPlaces
<1>7. call[t].ptr \in used \cup {h + 2 : h \in Blocks}
  BY <1>1, <1>2 DEF OwnedOnce, InHand, Allocated
<1>8. call[t].ptr \notin used
  BY <1>1, <1>5, <1>6, Places DEF TypeOK
<1>9. PICK h \in Blocks : h + 2 = call[t].ptr
  BY <1>7, <1>8
<1>10. h \in Nat
  BY <1>1, <1>9, AddrNat DEF Blocks, TypeOK
<1>11. h = next[pmm[t]]
  BY <1>5, <1>6, <1>9, <1>10
<1> QED
  BY <1>3, <1>4, <1>5, <1>9, <1>11

LEMMA UnlinkKeepsList ==
  ASSUME HeapInv, NEW t \in Tasks, Unlink(t)
  PROVE  ListSound'
<1> DEFINE h == pmm[t]
           n == next[h]
<1>1. TypeOK /\ ListSound
  BY DEF HeapInv
<1>2. h \in hdrs /\ h # HeapTail /\ n \in hdrs /\ n # HeapHead /\ n # HeapTail
  BY UnlinkedBlock DEF Blocks
<1>3. /\ next' = [next EXCEPT ![h] = next[n]]
      /\ end' = [end EXCEPT ![n] = NULL]
      /\ hdrs' = hdrs \ {n}
  BY DEF Unlink
<1>4. /\ h \in Addr /\ h \in Nat /\ end[h] \in Nat /\ n \in Nat /\ n \in Addr
      /\ h < end[h] /\ end[h] < n
  BY <1>1, <1>2, ListPlaces
<1>5. /\ end[n] \in Nat /\ next[n] \in Nat /\ next[n] \in hdrs
      /\ n < end[n] /\ end[n] < next[n]
  BY <1>1, <1>2, ListPlaces
<1> HIDE DEF n, h
<1>6. {HeapHead, HeapTail} \subseteq hdrs'
  BY <1>1, <1>2, <1>3 DEF ListSound
<1>7. \A g \in hdrs' : HeapHead <= g /\ g <= HeapTail
  BY <1>1, <1>3 DEF ListSound
<1>8. next'[HeapTail] = NULL /\ end'[HeapHead] = HeapHead + 1
  BY <1>1, <1>2, <1>3, Places DEF ListSound, TypeOK
<1>9. ASSUME NEW g \in hdrs', g # HeapTail
      PROVE  /\ g < end'[g] /\ end'[g] < next'[g]
             /\ next'[g] \in hdrs'
             /\ \A k \in hdrs' : k <= g \/ next'[g] <= k
  <2>1. g \in hdrs /\ g # n /\ g \in Addr
    BY <1>1, <1>3, <1>9 DEF TypeOK
  <2>2. end'[g] = end[g]
    BY <2>1, <1>1, <1>3 DEF TypeOK
  <2>3. /\ g \in Nat /\ end[g] \in Nat /\ next[g] \in Nat /\ next[g] \in hdrs
        /\ g < end[g] /\ end[g] < next[g]
    BY <2>1, <1>1, <1>9, ListPlaces
  <2>4. CASE g = h
    <3>1. next'[g] = next[n]
      BY <2>4, <1>1, <1>3, <1>4 DEF TypeOK
    <3>2. \A k \in hdrs' : k <= h \/ next[n] <= k
      <4> SUFFICES ASSUME NEW k \in hdrs' PROVE k <= h \/ next[n] <= k
        OBVIOUS
      <4>1. k \in hdrs /\ k # n /\ k \in Nat
        BY <1>1, <1>3, AddrNat DEF TypeOK
      <4>2. k <= h \/ n <= k
        BY <4>1, <1>1, <1>2 DEF ListSound, n
      <4>3. k <= n \/ next[n] <= k
        BY <4>1, <1>1, <1>2 DEF ListSound
      <4> QED
        BY <4>1, <4>2, <4>3, <1>4, <1>5
    <3>3. next[n] \in hdrs'
      BY <1>3, <1>4, <1>5
    <3> QED
      BY <2>2, <2>3, <2>4, <3>1, <3>2, <3>3, <1>4, <1>5 DEF n
  <2>5. CASE g # h
    <3>1. next'[g] = next[g]
      BY <2>1, <2>5, <1>1, <1>3 DEF TypeOK
    <3>2. next[g] # n
      <4> SUFFICES ASSUME next[g] = n PROVE FALSE
        OBVIOUS
      <4>1. g <= h \/ n <= g
        BY <2>1, <1>1, <1>2 DEF ListSound, n
      <4>2. h <= g \/ n <= h
        BY <1>1, <1>2, <1>9, <2>1 DEF ListSound
      <4> QED
        BY <4>1, <4>2, <2>3, <2>5, <1>4
    <3>3. \A k \in hdrs' : k <= g \/ next[g] <= k
      BY <2>1, <1>1, <1>3, <1>9 DEF ListSound
    <3> QED
      BY <2>2, <2>3, <3>1, <3>2, <3>3, <1>3
  <2> QED
    BY <2>4, <2>5
<1> QED
  BY <1>6, <1>7, <1>8, <1>9 DEF ListSound

-----------------------------------------------------------------------------
(* The tasks.                                                               *)

\* A task whose own variables a step leaves alone, as it does the list.
LEMMA OtherWalker ==
  ASSUME NEW u \in Tasks, Walker(u), UNCHANGED <<next, end, lock, hdrs>>,
         pc'[u] = pc[u], call'[u] = call[u], pmm'[u] = pmm[u]
  PROVE  Walker(u)'
<1>1. \A h : Fits(u, h)' <=> Fits(u, h)
  BY DEF Fits, DataBehind
<1> QED
  BY <1>1 DEF Walker

\* A task that does not walk asks nothing of the list.
LEMMA RestingWalker ==
  ASSUME NEW u \in Tasks, pc'[u] # "walk",
         pc'[u] \in {"pool", "heap"} =>
            pmm'[u] = HeapHead /\ call'[u].op # "none",
         call'[u].op = "gp_malloc" => call'[u].align = 1
  PROVE  Walker(u)'
BY DEF Walker

\* While a task walks, no other does.
LEMMA OneWalker ==
  ASSUME HeapInv, NEW t \in Tasks, pc[t] = "walk", NEW u \in Tasks, u # t
  PROVE  pc[u] # "walk"
BY DEF HeapInv, Walkers, Walker

LEMMA CallOfIsCall ==
  ASSUME NEW o \in {"none", "gp_malloc", "gp_malloc_align", "gp_free"},
         NEW s \in Nat, NEW a \in Nat \ {0}, NEW p \in Nat
  PROVE  /\ CallOf(o, s, a, p) \in Calls
         /\ CallOf(o, s, a, p).op = o
         /\ CallOf(o, s, a, p).align = a
         /\ CallOf(o, s, a, p).ptr = p
BY DEF CallOf, Calls

LEMMA NoCallIsCall == NoCall \in Calls /\ NoCall.op = "none"
BY CallOfIsCall DEF NoCall, NULL

-----------------------------------------------------------------------------
(* The beginning of a call.                                                 *)

LEMMA EnterKeepsInv ==
  ASSUME HeapInv, NEW t \in Tasks, NEW label \in {"pool", "heap"},
         NEW c \in Calls, Enter(t, label, c), c.op # "none",
         c.op = "gp_malloc" => c.align = 1,
         \/ c.op # "gp_free" /\ live' = live
         \/ c.op = "gp_free" /\ c.ptr \in live /\ live' = live \ {c.ptr}
  PROVE  HeapInv'
<1>1. TypeOK /\ ListSound /\ OwnedOnce /\ Walkers
  BY DEF HeapInv
<1>2. /\ pc' = [pc EXCEPT ![t] = label]
      /\ call' = [call EXCEPT ![t] = c]
      /\ pmm' = [pmm EXCEPT ![t] = HeapHead]
      /\ UNCHANGED <<used, next, end, hdrs, lock, made, strayed>>
  BY DEF Enter, memory
<1>3. TypeOK'
  BY <1>1, <1>2, Places DEF TypeOK
<1>4. ListSound'
  BY <1>1, <1>2 DEF ListSound
<1>5. /\ pc'[t] = label /\ call'[t] = c /\ pmm'[t] = HeapHead
      /\ \A u \in Tasks \ {t} :
            pc'[u] = pc[u] /\ call'[u] = call[u] /\ pmm'[u] = pmm[u]
  BY <1>1, <1>2 DEF TypeOK
<1>6. Walkers'
  <2> SUFFICES ASSUME NEW u \in Tasks PROVE Walker(u)'
    BY DEF Walkers
  <2>1. CASE u = t
    BY <2>1, <1>5, RestingWalker
  <2>2. CASE u # t
    BY <2>2, <1>1, <1>2, <1>5, OtherWalker DEF Walkers
  <2> QED
    BY <2>1, <2>2
<1>7. OwnedOnce'
  <2>1. Allocated' = Allocated /\ live' \subseteq live
    BY <1>2 DEF Allocated, Blocks
  <2>2. \A u \in Tasks \ {t} : InHand(u)' = InHand(u)
    BY <1>2, <1>5 DEF InHand
  <2>3. InHand(t)' = IF c.op = "gp_free" THEN {c.ptr} ELSE {}
    BY <1>5 DEF InHand
  <2>4. InHand(t)' \subseteq Allocated \ live'
    BY <1>1, <2>3 DEF OwnedOnce
  <2>5. \A u \in Tasks \ {t} : InHand(u) \cap InHand(t)' = {}
    BY <1>1, <2>3 DEF OwnedOnce
  <2> HIDE DEF HeapInv
  <2> QED
    BY <1>1, <2>1, <2>2, <2>4, <2>5 DEF OwnedOnce
<1> QED
  BY <1>3, <1>4, <1>6, <1>7 DEF HeapInv

LEMMA GpMallocKeepsInv ==
  ASSUME HeapInv, NEW t \in Tasks, GpMalloc(t)
  PROVE  HeapInv'
<1>1. PICK s \in Sizes :
        Enter(t, IF PoolBlocksFor(s) = {} THEN "heap" ELSE "pool",
              CallOf("gp_malloc", s, 1, NULL))
  BY DEF GpMalloc
<1>2. s \in Nat /\ NULL \in Nat
  BY HeapAssumption DEF NULL
<1>3. live' = live
  BY DEF GpMalloc
<1> QED
  BY <1>1, <1>2, <1>3, CallOfIsCall, EnterKeepsInv

LEMMA GpMallocAlignKeepsInv ==
  ASSUME HeapInv, NEW t \in Tasks, GpMallocAlign(t)
  PROVE  HeapInv'
<1>1. PICK s \in Sizes, a \in Aligns :
        Enter(t, "heap", CallOf("gp_malloc_align", s, AlignWords(a), NULL))
  BY DEF GpMallocAlign
<1>2. s \in Nat /\ AlignWords(a) \in Nat \ {0} /\ NULL \in Nat
  BY HeapAssumption, AlignWordsNat DEF NULL
<1>3. live' = live
  BY DEF GpMallocAlign
<1> QED
  BY <1>1, <1>2, <1>3, CallOfIsCall, EnterKeepsInv

LEMMA GpFreeKeepsInv ==
  ASSUME HeapInv, NEW t \in Tasks, GpFree(t)
  PROVE  HeapInv'
<1>1. PICK p \in live :
        /\ Enter(t, IF p < HeapStart THEN "pool" ELSE "heap",
                 CallOf("gp_free", 0, 1, p))
        /\ live' = live \ {p}
  BY DEF GpFree
<1>2. p \in Nat
  BY DEF HeapInv, TypeOK
<1> QED
  BY <1>1, <1>2, CallOfIsCall, EnterKeepsInv

-----------------------------------------------------------------------------
(* The end of a call.                                                       *)

LEMMA LeaveTasks ==
  ASSUME HeapInv, NEW t \in Tasks, Leave(t)
  PROVE  /\ pc' \in [Tasks -> {"idle", "pool", "heap", "walk", "unlocked"}]
         /\ call' \in [Tasks -> Calls] /\ pmm' \in [Tasks -> Addr]
         /\ pc'[t] = "idle" /\ call'[t] = NoCall /\ pmm'[t] = HeapHead
         /\ \A u \in Tasks \ {t} :
              pc'[u] = pc[u] /\ call'[u] = call[u] /\ pmm'[u] = pmm[u]
BY NoCallIsCall, Places DEF Leave, HeapInv, TypeOK

\* The task that leaves has let the semaphore go, or has not had it.
LEMMA LeaveKeepsWalkers ==
  ASSUME HeapInv, NEW t \in Tasks, Leave(t),
         pc[t] = "walk" \/ UNCHANGED <<next, end, lock, hdrs>>
  PROVE  Walkers'
<1> SUFFICES ASSUME NEW u \in Tasks PROVE Walker(u)'
  BY DEF Walkers
<1>1. Walker(u)
  BY DEF HeapInv, Walkers
<1>2. CASE u = t
  BY <1>2, LeaveTasks, RestingWalker, NoCallIsCall
<1>3. CASE u # t /\ pc[t] = "walk"
  <2>1. pc[u] # "walk"
    BY <1>3, OneWalker
  <2>2. pc'[u] = pc[u] /\ call'[u] = call[u] /\ pmm'[u] = pmm[u]
    BY <1>3, LeaveTasks
  <2> QED
    BY <1>1, <2>1, <2>2, RestingWalker DEF Walker
<1>4. CASE u # t /\ UNCHANGED <<next, end, lock, hdrs>>
  BY <1>1, <1>4, LeaveTasks, OtherWalker
<1> QED
  BY <1>2, <1>3, <1>4

\* What the other tasks have in their hands when t leaves: what they had.
LEMMA LeaveKeepsHands ==
  ASSUME HeapInv, NEW t \in Tasks, Leave(t),
         \A u \in Tasks \ {t} : made'[u] = made[u]
  PROVE  InHand(t)' = {} /\ \A u \in Tasks \ {t} : InHand(u)' = InHand(u)
BY LeaveTasks, NoCallIsCall DEF InHand

LEMMA FixedMallocKeepsInv ==
  ASSUME HeapInv, NEW t \in Tasks, GpFixedSizeMalloc(t)
  PROVE  HeapInv'
<1> DEFINE free == PoolBlocksFor(call[t].size) \ used
<1>1. TypeOK /\ ListSound /\ OwnedOnce /\ Walkers
  BY DEF HeapInv
<1>2. /\ UNCHANGED <<next, end, lock, hdrs, made, strayed>>
      /\ pc[t] = "pool" /\ call[t].op = "gp_malloc"
  BY DEF GpFixedSizeMalloc
<1>3. ListSound'
  BY <1>1, <1>2 DEF ListSound
<1>4. CASE free # {}
  <2> DEFINE b == Least(free)
  <2>1. used' = used \cup {b} /\ live' = live \cup {b} /\ Leave(t)
    BY <1>4 DEF GpFixedSizeMalloc
  <2>2. free \subseteq PoolBlocks
    BY DEF PoolBlocksFor, PoolBlocks
  <2>3. HeapStart \in Nat /\ free \in SUBSET (1 .. HeapStart)
    <3>1. HeapStart \in Nat /\ \A a \in PoolBlocks : a \in 1 .. HeapStart
      <4>1. HeapStart \in Nat /\ PoolBlocks \subseteq Nat \ {0}
            /\ \A a \in PoolBlocks : a < HeapStart
        BY HeapAssumption
      <4> QED
        BY <4>1
    <3> HIDE DEF free
    <3> QED
      BY <2>2, <3>1
  <2>4. b \in free
    <3>1. \E i \in free : \A j \in free : i <= j
      <4> HIDE DEF free
      <4> QED
        BY <1>4, <2>3, LeastElement
    <3> HIDE DEF free
    <3> QED
      BY <3>1 DEF Least
  <2>5. b \in PoolBlocks /\ b \in Nat /\ b < HeapHead /\ b \notin used
    BY <2>2, <2>4, Places
  <2> HIDE DEF b
  <2>6. TypeOK'
    BY <1>1, <1>2, <2>1, <2>5, LeaveTasks DEF TypeOK
  <2>7. Walkers'
    BY <1>2, <2>1, LeaveKeepsWalkers
  <2>8. Allocated' = Allocated \cup {b} /\ b \notin Allocated
    <3>1. \A h \in Blocks : h + 2 # b
      BY <1>1, <2>5, Places, AddrNat DEF Blocks, TypeOK
    <3> QED
      BY <1>2, <2>1, <2>5, <3>1 DEF Allocated, Blocks
  <2>9. InHand(t)' = {} /\ \A u \in Tasks \ {t} : InHand(u)' = InHand(u)
    BY <1>2, <2>1, LeaveKeepsHands
  <2>10. OwnedOnce'
    BY <1>1, <2>1, <2>8, <2>9 DEF OwnedOnce
  <2> QED
    BY <1>3, <2>6, <2>7, <2>10 DEF HeapInv
<1>5. CASE free = {}
  <2>1. pc' = [pc EXCEPT ![t] = "heap"] /\ UNCHANGED <<used, live, call, pmm>>
    BY <1>5 DEF GpFixedSizeMalloc
  <2>2. TypeOK'
    BY <1>1, <1>2, <2>1 DEF TypeOK
  <2>3. pc'[t] = "heap" /\ \A u \in Tasks \ {t} : pc'[u] = pc[u]
    BY <1>1, <2>1 DEF TypeOK
  <2>4. Walkers'
    <3> SUFFICES ASSUME NEW u \in Tasks PROVE Walker(u)'
      BY DEF Walkers
    <3>1. Walker(u)
      BY <1>1 DEF Walkers
    <3>2. CASE u = t
      BY <1>2, <2>1, <2>3, <3>1, <3>2, RestingWalker DEF Walker
    <3>3. CASE u # t
      BY <1>2, <2>1, <2>3, <3>1, <3>3, OtherWalker
    <3> QED
      BY <3>2, <3>3
  <2>5. \A u \in Tasks : InHand(u)' = InHand(u)
    BY <1>2, <2>1, <2>3 DEF InHand
  <2>6. Allocated' = Allocated
    BY <1>2, <2>1 DEF Allocated, Blocks
  <2>7. OwnedOnce'
    BY <1>1, <2>1, <2>5, <2>6 DEF OwnedOnce
  <2> QED
    BY <1>3, <2>2, <2>4, <2>7 DEF HeapInv
<1> QED
  BY <1>4, <1>5

LEMMA FixedFreeKeepsInv ==
  ASSUME HeapInv, NEW t \in Tasks, GpFixedSizeFree(t)
  PROVE  HeapInv'
<1> DEFINE p == call[t].ptr
<1>1. TypeOK /\ ListSound /\ OwnedOnce /\ Walkers
  BY DEF HeapInv
<1>2. /\ UNCHANGED <<next, end, lock, live, hdrs, made, strayed>>
      /\ pc[t] = "pool" /\ call[t].op = "gp_free"
      /\ used' = used \ {p} /\ Leave(t)
  BY DEF GpFixedSizeFree
<1>3. ListSound'
  BY <1>1, <1>2 DEF ListSound
<1>4. TypeOK'
  BY <1>1, <1>2, LeaveTasks DEF TypeOK
<1>5. Walkers'
  BY <1>2, LeaveKeepsWalkers
<1>6. InHand(t) = {p}
  BY <1>2 DEF InHand
<1>7. InHand(t)' = {} /\ \A u \in Tasks \ {t} : InHand(u)' = InHand(u)
  BY <1>2, LeaveKeepsHands
<1>8. Allocated \ {p} \subseteq Allocated'
  BY <1>2 DEF Allocated, Blocks
<1>9. p \notin live /\ \A u \in Tasks \ {t} : p \notin InHand(u)
  BY <1>1, <1>6 DEF OwnedOnce
<1>10. OwnedOnce'
  <2> HIDE DEF p
  <2> QED
    BY <1>1, <1>2, <1>7, <1>8, <1>9 DEF OwnedOnce
<1> QED
  BY <1>3, <1>4, <1>5, <1>10 DEF HeapInv

-----------------------------------------------------------------------------
(* The walk.                                                                *)

LEMMA LockKeepsInv ==
  ASSUME HeapInv, NEW t \in Tasks, Lock(t)
  PROVE  HeapInv'
<1>1. TypeOK /\ ListSound /\ OwnedOnce /\ Walkers
  BY DEF HeapInv
<1>2. /\ UNCHANGED <<used, next, end, hdrs, call, pmm, live, made, strayed>>
      /\ pc[t] = "heap" /\ lock = Nobody /\ lock' = t
      /\ pc' = [pc EXCEPT ![t] = "walk"]
  BY DEF Lock, memory
<1>3. ListSound' /\ TypeOK'
  BY <1>1, <1>2 DEF ListSound, TypeOK
<1>4. pc'[t] = "walk" /\ \A u \in Tasks \ {t} : pc'[u] = pc[u]
  BY <1>1, <1>2 DEF TypeOK
<1>5. Walkers'
  <2> SUFFICES ASSUME NEW u \in Tasks PROVE Walker(u)'
    BY DEF Walkers
  <2>1. Walker(u)
    BY <1>1 DEF Walkers
  <2>2. CASE u = t
    <3>1. pmm'[t] = HeapHead /\ call'[t].op # "none"
      BY <1>2, <2>1, <2>2 DEF Walker
    <3>2. HeapHead \in hdrs' /\ \A h \in hdrs' : ~ (h < HeapHead)
      <4>1. \A h \in hdrs : h \in Nat /\ HeapHead <= h
        BY <1>1, AddrNat DEF ListSound, TypeOK
      <4> QED
        BY <1>1, <1>2, <4>1, Places DEF ListSound
    <3> QED
      BY <1>2, <1>4, <2>1, <2>2, <3>1, <3>2 DEF Walker
  <2>3. CASE u # t
    <3>1. pc'[u] # "walk"
      BY <1>2, <1>4, <2>1, <2>3, HeapAssumption DEF Walker
    <3> QED
      BY <1>2, <1>4, <2>1, <2>3, <3>1, RestingWalker DEF Walker
  <2> QED
    BY <2>2, <2>3
<1>6. Allocated' = Allocated /\ \A u \in Tasks : InHand(u)' = InHand(u)
  BY <1>2, <1>4 DEF Allocated, Blocks, InHand
<1>7. OwnedOnce'
  BY <1>1, <1>2, <1>6 DEF OwnedOnce
<1> QED
  BY <1>3, <1>5, <1>7 DEF HeapInv

\* The walk never leaves the heap: there is no "MM Error".
LEMMA AdvanceKeepsInv ==
  ASSUME HeapInv, NEW t \in Tasks, Advance(t)
  PROVE  HeapInv'
<1> DEFINE h == pmm[t]
           n == next[h]
<1>1. TypeOK /\ ListSound /\ OwnedOnce /\ Walkers
  BY DEF HeapInv
<1>2. /\ UNCHANGED <<used, next, end, hdrs, lock, live, made, strayed>>
      /\ pc[t] = "walk" /\ n # NULL /\ ~ Fits(t, h)
  BY DEF Advance, memory, Walking
<1>3. h \in hdrs /\ h # HeapTail
  BY <1>1, <1>2 DEF Walkers, Walker, ListSound
<1>4. h \in Nat /\ n \in Addr /\ n \in hdrs /\ n \in Nat
  BY <1>1, <1>3, ListPlaces
<1>5. pmm' = [pmm EXCEPT ![t] = n] /\ UNCHANGED <<pc, call>>
  BY <1>4 DEF Advance
<1>6. TypeOK' /\ ListSound'
  BY <1>1, <1>2, <1>4, <1>5 DEF TypeOK, ListSound
<1>7. Walkers'
  <2> SUFFICES ASSUME NEW u \in Tasks PROVE Walker(u)'
    BY DEF Walkers
  <2>1. Walker(u)
    BY <1>1 DEF Walkers
  <2>2. CASE u = t
    <3>1. pmm'[t] = n
      BY <1>1, <1>5 DEF TypeOK
    <3>2. \A g \in hdrs : g < n => ~ Fits(t, g)
      <4> SUFFICES ASSUME NEW g \in hdrs, g < n PROVE ~ Fits(t, g)
        OBVIOUS
      <4>1. g \in Nat /\ (g <= h \/ n <= g)
        BY <1>1, <1>3, AddrNat DEF ListSound, TypeOK
      <4>2. g < h \/ g = h
        BY <4>1, <1>4
      <4> QED
        BY <4>2, <1>2, <2>1, <2>2 DEF Walker
    <3>3. \A g : Fits(t, g)' <=> Fits(t, g)
      BY <1>2, <1>5 DEF Fits, DataBehind
    <3>4. /\ pc'[t] = "walk" /\ lock' = t /\ call'[t] = call[t]
          /\ pmm'[t] \in hdrs' /\ call'[t].op # "none"
          /\ call'[t].op = "gp_malloc" => call'[t].align = 1
      BY <1>2, <1>4, <1>5, <2>1, <2>2, <3>1 DEF Walker
    <3>5. \A g \in hdrs' : g < pmm'[t] => ~ Fits(t, g)'
      BY <1>2, <3>1, <3>2, <3>3
    <3>6. Walker(t)'
      <4> HIDE DEF n, h
      <4> QED
        BY <3>4, <3>5 DEF Walker
    <3> QED
      BY <2>2, <3>6
  <2>3. CASE u # t
    <3>1. pmm'[u] = pmm[u]
      BY <2>3, <1>1, <1>5 DEF TypeOK
    <3> QED
      BY <1>2, <1>5, <2>1, <3>1, OtherWalker
  <2> QED
    BY <2>2, <2>3
<1>8. Allocated' = Allocated /\ \A u \in Tasks : InHand(u)' = InHand(u)
  BY <1>2, <1>5 DEF Allocated, Blocks, InHand
<1>9. OwnedOnce'
  BY <1>1, <1>2, <1>8 DEF OwnedOnce
<1> QED
  BY <1>6, <1>7, <1>9 DEF HeapInv

LEMMA NotFoundKeepsInv ==
  ASSUME HeapInv, NEW t \in Tasks, NotFound(t)
  PROVE  HeapInv'
<1>1. TypeOK /\ ListSound /\ OwnedOnce /\ Walkers
  BY DEF HeapInv
<1>2. /\ UNCHANGED <<used, next, end, hdrs, live, made, strayed>>
      /\ pc[t] = "walk" /\ lock' = Nobody /\ Leave(t)
  BY DEF NotFound, memory
<1>3. TypeOK'
  BY <1>1, <1>2, LeaveTasks DEF TypeOK
<1>4. ListSound'
  BY <1>1, <1>2 DEF ListSound
<1>5. Walkers'
  BY <1>2, LeaveKeepsWalkers
<1>6. InHand(t)' = {} /\ \A u \in Tasks \ {t} : InHand(u)' = InHand(u)
  BY <1>2, LeaveKeepsHands
<1>7. Allocated' = Allocated
  BY <1>2 DEF Allocated, Blocks
<1>8. OwnedOnce'
  BY <1>1, <1>2, <1>6, <1>7 DEF OwnedOnce
<1> QED
  BY <1>3, <1>4, <1>5, <1>8 DEF HeapInv

-----------------------------------------------------------------------------
(* The steps that change the list.                                          *)

\* The pointer to a new block is one that nobody has.
LEMMA InsertionIsNew ==
  ASSUME HeapInv, NEW t \in Tasks, NEW n \in Addr, NEW e \in Addr,
         Inserted(t, n, e)
  PROVE  /\ n + 2 \in Nat /\ n + 2 = DataBehind(t, pmm[t])
         /\ n + 2 \notin Allocated /\ Allocated' = Allocated \cup {n + 2}
<1>1. TypeOK /\ ListSound
  BY DEF HeapInv
<1>2. n \in Nat /\ HeapHead < n /\ n # HeapTail /\ n \notin hdrs /\ used' = used
      /\ hdrs' = hdrs \cup {n}
  <2>1. /\ pmm[t] \in Nat /\ end[pmm[t]] \in Nat /\ pmm[t] < end[pmm[t]]
        /\ HeapHead <= pmm[t]
    BY <1>1, ListPlaces DEF Inserted
  <2>2. end[pmm[t]] < n /\ n \in Nat /\ n \notin hdrs /\ used' = used
        /\ hdrs' = hdrs \cup {n}
    BY AddrNat DEF Inserted
  <2>3. HeapTail \in hdrs
    BY <1>1 DEF ListSound
  <2> QED
    BY <2>1, <2>2, <2>3, Places
<1>3. n + 2 \notin used
  BY <1>1, <1>2, Places DEF TypeOK
<1>4. \A h \in Blocks : h + 2 # n + 2
  BY <1>1, <1>2, AddrNat DEF Blocks, TypeOK
<1>5. Blocks' = Blocks \cup {n}
  <2>1. n # HeapHead /\ n # HeapTail
    BY <1>2, Places
  <2> QED
    BY <1>2, <2>1 DEF Blocks
<1>6. n + 2 = DataBehind(t, pmm[t])
  <2>1. DataBehind(t, pmm[t]) \in Nat
    <3>1. end[pmm[t]] \in Nat
      BY <1>1, ListPlaces DEF Inserted
    <3> QED
      BY <1>1, <3>1, CallTypes, AlignUpAbove DEF DataBehind
  <2> QED
    BY <2>1, <1>2 DEF Inserted
<1> QED
  BY <1>2, <1>3, <1>4, <1>5, <1>6 DEF Allocated

LEMMA MallocInsertsKeepsInv ==
  ASSUME HeapInv, NEW t \in Tasks, MallocInserts(t)
  PROVE  HeapInv'
<1>1. TypeOK /\ ListSound /\ OwnedOnce /\ Walkers
  BY DEF HeapInv
<1>2. /\ call[t].op = "gp_malloc" /\ InsertBlock(t)
      /\ made' = [made EXCEPT ![t] = DataBehind(t, pmm[t])]
      /\ pc' = [pc EXCEPT ![t] = "unlocked"]
      /\ UNCHANGED <<call, pmm, live, strayed>>
  BY DEF MallocInserts
<1>3. PICK n \in Addr, e \in Addr : Inserted(t, n, e)
  BY <1>2, InsertionFacts
<1>4. /\ n + 2 \in Nat /\ n + 2 = DataBehind(t, pmm[t])
      /\ n + 2 \notin Allocated /\ Allocated' = Allocated \cup {n + 2}
  BY <1>3, InsertionIsNew
<1>5. pc[t] = "walk"
  BY <1>2 DEF InsertBlock, Walking
<1>6. /\ pc'[t] = "unlocked" /\ made'[t] = n + 2
      /\ \A u \in Tasks \ {t} : pc'[u] = pc[u] /\ made'[u] = made[u]
  BY <1>1, <1>2, <1>4 DEF TypeOK
<1>7. ListSound'
  BY <1>3, InsertionKeepsList
<1>8. TypeOK'
  BY <1>1, <1>2, <1>3, <1>4 DEF TypeOK, Inserted
<1>9. Walkers'
  <2> SUFFICES ASSUME NEW u \in Tasks PROVE Walker(u)'
    BY DEF Walkers
  <2>1. Walker(u) /\ pc'[u] # "walk"
    BY <1>1, <1>5, <1>6, OneWalker DEF Walkers
  <2>2. pc'[u] \in {"pool", "heap"} => pc[u] = pc'[u]
    BY <1>6
  <2> QED
    BY <1>2, <2>1, <2>2, RestingWalker DEF Walker
<1>10. InHand(t)' = {n + 2} /\ \A u \in Tasks \ {t} : InHand(u)' = InHand(u)
  BY <1>2, <1>6 DEF InHand
<1>11. OwnedOnce'
  BY <1>1, <1>2, <1>4, <1>10 DEF OwnedOnce
<1> QED
  BY <1>7, <1>8, <1>9, <1>11 DEF HeapInv

LEMMA MallocAlignInsertsKeepsInv ==
  ASSUME HeapInv, NEW t \in Tasks, MallocAlignInserts(t)
  PROVE  HeapInv'
<1>1. TypeOK /\ ListSound /\ OwnedOnce /\ Walkers
  BY DEF HeapInv
<1>2. /\ call[t].op = "gp_malloc_align" /\ InsertBlock(t)
      /\ live' = live \cup {DataBehind(t, pmm[t])}
      /\ Leave(t) /\ UNCHANGED <<made, strayed>>
  BY DEF MallocAlignInserts
<1>3. PICK n \in Addr, e \in Addr : Inserted(t, n, e)
  BY <1>2, InsertionFacts
<1>4. /\ n + 2 \in Nat /\ n + 2 = DataBehind(t, pmm[t])
      /\ n + 2 \notin Allocated /\ Allocated' = Allocated \cup {n + 2}
  BY <1>3, InsertionIsNew
<1>5. pc[t] = "walk"
  BY <1>2 DEF InsertBlock, Walking
<1>6. ListSound'
  BY <1>3, InsertionKeepsList
<1>7. TypeOK'
  <2>1. live' \subseteq Nat
    BY <1>1, <1>2, <1>4 DEF TypeOK
  <2>2. hdrs' \subseteq Addr /\ used' \subseteq PoolBlocks
    BY <1>1, <1>3 DEF TypeOK, Inserted
  <2>3. lock' \in Tasks \cup {Nobody}
        /\ next' \in [Addr -> Addr \cup {NULL, Junk}]
        /\ end' \in [Addr -> Addr \cup {NULL}]
    BY <1>3 DEF Inserted
  <2> QED
    BY <1>1, <1>2, <2>1, <2>2, <2>3, LeaveTasks DEF TypeOK
<1>8. Walkers'
  BY <1>2, <1>5, LeaveKeepsWalkers
<1>9. InHand(t)' = {} /\ \A u \in Tasks \ {t} : InHand(u)' = InHand(u)
  BY <1>2, LeaveKeepsHands
<1>10. \A u \in Tasks : n + 2 \notin InHand(u)
  BY <1>1, <1>4 DEF OwnedOnce
<1>11. OwnedOnce'
  BY <1>1, <1>2, <1>4, <1>9, <1>10 DEF OwnedOnce
<1> QED
  BY <1>6, <1>7, <1>8, <1>11 DEF HeapInv

LEMMA MallocReturnsKeepsInv ==
  ASSUME HeapInv, NEW t \in Tasks, MallocReturns(t)
  PROVE  HeapInv'
<1>1. TypeOK /\ ListSound /\ OwnedOnce /\ Walkers
  BY DEF HeapInv
<1>2. /\ UNCHANGED <<used, next, end, hdrs, lock>> /\ pc[t] = "unlocked"
      /\ \/ live' = live \cup {made[t]} /\ UNCHANGED strayed
         \/ strayed' = TRUE /\ UNCHANGED live
      /\ made' = [made EXCEPT ![t] = NULL] /\ Leave(t)
  BY DEF MallocReturns, memory
<1>3. ListSound'
  BY <1>1, <1>2 DEF ListSound
<1>4. TypeOK'
  <2>1. made' \in [Tasks -> Nat] /\ live' \subseteq Nat /\ strayed' \in BOOLEAN
    BY <1>1, <1>2 DEF TypeOK, NULL
  <2> QED
    BY <1>1, <1>2, <2>1, LeaveTasks DEF TypeOK
<1>5. Walkers'
  BY <1>2, LeaveKeepsWalkers
<1>6. InHand(t) = {made[t]}
  BY <1>2 DEF InHand
<1>7. InHand(t)' = {} /\ \A u \in Tasks \ {t} : InHand(u)' = InHand(u)
  <2>1. \A u \in Tasks \ {t} : made'[u] = made[u]
    BY <1>1, <1>2 DEF TypeOK
  <2> QED
    BY <1>2, <2>1, LeaveKeepsHands
<1>8. Allocated' = Allocated
  BY <1>2 DEF Allocated, Blocks
<1>9. made[t] \in Allocated /\ \A u \in Tasks \ {t} : made[t] \notin InHand(u)
  BY <1>1, <1>6 DEF OwnedOnce
<1>10. OwnedOnce'
  <2>1. live' \subseteq live \cup {made[t]}
    BY <1>2
  <2> QED
    BY <1>1, <1>7, <1>8, <1>9, <2>1 DEF OwnedOnce
<1> QED
  BY <1>3, <1>4, <1>5, <1>10 DEF HeapInv

LEMMA UnlinkKeepsInv ==
  ASSUME HeapInv, NEW t \in Tasks, Unlink(t)
  PROVE  HeapInv'
<1> DEFINE n == next[pmm[t]]
           p == call[t].ptr
<1>1. TypeOK /\ ListSound /\ OwnedOnce /\ Walkers
  BY DEF HeapInv
<1>2. /\ call[t].op = "gp_free" /\ pc[t] = "walk"
      /\ next' = [next EXCEPT ![pmm[t]] = next[n]]
      /\ end' = [end EXCEPT ![n] = NULL]
      /\ hdrs' = hdrs \ {n} /\ lock' = Nobody /\ Leave(t)
      /\ UNCHANGED <<used, live, made, strayed>>
  BY DEF Unlink, Walking
<1>3. n \in Blocks /\ n + 2 = p
  BY UnlinkedBlock
<1>4. n \in Addr /\ next[n] \in Addr
  BY <1>1, <1>3, ListPlaces DEF Blocks
<1> HIDE DEF n, p
<1>5. ListSound'
  BY UnlinkKeepsList
<1>6. TypeOK'
  BY <1>1, <1>2, <1>4, LeaveTasks DEF TypeOK
<1>7. Walkers'
  BY <1>2, LeaveKeepsWalkers
<1>8. InHand(t) = {p}
  BY <1>2 DEF InHand, p
<1>9. InHand(t)' = {} /\ \A u \in Tasks \ {t} : InHand(u)' = InHand(u)
  BY <1>2, LeaveKeepsHands
<1>10. Allocated \ {p} \subseteq Allocated'
  BY <1>2, <1>3 DEF Allocated, Blocks
<1>11. p \notin live /\ \A u \in Tasks \ {t} : p \notin InHand(u)
  BY <1>1, <1>8 DEF OwnedOnce
<1>12. OwnedOnce'
  BY <1>1, <1>2, <1>9, <1>10, <1>11 DEF OwnedOnce
<1> QED
  BY <1>5, <1>6, <1>7, <1>12 DEF HeapInv

-----------------------------------------------------------------------------
(* The theorems.                                                            *)

LEMMA InitKeepsInv == Init => HeapInv
<1> SUFFICES ASSUME Init PROVE HeapInv
  OBVIOUS
<1>1. TypeOK
  <2>1. next \in [Addr -> Addr \cup {NULL, Junk}]
    BY Places DEF Init
  <2>2. HeapHead + 1 \in Addr
    BY Places
  <2>3. end \in [Addr -> Addr \cup {NULL}]
    BY <2>2 DEF Init
  <2>4. used \subseteq PoolBlocks /\ live \subseteq Nat /\ hdrs \subseteq Addr
    BY Places DEF Init
  <2>5. /\ call \in [Tasks -> Calls] /\ pmm \in [Tasks -> Addr]
        /\ made \in [Tasks -> Nat] /\ strayed \in BOOLEAN
        /\ lock \in Tasks \cup {Nobody}
        /\ pc \in [Tasks -> {"idle", "pool", "heap", "walk", "unlocked"}]
    BY Places, NoCallIsCall DEF Init, NULL
  <2> QED
    BY <2>1, <2>3, <2>4, <2>5 DEF TypeOK
<1>2. ListSound
  BY Places DEF Init, ListSound
<1>3. \A t \in Tasks : InHand(t) = {}
  BY NoCallIsCall DEF Init, InHand
<1>4. OwnedOnce
  BY <1>3 DEF Init, OwnedOnce
<1>5. Walkers
  BY NoCallIsCall DEF Init, Walkers, Walker
<1> QED
  BY <1>1, <1>2, <1>4, <1>5 DEF HeapInv

LEMMA NextKeepsInv == HeapInv /\ [Next]_hvars => HeapInv'
<1> SUFFICES ASSUME HeapInv, [Next]_hvars PROVE HeapInv'
  OBVIOUS
<1>1. CASE UNCHANGED hvars
  <2>1. TypeOK' /\ ListSound'
    BY <1>1 DEF hvars, HeapInv, TypeOK, ListSound
  <2>2. OwnedOnce'
    BY <1>1 DEF hvars, HeapInv, OwnedOnce, Allocated, Blocks, InHand
  <2>3. Walkers'
    BY <1>1 DEF hvars, HeapInv, Walkers, Walker, Fits, DataBehind
  <2> QED
    BY <2>1, <2>2, <2>3 DEF HeapInv
<1>2. ASSUME NEW t \in Tasks, GpMalloc(t) \/ GpMallocAlign(t) \/ GpFree(t)
      PROVE  HeapInv'
  BY <1>2, GpMallocKeepsInv, GpMallocAlignKeepsInv, GpFreeKeepsInv
<1>3. ASSUME NEW t \in Tasks, Step(t)
      PROVE  HeapInv'
  <2>1. CASE GpFixedSizeMalloc(t) \/ GpFixedSizeFree(t)
    BY <2>1, FixedMallocKeepsInv, FixedFreeKeepsInv
  <2>2. CASE Lock(t) \/ Advance(t) \/ NotFound(t)
    BY <2>2, LockKeepsInv, AdvanceKeepsInv, NotFoundKeepsInv
  <2>3. CASE MallocInserts(t) \/ MallocReturns(t)
    BY <2>3, MallocInsertsKeepsInv, MallocReturnsKeepsInv
  <2>4. CASE MallocAlignInserts(t) \/ Unlink(t)
    BY <2>4, MallocAlignInsertsKeepsInv, UnlinkKeepsInv
  <2> QED
    BY <1>3, <2>1, <2>2, <2>3, <2>4 DEF Step
<1> QED
  BY <1>1, <1>2, <1>3 DEF Next

\* The inductive invariant holds of the memory manager, for every number of
\* tasks, pools and words.
THEOREM HeapInvCorrect == Spec => []HeapInv
BY InitKeepsInv, NextKeepsInv, PTL DEF Spec

\* The links of the list, the semaphore and the calls under way keep their
\* types: a walk never leaves the addresses of the heap, and no link names a
\* word outside it.
THEOREM TypeOKHolds == Spec => []TypeOK
<1>1. HeapInv => TypeOK
  BY DEF HeapInv
<1> QED
  BY <1>1, HeapInvCorrect, PTL

\* The list of used blocks always leads through all of them in the order of
\* their addresses to its end, and no block reaches into the next one.
THEOREM ListSoundHolds == Spec => []ListSound
<1>1. HeapInv => ListSound
  BY DEF HeapInv
<1> QED
  BY <1>1, HeapInvCorrect, PTL

\* No address is given to two callers, whatever the interleaving of their calls.
THEOREM OwnedOnceHolds == Spec => []OwnedOnce
<1>1. HeapInv => OwnedOnce
  BY DEF HeapInv
<1> QED
  BY <1>1, HeapInvCorrect, PTL

-----------------------------------------------------------------------------
(* The heap implements BlockHeap.                                           *)

Image == {<<h, end[h]>> : h \in Blocks}

\* The gap behind a header reaches into no block.
LEMMA GapIsFree ==
  ASSUME TypeOK, ListSound, NEW h \in hdrs, h # HeapTail,
         NEW n \in Nat, NEW e \in Nat, end[h] < n, e < next[h],
         NEW g \in Blocks
  PROVE  ~ Heap!Overlap(<<n, e>>, <<g, end[g]>>)
<1>1. /\ h \in Nat /\ end[h] \in Nat /\ next[h] \in Nat /\ h < end[h]
  BY ListPlaces
<1>2. /\ g \in hdrs /\ g \in Nat /\ end[g] \in Nat /\ next[g] \in Nat
      /\ end[g] < next[g]
  BY ListPlaces DEF Blocks
<1>3. g # HeapTail /\ (g <= h \/ next[h] <= g) /\ (h <= g \/ next[g] <= h)
  BY <1>2 DEF ListSound, Blocks
<1>4. g = h \/ next[g] <= h \/ next[h] <= g
  BY <1>1, <1>2, <1>3
<1>5. end[g] < n \/ e < g
  BY <1>1, <1>2, <1>4
<1> QED
  BY <1>1, <1>2, <1>5 DEF Heap!Overlap

\* A new block is reserved where nothing is.
LEMMA InsertionReserves ==
  ASSUME HeapInv, NEW t \in Tasks, NEW n \in Addr, NEW e \in Addr,
         Inserted(t, n, e)
  PROVE  Heap!Reserve(<<n, e>>)
<1>1. TypeOK /\ ListSound
  BY DEF HeapInv
<1>2. /\ pmm[t] \in hdrs /\ pmm[t] # HeapTail
      /\ end[pmm[t]] < n /\ n < e /\ e < next[pmm[t]]
      /\ hdrs' = hdrs \cup {n} /\ n \notin hdrs
      /\ end'[n] = e /\ \A g \in hdrs : end'[g] = end[g]
  BY DEF Inserted
<1>3. n \in Nat /\ e \in Nat
  BY AddrNat
<1>4. \A b \in Image : ~ Heap!Overlap(<<n, e>>, b)
  <2> SUFFICES ASSUME NEW g \in Blocks
               PROVE  ~ Heap!Overlap(<<n, e>>, <<g, end[g]>>)
    BY DEF Image
  <2> QED
    BY <1>1, <1>2, <1>3, GapIsFree
<1>5. Blocks' = Blocks \cup {n}
  BY <1>1, <1>2 DEF Blocks, ListSound
<1>6. Image' = Image \cup {<<n, e>>}
  <2>1. \A g \in Blocks : end'[g] = end[g]
    BY <1>2 DEF Blocks
  <2> QED
    BY <1>2, <1>5, <2>1 DEF Image
<1>7. <<n, e>>[1] <= <<n, e>>[2]
  BY <1>2, <1>3
<1> QED
  BY <1>4, <1>6, <1>7 DEF Heap!Reserve, Image

\* The block found is released.
LEMMA UnlinkReleases ==
  ASSUME HeapInv, NEW t \in Tasks, Unlink(t)
  PROVE  \E b \in Image : Heap!Release(b)
<1> DEFINE k == next[pmm[t]]
<1>1. k \in Blocks
  BY UnlinkedBlock
<1>2. hdrs' = hdrs \ {k} /\ end' = [end EXCEPT ![k] = NULL]
  BY DEF Unlink
<1>3. end \in [Addr -> Addr \cup {NULL}]
  BY DEF HeapInv, TypeOK
<1> HIDE DEF k
<1>4. Blocks' = Blocks \ {k}
  BY <1>2 DEF Blocks
<1>5. \A g \in Blocks \ {k} : end'[g] = end[g]
  <2>1. \A g \in Blocks : g \in Addr
    BY DEF HeapInv, TypeOK, Blocks
  <2> QED
    BY <1>2, <1>3, <2>1
<1>6. Image' = Image \ {<<k, end[k]>>}
  BY <1>1, <1>4, <1>5 DEF Image
<1>7. <<k, end[k]>> \in Image
  BY <1>1 DEF Image
<1> QED
  BY <1>6, <1>7, Zenon DEF Heap!Release, Image

\* Each step is one of the abstract heap, or leaves its blocks alone.
LEMMA StepImplements ==
  ASSUME HeapInv, [Next]_hvars
  PROVE  [Heap!BlocksNext]_Image
<1>1. ASSUME UNCHANGED <<end, hdrs>>
      PROVE  Image' = Image
  BY <1>1 DEF Image, Blocks
<1>2. CASE UNCHANGED hvars
  BY <1>1, <1>2 DEF hvars
<1>3. ASSUME NEW t \in Tasks, GpMalloc(t) \/ GpMallocAlign(t) \/ GpFree(t)
      PROVE  Image' = Image
  BY <1>1, <1>3 DEF GpMalloc, GpMallocAlign, GpFree, Enter, memory
<1>4. ASSUME NEW t \in Tasks, Step(t)
      PROVE  [Heap!BlocksNext]_Image
  <2>1. CASE GpFixedSizeMalloc(t) \/ GpFixedSizeFree(t) \/ Lock(t)
    BY <1>1, <2>1 DEF GpFixedSizeMalloc, GpFixedSizeFree, Lock, memory
  <2>2. CASE Advance(t) \/ NotFound(t) \/ MallocReturns(t)
    BY <1>1, <2>2 DEF Advance, NotFound, MallocReturns, memory
  <2>3. CASE MallocInserts(t) \/ MallocAlignInserts(t)
    <3>1. InsertBlock(t) /\ call[t].op \in {"gp_malloc", "gp_malloc_align"}
      BY <2>3 DEF MallocInserts, MallocAlignInserts
    <3>2. PICK n \in Addr, e \in Addr : Inserted(t, n, e)
      BY <3>1, InsertionFacts
    <3>3. Heap!Reserve(<<n, e>>)
      BY <3>2, InsertionReserves
    <3>4. <<n, e>> \in Addr \X Addr
      OBVIOUS
    <3> QED
      BY <3>3, <3>4 DEF Heap!BlocksNext
  <2>4. CASE Unlink(t)
    BY <2>4, UnlinkReleases DEF Heap!BlocksNext, Image
  <2> QED
    BY <1>4, <2>1, <2>2, <2>3, <2>4 DEF Step
<1> QED
  BY <1>2, <1>3, <1>4 DEF Next

\* The variable-size part of the memory manager implements the abstract heap:
\* every allocation reserves words that no block has, header and data, and every
\* release gives one block back, whatever the other tasks do meanwhile.
THEOREM ImplementsBlocksHolds == Spec => ImplementsBlocks
<1>1. Init => Heap!BlocksInit
  BY DEF Init, Heap!BlocksInit, Blocks
<1>2. HeapInv /\ [Next]_hvars => [Heap!BlocksNext]_Image
  BY StepImplements
<1> QED
  BY <1>1, <1>2, HeapInvCorrect, PTL DEF Spec, ImplementsBlocks, Heap!BlocksSpec, Image

-----------------------------------------------------------------------------
(* A walk misses nothing.                                                   *)

LEMMA Division ==
  ASSUME NEW a \in Nat, NEW n \in Nat \ {0}
  PROVE  a % n \in 0 .. n - 1 /\ a = n * (a \div n) + (a % n) /\ a \div n \in Nat
OBVIOUS

LEMMA NextMultiple ==
  ASSUME NEW n \in Nat \ {0}, NEW q \in Nat, NEW r \in 0 .. n - 1, NEW k \in Nat,
         n * q + r <= n * k, r > 0
  PROVE  n * (q + 1) <= n * k
<1>1. q < k
  <2> SUFFICES ASSUME k <= q PROVE FALSE
    OBVIOUS
  <2>1. PICK m \in Nat : q = k + m
    <3>1. q - k \in Nat /\ q = k + (q - k)
      OBVIOUS
    <3> QED
      BY <3>1
  <2>2. n * q = n * k + n * m /\ n * m \in Nat
    BY <2>1
  <2> QED
    BY <2>2
<1>2. PICK m \in Nat : k = q + 1 + m
  <2>1. k - (q + 1) \in Nat /\ k = q + 1 + (k - (q + 1))
    BY <1>1
  <2> QED
    BY <2>1
<1>3. n * k = n * (q + 1) + n * m /\ n * m \in Nat
  BY <1>2
<1> QED
  BY <1>3

\* Rounding up to an alignment gives the least multiple of it.
LEMMA AlignUpLeast ==
  ASSUME NEW a \in Nat, NEW n \in Nat \ {0}, NEW d \in Nat, a <= d, d % n = 0
  PROVE  AlignUp(a, n) <= d
<1> DEFINE q == a \div n
           r == a % n
           k == d \div n
<1>1. r \in 0 .. n - 1 /\ a = n * q + r /\ q \in Nat
  BY Division
<1>2. d = n * k /\ k \in Nat
  BY Division
<1>3. AlignUp(a, n) = a + ((n - r) % n)
  BY DEF AlignUp
<1> HIDE DEF q, r, k
<1>4. CASE r = 0
  <2>1. (n - r) % n = 0
    BY <1>4
  <2> QED
    BY <1>3, <1>4, <2>1
<1>5. CASE r > 0
  <2>1. (n - r) % n = n - r
    BY <1>1, <1>5
  <2>2. n * (q + 1) <= n * k
    BY <1>1, <1>2, <1>5, NextMultiple
  <2>3. n * (q + 1) = n * q + n
    BY <1>1
  <2> QED
    BY <1>1, <1>2, <1>3, <2>1, <2>2, <2>3
<1> QED
  BY <1>1, <1>4, <1>5

\* No request is for 0 bytes.
Asked ==
  \A t \in Tasks : call[t].op \in {"gp_malloc", "gp_malloc_align"} =>
                     call[t].size \in Nat \ {0}

LEMMA WordsOfAsked == \A s \in Nat \ {0} : WordsOf(s) \in Nat \ {0}
BY DEF WordsOf

LEMMA EnterAsked ==
  ASSUME TypeOK, Asked, NEW t \in Tasks, NEW label, NEW c, Enter(t, label, c),
         c.op = "gp_free" \/ c.size \in Nat \ {0}
  PROVE  Asked'
<1>1. call' = [call EXCEPT ![t] = c]
  BY DEF Enter
<1>2. call'[t] = c /\ \A u \in Tasks \ {t} : call'[u] = call[u]
  BY <1>1 DEF TypeOK
<1> QED
  BY <1>2 DEF Asked

LEMMA LeaveAsked ==
  ASSUME HeapInv, Asked, NEW t \in Tasks, Leave(t)
  PROVE  Asked'
BY LeaveTasks, NoCallIsCall DEF Asked

LEMMA NextKeepsAsked ==
  ASSUME HeapInv, Asked, [Next]_hvars
  PROVE  Asked'
<1>1. TypeOK
  BY DEF HeapInv
<1>2. ASSUME UNCHANGED call PROVE Asked'
  BY <1>2 DEF Asked
<1>3. CASE UNCHANGED hvars
  BY <1>2, <1>3 DEF hvars
<1>4. ASSUME NEW t \in Tasks, GpMalloc(t) \/ GpMallocAlign(t) \/ GpFree(t)
      PROVE  Asked'
  <2>1. CASE GpMalloc(t)
    <3>1. PICK s \in Sizes :
            Enter(t, IF PoolBlocksFor(s) = {} THEN "heap" ELSE "pool",
                  CallOf("gp_malloc", s, 1, NULL))
      BY <2>1 DEF GpMalloc
    <3>2. CallOf("gp_malloc", s, 1, NULL).size \in Nat \ {0}
      BY HeapAssumption DEF CallOf
    <3> QED
      BY <1>1, <3>1, <3>2, EnterAsked
  <2>2. CASE GpMallocAlign(t)
    <3>1. PICK s \in Sizes, a \in Aligns :
            Enter(t, "heap", CallOf("gp_malloc_align", s, AlignWords(a), NULL))
      BY <2>2 DEF GpMallocAlign
    <3>2. CallOf("gp_malloc_align", s, AlignWords(a), NULL).size \in Nat \ {0}
      BY HeapAssumption DEF CallOf
    <3> QED
      BY <1>1, <3>1, <3>2, EnterAsked
  <2>3. CASE GpFree(t)
    <3>1. PICK p \in live :
            Enter(t, IF p < HeapStart THEN "pool" ELSE "heap",
                  CallOf("gp_free", 0, 1, p))
      BY <2>3 DEF GpFree
    <3>2. CallOf("gp_free", 0, 1, p).op = "gp_free"
      BY DEF CallOf
    <3> QED
      BY <1>1, <3>1, <3>2, EnterAsked
  <2> QED
    BY <1>4, <2>1, <2>2, <2>3
<1>5. ASSUME NEW t \in Tasks, Step(t)
      PROVE  Asked'
  <2>1. UNCHANGED call \/ Leave(t)
    BY <1>5 DEF Step, GpFixedSizeMalloc, GpFixedSizeFree, Lock, Advance, NotFound,
                MallocInserts, MallocReturns, MallocAlignInserts, Unlink
  <2> QED
    BY <1>2, <2>1, LeaveAsked
<1> QED
  BY <1>3, <1>4, <1>5 DEF Next

\* A place above the first header and below the last has a header below it, or
\* at it, whose successor is above it.
LEMMA HeaderBelow ==
  ASSUME TypeOK, ListSound, NEW a \in Nat, HeapHead <= a, a < HeapTail
  PROVE  \E h \in hdrs : h # HeapTail /\ h <= a /\ a < next[h]
<1> DEFINE T == {HeapEnd - h : h \in {g \in hdrs : g <= a}}
<1>1. \A h \in hdrs : h \in Nat /\ HeapHead <= h /\ h <= HeapTail
  BY AddrNat DEF TypeOK, ListSound
<1>2. T \subseteq 1 .. HeapEnd
  BY <1>1, Places
<1>3. T # {}
  <2>1. HeapHead \in hdrs
    BY DEF ListSound
  <2> QED
    BY <2>1
<1>4. PICK i \in T : \A j \in T : i <= j
  <2>1. HeapEnd \in Nat
    BY Places
  <2> HIDE DEF T
  <2> QED
    BY <1>2, <1>3, <2>1, LeastElement
<1>5. PICK h \in hdrs : h <= a /\ i = HeapEnd - h
  BY <1>4
<1>6. h # HeapTail
  BY <1>1, <1>5, Places
<1>7. next[h] \in hdrs /\ next[h] \in Nat /\ h < next[h] /\ h \in Nat
  <2>1. end[h] \in Nat /\ h < end[h] /\ end[h] < next[h] /\ h \in Nat
    BY <1>6, ListPlaces
  <2> QED
    BY <2>1, <1>6, ListPlaces
<1>8. a < next[h]
  <2> SUFFICES ASSUME next[h] <= a PROVE FALSE
    BY <1>7
  <2>1. HeapEnd - next[h] \in T
    BY <1>7
  <2>2. i <= HeapEnd - next[h]
    BY <1>4, <2>1
  <2> QED
    BY <1>5, <1>7, <2>2, Places
<1> QED
  BY <1>5, <1>6, <1>8

\* A walk that has come to the last header has passed all the others.
LEMMA PassedAll ==
  ASSUME HeapInv, NEW t \in Tasks, pc[t] = "walk", pmm[t] = HeapTail,
         NEW h \in hdrs, h # HeapTail
  PROVE  ~ Fits(t, h)
<1>1. h < HeapTail
  BY AddrNat, Places DEF HeapInv, TypeOK, ListSound
<1> QED
  BY <1>1 DEF HeapInv, Walkers, Walker

\* The header before a block would have been found by its release.
LEMMA ReleaseFinds ==
  ASSUME HeapInv, NEW t \in Tasks, pc[t] = "walk", pmm[t] = HeapTail,
         call[t].op = "gp_free"
  PROVE  call[t].ptr - 2 \notin Blocks
<1> SUFFICES ASSUME NEW k \in Blocks, k = call[t].ptr - 2
             PROVE  FALSE
  OBVIOUS
<1>1. TypeOK /\ ListSound
  BY DEF HeapInv
<1>2. k \in hdrs /\ k \in Nat /\ HeapHead < k /\ k < HeapTail
  BY <1>1, AddrNat, Places DEF TypeOK, ListSound, Blocks
<1>3. PICK h \in hdrs : h # HeapTail /\ h <= k - 1 /\ k - 1 < next[h]
  <2>1. k - 1 \in Nat /\ HeapHead <= k - 1 /\ k - 1 < HeapTail
    BY <1>2, Places
  <2> QED
    BY <1>1, <2>1, HeaderBelow
<1>4. next[h] = k
  <2>1. next[h] \in Nat /\ h \in Nat
    BY <1>1, <1>3, ListPlaces
  <2>2. k <= h \/ next[h] <= k
    BY <1>1, <1>2, <1>3 DEF ListSound
  <2> QED
    BY <1>2, <1>3, <2>1, <2>2
<1>5. call[t].ptr = next[h] + 2
  BY <1>1, <1>2, <1>4, CallTypes
<1>6. Fits(t, h)
  BY <1>5 DEF Fits
<1> QED
  BY <1>3, <1>6, PassedAll

\* The header below a place that would do has a gap that fits.
LEMMA RequestFinds ==
  ASSUME HeapInv, Asked, NEW t \in Tasks, pc[t] = "walk", pmm[t] = HeapTail,
         call[t].op \in {"gp_malloc", "gp_malloc_align"},
         NEW d \in HeapStart + 4 .. HeapEnd - 3
  PROVE  ~ Place(t, d)
<1> SUFFICES ASSUME Place(t, d) PROVE FALSE
  OBVIOUS
<1> DEFINE w == WordsOf(call[t].size)
<1>1. TypeOK /\ ListSound
  BY DEF HeapInv
<1>2. w \in Nat /\ w # 0
  BY WordsOfAsked DEF Asked
<1>3. d \in Nat /\ d - 2 \in Nat /\ HeapHead <= d - 2 /\ d - 2 < HeapTail
  BY Places
<1>4. PICK h \in hdrs : h # HeapTail /\ h <= d - 2 /\ d - 2 < next[h]
  BY <1>1, <1>3, HeaderBelow
<1>5. /\ h \in Nat /\ end[h] \in Nat /\ next[h] \in Nat /\ next[h] \in hdrs
      /\ h < end[h] /\ end[h] < next[h]
  BY <1>1, <1>4, ListPlaces
<1> HIDE DEF w
<1>6. /\ d % call[t].align = 0
      /\ \A g \in hdrs : (d - 2 .. d + w - 1) \cap Occupied(g) = {}
  BY DEF Place, w
<1>7. end[h] < d - 2
  <2> SUFFICES ASSUME d - 2 <= end[h] PROVE FALSE
    BY <1>3, <1>5
  <2>1. d - 2 \in Occupied(h)
    BY <1>3, <1>4, <1>5 DEF Occupied
  <2>2. d - 2 \in d - 2 .. d + w - 1
    BY <1>2, <1>3
  <2> QED
    BY <1>6, <2>1, <2>2
<1>8. d + w <= next[h]
  <2> SUFFICES ASSUME next[h] <= d + w - 1 PROVE FALSE
    BY <1>2, <1>3, <1>5
  <2>1. next[h] \in d - 2 .. d + w - 1
    BY <1>2, <1>3, <1>4, <1>5
  <2>2. next[h] \in Occupied(next[h])
    <3>1. CASE next[h] = HeapTail
      BY <3>1, Places DEF Occupied
    <3>2. CASE next[h] # HeapTail
      <4>1. end[next[h]] \in Nat /\ next[h] < end[next[h]]
        BY <1>1, <1>5, <3>2, ListPlaces
      <4> QED
        BY <1>5, <3>2, <4>1 DEF Occupied
    <3> QED
      BY <3>1, <3>2
  <2> QED
    BY <1>5, <1>6, <2>1, <2>2
<1>9. CASE call[t].op = "gp_malloc"
  <2>1. next[h] - end[h] > w + 2
    BY <1>2, <1>3, <1>5, <1>7, <1>8
  <2>2. Fits(t, h)
    BY <1>9, <2>1 DEF Fits, w
  <2> QED
    BY <1>4, <2>2, PassedAll
<1>10. CASE call[t].op = "gp_malloc_align"
  <2>1. DataBehind(t, h) \in Nat /\ DataBehind(t, h) <= d
    <3>1. end[h] + 3 \in Nat /\ end[h] + 3 <= d
      BY <1>3, <1>5, <1>7
    <3>2. call[t].align \in Nat \ {0}
      BY <1>1, CallTypes
    <3>3. AlignUp(end[h] + 3, call[t].align) \in Nat
      BY <3>1, <3>2, AlignUpAbove
    <3>4. AlignUp(end[h] + 3, call[t].align) <= d
      BY <1>3, <1>6, <3>1, <3>2, AlignUpLeast
    <3> QED
      BY <3>3, <3>4 DEF DataBehind
  <2>2. DataBehind(t, h) < next[h] /\ next[h] - DataBehind(t, h) >= w
    BY <1>2, <1>3, <1>5, <1>8, <2>1
  <2>3. Fits(t, h)
    BY <1>10, <2>2 DEF Fits, w
  <2> QED
    BY <1>4, <2>3, PassedAll
<1> QED
  BY <1>9, <1>10

\* First fit is complete: a request is refused only when no place in the heap
\* would do, and a release finds its block whenever it is in the list.
THEOREM WalkMissesNothingHolds == Spec => []WalkMissesNothing
<1>1. Init => Asked
  <2>1. \A t \in Tasks : Init => call[t].op = "none"
    BY NoCallIsCall DEF Init
  <2> QED
    BY <2>1 DEF Asked
<1>2. HeapInv /\ Asked /\ [Next]_hvars => Asked'
  BY NextKeepsAsked
<1>3. HeapInv /\ Asked => WalkMissesNothing
  <2> SUFFICES ASSUME HeapInv, Asked, NEW t \in Tasks,
                      pc[t] = "walk", pmm[t] = HeapTail
               PROVE  IF call[t].op = "gp_free"
                      THEN call[t].ptr - 2 \notin Blocks
                      ELSE ~ \E d \in HeapStart + 4 .. HeapEnd - 3 : Place(t, d)
    BY DEF WalkMissesNothing
  <2>1. call[t].op # "none"
    BY DEF HeapInv, Walkers, Walker
  <2>2. call[t].op \in {"gp_malloc", "gp_malloc_align", "gp_free"}
    BY <2>1, CallTypes DEF HeapInv
  <2> QED
    BY <2>2, ReleaseFinds, RequestFinds
<1> QED
  BY <1>1, <1>2, <1>3, HeapInvCorrect, PTL DEF Spec

=============================================================================

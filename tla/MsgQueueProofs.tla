--------------------------- MODULE MsgQueueProofs ---------------------------
(***************************************************************************)
(* Proofs about MsgQueue, for pools and OS queues of every size.           *)
(***************************************************************************)
EXTENDS MsgQueue, LeastElements, FunctionTheorems, SequenceTheorems, TLAPS

-----------------------------------------------------------------------------
(* The first free slot.                                                     *)

LEMMA FirstFreeIsFree ==
  ASSUME TypeOK, FreeSlots # {}
  PROVE  FirstFree \in FreeSlots
<1>1. MaxMsgs \in Nat /\ FreeSlots \in SUBSET (1 .. MaxMsgs)
  BY QueueAssumption DEF FreeSlots, Slots
<1>2. \E i \in FreeSlots : \A j \in FreeSlots : i <= j
  BY <1>1, LeastElement
<1> QED
  BY <1>2 DEF FirstFree

LEMMA PostType ==
  ASSUME NEW q \in Seq(Slots), NEW s \in Slots, NEW u \in BOOLEAN
  PROVE  /\ Post(q, s, u) \in Seq(Slots)
         /\ Len(Post(q, s, u)) = Len(q) + 1
<1>1. <<s>> \in Seq(Slots) /\ Len(<<s>>) = 1
  OBVIOUS
<1>2. <<s>> \o q \in Seq(Slots) /\ Len(<<s>> \o q) = Len(q) + 1
  BY <1>1, ConcatProperties, LenProperties
<1>3. Append(q, s) \in Seq(Slots) /\ Len(Append(q, s)) = Len(q) + 1
  BY AppendProperties
<1> QED
  BY <1>2, <1>3 DEF Post

\* What a successful msgQSend does to the OS queue: one place is added, at
\* one end or the other, and it holds the slot that was free.
LEMMA PostedSlot ==
  ASSUME NEW q \in Seq(Slots), NEW s \in Slots, NEW u \in BOOLEAN,
         Distinct(q), s \notin SlotsOf(q)
  PROVE  /\ Distinct(Post(q, s, u))
         /\ SlotsOf(Post(q, s, u)) = SlotsOf(q) \cup {s}
<1> SUFFICES ASSUME NEW r, r = Post(q, s, u)
             PROVE  Distinct(r) /\ SlotsOf(r) = SlotsOf(q) \cup {s}
  OBVIOUS
<1> USE DEF Distinct, SlotsOf
<1>0. Len(q) \in Nat
  BY LenProperties
<1>1. CASE u
  <2>1. <<s>> \in Seq(Slots) /\ Len(<<s>>) = 1 /\ <<s>>[1] = s
    OBVIOUS
  <2>2. r = <<s>> \o q
    BY <1>1 DEF Post
  <2>3. /\ r \in Seq(Slots)
        /\ Len(r) = Len(q) + 1
        /\ \A i \in 1 .. Len(q) + 1 :
             r[i] = IF i <= 1 THEN <<s>>[i] ELSE q[i - 1]
    BY <1>0, <2>1, <2>2, ConcatProperties
  <2>4. r[1] = s /\ \A i \in 1 .. Len(q) : r[i + 1] = q[i]
    BY <1>0, <2>1, <2>3
  <2>5. \A k \in 1 .. Len(r) : k = 1 \/ (k - 1) \in 1 .. Len(q)
    BY <1>0, <2>3
  <2>6. \A k \in 1 .. Len(r) : k # 1 => r[k] = q[k - 1]
    BY <1>0, <2>3
  <2>7. \A j, k \in 1 .. Len(r) : r[j] = r[k] => j = k
    <3> SUFFICES ASSUME NEW j \in 1 .. Len(r), NEW k \in 1 .. Len(r),
                        r[j] = r[k], j # 1
                 PROVE  j = k
      BY <2>4, <2>5, <2>6
    <3>1. (j - 1) \in 1 .. Len(q) /\ r[j] = q[j - 1]
      BY <2>5, <2>6
    <3>2. k # 1
      <4>1. r[j] # s
        BY <3>1
      <4> QED
        BY <2>4, <4>1
    <3>3. (k - 1) \in 1 .. Len(q) /\ r[k] = q[k - 1]
      BY <2>5, <2>6, <3>2
    <3>4. j - 1 = k - 1
      BY <3>1, <3>3
    <3> QED
      BY <3>4
  <2>8. {r[k] : k \in 1 .. Len(r)} = {q[k] : k \in 1 .. Len(q)} \cup {s}
    <3>1. ASSUME NEW k \in 1 .. Len(r)
          PROVE  r[k] \in {q[i] : i \in 1 .. Len(q)} \cup {s}
      BY <2>4, <2>5, <2>6
    <3>2. ASSUME NEW i \in 1 .. Len(q)
          PROVE  q[i] \in {r[k] : k \in 1 .. Len(r)}
      <4>1. (i + 1) \in 1 .. Len(r) /\ r[i + 1] = q[i]
        BY <1>0, <2>3, <2>4
      <4> QED
        BY <4>1
    <3>3. 1 \in 1 .. Len(r)
      BY <1>0, <2>3
    <3> DEFINE R == {r[k] : k \in 1 .. Len(r)}
               Q == {q[k] : k \in 1 .. Len(q)}
    <3>4. s \in R
      BY <2>4, <3>3
    <3>5. \A x \in R : x \in Q \cup {s}
      BY <3>1
    <3>6. \A x \in Q : x \in R
      BY <3>2
    <3> HIDE DEF R, Q
    <3>7. R = Q \cup {s}
      BY <3>4, <3>5, <3>6
    <3> QED
      BY <3>7 DEF R, Q
  <2> QED
    BY <2>3, <2>7, <2>8
<1>2. CASE ~u
  <2>1. r = Append(q, s)
    BY <1>2 DEF Post
  <2>2. /\ r \in Seq(Slots)
        /\ Len(r) = Len(q) + 1
        /\ \A i \in 1 .. Len(q) : r[i] = q[i]
        /\ r[Len(q) + 1] = s
    BY <2>1, AppendProperties
  <2>3. \A k \in 1 .. Len(r) : k \in 1 .. Len(q) \/ k = Len(q) + 1
    BY <1>0, <2>2
  <2>4. \A j, k \in 1 .. Len(r) : r[j] = r[k] => j = k
    BY <2>2, <2>3
  <2>5. {r[k] : k \in 1 .. Len(r)} = {q[k] : k \in 1 .. Len(q)} \cup {s}
    <3>1. ASSUME NEW k \in 1 .. Len(r)
          PROVE  r[k] \in {q[i] : i \in 1 .. Len(q)} \cup {s}
      BY <2>2, <2>3
    <3>2. ASSUME NEW i \in 1 .. Len(q)
          PROVE  i \in 1 .. Len(r) /\ r[i] = q[i]
      BY <1>0, <2>2
    <3>3. (Len(q) + 1) \in 1 .. Len(r)
      BY <1>0, <2>2
    <3> DEFINE R == {r[k] : k \in 1 .. Len(r)}
               Q == {q[k] : k \in 1 .. Len(q)}
    <3>4. s \in R
      BY <2>2, <3>3
    <3>5. \A x \in R : x \in Q \cup {s}
      BY <3>1
    <3>6. \A x \in Q : x \in R
      BY <3>2
    <3> HIDE DEF R, Q
    <3>7. R = Q \cup {s}
      BY <3>4, <3>5, <3>6
    <3> QED
      BY <3>7 DEF R, Q
  <2> QED
    BY <2>2, <2>4, <2>5
<1> QED
  BY <1>1, <1>2

-----------------------------------------------------------------------------
(* Type correctness.                                                        *)

LEMMA TypeInit == Init => TypeOK
BY QueueAssumption DEF Init, TypeOK, Slots, OwnerPC, Messages

LEMMA TypeNext == TypeOK /\ [Next]_qvars => TypeOK'
<1> SUFFICES ASSUME TypeOK, [Next]_qvars
             PROVE  TypeOK'
  OBVIOUS
<1> USE QueueAssumption DEF TypeOK, OwnerPC
<1>1. CASE MsgQSendNoSlot
  BY <1>1 DEF MsgQSendNoSlot, Messages
<1>2. ASSUME NEW u \in BOOLEAN, MsgQSend(u)
      PROVE  TypeOK'
  <2>1. FirstFree \in Slots
    BY <1>2, FirstFreeIsFree DEF MsgQSend, FreeSlots
  <2>2. calls' \in 1 .. MaxSends /\ calls' \in 0 .. MaxSends /\ calls' \in Nat
    BY <1>2 DEF MsgQSend
  <2>3. pool' \in [Slots -> Nat]
    <3> HIDE DEF FirstFree
    <3> QED
      BY <1>2, <2>1, <2>2 DEF MsgQSend
  <2>4. osq' \in Seq(Slots) /\ Len(osq') <= MaxQSize
    <3>1. Post(osq, FirstFree, u) \in Seq(Slots)
          /\ Len(Post(osq, FirstFree, u)) = Len(osq) + 1
      BY <2>1, PostType
    <3>2. Len(osq) \in Nat
      BY LenProperties
    <3> QED
      BY <1>2, <3>1, <3>2 DEF MsgQSend
  <2>5. failed' \subseteq Messages /\ urgent' \subseteq Messages
    BY <1>2, <2>2 DEF MsgQSend, Messages
  <2> QED
    BY <1>2, <2>2, <2>3, <2>4, <2>5 DEF MsgQSend
<1>3. CASE Pend
  <2>1. Head(osq) \in Slots /\ Tail(osq) \in Seq(Slots)
        /\ Len(Tail(osq)) = Len(osq) - 1
    BY <1>3, HeadTailProperties DEF Pend
  <2>2. Head(osq) # 0
    BY <2>1 DEF Slots
  <2>3. Len(osq) \in Nat
    BY LenProperties
  <2> QED
    BY <1>3, <2>1, <2>2, <2>3 DEF Pend
<1>4. CASE CopyOut
  <2>1. pMsg \in Slots
    BY <1>4 DEF CopyOut
  <2> QED
    BY <1>4, <2>1 DEF CopyOut
<1>5. CASE FreeMessage
  BY <1>5 DEF FreeMessage
<1>6. CASE MsgQFlushQueue
  BY <1>6 DEF MsgQFlushQueue
<1>7. CASE MsgQFlushPool
  BY <1>7 DEF MsgQFlushPool
<1>8. CASE UNCHANGED qvars
  BY <1>8 DEF qvars
<1> QED
  BY <1>1, <1>2, <1>3, <1>4, <1>5, <1>6, <1>7, <1>8
  DEF Next, Send, Receive, Flush

\* Every variable keeps its type, whether or not the queue is flushed: in
\* particular the OS queue never exceeds its size, and msgQReceive works on
\* a slot exactly while it is between its OSQPend and its return.
THEOREM TypeCorrect == Spec => []TypeOK
<1>1. Init => TypeOK
  BY TypeInit
<1>2. TypeOK /\ [Next]_qvars => TypeOK'
  BY TypeNext
<1> QED
  BY <1>1, <1>2, PTL DEF Spec

-----------------------------------------------------------------------------
(* Counting the slots in use.                                               *)

LEMMA QueuedCount ==
  ASSUME TypeOK, Distinct(osq)
  PROVE  IsFiniteSet(Queued) /\ Cardinality(Queued) = Len(osq)
<1>1. Len(osq) \in Nat /\ osq \in [1 .. Len(osq) -> Slots]
  BY LenProperties DEF TypeOK
<1>2. osq \in Bijection(1 .. Len(osq), Queued)
  BY <1>1 DEF Distinct, SlotsOf, Queued, Bijection, Injection, Surjection,
             IsInjective
<1>3. ExistsBijection(1 .. Len(osq), Queued)
  BY <1>2 DEF ExistsBijection
<1>4. IsFiniteSet(1 .. Len(osq)) /\ Cardinality(1 .. Len(osq)) = Len(osq)
  <2>1. ASSUME NEW n \in Nat
        PROVE  IsFiniteSet(1 .. n) /\ Cardinality(1 .. n) = n
    BY <2>1, FS_Interval
  <2> QED
    BY <1>1, <2>1
<1> QED
  BY <1>3, <1>4, FS_Bijection

\* The slots in use are counted by the OS queue and the receiver's hand.
LEMMA BusyCount ==
  ASSUME IInv
  PROVE  /\ Len(osq) + (IF pMsg = 0 THEN 0 ELSE 1) <= MaxMsgs
         /\ FreeSlots = {} => Len(osq) + (IF pMsg = 0 THEN 0 ELSE 1) = MaxMsgs
         /\ FreeSlots # {} => Len(osq) + (IF pMsg = 0 THEN 0 ELSE 1) < MaxMsgs
<1>1. IsFiniteSet(Queued) /\ Cardinality(Queued) = Len(osq) /\ Len(osq) \in Nat
  BY QueuedCount, LenProperties DEF IInv, SlotDiscipline, TypeOK
<1>2. Cardinality(Queued \cup Held) = Len(osq) + (IF pMsg = 0 THEN 0 ELSE 1)
  <2>1. CASE pMsg = 0
    <3>1. Queued \cup Held = Queued
      BY <2>1 DEF Held
    <3>2. Cardinality(Queued \cup Held) = Len(osq)
      BY <1>1, <3>1
    <3>3. Len(osq) + (IF pMsg = 0 THEN 0 ELSE 1) = Len(osq)
      BY <1>1, <2>1
    <3> QED
      BY <3>2, <3>3
  <2>2. CASE pMsg # 0
    <3>1. Queued \cup Held = Queued \cup {pMsg} /\ pMsg \notin Queued
      BY <2>2 DEF Held, IInv, SlotDiscipline
    <3>2. Cardinality(Queued \cup {pMsg}) = Cardinality(Queued) + 1
      BY <1>1, <3>1, FS_AddElement
    <3>3. Cardinality(Queued \cup Held) = Len(osq) + 1
      BY <1>1, <3>1, <3>2
    <3> QED
      BY <2>2, <3>3
  <2> QED
    BY <2>1, <2>2
<1>3. IsFiniteSet(Slots) /\ Cardinality(Slots) = MaxMsgs
  BY QueueAssumption, FS_Interval DEF Slots
<1>4. Busy = Queued \cup Held /\ Busy \in SUBSET Slots
  BY DEF IInv, SlotDiscipline, Busy
<1>5. Cardinality(Busy) <= MaxMsgs /\ (Cardinality(Busy) = MaxMsgs => Busy = Slots)
  BY <1>3, <1>4, FS_Subset
<1>6. Busy = Slots <=> FreeSlots = {}
  BY DEF Busy, FreeSlots
<1>7. IsFiniteSet(Busy) /\ Cardinality(Busy) \in Nat
  BY <1>3, <1>4, FS_Subset, FS_CardinalityType
<1>8. Cardinality(Busy) = Len(osq) + (IF pMsg = 0 THEN 0 ELSE 1)
  BY <1>2, <1>4
<1>9. FreeSlots = {} => Cardinality(Busy) = MaxMsgs
  BY <1>3, <1>6
<1>10. FreeSlots # {} => Cardinality(Busy) # MaxMsgs
  BY <1>5, <1>6
<1>11. MaxMsgs \in Nat
  BY QueueAssumption
<1> HIDE DEF Busy
<1> QED
  BY <1>5, <1>7, <1>8, <1>9, <1>10, <1>11

\* With as many places in the OS queue as slots in the pool, the OS queue
\* has room whenever msgQSend finds a free slot.
LEMMA PostSucceeds ==
  ASSUME IInv, MaxMsgs <= MaxQSize, FreeSlots # {}
  PROVE  Len(osq) < MaxQSize
<1>1. Len(osq) \in Nat
  BY LenProperties DEF IInv, TypeOK
<1> QED
  BY <1>1, BusyCount, QueueAssumption

-----------------------------------------------------------------------------
(* The slot discipline.                                                     *)

LEMMA InvInit == Init => IInv
<1> SUFFICES ASSUME Init
             PROVE  IInv
  OBVIOUS
<1>1. TypeOK
  BY TypeInit
<1>2. Len(osq) = 0 /\ Queued = {} /\ Held = {}
  BY DEF Init, Queued, SlotsOf, Held
<1>3. Busy = {}
  BY DEF Init, Busy, FreeSlots
<1> QED
  BY <1>1, <1>2, <1>3
  DEF Init, IInv, SlotDiscipline, Distinct, NoSlotLeaked, Numbering

LEMMA InvSend ==
  ASSUME IInv, MaxMsgs <= MaxQSize, NEW u \in BOOLEAN, MsgQSend(u)
  PROVE  IInv'
<1> DEFINE s == FirstFree
<1>1. s \in Slots /\ pool[s] = 0
  BY FirstFreeIsFree DEF IInv, MsgQSend, FreeSlots
<1>2. TypeOK /\ TypeOK'
  BY TypeNext DEF IInv, Next, Send
<1>3. /\ osq' = Post(osq, s, u)
      /\ failed' = failed
  BY PostSucceeds DEF MsgQSend
<1>4. s \notin Queued /\ s \notin Held
  BY <1>1 DEF IInv, SlotDiscipline, Busy, FreeSlots
<1>5. Distinct(osq)' /\ Queued' = Queued \cup {s}
  <2>1. osq \in Seq(Slots) /\ Distinct(osq) /\ s \notin SlotsOf(osq)
    BY <1>2, <1>4 DEF IInv, TypeOK, SlotDiscipline, Queued
  <2> HIDE DEF s
  <2> QED
    BY <1>1, <1>3, <2>1, PostedSlot DEF Queued
<1>6. Held' = Held
  BY DEF MsgQSend, Held
<1>7. /\ calls \in Nat /\ calls' = calls + 1
      /\ pool' = [pool EXCEPT ![s] = calls'] /\ pool \in [Slots -> Nat]
  BY <1>2 DEF MsgQSend, TypeOK
<1>8. /\ pool'[s] = calls'
      /\ \A i \in Slots : i # s => pool'[i] = pool[i]
  BY <1>1, <1>7
<1> HIDE DEF s
<1>9. Busy' = Busy \cup {s}
  BY <1>1, <1>7, <1>8 DEF Busy, FreeSlots
<1>10. SlotDiscipline'
  BY <1>4, <1>5, <1>6, <1>9 DEF SlotDiscipline, IInv
<1>11. NoSlotLeaked'
  <2> SUFFICES ASSUME NEW i \in Slots
               PROVE  pool'[i] \notin failed
    BY <1>3 DEF NoSlotLeaked
  <2>1. calls' \notin failed
    BY <1>7 DEF IInv, Numbering
  <2> QED
    BY <1>8, <2>1 DEF IInv, NoSlotLeaked
<1>12. Numbering'
  <2>1. \A i \in Slots : pool'[i] <= calls'
    BY <1>7, <1>8 DEF IInv, Numbering
  <2>2. \A m \in failed' : m <= calls'
    BY <1>2, <1>3, <1>7 DEF IInv, Numbering, TypeOK, Messages
  <2>3. pc' = "copied" => msg_id' = pool'[pMsg']
    <3> SUFFICES ASSUME pc = "copied"
                 PROVE  msg_id = pool'[pMsg]
      BY DEF MsgQSend
    <3>1. pMsg \in Slots /\ pMsg \in Held
      BY <1>2 DEF TypeOK, Held
    <3> QED
      BY <1>4, <1>8, <3>1 DEF IInv, Numbering
  <2> QED
    BY <2>1, <2>2, <2>3 DEF Numbering
<1>13. pc' # "flushing"
  BY DEF IInv, MsgQSend
<1> QED
  BY <1>2, <1>10, <1>11, <1>12, <1>13 DEF IInv

LEMMA InvPend ==
  ASSUME IInv, Pend
  PROVE  IInv'
<1>1. TypeOK /\ TypeOK'
  BY TypeNext DEF IInv, Next, Receive
<1>2. /\ osq \in Seq(Slots) /\ osq # << >>
      /\ osq' = Tail(osq) /\ pMsg' = Head(osq)
      /\ pool' = pool /\ failed' = failed /\ calls' = calls
  BY <1>1 DEF Pend, TypeOK
<1>3. /\ Len(osq) \in Nat \ {0}
      /\ Len(osq') = Len(osq) - 1
      /\ \A k \in 1 .. Len(osq') : osq'[k] = osq[k + 1]
      /\ pMsg' = osq[1]
      /\ pMsg' \in Slots
  BY <1>2, EmptySeq, HeadTailProperties
<1>4. \A k \in 1 .. Len(osq') : (k + 1) \in 1 .. Len(osq)
  BY <1>3
<1>5. pMsg = 0 /\ Held = {} /\ Held' = {pMsg'}
  <2>1. pMsg' # 0
    BY <1>3 DEF Slots
  <2> QED
    BY <1>1, <2>1 DEF Pend, TypeOK, Held
<1>6. Distinct(osq)'
  BY <1>3, <1>4 DEF IInv, SlotDiscipline, Distinct
<1>7. pMsg' \notin Queued'
  <2> SUFFICES ASSUME NEW k \in 1 .. Len(osq'), osq'[k] = pMsg'
               PROVE  FALSE
    BY DEF Queued, SlotsOf
  <2>1. osq[k + 1] = osq[1] /\ (k + 1) \in 1 .. Len(osq) /\ 1 \in 1 .. Len(osq)
    BY <1>3, <1>4
  <2>2. k + 1 = 1
    BY <2>1 DEF IInv, SlotDiscipline, Distinct
  <2> QED
    BY <2>2
<1>8. Queued = Queued' \cup {pMsg'}
  <2>1. ASSUME NEW k \in 1 .. Len(osq)
        PROVE  osq[k] \in Queued' \cup {pMsg'}
    <3>1. CASE k = 1
      BY <1>3, <3>1
    <3>2. CASE k # 1
      <4>1. (k - 1) \in 1 .. Len(osq') /\ (k - 1) + 1 = k
        BY <1>3, <3>2
      <4>2. osq'[k - 1] = osq[k]
        BY <1>3, <4>1
      <4> QED
        BY <4>1, <4>2 DEF Queued, SlotsOf
    <3> QED
      BY <3>1, <3>2
  <2>2. Queued' \subseteq Queued
    BY <1>3, <1>4 DEF Queued, SlotsOf
  <2>3. pMsg' \in Queued
    BY <1>3 DEF Queued, SlotsOf
  <2> QED
    BY <2>1, <2>2, <2>3 DEF Queued, SlotsOf
<1>9. Busy' = Busy
  BY <1>2 DEF Busy, FreeSlots
<1>10. SlotDiscipline'
  BY <1>5, <1>6, <1>7, <1>8, <1>9 DEF IInv, SlotDiscipline
<1>11. NoSlotLeaked' /\ Numbering' /\ pc' # "flushing"
  BY <1>2 DEF Pend, IInv, NoSlotLeaked, Numbering
<1> QED
  BY <1>1, <1>10, <1>11 DEF IInv

LEMMA InvFreeMessage ==
  ASSUME IInv, FreeMessage
  PROVE  IInv'
<1>1. TypeOK /\ TypeOK'
  BY TypeNext DEF IInv, Next, Receive
<1>2. pMsg \in Slots /\ pMsg # 0 /\ Held = {pMsg} /\ Held' = {}
  BY <1>1 DEF FreeMessage, TypeOK, Held
<1>3. /\ pool \in [Slots -> Nat]
      /\ pool' = [pool EXCEPT ![pMsg] = 0]
  BY <1>1 DEF FreeMessage, TypeOK
<1>4. Busy' = Busy \ {pMsg}
  BY <1>2, <1>3 DEF Busy, FreeSlots
<1>5. Queued' = Queued /\ Distinct(osq)'
  BY DEF FreeMessage, Queued, SlotsOf, Distinct, IInv, SlotDiscipline
<1>6. SlotDiscipline'
  BY <1>2, <1>4, <1>5 DEF IInv, SlotDiscipline
<1>7. NoSlotLeaked'
  <2>1. 0 \notin failed
    BY <1>1 DEF TypeOK, Messages
  <2> QED
    BY <1>2, <1>3, <2>1 DEF FreeMessage, IInv, NoSlotLeaked
<1>8. Numbering' /\ pc' # "flushing"
  <2>1. 0 <= calls
    BY <1>1 DEF TypeOK
  <2> QED
    BY <1>2, <1>3, <2>1 DEF FreeMessage, IInv, Numbering
<1> QED
  BY <1>1, <1>6, <1>7, <1>8 DEF IInv

LEMMA InvNext ==
  ASSUME IInv, [Next]_qvars, ~Flushed, MaxMsgs <= MaxQSize
  PROVE  IInv'
<1>0. TypeOK /\ TypeOK'
  BY TypeNext DEF IInv
<1>1. CASE MsgQSendNoSlot
  <2>1. calls \in Nat /\ calls' = calls + 1 /\ failed' = failed \cup {calls'}
    BY <1>0, <1>1 DEF MsgQSendNoSlot, TypeOK
  <2>2. \A i \in Slots : pool[i] \in Nat /\ pool[i] <= calls
    BY <1>0 DEF IInv, Numbering, TypeOK
  <2>3. NoSlotLeaked'
    BY <1>1, <2>1, <2>2 DEF MsgQSendNoSlot, IInv, NoSlotLeaked
  <2>4. \A m \in failed : m \in Nat /\ m <= calls
    BY <1>0 DEF IInv, Numbering, TypeOK, Messages
  <2>5. Numbering'
    BY <1>1, <2>1, <2>2, <2>4 DEF MsgQSendNoSlot, IInv, Numbering
  <2>6. SlotDiscipline' /\ pc' # "flushing"
    BY <1>1 DEF MsgQSendNoSlot, IInv, SlotDiscipline, Distinct, SlotsOf, Queued,
               Held, Busy, FreeSlots
  <2> QED
    BY <1>0, <2>3, <2>5, <2>6 DEF IInv
<1>2. ASSUME NEW u \in BOOLEAN, MsgQSend(u)
      PROVE  IInv'
  BY <1>2, InvSend
<1>3. CASE Pend
  BY <1>3, InvPend
<1>4. CASE CopyOut
  BY <1>0, <1>4 DEF CopyOut, IInv, SlotDiscipline, Distinct, SlotsOf, Queued,
                    Held, Busy, FreeSlots, NoSlotLeaked, Numbering
<1>5. CASE FreeMessage
  BY <1>5, InvFreeMessage
<1>6. CASE Flush
  BY <1>6 DEF Flush, MsgQFlushQueue, MsgQFlushPool, IInv
<1>7. CASE UNCHANGED qvars
  BY <1>0, <1>7 DEF qvars, IInv, SlotDiscipline, Distinct, SlotsOf, Queued,
                    Held, Busy, FreeSlots, NoSlotLeaked, Numbering
<1> QED
  BY <1>1, <1>2, <1>3, <1>4, <1>5, <1>6, <1>7 DEF Next, Send, Receive

\* The inductive invariant of such a queue: types, slot discipline, no leaked
\* slot, and the numbering of the messages in the pool.
THEOREM InvCorrect ==
  ASSUME ~Flushed, MaxMsgs <= MaxQSize
  PROVE  Spec => []IInv
<1>1. Init => IInv
  BY InvInit
<1>2. IInv /\ [Next]_qvars => IInv'
  BY InvNext
<1> QED
  BY <1>1, <1>2, PTL DEF Spec

\* A queue that is never flushed, and whose OS queue has a place for every
\* slot, never queues a slot twice, never queues the slot being read, and
\* never has a slot in use that is neither: senders and the receiver never
\* touch the same slot at the same time, although they use different locks.
THEOREM SlotDisciplineHolds ==
  ASSUME ~Flushed, MaxMsgs <= MaxQSize
  PROVE  Spec => []SlotDiscipline
<1>1. IInv => SlotDiscipline
  BY DEF IInv
<1> QED
  BY <1>1, InvCorrect, PTL

\* Such a queue never loses a slot to a send that failed.
THEOREM NoSlotLeakedHolds ==
  ASSUME ~Flushed, MaxMsgs <= MaxQSize
  PROVE  Spec => []NoSlotLeaked
<1>1. IInv => NoSlotLeaked
  BY DEF IInv
<1> QED
  BY <1>1, InvCorrect, PTL

-----------------------------------------------------------------------------
(* Each message once: what is in the pool, and what was received.           *)

\* The two together name a message once only, and only messages already
\* sent; and what the receiver has copied is still in its slot, or it is the
\* empty id word.  This is inductive for every queue, flushed or not: a flush
\* between two steps of a sender or of the receiver wipes messages, it never
\* doubles one.
Once ==
  /\ \A i \in Slots : pool[i] <= calls
  /\ \A k \in 1 .. Len(delivered) : delivered[k] <= calls
  /\ \A i, j \in Slots : pool[i] = pool[j] /\ pool[i] # 0 => i = j
  /\ \A i \in Slots, k \in 1 .. Len(delivered) :
       pool[i] = delivered[k] => pool[i] = 0
  /\ pc = "copied" => msg_id = 0 \/ msg_id = pool[pMsg]
  /\ NoDuplicate

\* No message is forgotten: it was refused, or it is in the pool, or it was
\* received.
Accounted ==
  \A m \in 1 .. calls :
    \/ m \in failed
    \/ \E i \in Slots : pool[i] = m
    \/ \E k \in 1 .. Len(delivered) : delivered[k] = m

\* What a send does to the numbers: one that is new comes into use, in a slot
\* that was free, or is refused.
LEMMA SendNumbers ==
  ASSUME TypeOK, Send
  PROVE  /\ calls \in Nat /\ calls' = calls + 1
         /\ UNCHANGED <<pc, pMsg, msg_id, delivered>>
         /\ \/ pool' = pool /\ failed' = failed \cup {calls'}
            \/ \E s \in Slots :
                 /\ pool[s] = 0 /\ pool'[s] = calls'
                 /\ \A i \in Slots : i # s => pool'[i] = pool[i]
                 /\ failed \subseteq failed'
<1>1. CASE MsgQSendNoSlot
  BY <1>1 DEF MsgQSendNoSlot, TypeOK
<1>2. ASSUME NEW u \in BOOLEAN, MsgQSend(u)
      PROVE  /\ calls \in Nat /\ calls' = calls + 1
             /\ UNCHANGED <<pc, pMsg, msg_id, delivered>>
             /\ \E s \in Slots :
                  /\ pool[s] = 0 /\ pool'[s] = calls'
                  /\ \A i \in Slots : i # s => pool'[i] = pool[i]
                  /\ failed \subseteq failed'
  <2> DEFINE s == FirstFree
  <2>1. s \in Slots /\ pool[s] = 0
    BY <1>2, FirstFreeIsFree DEF MsgQSend, FreeSlots
  <2>2. /\ pool' = [pool EXCEPT ![s] = calls'] /\ pool \in [Slots -> Nat]
        /\ calls \in Nat /\ calls' = calls + 1
        /\ UNCHANGED <<pc, pMsg, msg_id, delivered>>
        /\ failed \subseteq failed'
    BY <1>2 DEF MsgQSend, TypeOK
  <2> HIDE DEF s
  <2>3. pool'[s] = calls' /\ \A i \in Slots : i # s => pool'[i] = pool[i]
    BY <2>1, <2>2
  <2> QED
    BY <2>1, <2>2, <2>3
<1> QED
  BY <1>1, <1>2 DEF Send

\* What the return of a receive does to them: the slot that was read comes
\* free, and what was copied is received.
LEMMA FreeNumbers ==
  ASSUME TypeOK, FreeMessage
  PROVE  /\ pMsg \in Slots /\ pool'[pMsg] = 0
         /\ \A i \in Slots : i # pMsg => pool'[i] = pool[i]
         /\ Len(delivered) \in Nat /\ Len(delivered') = Len(delivered) + 1
         /\ \A k \in 1 .. Len(delivered) : delivered'[k] = delivered[k]
         /\ delivered'[Len(delivered) + 1] = msg_id
         /\ pc' = "idle" /\ calls' = calls /\ failed' = failed
<1>1. pMsg \in Slots
  BY DEF FreeMessage, TypeOK
<1>2. pool \in [Slots -> Nat] /\ pool' = [pool EXCEPT ![pMsg] = 0]
  BY DEF FreeMessage, TypeOK
<1>3. /\ delivered \in Seq(Nat) /\ msg_id \in Nat
      /\ delivered' = Append(delivered, msg_id)
  BY DEF FreeMessage, TypeOK
<1>4. /\ Len(delivered) \in Nat /\ Len(delivered') = Len(delivered) + 1
      /\ \A k \in 1 .. Len(delivered) : delivered'[k] = delivered[k]
      /\ delivered'[Len(delivered) + 1] = msg_id
  BY <1>3, LenProperties, AppendProperties
<1> QED
  BY <1>1, <1>2, <1>4 DEF FreeMessage

LEMMA OnceInit == Init => Once /\ Accounted
<1> SUFFICES ASSUME Init
             PROVE  Once /\ Accounted
  OBVIOUS
<1>1. /\ delivered = << >> /\ calls = 0 /\ pc = "idle"
      /\ \A i \in Slots : pool[i] = 0
  BY DEF Init
<1> QED
  BY <1>1 DEF Once, NoDuplicate, Accounted

LEMMA OnceSend ==
  ASSUME TypeOK, Once, Send
  PROVE  Once'
<1>1. /\ calls \in Nat /\ calls' = calls + 1
      /\ UNCHANGED <<pc, pMsg, msg_id, delivered>>
  BY SendNumbers
<1>2. /\ pool \in [Slots -> Nat] /\ pMsg \in Slots \cup {0}
      /\ (pMsg # 0) <=> (pc \in {"pended", "copied"})
      /\ \A k \in 1 .. Len(delivered) : delivered[k] \in Nat
  BY ElementOfSeq DEF TypeOK
<1>3. NoDuplicate'
  BY <1>1 DEF Once, NoDuplicate
<1>4. CASE pool' = pool
  BY <1>1, <1>2, <1>3, <1>4 DEF Once
<1>5. ASSUME NEW s \in Slots, pool[s] = 0, pool'[s] = calls',
             \A i \in Slots : i # s => pool'[i] = pool[i]
      PROVE  Once'
  <2>1. \A i \in Slots : pool'[i] <= calls'
    BY <1>1, <1>2, <1>5 DEF Once
  <2>2. \A k \in 1 .. Len(delivered') : delivered'[k] <= calls'
    BY <1>1, <1>2 DEF Once
  <2>3. \A i \in Slots : i # s => pool'[i] # calls'
    BY <1>1, <1>2, <1>5 DEF Once
  <2>4. \A k \in 1 .. Len(delivered) : delivered[k] # calls'
    BY <1>1, <1>2 DEF Once
  <2>5. \A i, j \in Slots : pool'[i] = pool'[j] /\ pool'[i] # 0 => i = j
    BY <1>5, <2>3 DEF Once
  <2>6. \A i \in Slots, k \in 1 .. Len(delivered') :
          pool'[i] = delivered'[k] => pool'[i] = 0
    BY <1>1, <1>5, <2>4 DEF Once
  <2>7. pc' = "copied" => msg_id' = 0 \/ msg_id' = pool'[pMsg']
    <3> SUFFICES ASSUME pc = "copied", msg_id # 0
                 PROVE  msg_id = pool'[pMsg]
      BY <1>1
    <3>1. pMsg \in Slots /\ pool[pMsg] = msg_id
      BY <1>2 DEF Once
    <3> QED
      BY <1>5, <3>1
  <2> QED
    BY <1>3, <2>1, <2>2, <2>5, <2>6, <2>7 DEF Once
<1> QED
  BY <1>4, <1>5, SendNumbers

LEMMA OnceFreeMessage ==
  ASSUME TypeOK, Once, FreeMessage
  PROVE  Once'
<1> DEFINE n == Len(delivered)
<1>1. /\ pMsg \in Slots /\ pool'[pMsg] = 0
      /\ \A i \in Slots : i # pMsg => pool'[i] = pool[i]
      /\ n \in Nat /\ Len(delivered') = n + 1
      /\ \A k \in 1 .. n : delivered'[k] = delivered[k]
      /\ delivered'[n + 1] = msg_id
      /\ pc' = "idle" /\ calls' = calls
  BY FreeNumbers
<1>2. /\ pool \in [Slots -> Nat] /\ calls \in Nat /\ msg_id \in Nat
      /\ msg_id = 0 \/ msg_id = pool[pMsg]
  BY DEF TypeOK, FreeMessage, Once
<1>3. /\ \A i \in Slots : pool[i] <= calls
      /\ \A k \in 1 .. n : delivered[k] <= calls
      /\ \A i, j \in Slots : pool[i] = pool[j] /\ pool[i] # 0 => i = j
      /\ \A i \in Slots, k \in 1 .. n : pool[i] = delivered[k] => pool[i] = 0
      /\ \A j, k \in 1 .. n :
           j # k /\ delivered[j] # 0 => delivered[j] # delivered[k]
  BY DEF Once, NoDuplicate
<1> HIDE DEF n
<1>4. \A k \in 1 .. n + 1 : k \in 1 .. n \/ k = n + 1
  BY <1>1
<1>5. msg_id <= calls /\ \A k \in 1 .. n : msg_id # 0 => delivered[k] # msg_id
  BY <1>1, <1>2, <1>3
<1>6. /\ \A i \in Slots : pool'[i] <= calls'
      /\ \A i, j \in Slots : pool'[i] = pool'[j] /\ pool'[i] # 0 => i = j
  BY <1>1, <1>2, <1>3
<1>7. \A k \in 1 .. n + 1 : delivered'[k] <= calls'
  BY <1>1, <1>3, <1>4, <1>5
<1>8. \A i \in Slots, k \in 1 .. n + 1 : pool'[i] = delivered'[k] => pool'[i] = 0
  <2> SUFFICES ASSUME NEW i \in Slots, NEW k \in 1 .. n + 1, i # pMsg,
                      pool[i] = delivered'[k]
               PROVE  pool[i] = 0
    BY <1>1
  <2>1. CASE k \in 1 .. n
    BY <1>1, <1>3, <2>1
  <2>2. CASE k = n + 1
    BY <1>1, <1>2, <1>3, <2>2
  <2> QED
    BY <1>4, <2>1, <2>2
<1>9. \A j, k \in 1 .. n + 1 :
        j # k /\ delivered'[j] # 0 => delivered'[j] # delivered'[k]
  <2> SUFFICES ASSUME NEW j \in 1 .. n + 1, NEW k \in 1 .. n + 1,
                      j # k, delivered'[j] # 0
               PROVE  delivered'[j] # delivered'[k]
    OBVIOUS
  <2>1. CASE j \in 1 .. n /\ k \in 1 .. n
    BY <1>1, <1>3, <2>1
  <2>2. CASE j = n + 1
    <3>1. k \in 1 .. n
      BY <1>4, <2>2
    <3> QED
      BY <1>1, <1>5, <2>2, <3>1
  <2>3. CASE k = n + 1
    <3>1. j \in 1 .. n
      BY <1>4, <2>3
    <3> QED
      BY <1>1, <1>5, <2>3, <3>1
  <2> QED
    BY <1>4, <2>1, <2>2, <2>3
<1> QED
  BY <1>1, <1>6, <1>7, <1>8, <1>9 DEF Once, NoDuplicate

LEMMA OnceNext ==
  ASSUME TypeOK, Once, [Next]_qvars
  PROVE  Once'
<1>0. calls \in Nat
  BY DEF TypeOK
<1>1. CASE Send
  BY <1>1, OnceSend
<1>2. CASE Pend
  BY <1>2 DEF Pend, Once, NoDuplicate
<1>3. CASE CopyOut
  BY <1>3 DEF CopyOut, Once, NoDuplicate
<1>4. CASE FreeMessage
  BY <1>4, OnceFreeMessage
<1>5. CASE MsgQFlushQueue
  BY <1>5 DEF MsgQFlushQueue, Once, NoDuplicate
<1>6. CASE MsgQFlushPool
  <2>1. /\ \A i \in Slots : pool'[i] = 0
        /\ pc' = "idle" /\ UNCHANGED <<calls, delivered>>
    BY <1>6 DEF MsgQFlushPool
  <2> QED
    BY <1>0, <2>1 DEF Once, NoDuplicate
<1>7. CASE UNCHANGED qvars
  BY <1>7 DEF qvars, Once, NoDuplicate
<1> QED
  BY <1>1, <1>2, <1>3, <1>4, <1>5, <1>6, <1>7 DEF Next, Receive, Flush

\* A queue never has one message twice, in the pool or among those received,
\* however flushes fall between the steps of senders and of the receiver, and
\* however many slots and places there are.
THEOREM OnceCorrect == Spec => []Once
<1>1. Init => Once
  BY OnceInit
<1>2. TypeOK /\ Once /\ [Next]_qvars => Once'
  BY OnceNext
<1> QED
  BY <1>1, <1>2, TypeCorrect, PTL DEF Spec

\* No msgQReceive returns a message that one before it returned: ApQ, which
\* its owner flushes while other tasks send, included.
THEOREM NoDuplicateHolds == Spec => []NoDuplicate
<1>1. Once => NoDuplicate
  BY DEF Once
<1> QED
  BY <1>1, OnceCorrect, PTL

LEMMA AccountedNext ==
  ASSUME IInv, Accounted, [Next]_qvars, ~Flushed
  PROVE  Accounted'
<1>0. TypeOK
  BY DEF IInv
<1>1. CASE Send
  <2>1. calls \in Nat /\ calls' = calls + 1 /\ delivered' = delivered
    BY <1>0, <1>1, SendNumbers
  <2>2. \A m \in 1 .. calls' : m \in 1 .. calls \/ m = calls'
    BY <2>1
  <2>3. CASE pool' = pool /\ failed' = failed \cup {calls'}
    BY <2>1, <2>2, <2>3 DEF Accounted
  <2>4. ASSUME NEW s \in Slots, pool[s] = 0, pool'[s] = calls',
               \A i \in Slots : i # s => pool'[i] = pool[i],
               failed \subseteq failed'
        PROVE  Accounted'
    <3> SUFFICES ASSUME NEW m \in 1 .. calls', m # calls', m \notin failed',
                        NEW i \in Slots, pool[i] = m
                 PROVE  pool'[i] = m
      BY <2>1, <2>2, <2>4 DEF Accounted
    <3>1. i # s
      BY <2>4
    <3> QED
      BY <2>4, <3>1
  <2> QED
    BY <1>0, <1>1, <2>3, <2>4, SendNumbers
<1>2. CASE Pend
  BY <1>2 DEF Pend, Accounted
<1>3. CASE CopyOut
  BY <1>3 DEF CopyOut, Accounted
<1>4. CASE FreeMessage
  <2> DEFINE n == Len(delivered)
  <2>1. /\ pMsg \in Slots
        /\ \A i \in Slots : i # pMsg => pool'[i] = pool[i]
        /\ n \in Nat /\ Len(delivered') = n + 1
        /\ \A k \in 1 .. n : delivered'[k] = delivered[k]
        /\ delivered'[n + 1] = msg_id
        /\ calls' = calls /\ failed' = failed
    BY <1>0, <1>4, FreeNumbers
  <2>2. msg_id = pool[pMsg]
    BY <1>4 DEF FreeMessage, IInv, Numbering
  <2> HIDE DEF n
  <2>3. (n + 1) \in 1 .. Len(delivered') /\ \A k \in 1 .. n : k \in 1 .. Len(delivered')
    BY <2>1
  <2> SUFFICES ASSUME NEW m \in 1 .. calls, m \notin failed
               PROVE  \/ \E i \in Slots : pool'[i] = m
                      \/ \E k \in 1 .. Len(delivered') : delivered'[k] = m
    BY <2>1 DEF Accounted
  <2>4. CASE pool[pMsg] = m
    BY <2>1, <2>2, <2>3, <2>4
  <2>5. ASSUME NEW i \in Slots, pool[i] = m, i # pMsg
        PROVE  pool'[i] = m
    BY <2>1, <2>5
  <2>6. ASSUME NEW k \in 1 .. n, delivered[k] = m
        PROVE  k \in 1 .. Len(delivered') /\ delivered'[k] = m
    BY <2>1, <2>3, <2>6
  <2> QED
    BY <2>4, <2>5, <2>6 DEF Accounted, n
<1>5. CASE Flush
  BY <1>5 DEF Flush, MsgQFlushQueue, MsgQFlushPool, IInv
<1>6. CASE UNCHANGED qvars
  BY <1>6 DEF qvars, Accounted
<1> QED
  BY <1>1, <1>2, <1>3, <1>4, <1>5, <1>6 DEF Next, Receive

\* The counting: of a message that was not refused there is one occurrence.
LEMMA OneOccurrence ==
  ASSUME TypeOK, Once, Accounted
  PROVE  NoMessageLost
<1> SUFFICES ASSUME NEW m \in 1 .. calls, m \notin failed
             PROVE  Cardinality({i \in Slots : pool[i] = m})
                      + Cardinality({k \in 1 .. Len(delivered) : delivered[k] = m}) = 1
  BY DEF NoMessageLost
<1> DEFINE P == {i \in Slots : pool[i] = m}
           D == {k \in 1 .. Len(delivered) : delivered[k] = m}
<1>0. m # 0
  BY DEF TypeOK
<1>1. ASSUME NEW i \in Slots, pool[i] = m
      PROVE  P = {i} /\ D = {}
  BY <1>0, <1>1 DEF Once
<1>2. ASSUME NEW k \in 1 .. Len(delivered), delivered[k] = m
      PROVE  D = {k} /\ P = {}
  <2>1. \A j \in 1 .. Len(delivered) : delivered[j] = m => j = k
    BY <1>0, <1>2 DEF Once, NoDuplicate
  <2>2. \A i \in Slots : pool[i] # m
    BY <1>0, <1>2 DEF Once
  <2> QED
    BY <1>2, <2>1, <2>2
<1>3. \/ \E i \in Slots : pool[i] = m
      \/ \E k \in 1 .. Len(delivered) : delivered[k] = m
  BY DEF Accounted
<1> HIDE DEF P, D
<1>4. Cardinality({}) = 0 /\ \A x : Cardinality({x}) = 1
  BY FS_EmptySet, FS_Singleton
<1>5. Cardinality(P) + Cardinality(D) = 1
  <2>1. CASE \E i \in Slots : P = {i} /\ D = {}
    <3>1. Cardinality(P) = 1
      BY <1>4, <2>1, Zenon
    <3>2. Cardinality(D) = 0
      BY <1>4, <2>1, Zenon
    <3> QED
      BY <3>1, <3>2
  <2>2. CASE \E k \in 1 .. Len(delivered) : D = {k} /\ P = {}
    <3>1. Cardinality(D) = 1
      BY <1>4, <2>2, Zenon
    <3>2. Cardinality(P) = 0
      BY <1>4, <2>2, Zenon
    <3> QED
      BY <3>1, <3>2
  <2> QED
    BY <1>1, <1>2, <1>3, <2>1, <2>2
<1> QED
  BY <1>5 DEF P, D

\* A queue that is not flushed loses no message and doubles none: each message
\* that msgQSend accepted is in exactly one of the pool and the messages
\* received, wherever between their steps the sender and the receiver are.
THEOREM NoMessageLostHolds ==
  ASSUME ~Flushed, MaxMsgs <= MaxQSize
  PROVE  Spec => []NoMessageLost
<1>1. Init => Accounted
  BY OnceInit
<1>2. IInv /\ Accounted /\ [Next]_qvars => Accounted'
  BY AccountedNext
<1>3. IInv /\ Once /\ Accounted => NoMessageLost
  BY OneOccurrence DEF IInv
<1> QED
  BY <1>1, <1>2, <1>3, InvCorrect, OnceCorrect, PTL DEF Spec

-----------------------------------------------------------------------------
(* The queue implements the bounded FIFO.                                   *)

LEMMA BufType ==
  ASSUME NEW q \in Seq(Slots), NEW p \in [Slots -> Nat]
  PROVE  /\ BufOf(q, p) \in Seq(Nat)
         /\ Len(BufOf(q, p)) = Len(q)
         /\ \A k \in 1 .. Len(q) : BufOf(q, p)[k] = p[q[k]]
<1>1. Len(q) \in Nat /\ \A k \in 1 .. Len(q) : q[k] \in Slots
  BY LenProperties, ElementOfSeq
<1>2. \A k \in 1 .. Len(q) : p[q[k]] \in Nat
  BY <1>1
<1>3. BufOf(q, p) \in Seq(Nat)
  BY <1>1, <1>2, IsASeq DEF BufOf
<1> QED
  BY <1>1, <1>3 DEF BufOf

\* Filling a slot that is not queued and posting it puts its message at the
\* same end of the abstract buffer.
LEMMA BufPost ==
  ASSUME NEW q \in Seq(Slots), NEW p \in [Slots -> Nat], NEW u \in BOOLEAN,
         NEW s \in Slots, NEW m \in Nat, s \notin SlotsOf(q)
  PROVE  BufOf(Post(q, s, u), [p EXCEPT ![s] = m])
           = IF u THEN <<m>> \o BufOf(q, p) ELSE Append(BufOf(q, p), m)
<1> DEFINE pp == [p EXCEPT ![s] = m]
           b == BufOf(q, p)
<1>1. pp \in [Slots -> Nat] /\ pp[s] = m
  OBVIOUS
<1>2. Len(q) \in Nat /\ \A k \in 1 .. Len(q) : q[k] \in Slots /\ q[k] # s
  BY LenProperties, ElementOfSeq DEF SlotsOf
<1>3. \A k \in 1 .. Len(q) : pp[q[k]] = p[q[k]]
  BY <1>2
<1>4. /\ b \in Seq(Nat) /\ Len(b) = Len(q)
      /\ \A k \in 1 .. Len(q) : b[k] = pp[q[k]]
  BY <1>3, BufType
<1> HIDE DEF pp, b
<1>5. CASE u
  <2> DEFINE r == <<s>> \o q
             c == <<m>> \o b
  <2>1. /\ <<s>> \in Seq(Slots) /\ Len(<<s>>) = 1 /\ <<s>>[1] = s
        /\ <<m>> \in Seq(Nat) /\ Len(<<m>>) = 1 /\ <<m>>[1] = m
    OBVIOUS
  <2>2. /\ r \in Seq(Slots) /\ Len(r) = 1 + Len(q)
        /\ \A i \in 1 .. 1 + Len(q) : r[i] = IF i <= 1 THEN <<s>>[i] ELSE q[i - 1]
    BY <2>1, ConcatProperties
  <2>3. /\ c \in Seq(Nat) /\ Len(c) = 1 + Len(q)
        /\ \A i \in 1 .. 1 + Len(q) : c[i] = IF i <= 1 THEN <<m>>[i] ELSE b[i - 1]
    <3>1. /\ c \in Seq(Nat) /\ Len(c) = 1 + Len(b)
          /\ \A i \in 1 .. 1 + Len(b) : c[i] = IF i <= 1 THEN <<m>>[i] ELSE b[i - 1]
      BY <1>4, <2>1, ConcatProperties
    <3> HIDE DEF c
    <3> QED
      BY <1>4, <3>1
  <2> HIDE DEF r, c
  <2>4. \A i \in 1 .. 1 + Len(q) : pp[r[i]] = c[i]
    <3> SUFFICES ASSUME NEW i \in 1 .. 1 + Len(q)
                 PROVE  pp[r[i]] = c[i]
      OBVIOUS
    <3>1. CASE i = 1
      <4>1. 1 \in 1 .. 1 + Len(q)
        BY <1>2
      <4>2. r[1] = <<s>>[1]
        BY <2>2, <4>1
      <4>3. c[1] = <<m>>[1]
        BY <2>3, <4>1
      <4> QED
        BY <1>1, <3>1, <4>2, <4>3
    <3>2. CASE i # 1
      <4>1. (i - 1) \in 1 .. Len(q) /\ ~(i <= 1)
        BY <1>2, <3>2
      <4>2. r[i] = q[i - 1] /\ c[i] = b[i - 1]
        BY <2>2, <2>3, <4>1
      <4> QED
        BY <1>4, <4>1, <4>2
    <3> QED
      BY <3>1, <3>2
  <2>5. BufOf(r, pp) \in Seq(Nat) /\ Len(BufOf(r, pp)) = Len(r)
        /\ \A k \in 1 .. Len(r) : BufOf(r, pp)[k] = pp[r[k]]
    BY <1>1, <2>2, BufType
  <2>6. BufOf(r, pp) = c
    BY <2>2, <2>3, <2>4, <2>5, SeqEqual
  <2>7. Post(q, s, u) = r
    BY <1>5 DEF Post, r
  <2> QED
    BY <1>5, <2>6, <2>7 DEF pp, b, c
<1>6. CASE ~u
  <2> DEFINE r == Append(q, s)
             c == Append(b, m)
  <2>2. /\ r \in Seq(Slots) /\ Len(r) = Len(q) + 1
        /\ \A i \in 1 .. Len(q) : r[i] = q[i]
        /\ r[Len(q) + 1] = s
    BY AppendProperties
  <2>3. /\ c \in Seq(Nat) /\ Len(c) = Len(b) + 1
        /\ \A i \in 1 .. Len(b) : c[i] = b[i]
        /\ c[Len(b) + 1] = m
    <3>1. b \in Seq(Nat)
      BY <1>4
    <3> QED
      BY <3>1, AppendProperties
  <2> HIDE DEF r, c
  <2>4. \A i \in 1 .. Len(q) + 1 : pp[r[i]] = c[i]
    <3> SUFFICES ASSUME NEW i \in 1 .. Len(q) + 1
                 PROVE  pp[r[i]] = c[i]
      OBVIOUS
    <3>1. CASE i = Len(q) + 1
      BY <1>1, <1>4, <2>2, <2>3, <3>1
    <3>2. CASE i # Len(q) + 1
      <4>1. i \in 1 .. Len(q)
        BY <1>2, <3>2
      <4> QED
        BY <1>4, <2>2, <2>3, <4>1
    <3> QED
      BY <3>1, <3>2
  <2>5. BufOf(r, pp) \in Seq(Nat) /\ Len(BufOf(r, pp)) = Len(r)
        /\ \A k \in 1 .. Len(r) : BufOf(r, pp)[k] = pp[r[k]]
    BY <1>1, <2>2, BufType
  <2>6. BufOf(r, pp) = c
    BY <1>4, <2>2, <2>3, <2>4, <2>5, SeqEqual
  <2>7. Post(q, s, u) = r
    BY <1>6 DEF Post, r
  <2> QED
    BY <1>6, <2>6, <2>7 DEF pp, b, c
<1> QED
  BY <1>5, <1>6

LEMMA BufUnchanged ==
  ASSUME NEW q \in Seq(Slots), NEW p, NEW pp,
         \A i \in SlotsOf(q) : pp[i] = p[i]
  PROVE  BufOf(q, pp) = BufOf(q, p)
<1>1. \A k \in 1 .. Len(q) : pp[q[k]] = p[q[k]]
  BY DEF SlotsOf
<1> QED
  BY <1>1 DEF BufOf

LEMMA BufTake ==
  ASSUME NEW q \in Seq(Slots), NEW p \in [Slots -> Nat], q # << >>
  PROVE  /\ BufOf(q, p) # << >>
         /\ Head(BufOf(q, p)) = p[Head(q)]
         /\ Tail(BufOf(q, p)) = BufOf(Tail(q), p)
<1>1. Len(q) \in Nat \ {0}
  BY EmptySeq
<1>2. /\ BufOf(q, p) \in Seq(Nat) /\ Len(BufOf(q, p)) = Len(q)
      /\ \A k \in 1 .. Len(q) : BufOf(q, p)[k] = p[q[k]]
  BY BufType
<1>3. BufOf(q, p) # << >>
  <2>1. Len(BufOf(q, p)) # 0
    BY <1>1, <1>2
  <2> QED
    BY <2>1
<1>4. /\ Tail(q) \in Seq(Slots) /\ Len(Tail(q)) = Len(q) - 1
      /\ \A k \in 1 .. Len(Tail(q)) : Tail(q)[k] = q[k + 1]
      /\ Head(q) = q[1]
  BY HeadTailProperties
<1> DEFINE b == BufOf(q, p)
<1>5. /\ Tail(b) \in Seq(Nat) /\ Len(Tail(b)) = Len(b) - 1
      /\ \A k \in 1 .. Len(Tail(b)) : Tail(b)[k] = b[k + 1]
      /\ Head(b) = b[1]
  <2>1. b \in Seq(Nat) /\ b # << >>
    BY <1>2, <1>3
  <2> HIDE DEF b
  <2> QED
    BY <2>1, HeadTailProperties
<1>6. /\ BufOf(Tail(q), p) \in Seq(Nat) /\ Len(BufOf(Tail(q), p)) = Len(Tail(q))
      /\ \A k \in 1 .. Len(Tail(q)) : BufOf(Tail(q), p)[k] = p[Tail(q)[k]]
  BY <1>4, BufType
<1>7. Head(b) = p[Head(q)]
  <2>1. 1 \in 1 .. Len(q)
    BY <1>1
  <2> QED
    BY <1>2, <1>4, <1>5, <2>1
<1>8. \A k \in 1 .. Len(Tail(b)) : Tail(b)[k] = BufOf(Tail(q), p)[k]
  <2> SUFFICES ASSUME NEW k \in 1 .. Len(Tail(b))
               PROVE  Tail(b)[k] = BufOf(Tail(q), p)[k]
    OBVIOUS
  <2>1. (k + 1) \in 1 .. Len(q) /\ k \in 1 .. Len(Tail(q))
    BY <1>1, <1>2, <1>4, <1>5
  <2>2. Tail(b)[k] = b[k + 1] /\ b[k + 1] = p[q[k + 1]]
    BY <1>2, <1>5, <2>1
  <2>3. BufOf(Tail(q), p)[k] = p[q[k + 1]]
    BY <1>4, <1>6, <2>1
  <2> QED
    BY <2>2, <2>3
<1>9. Tail(b) = BufOf(Tail(q), p)
  <2>1. Len(Tail(b)) = Len(BufOf(Tail(q), p))
    BY <1>2, <1>4, <1>5, <1>6
  <2> QED
    BY <1>5, <1>6, <1>8, <2>1, SeqEqual
<1> QED
  BY <1>3, <1>7, <1>9

LEMMA FifoInitially == Init => Fifo!FifoInit
<1> SUFFICES ASSUME Init
             PROVE  Fifo!FifoInit
  OBVIOUS
<1>1. BufOf(osq, pool) = << >>
  <2>1. osq = << >> /\ Len(osq) = 0 /\ osq \in Seq(Slots)
    BY DEF Init
  <2>2. pool \in [Slots -> Nat]
    BY DEF Init
  <2>3. BufOf(osq, pool) \in Seq(Nat) /\ Len(BufOf(osq, pool)) = 0
    BY <2>1, <2>2, BufType
  <2> QED
    BY <2>3, EmptySeq
<1> QED
  BY <1>1 DEF Init, Fifo!FifoInit, Hand

LEMMA FifoStep ==
  ASSUME IInv, IInv', [Next]_qvars, ~Flushed, MaxMsgs <= MaxQSize
  PROVE  [Fifo!FifoNext]_(Fifo!fifoVars)
<1>0. TypeOK /\ osq \in Seq(Slots) /\ pool \in [Slots -> Nat] /\ calls \in Nat
  BY DEF IInv, TypeOK
<1>1. Fifo!Occupancy = Len(osq) + (IF pMsg = 0 THEN 0 ELSE 1)
  <2>1. Len(BufOf(osq, pool)) = Len(osq)
    BY <1>0, BufType
  <2>2. Hand = 0 <=> pMsg = 0
    <3>1. pMsg # 0 => pMsg \in Busy
      BY DEF IInv, SlotDiscipline, Held
    <3> QED
      BY <3>1 DEF Hand, Busy, FreeSlots
  <2> QED
    BY <2>1, <2>2 DEF Fifo!Occupancy
<1>2. CASE MsgQSendNoSlot
  <2>1. Fifo!Occupancy = MaxMsgs
    BY <1>1, <1>2, BusyCount DEF MsgQSendNoSlot
  <2>2. Fifo!Refuse
    BY <1>2, <2>1 DEF MsgQSendNoSlot, Fifo!Refuse, Hand
  <2> QED
    BY <2>2 DEF Fifo!FifoNext
<1>3. ASSUME NEW u \in BOOLEAN, MsgQSend(u)
      PROVE  Fifo!Accept(u)
  <2>1. Fifo!Occupancy < MaxMsgs
    BY <1>1, <1>3, BusyCount DEF MsgQSend
  <2>2. FirstFree \in Slots /\ FirstFree \notin Queued /\ FirstFree \notin Held
    BY <1>0, <1>3, FirstFreeIsFree
    DEF MsgQSend, FreeSlots, IInv, SlotDiscipline, Busy
  <2>3. /\ osq' = Post(osq, FirstFree, u)
        /\ pool' = [pool EXCEPT ![FirstFree] = calls']
        /\ calls < MaxSends /\ calls' = calls + 1 /\ calls' \in Nat
        /\ pMsg' = pMsg /\ msg_id' = msg_id
        /\ urgent' = IF u THEN urgent \cup {calls'} ELSE urgent
    BY <1>0, <1>3, PostSucceeds DEF MsgQSend
  <2>4. BufOf(osq, pool)' = IF u THEN <<calls'>> \o BufOf(osq, pool)
                                 ELSE Append(BufOf(osq, pool), calls')
    <3>1. FirstFree \notin SlotsOf(osq)
      BY <2>2 DEF Queued
    <3>2. BufOf(osq, pool)' = BufOf(Post(osq, FirstFree, u),
                                    [pool EXCEPT ![FirstFree] = calls'])
      BY <2>3 DEF BufOf
    <3>3. ASSUME NEW m \in Nat, NEW s \in Slots, s \notin SlotsOf(osq)
          PROVE  BufOf(Post(osq, s, u), [pool EXCEPT ![s] = m])
                   = IF u THEN <<m>> \o BufOf(osq, pool)
                          ELSE Append(BufOf(osq, pool), m)
      <4>1. osq \in Seq(Slots) /\ pool \in [Slots -> Nat]
        BY <1>0
      <4> QED
        BY <1>3, <3>3, <4>1, BufPost
    <3> HIDE DEF FirstFree
    <3>4. BufOf(Post(osq, FirstFree, u), [pool EXCEPT ![FirstFree] = calls'])
            = IF u THEN <<calls'>> \o BufOf(osq, pool)
                   ELSE Append(BufOf(osq, pool), calls')
      BY <2>2, <2>3, <3>1, <3>3
    <3> QED
      BY <3>2, <3>4
  <2>5. Hand' = Hand
    BY <1>0, <2>2, <2>3 DEF Hand, Held
  <2> QED
    BY <2>1, <2>3, <2>4, <2>5 DEF Fifo!Accept
<1>4. CASE Pend
  <2>1. osq # << >> /\ osq' = Tail(osq) /\ pMsg' = Head(osq) /\ pool' = pool
        /\ pMsg = 0 /\ pMsg' # 0 /\ msg_id' = msg_id /\ calls' = calls
        /\ urgent' = urgent
    BY <1>0, <1>4 DEF Pend, TypeOK, IInv
  <2>2. BufOf(osq, pool)' = BufOf(Tail(osq), pool)
    BY <2>1 DEF BufOf
  <2>3. /\ BufOf(osq, pool) # << >>
        /\ Head(BufOf(osq, pool)) = pool[Head(osq)]
        /\ Tail(BufOf(osq, pool)) = BufOf(Tail(osq), pool)
    BY <1>0, <2>1, BufTake
  <2>4. Hand = 0 /\ Hand' = pool[Head(osq)]
    BY <2>1 DEF Hand
  <2>5. Fifo!Take
    BY <2>1, <2>2, <2>3, <2>4 DEF Fifo!Take
  <2> QED
    BY <2>5 DEF Fifo!FifoNext
<1>5. CASE CopyOut
  <2>1. pMsg \in Slots /\ pMsg # 0 /\ pMsg \in Busy
    BY <1>0, <1>5 DEF CopyOut, TypeOK, IInv, SlotDiscipline, Held
  <2>2. Hand # 0 /\ msg_id' = Hand /\ Hand' = Hand /\ calls' = calls
        /\ urgent' = urgent
        /\ BufOf(osq, pool)' = BufOf(osq, pool)
    BY <1>5, <2>1 DEF CopyOut, Hand, Busy, FreeSlots, BufOf
  <2>3. Fifo!Deliver
    BY <2>2 DEF Fifo!Deliver
  <2> QED
    BY <2>3 DEF Fifo!FifoNext
<1>6. CASE FreeMessage
  <2>1. pMsg \in Slots /\ pMsg # 0 /\ pMsg \in Busy /\ pMsg \notin SlotsOf(osq)
    BY <1>0, <1>6 DEF FreeMessage, TypeOK, IInv, SlotDiscipline, Held, Queued
  <2>2. Hand # 0 /\ msg_id = Hand /\ Hand' = 0
    BY <1>6, <2>1 DEF FreeMessage, Hand, Busy, FreeSlots, IInv, Numbering
  <2>3. BufOf(osq, pool)' = BufOf(osq, pool)
    <3>1. BufOf(osq, pool)' = BufOf(osq, [pool EXCEPT ![pMsg] = 0])
      BY <1>6 DEF FreeMessage, BufOf
    <3>2. \A i \in SlotsOf(osq) : [pool EXCEPT ![pMsg] = 0][i] = pool[i]
      <4>1. SlotsOf(osq) \subseteq Slots
        BY <1>0, ElementOfSeq DEF SlotsOf
      <4> QED
        BY <1>0, <2>1, <4>1
    <3> QED
      BY <1>0, <3>1, <3>2, BufUnchanged
  <2>4. Fifo!Release
    BY <1>6, <2>2, <2>3 DEF FreeMessage, Fifo!Release
  <2> QED
    BY <2>4 DEF Fifo!FifoNext
<1>7. CASE Flush
  BY <1>7 DEF Flush, MsgQFlushQueue, MsgQFlushPool, IInv
<1>8. CASE UNCHANGED qvars
  BY <1>8 DEF qvars, Fifo!fifoVars, BufOf, Hand
<1> QED
  BY <1>2, <1>3, <1>4, <1>5, <1>6, <1>7, <1>8
  DEF Next, Send, Receive, Fifo!FifoNext

\* A queue that is never flushed is the bounded FIFO its users take it for:
\* every accepted message is received once, in the order of the two ends of
\* the buffer, and a send is refused only when MaxMsgs messages are waiting
\* or being read.
THEOREM ImplementsFifoHolds ==
  ASSUME ~Flushed, MaxMsgs <= MaxQSize
  PROVE  Spec => ImplementsFifo
<1>1. Init => Fifo!FifoInit
  BY FifoInitially
<1>2. IInv /\ IInv' /\ [Next]_qvars => [Fifo!FifoNext]_(Fifo!fifoVars)
  BY FifoStep
<1>3. Spec => []IInv
  BY InvCorrect
<1> QED
  BY <1>1, <1>2, <1>3, PTL DEF Spec, ImplementsFifo, Fifo!FifoSpec

=============================================================================

---- MODULE FrameProofs ----
(* Proofs about FramePipeline, for every number of lines, of buffers of both kinds, of entries of  *)
(* the queue and of frames, and any number of faults.                                              *)
EXTENDS FramePipeline, LeastElements, TLAPS

--------------------------------------------------------------------------------------------------
(* One of five.                                                                                   *)
One(a, b, c, d, e) ==
    /\ a \/ b \/ c \/ d \/ e
    /\ ~(a /\ b) /\ ~(a /\ c) /\ ~(a /\ d) /\ ~(a /\ e)
    /\ ~(b /\ c) /\ ~(b /\ d) /\ ~(b /\ e) /\ ~(c /\ d) /\ ~(c /\ e) /\ ~(d /\ e)

(* FifosInOnePlace with its places spelled out, in a state and in the next one.                   *)
LEMMA OnePlaceNow ==
    ASSUME NEW f
    PROVE  (\E p \in Places : \A q \in Places : f \in FifosAt(q) <=> q = p)
             <=> One(f \in fifoQ, f = bak0, f = bak1, f \in Queued, f = input)
<1> HIDE DEF Queued
<1>1. /\ FifosAt("free") = fifoQ /\ FifosAt("filling") = {bak0} /\ FifosAt("next") = {bak1}
      /\ FifosAt("filled") = Queued /\ FifosAt("compressing") = {input}
  BY DEF FifosAt
<1> QED
  BY <1>1 DEF Places, One

LEMMA OnePlaceThen ==
    ASSUME NEW f
    PROVE  (\E p \in Places : \A q \in Places : f \in FifosAt(q)' <=> q = p)
             <=> One(f \in fifoQ', f = bak0', f = bak1', f \in Queued', f = input')
<1> HIDE DEF Queued
<1>1. /\ FifosAt("free")' = fifoQ' /\ FifosAt("filling")' = {bak0'} /\ FifosAt("next")' = {bak1'}
      /\ FifosAt("filled")' = Queued' /\ FifosAt("compressing")' = {input'}
  BY DEF FifosAt
<1> QED
  BY <1>1 DEF Places, One

LEMMA Constants ==
    /\ Dummy = 0 /\ None = 0 /\ Dummy \notin Fifos /\ 1 \in Fifos /\ 2 \in Fifos
    /\ Fifos \subseteq Nat /\ LinesPerFrame \in Nat /\ LinesPerFrame > 0
    /\ JpegQMax \in Nat /\ JpegQMax > 0
BY PipelineAssumption DEF Dummy, None, Fifos

(* fifo_Q_get gives one of the free buffers, or none when there is none.                          *)
LEMMA NextBufferIsFree ==
    ASSUME NEW free \in SUBSET Fifos
    PROVE  /\ NextBuffer(free) \in free \cup {Dummy}
           /\ free # {} => NextBuffer(free) \in free
<1>1. CASE free = {}
  BY <1>1 DEF NextBuffer
<1>2. CASE free # {}
  <2>1. \E i \in free : \A j \in free : i <= j
    BY <1>2, LeastElement, PipelineAssumption DEF Fifos
  <2> QED
    BY <1>2, <2>1 DEF NextBuffer, Min
<1> QED
  BY <1>1, <1>2

--------------------------------------------------------------------------------------------------
(* The queue of filled lines.                                                                     *)
Addrs(q)    == {q[i].addr : i \in DOMAIN q}
Unrepeat(q) == \A i, j \in DOMAIN q : q[i].addr = q[j].addr => i = j \/ q[i].addr = Dummy

LEMMA QueuePuts ==
    ASSUME NEW q \in Seq(Entry), NEW e \in Entry, Unrepeat(q),
           e.addr \in Addrs(q) => e.addr = Dummy
    PROVE  /\ Append(q, e) \in Seq(Entry)
           /\ Addrs(Append(q, e)) = Addrs(q) \cup {e.addr}
           /\ Unrepeat(Append(q, e))
<1>1. /\ Append(q, e) \in Seq(Entry) /\ DOMAIN Append(q, e) = 1 .. Len(q) + 1 /\ DOMAIN q = 1 .. Len(q)
      /\ \A i \in 1 .. Len(q) : Append(q, e)[i] = q[i]
      /\ Append(q, e)[Len(q) + 1] = e /\ Len(q) \in Nat
  OBVIOUS
<1>2. \A i \in 1 .. Len(q) + 1 : i \in 1 .. Len(q) \/ i = Len(q) + 1
  BY <1>1
<1>3. Addrs(Append(q, e)) = Addrs(q) \cup {e.addr}
  BY <1>1, <1>2 DEF Addrs
<1>4. Unrepeat(Append(q, e))
  <2> SUFFICES ASSUME NEW i \in 1 .. Len(q) + 1, NEW j \in 1 .. Len(q) + 1,
                      Append(q, e)[i].addr = Append(q, e)[j].addr,
                      i # j
               PROVE  Append(q, e)[i].addr = Dummy
    BY <1>1 DEF Unrepeat
  <2>1. CASE i \in 1 .. Len(q) /\ j \in 1 .. Len(q)
    BY <1>1, <2>1 DEF Unrepeat
  <2>2. CASE i \in 1 .. Len(q) /\ j = Len(q) + 1
    BY <1>1, <2>2 DEF Addrs
  <2>3. CASE i = Len(q) + 1 /\ j \in 1 .. Len(q)
    BY <1>1, <2>3 DEF Addrs
  <2> QED
    BY <1>2, <2>1, <2>2, <2>3
<1> QED
  BY <1>1, <1>3, <1>4

LEMMA QueueGets ==
    ASSUME NEW q \in Seq(Entry), q # <<>>, Unrepeat(q)
    PROVE  /\ Head(q) \in Entry /\ Tail(q) \in Seq(Entry) /\ Len(Tail(q)) <= Len(q)
           /\ Head(q).addr \in Addrs(q)
           /\ Head(q).addr # Dummy => Head(q).addr \notin Addrs(Tail(q))
           /\ \A a : a # Head(q).addr => (a \in Addrs(q) <=> a \in Addrs(Tail(q)))
           /\ Unrepeat(Tail(q))
<1>1. /\ Head(q) = q[1] /\ Len(q) \in Nat /\ Len(q) >= 1 /\ DOMAIN q = 1 .. Len(q)
      /\ Tail(q) \in Seq(Entry) /\ Len(Tail(q)) = Len(q) - 1 /\ DOMAIN Tail(q) = 1 .. Len(q) - 1
      /\ \A i \in 1 .. Len(q) - 1 : Tail(q)[i] = q[i + 1]
  OBVIOUS
<1>2. 1 \in DOMAIN q /\ \A i \in DOMAIN q : q[i] \in Entry
  BY <1>1
<1>3. Head(q) \in Entry /\ Head(q).addr \in Addrs(q)
  BY <1>1, <1>2 DEF Addrs
<1>4. \A i \in DOMAIN q : i # 1 => i - 1 \in DOMAIN Tail(q) /\ Tail(q)[i - 1] = q[i]
  BY <1>1
<1>5. \A i \in DOMAIN Tail(q) : i + 1 \in DOMAIN q /\ i + 1 # 1 /\ Tail(q)[i] = q[i + 1]
  BY <1>1
<1>6. \A a : a # Head(q).addr => (a \in Addrs(q) <=> a \in Addrs(Tail(q)))
  <2> SUFFICES ASSUME NEW a, a # Head(q).addr
               PROVE  a \in Addrs(q) <=> a \in Addrs(Tail(q))
    OBVIOUS
  <2>1. ASSUME a \in Addrs(q)
        PROVE  a \in Addrs(Tail(q))
    <3>1. PICK i \in DOMAIN q : a = q[i].addr
      BY <2>1 DEF Addrs
    <3>2. i # 1
      BY <1>1, <3>1
    <3> QED
      BY <1>4, <3>1, <3>2 DEF Addrs
  <2>2. ASSUME a \in Addrs(Tail(q))
        PROVE  a \in Addrs(q)
    BY <1>5, <2>2 DEF Addrs
  <2> QED
    BY <2>1, <2>2
<1>7. Head(q).addr # Dummy => Head(q).addr \notin Addrs(Tail(q))
  BY <1>1, <1>2, <1>5 DEF Addrs, Unrepeat
<1>8. Unrepeat(Tail(q))
  <2> SUFFICES ASSUME NEW i \in DOMAIN Tail(q), NEW j \in DOMAIN Tail(q),
                      Tail(q)[i].addr = Tail(q)[j].addr
               PROVE  i = j \/ Tail(q)[i].addr = Dummy
    BY DEF Unrepeat
  <2>1. i + 1 = j + 1 \/ q[i + 1].addr = Dummy
    BY <1>5 DEF Unrepeat
  <2>2. i \in Int /\ j \in Int
    BY <1>1
  <2> QED
    BY <1>5, <2>1, <2>2
<1> QED
  BY <1>1, <1>3, <1>6, <1>7, <1>8

--------------------------------------------------------------------------------------------------
(* LineInv, spelled out.                                                                          *)
LEMMA LineInvMeans ==
    ASSUME LineInv, videoRecordFlag # "NOTHING"
    PROVE  /\ \A f \in Fifos : One(f \in fifoQ, f = bak0, f = bak1, f \in Addrs(jpegQ), f = input)
           /\ Unrepeat(jpegQ)
BY OnePlaceNow DEF LineInv, FifosInOnePlace, QueuedOnce, Queued, Addrs, Unrepeat

LEMMA LineInvThen ==
    ASSUME LineTypeOK', pc' = "get" => input' = None, caller' = "on" => videoRecordFlag' = "RECING",
           videoRecordFlag' # "NOTHING" =>
             /\ \A f \in Fifos : One(f \in fifoQ', f = bak0', f = bak1', f \in Addrs(jpegQ'), f = input')
             /\ Unrepeat(jpegQ')
    PROVE  LineInv'
BY OnePlaceThen DEF LineInv, FifosInOnePlace, QueuedOnce, Queued, Addrs, Unrepeat

(* A step that touches neither the buffers nor who has them.                                      *)
LEMMA LineRests ==
    ASSUME LineInv, UNCHANGED <<videoRecordFlag, isr_count, bak0, bak1, frame, fifoQ, jpegQ, input>>,
           pc' = pc \/ pc' \in {"pend", "take"}, caller' = caller
    PROVE  LineInv'
<1>1. LineTypeOK'
  BY DEF LineInv, LineTypeOK, Entry
<1>2. /\ pc' = "get" => input' = None
      /\ caller' = "on" => videoRecordFlag' = "RECING"
  BY DEF LineInv
<1>3. videoRecordFlag' # "NOTHING" =>
             /\ \A f \in Fifos : One(f \in fifoQ', f = bak0', f = bak1', f \in Addrs(jpegQ'), f = input')
             /\ Unrepeat(jpegQ')
  BY LineInvMeans
<1> QED
  BY <1>1, <1>2, <1>3, LineInvThen

LEMMA LineInitially == Init => LineInv
<1> SUFFICES ASSUME Init
             PROVE  LineInv
  OBVIOUS
<1>1. LineTypeOK
  BY Constants DEF Init, LineTypeOK
<1> QED
  BY <1>1 DEF Init, LineInv, FifosInOnePlace, QueuedOnce

LEMMA LineStart ==
    ASSUME LineInv, Start
    PROVE  LineInv'
<1>1. /\ fifoQ' = Fifos \ {1, 2} /\ bak0' = 1 /\ bak1' = 2 /\ jpegQ' = <<>> /\ input' = 0
      /\ videoRecordFlag' = "RECING" /\ isr_count' = 0 /\ frame' = frame + 1 /\ pc' = "pend"
      /\ caller' = "on"
      /\ caller' = "on"
  BY DEF Start, None
<1>2. LineTypeOK'
  BY <1>1, Constants DEF LineInv, LineTypeOK
<1>3. Addrs(jpegQ') = {} /\ Unrepeat(jpegQ')
  BY <1>1 DEF Addrs, Unrepeat
<1>4. \A f \in Fifos : One(f \in fifoQ', f = bak0', f = bak1', f \in Addrs(jpegQ'), f = input')
  BY <1>1, <1>3, Constants DEF One
<1> QED
  BY <1>1, <1>2, <1>3, <1>4, LineInvThen

LEMMA LineStopped ==
    ASSUME LineInv, Stopped
    PROVE  LineInv'
<1>1. LineTypeOK'
  BY Constants DEF Stopped, LineInv, LineTypeOK
<1> QED
  BY <1>1, LineInvThen DEF Stopped, LineInv

LEMMA LineStop ==
    ASSUME LineInv, Stop
    PROVE  LineInv'
<1>1. LineTypeOK'
  BY DEF Stop, LineInv, LineTypeOK, Entry, queueVars, taskVars
<1>2. /\ UNCHANGED <<fifoQ, bak0, bak1, jpegQ, input, pc>>
      /\ caller' = "stopping" /\ videoRecordFlag # "NOTHING"
  BY DEF Stop, LineInv, queueVars, taskVars
<1> QED
  BY <1>1, <1>2, LineInvThen, LineInvMeans DEF LineInv

--------------------------------------------------------------------------------------------------
(* The line interrupt: the buffer goes to the queue, or back to the free ones.                    *)
LEMMA LineLine ==
    ASSUME LineInv, NEW glitch \in BOOLEAN, Line(glitch)
    PROVE  LineInv'
<1> DEFINE addr == IF glitch THEN Dummy ELSE bak0
           free == IF glitch THEN GlitchBack ELSE fifoQ
           left == IF QueueFull /\ ~glitch THEN Refused(addr) ELSE free
           nxt  == NextBuffer(left)
           entry == [addr |-> addr, frame |-> frame, line |-> isr_count + 1]
<1>1. /\ videoRecordFlag # "NOTHING" /\ LineTypeOK /\ Unrepeat(jpegQ)
      /\ \A f \in Fifos : One(f \in fifoQ, f = bak0, f = bak1, f \in Addrs(jpegQ), f = input)
  BY LineInvMeans DEF LineInv, Line
<1>2. /\ bak0 \in Fifos \cup {Dummy} /\ bak1 \in Fifos \cup {Dummy} /\ fifoQ \subseteq Fifos
      /\ jpegQ \in Seq(Entry) /\ isr_count \in 0 .. LinesPerFrame - 1 /\ frame \in Nat
      /\ input \in Fifos \cup {Dummy} /\ Len(jpegQ) <= JpegQMax /\ Len(jpegQ) \in Nat
  BY <1>1 DEF LineTypeOK, Dummy, None
<1>3. /\ left = IF QueueFull \/ glitch THEN (IF bak0 = Dummy THEN fifoQ ELSE fifoQ \cup {bak0})
                                       ELSE fifoQ
      /\ left \subseteq Fifos
  BY <1>2 DEF Refused, GlitchBack
<1>4. /\ nxt \in left \cup {Dummy} /\ nxt \in Fifos \cup {Dummy}
  BY <1>3, NextBufferIsFree
<1>5. /\ fifoQ' = left \ {nxt} /\ input' = input /\ pc' = pc /\ caller' = caller
      /\ IF QueueFull THEN jpegQ' = jpegQ ELSE jpegQ' = Append(jpegQ, entry)
      /\ IF StopsHere THEN bak0' = None /\ bak1' = None /\ videoRecordFlag' = "NOTHING"
                      ELSE bak0' = bak1 /\ bak1' = nxt /\ videoRecordFlag' = videoRecordFlag
      /\ isr_count' = (isr_count + 1) % LinesPerFrame
      /\ frame' = frame \/ frame' = frame + 1
  BY DEF Line, taskVars, restVars
<1>6. entry \in Entry /\ entry.addr = addr /\ addr \in Fifos \cup {Dummy}
  BY <1>2, Constants DEF Entry
<1>7. addr \in Addrs(jpegQ) => addr = Dummy
  BY <1>1, <1>2, <1>6 DEF One
<1>8. /\ jpegQ' \in Seq(Entry) /\ Len(jpegQ') <= JpegQMax /\ Unrepeat(jpegQ')
      /\ Addrs(jpegQ') = IF QueueFull THEN Addrs(jpegQ) ELSE Addrs(jpegQ) \cup {addr}
  <2> HIDE DEF entry, addr
  <2>1. CASE QueueFull
    BY <1>1, <1>2, <1>5, <2>1
  <2>2. CASE ~QueueFull
    <3>1. Len(Append(jpegQ, entry)) = Len(jpegQ) + 1 /\ Len(jpegQ) # JpegQMax
      BY <1>2, <1>6, <2>2 DEF QueueFull
    <3>2. jpegQ' = Append(jpegQ, entry)
      BY <1>5, <2>2
    <3>3. /\ jpegQ' \in Seq(Entry) /\ Unrepeat(jpegQ')
          /\ Addrs(jpegQ') = Addrs(jpegQ) \cup {addr}
      BY <1>1, <1>2, <1>6, <1>7, <3>2, QueuePuts
    <3> QED
      BY <1>2, <2>2, <3>1, <3>2, <3>3, Constants
  <2> QED
    BY <2>1, <2>2
<1>9. LineTypeOK'
  <2>1. isr_count' \in 0 .. LinesPerFrame - 1
    BY <1>2, <1>5, Constants
  <2>2. fifoQ' \subseteq Fifos /\ bak0' \in Fifos \cup {Dummy} /\ bak1' \in Fifos \cup {Dummy}
    BY <1>2, <1>3, <1>4, <1>5 DEF None, Dummy
  <2>3. videoRecordFlag' \in {"NOTHING", "RECING", "STOP"} /\ frame' \in Nat
        /\ pc' \in {"pend", "take", "get"} /\ input' \in Fifos \cup {None}
    BY <1>1, <1>2, <1>5 DEF LineTypeOK
  <2> QED
    BY <1>8, <2>1, <2>2, <2>3 DEF LineTypeOK
<1>10. ASSUME videoRecordFlag' # "NOTHING"
       PROVE  \A f \in Fifos : One(f \in fifoQ', f = bak0', f = bak1', f \in Addrs(jpegQ'), f = input')
  <2>1. bak0' = bak1 /\ bak1' = nxt
    BY <1>5, <1>10
  <2> SUFFICES ASSUME NEW f \in Fifos
               PROVE  One(f \in left \ {nxt}, f = bak1, f = nxt, f \in Addrs(jpegQ'), f = input)
    BY <1>5, <2>1
  <2>2. One(f \in fifoQ, f = bak0, f = bak1, f \in Addrs(jpegQ), f = input) /\ f # Dummy
    BY <1>1, Constants
  <2>3. f = nxt => f \in left
    BY <1>4, <2>2
  <2>4. CASE QueueFull \/ glitch
    <3>1. f \in left <=> f \in fifoQ \/ f = bak0
      BY <1>3, <2>2, <2>4
    <3>2. f \in Addrs(jpegQ') <=> f \in Addrs(jpegQ)
      BY <1>8, <2>2, <2>4
    <3> QED
      BY <2>2, <2>3, <3>1, <3>2 DEF One
  <2>5. CASE ~QueueFull /\ ~glitch
    <3>1. f \in left <=> f \in fifoQ
      BY <1>3, <2>5
    <3>2. f \in Addrs(jpegQ') <=> f \in Addrs(jpegQ) \/ f = bak0
      BY <1>8, <2>5
    <3> QED
      BY <2>2, <2>3, <3>1, <3>2 DEF One
  <2> QED
    BY <2>4, <2>5
<1>11. /\ pc' = "get" => input' = None
       /\ caller' = "on" => videoRecordFlag' = "RECING"
  BY <1>5 DEF LineInv, StopsHere
<1> QED
  BY <1>8, <1>9, <1>10, <1>11, LineInvThen

--------------------------------------------------------------------------------------------------
(* The encoder task takes a line.                                                                 *)
LEMMA LineGiveBack ==
    ASSUME LineInv, GiveBack
    PROVE  LineInv'
<1>1. /\ fifoQ' = InputBack /\ input' = None /\ pc' = "get" /\ caller' = caller
      /\ UNCHANGED <<videoRecordFlag, isr_count, bak0, bak1, frame, jpegQ>>
  BY DEF GiveBack, isrVars, restVars
<1>2. InputBack \subseteq Fifos /\ \A f \in Fifos : f \in InputBack <=> f \in fifoQ \/ f = input
  BY Constants DEF InputBack, LineInv, LineTypeOK
<1>3. LineTypeOK'
  BY <1>1, <1>2 DEF LineInv, LineTypeOK, Entry
<1>4. ASSUME videoRecordFlag' # "NOTHING"
      PROVE  /\ \A f \in Fifos : One(f \in fifoQ', f = bak0', f = bak1', f \in Addrs(jpegQ'), f = input')
             /\ Unrepeat(jpegQ')
  <2>1. Unrepeat(jpegQ)
        /\ \A f \in Fifos : One(f \in fifoQ, f = bak0, f = bak1, f \in Addrs(jpegQ), f = input)
    BY <1>1, <1>4, LineInvMeans
  <2>2. \A f \in Fifos : f # None
    BY Constants
  <2> QED
    BY <1>1, <1>2, <2>1, <2>2 DEF One
<1>5. caller' = "on" => videoRecordFlag' = "RECING"
  BY <1>1 DEF LineInv
<1> QED
  BY <1>1, <1>3, <1>4, <1>5, LineInvThen

(* The line is taken; its buffer, if it has one, goes back to the free ones or to the engine.     *)
LEMMA LineTakes ==
    ASSUME LineInv, Get, caller' = caller,
           UNCHANGED <<videoRecordFlag, isr_count, bak0, bak1, frame>>,
           \/ Head(jpegQ).addr = Dummy /\ fifoQ' = fifoQ /\ input' = input
           \/ Head(jpegQ).addr # Dummy /\ fifoQ' = fifoQ \cup {Head(jpegQ).addr} /\ input' = input
           \/ Head(jpegQ).addr # Dummy /\ fifoQ' = fifoQ /\ input' = Head(jpegQ).addr
    PROVE  LineInv'
<1> DEFINE a == Head(jpegQ).addr
<1>1. /\ jpegQ # <<>> /\ jpegQ' = Tail(jpegQ) /\ pc' = "pend" /\ input = None
      /\ jpegQ \in Seq(Entry) /\ Len(jpegQ) <= JpegQMax
  BY DEF Get, LineInv, LineTypeOK
<1>2. /\ Head(jpegQ) \in Entry /\ Tail(jpegQ) \in Seq(Entry) /\ Len(Tail(jpegQ)) <= JpegQMax
  <2>1. Len(Tail(jpegQ)) = Len(jpegQ) - 1 /\ Len(jpegQ) \in Nat
    BY <1>1
  <2> QED
    BY <1>1, <2>1, Constants
<1>3. a \in Fifos \cup {Dummy}
  BY <1>2 DEF Entry
<1>4. LineTypeOK'
  <2>1. fifoQ' \subseteq Fifos /\ input' \in Fifos \cup {None}
    BY <1>1, <1>3, Constants DEF LineInv, LineTypeOK
  <2> QED
    BY <1>1, <1>2, <2>1 DEF LineInv, LineTypeOK
<1>5. ASSUME videoRecordFlag' # "NOTHING"
      PROVE  /\ \A f \in Fifos : One(f \in fifoQ', f = bak0', f = bak1', f \in Addrs(jpegQ'), f = input')
             /\ Unrepeat(jpegQ')
  <2>1. Unrepeat(jpegQ)
        /\ \A f \in Fifos : One(f \in fifoQ, f = bak0, f = bak1, f \in Addrs(jpegQ), f = input)
    BY <1>5, LineInvMeans
  <2>2. /\ a \in Addrs(jpegQ)
        /\ a # Dummy => a \notin Addrs(Tail(jpegQ))
        /\ \A x : x # a => (x \in Addrs(jpegQ) <=> x \in Addrs(Tail(jpegQ)))
        /\ Unrepeat(Tail(jpegQ))
    BY <1>1, <2>1, QueueGets
  <2> SUFFICES ASSUME NEW f \in Fifos
               PROVE  One(f \in fifoQ', f = bak0, f = bak1, f \in Addrs(Tail(jpegQ)), f = input')
    BY <1>1, <2>2
  <2>3. One(f \in fifoQ, f = bak0, f = bak1, f \in Addrs(jpegQ), f = input) /\ f # Dummy /\ f # None
    BY <2>1, Constants
  <2> HIDE DEF a
  <2>4. CASE f = a
    <3>1. f \in Addrs(jpegQ) /\ f \notin Addrs(Tail(jpegQ))
      BY <2>2, <2>3, <2>4
    <3>2. (f \in fifoQ' /\ f # input') \/ (f = input' /\ f \notin fifoQ')
      BY <1>1, <2>3, <2>4, <3>1 DEF One, a
    <3> QED
      BY <2>3, <3>1, <3>2 DEF One
  <2>5. CASE f # a
    <3>1. f \in Addrs(jpegQ) <=> f \in Addrs(Tail(jpegQ))
      BY <2>2, <2>5
    <3>2. (f \in fifoQ' <=> f \in fifoQ) /\ f # input' /\ f # input
      BY <1>1, <2>3, <2>5 DEF a
    <3> QED
      BY <2>3, <3>1, <3>2 DEF One
  <2> QED
    BY <2>4, <2>5
<1>6. /\ pc' = "get" => input' = None
      /\ caller' = "on" => videoRecordFlag' = "RECING"
  BY <1>1 DEF LineInv
<1> QED
  BY <1>4, <1>5, <1>6, LineInvThen

LEMMA LineTake ==
    ASSUME LineInv, TakeDummy \/ TakeSkipped \/ TakeLine
    PROVE  LineInv'
<1>1. CASE TakeDummy
  BY <1>1, LineTakes DEF TakeDummy, isrVars, restVars
<1>2. CASE TakeSkipped
  BY <1>2, LineTakes DEF TakeSkipped, isrVars
<1>3. CASE TakeLine
  <2>1. /\ Get /\ Head(jpegQ).addr # Dummy /\ input' = Head(jpegQ).addr /\ fifoQ' = fifoQ
        /\ UNCHANGED <<videoRecordFlag, isr_count, bak0, bak1, frame, caller>>
    BY <1>3 DEF TakeLine, isrVars, restVars
  <2> QED
    BY <2>1, LineTakes
<1> QED
  BY <1>1, <1>2, <1>3

--------------------------------------------------------------------------------------------------
LEMMA LineStep ==
    ASSUME LineInv, [Next]_vars
    PROVE  LineInv'
<1>1. CASE Start
  BY <1>1, LineStart
<1>2. CASE Stop
  BY <1>2, LineStop
<1>3. CASE Stopped
  BY <1>3, LineStopped
<1>4. CASE LineReady \/ LineGlitch
  BY <1>4, LineLine DEF LineReady, LineGlitch
<1>5. CASE EngineDone \/ EngineFull
  BY <1>5, LineRests DEF EngineDone, EngineFull, isrVars, restVars
<1>6. CASE Notify \/ Full \/ FullSw \/ WriteDone \/ DoneTooLong
  BY <1>6, LineRests DEF Notify, Full, FullSw, WriteDone, DoneTooLong, isrVars, restVars, taskVars
<1>7. CASE DoneFrame \/ DoneLine
  <2>1. /\ UNCHANGED <<videoRecordFlag, isr_count, bak0, bak1, frame, fifoQ, jpegQ, input, caller>>
        /\ pc' \in {"pend", "take"}
    BY <1>7 DEF DoneFrame, DoneLine, AfterLine, isrVars
  <2> QED
    BY <2>1, LineRests
<1>8. CASE TakeBusy \/ TakeNothing
  BY <1>8, LineRests DEF TakeBusy, TakeNothing, isrVars, queueVars, restVars
<1>9. CASE GiveBack
  BY <1>9, LineGiveBack
<1>10. CASE TakeDummy \/ TakeSkipped \/ TakeLine
  BY <1>10, LineTake
<1>11. CASE PackerWrites
  BY <1>11, LineRests DEF PackerWrites, isrVars, taskVars
<1>12. CASE UNCHANGED vars
  BY <1>12, LineRests DEF vars, isrVars, queueVars, taskVars, restVars
<1> QED
  BY <1>1, <1>2, <1>3, <1>4, <1>5, <1>6, <1>7, <1>8, <1>9, <1>10, <1>11, <1>12
  DEF Next, InterruptStep, EncoderStep, TakeStep, CallerStep

(* The inductive invariant of the line buffers (conv422_isr_func, jpeg_Q_put and _get, fifo_Q_put  *)
(* and _get, GOTO_MSG_JPEG_QUEUE_NOTIFY).                                                          *)
THEOREM LineInvCorrect == Spec => []LineInv
<1>1. Init => LineInv
  BY LineInitially
<1>2. LineInv /\ [Next]_vars => LineInv'
  BY LineStep
<1> QED
  BY <1>1, <1>2, PTL DEF Spec

(* No line buffer is ever lost or in two places while the sensor gives lines, however the         *)
(* interrupt, refusals, skipped frames and restarts fall together.                                *)
THEOREM FifosInOnePlaceHolds == Spec => []FifosInOnePlace
<1>1. LineInv => FifosInOnePlace
  BY DEF LineInv
<1> QED
  BY <1>1, LineInvCorrect, PTL

--------------------------------------------------------------------------------------------------
(* Sequences without repetitions.                                                                 *)
Distinct(s) == \A i, j \in DOMAIN s : s[i] = s[j] => i = j

LEMMA SeqAppends ==
    ASSUME NEW S, NEW s \in Seq(S), NEW e \in S
    PROVE  /\ Append(s, e) \in Seq(S) /\ Append(s, e) # <<>>
           /\ Len(s) \in Nat /\ Len(Append(s, e)) = Len(s) + 1
           /\ DOMAIN s = 1 .. Len(s) /\ DOMAIN Append(s, e) = 1 .. Len(s) + 1
           /\ \A i \in 1 .. Len(s) : Append(s, e)[i] = s[i] /\ i # Len(s) + 1
           /\ Append(s, e)[Len(s) + 1] = e
           /\ \A i \in 1 .. Len(s) + 1 : i \in 1 .. Len(s) \/ i = Len(s) + 1
<1>1. /\ Append(s, e) \in Seq(S) /\ Len(s) \in Nat /\ Len(Append(s, e)) = Len(s) + 1
      /\ DOMAIN s = 1 .. Len(s) /\ DOMAIN Append(s, e) = 1 .. Len(s) + 1
      /\ \A i \in 1 .. Len(s) : Append(s, e)[i] = s[i]
      /\ Append(s, e)[Len(s) + 1] = e
  OBVIOUS
<1>2. Append(s, e) # <<>>
  BY <1>1
<1>3. \A i \in 1 .. Len(s) + 1 : i \in 1 .. Len(s) \/ i = Len(s) + 1
  BY <1>1
<1> QED
  BY <1>1, <1>2, <1>3

LEMMA SeqTails ==
    ASSUME NEW S, NEW s \in Seq(S), s # <<>>
    PROVE  /\ Head(s) \in S /\ Head(s) = s[1] /\ Tail(s) \in Seq(S)
           /\ Len(s) \in Nat /\ Len(s) >= 1 /\ Len(Tail(s)) = Len(s) - 1
           /\ DOMAIN s = 1 .. Len(s) /\ DOMAIN Tail(s) = 1 .. Len(s) - 1
           /\ \A i \in 1 .. Len(s) - 1 : Tail(s)[i] = s[i + 1] /\ i + 1 \in 2 .. Len(s)
           /\ \A i \in 2 .. Len(s) : i - 1 \in 1 .. Len(s) - 1 /\ Tail(s)[i - 1] = s[i]
           /\ \A i \in 1 .. Len(s) : i = 1 \/ i \in 2 .. Len(s)
           /\ 1 \in 1 .. Len(s) /\ 1 \notin 2 .. Len(s) /\ 2 .. Len(s) \subseteq 1 .. Len(s)
           /\ \A i \in 1 .. Len(s) - 1, j \in 1 .. Len(s) - 1 : i + 1 = j + 1 => i = j
OBVIOUS

LEMMA InAppend ==
    ASSUME NEW S, NEW s \in Seq(S), NEW e \in S
    PROVE  In(Append(s, e)) = In(s) \cup {e}
<1>1. ASSUME NEW x \in In(Append(s, e)) PROVE x \in In(s) \cup {e}
  BY SeqAppends DEF In
<1>2. ASSUME NEW x \in In(s) \cup {e} PROVE x \in In(Append(s, e))
  <2>1. CASE x = e
    <3>1. Len(s) + 1 \in DOMAIN Append(s, e)
      BY SeqAppends
    <3> QED
      BY <2>1, <3>1, SeqAppends DEF In
  <2>2. CASE x \in In(s)
    <3>1. PICK i \in DOMAIN s : x = s[i]
      BY <2>2 DEF In
    <3>2. i \in DOMAIN Append(s, e) /\ Append(s, e)[i] = s[i]
      BY SeqAppends
    <3> QED
      BY <3>1, <3>2 DEF In
  <2> QED
    BY <2>1, <2>2
<1> QED
  BY <1>1, <1>2

LEMMA DistinctAppend ==
    ASSUME NEW S, NEW s \in Seq(S), NEW e \in S, Distinct(s), e \notin In(s)
    PROVE  Distinct(Append(s, e))
<1>1. \A i \in 1 .. Len(s) : s[i] # e
  BY SeqAppends DEF In
<1> QED
  BY <1>1, SeqAppends DEF Distinct

LEMMA InTail ==
    ASSUME NEW S, NEW s \in Seq(S), s # <<>>
    PROVE  /\ Head(s) \in In(s) /\ In(Tail(s)) \subseteq In(s) /\ In(s) = In(Tail(s)) \cup {Head(s)}
           /\ Distinct(s) => Distinct(Tail(s)) /\ Head(s) \notin In(Tail(s))
<1>1. Head(s) \in In(s)
  BY SeqTails DEF In
<1>2. ASSUME NEW x \in In(Tail(s)) PROVE x \in In(s)
  <2>1. PICK i \in 1 .. Len(s) - 1 : x = Tail(s)[i]
    BY SeqTails DEF In
  <2>2. i + 1 \in DOMAIN s /\ x = s[i + 1]
    BY <2>1, SeqTails
  <2> QED
    BY <2>2 DEF In
<1>3. ASSUME NEW x \in In(s), x # Head(s) PROVE x \in In(Tail(s))
  <2>1. PICK i \in 1 .. Len(s) : x = s[i]
    BY SeqTails DEF In
  <2>2. i \in 2 .. Len(s)
    BY <1>3, <2>1, SeqTails
  <2>3. i - 1 \in DOMAIN Tail(s) /\ x = Tail(s)[i - 1]
    BY <2>1, <2>2, SeqTails
  <2> QED
    BY <2>3 DEF In
<1>4. ASSUME Distinct(s) PROVE Distinct(Tail(s)) /\ Head(s) \notin In(Tail(s))
  <2>1. \A i \in 1 .. Len(s) - 1 : i + 1 \in DOMAIN s /\ Tail(s)[i] = s[i + 1] /\ i + 1 # 1
    BY SeqTails
  <2>2. Distinct(Tail(s))
    BY <1>4, <2>1, SeqTails DEF Distinct
  <2>3. Head(s) \notin In(Tail(s))
    BY <1>4, <2>1, SeqTails DEF Distinct, In
  <2> QED
    BY <2>2, <2>3
<1> QED
  BY <1>1, <1>2, <1>3, <1>4

LEMMA SeqConcats ==
    ASSUME NEW S, NEW s \in Seq(S), NEW t \in Seq(S)
    PROVE  /\ s \o t \in Seq(S) /\ Len(s) \in Nat /\ Len(t) \in Nat /\ Len(s \o t) = Len(s) + Len(t)
           /\ DOMAIN s = 1 .. Len(s) /\ DOMAIN t = 1 .. Len(t) /\ DOMAIN (s \o t) = 1 .. Len(s) + Len(t)
           /\ \A i \in 1 .. Len(s) : (s \o t)[i] = s[i]
           /\ \A i \in 1 .. Len(t) : (s \o t)[i + Len(s)] = t[i]
OBVIOUS

LEMMA InConcat ==
    ASSUME NEW S, NEW s \in Seq(S), NEW t \in Seq(S)
    PROVE  /\ s \o t \in Seq(S) /\ In(s \o t) = In(s) \cup In(t)
           /\ Distinct(s) /\ Distinct(t) /\ In(s) \cap In(t) = {} => Distinct(s \o t)
           /\ t # <<>> => s \o t # <<>>
<1>1. /\ s \o t \in Seq(S) /\ Len(s) \in Nat /\ Len(t) \in Nat /\ Len(s \o t) = Len(s) + Len(t)
      /\ DOMAIN s = 1 .. Len(s) /\ DOMAIN t = 1 .. Len(t) /\ DOMAIN (s \o t) = 1 .. Len(s) + Len(t)
      /\ \A i \in 1 .. Len(s) : (s \o t)[i] = s[i]
      /\ \A i \in 1 .. Len(t) : (s \o t)[i + Len(s)] = t[i]
  BY SeqConcats
<1>2. \A i \in 1 .. Len(s) + Len(t) : i \in 1 .. Len(s) \/ (i - Len(s) \in 1 .. Len(t) /\ i = (i - Len(s)) + Len(s))
  BY <1>1
<1>3. ASSUME NEW x \in In(s \o t) PROVE x \in In(s) \cup In(t)
  <2>1. PICK i \in 1 .. Len(s) + Len(t) : x = (s \o t)[i]
    BY <1>1 DEF In
  <2>2. CASE i \in 1 .. Len(s)
    BY <1>1, <2>1, <2>2 DEF In
  <2>3. CASE i - Len(s) \in 1 .. Len(t) /\ i = (i - Len(s)) + Len(s)
    <3>1. x = t[i - Len(s)]
      BY <1>1, <2>1, <2>3
    <3> QED
      BY <1>1, <2>3, <3>1 DEF In
  <2> QED
    BY <1>2, <2>2, <2>3
<1>4. ASSUME NEW x \in In(s) \cup In(t) PROVE x \in In(s \o t)
  <2>1. CASE x \in In(s)
    <3>1. PICK i \in 1 .. Len(s) : x = s[i]
      BY <1>1, <2>1 DEF In
    <3>2. i \in DOMAIN (s \o t) /\ x = (s \o t)[i]
      BY <1>1, <3>1
    <3> QED
      BY <3>2 DEF In
  <2>2. CASE x \in In(t)
    <3>1. PICK i \in 1 .. Len(t) : x = t[i]
      BY <1>1, <2>2 DEF In
    <3>2. i + Len(s) \in DOMAIN (s \o t) /\ x = (s \o t)[i + Len(s)]
      BY <1>1, <3>1
    <3> QED
      BY <3>2 DEF In
  <2> QED
    BY <2>1, <2>2
<1>5. ASSUME Distinct(s), Distinct(t), In(s) \cap In(t) = {} PROVE Distinct(s \o t)
  <2> SUFFICES ASSUME NEW i \in 1 .. Len(s) + Len(t), NEW j \in 1 .. Len(s) + Len(t),
                      (s \o t)[i] = (s \o t)[j]
               PROVE  i = j
    BY <1>1 DEF Distinct
  <2>0. \A k \in 1 .. Len(s), l \in 1 .. Len(t) : s[k] # t[l]
    BY <1>1, <1>5 DEF In
  <2>1. CASE i \in 1 .. Len(s) /\ j \in 1 .. Len(s)
    BY <1>1, <1>5, <2>1 DEF Distinct
  <2>2. CASE i \in 1 .. Len(s) /\ j - Len(s) \in 1 .. Len(t) /\ j = (j - Len(s)) + Len(s)
    <3>1. (s \o t)[i] = s[i] /\ (s \o t)[j] = t[j - Len(s)]
      BY <1>1, <2>2
    <3> QED
      BY <2>0, <2>2, <3>1
  <2>3. CASE j \in 1 .. Len(s) /\ i - Len(s) \in 1 .. Len(t) /\ i = (i - Len(s)) + Len(s)
    <3>1. (s \o t)[j] = s[j] /\ (s \o t)[i] = t[i - Len(s)]
      BY <1>1, <2>3
    <3> QED
      BY <2>0, <2>3, <3>1
  <2>4. CASE /\ i - Len(s) \in 1 .. Len(t) /\ i = (i - Len(s)) + Len(s)
             /\ j - Len(s) \in 1 .. Len(t) /\ j = (j - Len(s)) + Len(s)
    <3>1. (s \o t)[i] = t[i - Len(s)] /\ (s \o t)[j] = t[j - Len(s)]
      BY <1>1, <2>4
    <3>2. i - Len(s) = j - Len(s)
      BY <1>1, <1>5, <2>4, <3>1 DEF Distinct
    <3> QED
      BY <2>4, <3>2
  <2> QED
    BY <1>2, <2>1, <2>2, <2>3, <2>4
<1>6. t # <<>> => s \o t # <<>>
  BY <1>1
<1> QED
  BY <1>1, <1>3, <1>4, <1>5, <1>6

(* What is left when entry i is taken out.                                                        *)
LEMMA WithoutGives ==
    ASSUME NEW S, NEW s \in Seq(S), NEW i \in 1 .. Len(s)
    PROVE  /\ Without(s, i) \in Seq(S) /\ Len(Without(s, i)) = Len(s) - 1
           /\ \A j \in 1 .. Len(s) - 1 : Without(s, i)[j] = IF j < i THEN s[j] ELSE s[j + 1]
<1> DEFINE a == SubSeq(s, 1, i - 1)
           b == SubSeq(s, i + 1, Len(s))
<1>1. a \in Seq(S) /\ Len(a) = i - 1 /\ \A j \in 1 .. i - 1 : a[j] = s[j]
  OBVIOUS
<1>2. b \in Seq(S) /\ Len(b) = Len(s) - i /\ \A j \in 1 .. Len(s) - i : b[j] = s[j + i]
  OBVIOUS
<1>0. Len(s) \in Nat
  OBVIOUS
<1> HIDE DEF a, b
<1>6. a \in Seq(S) /\ b \in Seq(S)
  BY <1>1, <1>2
<1>3. /\ a \o b \in Seq(S) /\ Len(a \o b) = Len(a) + Len(b)
      /\ \A j \in 1 .. Len(a) : (a \o b)[j] = a[j]
      /\ \A j \in 1 .. Len(b) : (a \o b)[j + Len(a)] = b[j]
  BY ONLY <1>6, SeqConcats
<1>4. ASSUME NEW j \in 1 .. Len(s) - 1
      PROVE  (a \o b)[j] = IF j < i THEN s[j] ELSE s[j + 1]
  <2>1. CASE j < i
    <3>1. j \in 1 .. Len(a) /\ j \in 1 .. i - 1
      BY <1>1, <2>1
    <3> QED
      BY <1>1, <1>3, <2>1, <3>1
  <2>2. CASE ~(j < i)
    <3>1. /\ j - (i - 1) \in 1 .. Len(s) - i /\ (j - (i - 1)) + i = j + 1
          /\ (j - (i - 1)) + (i - 1) = j
      BY <1>0, <2>2
    <3>2. (a \o b)[j] = b[j - (i - 1)]
      BY <1>1, <1>2, <1>3, <3>1
    <3>3. b[j - (i - 1)] = s[j + 1]
      BY <1>2, <3>1
    <3> QED
      BY <2>2, <3>2, <3>3
  <2> QED
    BY <2>1, <2>2
<1>5. Len(a \o b) = Len(s) - 1
  BY <1>0, <1>1, <1>2, <1>3
<1> QED
  BY <1>3, <1>4, <1>5 DEF Without, a, b

LEMMA InWithout ==
    ASSUME NEW S, NEW s \in Seq(S), Distinct(s), NEW i \in 1 .. Len(s)
    PROVE  /\ Without(s, i) \in Seq(S) /\ Distinct(Without(s, i))
           /\ s[i] \in In(s) /\ In(Without(s, i)) = In(s) \ {s[i]}
           /\ Len(Without(s, i)) < Len(s)
<1> DEFINE w == Without(s, i)
<1>1. /\ w \in Seq(S) /\ Len(w) = Len(s) - 1 /\ Len(s) \in Nat
      /\ DOMAIN s = 1 .. Len(s) /\ DOMAIN w = 1 .. Len(s) - 1
      /\ \A j \in 1 .. Len(s) - 1 : w[j] = IF j < i THEN s[j] ELSE s[j + 1]
  BY WithoutGives
<1> HIDE DEF w
<1>2. Distinct(w)
  <2> SUFFICES ASSUME NEW j \in 1 .. Len(s) - 1, NEW k \in 1 .. Len(s) - 1, w[j] = w[k]
               PROVE  j = k
    BY <1>1 DEF Distinct
  <2>1. PICK m \in 1 .. Len(s) : w[j] = s[m] /\ m = IF j < i THEN j ELSE j + 1
    BY <1>1
  <2>2. PICK n \in 1 .. Len(s) : w[k] = s[n] /\ n = IF k < i THEN k ELSE k + 1
    BY <1>1
  <2>3. m = n
    BY <1>1, <2>1, <2>2 DEF Distinct
  <2> QED
    BY <2>1, <2>2, <2>3
<1>3. ASSUME NEW x \in In(w) PROVE x \in In(s) /\ x # s[i]
  <2>1. PICK j \in 1 .. Len(s) - 1 : x = w[j]
    BY <1>1 DEF In
  <2>2. PICK m \in 1 .. Len(s) : x = s[m] /\ m = IF j < i THEN j ELSE j + 1
    BY <1>1, <2>1
  <2>3. m # i
    BY <2>2
  <2> QED
    BY <1>1, <2>2, <2>3 DEF In, Distinct
<1>4. ASSUME NEW x \in In(s), x # s[i] PROVE x \in In(w)
  <2>1. PICK m \in 1 .. Len(s) : x = s[m]
    BY <1>1, <1>4 DEF In
  <2>2. PICK j \in 1 .. Len(s) - 1 : m = IF j < i THEN j ELSE j + 1
    <3>1. CASE m < i
      BY <3>1
    <3>2. CASE m > i
      <4>1. m - 1 \in 1 .. Len(s) - 1 /\ m = (m - 1) + 1 /\ ~(m - 1 < i)
        BY <3>2
      <4> QED
        BY <4>1
    <3>3. m # i
      BY <1>4, <2>1
    <3> QED
      BY <3>1, <3>2, <3>3
  <2>3. x = w[j]
    BY <1>1, <2>1, <2>2
  <2> QED
    BY <1>1, <2>3 DEF In
<1>5. s[i] \in In(s)
  BY <1>1 DEF In
<1> QED
  BY <1>1, <1>2, <1>3, <1>4, <1>5 DEF w

--------------------------------------------------------------------------------------------------
(* The messages.  One of the engine's at most is on its way; TokenIs says which.                  *)
Message    == {"NOTIFY", "DONE", "FULL", "FULL_SW", "WRITE_DONE"} \X (Outs \cup {None})
EngineMsgs == {"DONE", "FULL", "FULL_SW"}

NoToken(q) == \A i \in DOMAIN q : q[i][1] \notin EngineMsgs
OneToken(q, x) ==
    /\ x \in EngineMsgs
    /\ \E i \in DOMAIN q : q[i][1] = x /\ \A j \in DOMAIN q : q[j][1] \in EngineMsgs => j = i
TokenIs(q, x) == IF x = "none" THEN NoToken(q) ELSE OneToken(q, x)

LEMMA NoneIsNoMessage == "none" \notin EngineMsgs /\ "NOTIFY" \notin EngineMsgs
                         /\ "WRITE_DONE" \notin EngineMsgs /\ "WRITE_DONE" # "NOTIFY"
BY DEF EngineMsgs

LEMMA TokenPuts ==
    ASSUME NEW q \in Seq(Message), NEW e \in Message, NEW x, TokenIs(q, x)
    PROVE  /\ e[1] \notin EngineMsgs => TokenIs(Append(q, e), x)
           /\ e[1] \in EngineMsgs /\ x = "none" => TokenIs(Append(q, e), e[1])
<1> DEFINE r == Append(q, e)
           n == Len(q) + 1
<1>1. /\ DOMAIN q = 1 .. Len(q) /\ DOMAIN r = 1 .. n
      /\ \A i \in 1 .. Len(q) : r[i] = q[i] /\ i # n /\ i \in 1 .. n
      /\ r[n] = e /\ n \in 1 .. n
      /\ \A i \in 1 .. n : i \in 1 .. Len(q) \/ i = n
  <2>1. Len(q) \in Nat
    BY SeqAppends
  <2> QED
    BY <2>1, SeqAppends
<1> HIDE DEF r, n
<1>2. ASSUME e[1] \notin EngineMsgs PROVE TokenIs(r, x)
  <2>1. CASE x = "none"
    BY <1>1, <1>2, <2>1 DEF TokenIs, NoToken
  <2>2. CASE x # "none"
    <3>1. PICK i \in 1 .. Len(q) : q[i][1] = x /\ \A j \in 1 .. Len(q) : q[j][1] \in EngineMsgs => j = i
      BY <1>1, <2>2 DEF TokenIs, OneToken
    <3>2. i \in DOMAIN r /\ r[i][1] = x
      BY <1>1, <3>1
    <3>3. \A j \in DOMAIN r : r[j][1] \in EngineMsgs => j = i
      BY <1>1, <1>2, <3>1
    <3>4. x \in EngineMsgs
      BY <2>2 DEF TokenIs, OneToken
    <3> QED
      BY <2>2, <3>2, <3>3, <3>4 DEF TokenIs, OneToken
  <2> QED
    BY <2>1, <2>2
<1>3. ASSUME e[1] \in EngineMsgs, x = "none" PROVE TokenIs(r, e[1])
  <2>1. \A j \in 1 .. Len(q) : q[j][1] \notin EngineMsgs
    BY <1>1, <1>3 DEF TokenIs, NoToken
  <2>2. n \in DOMAIN r /\ r[n][1] = e[1] /\ \A j \in DOMAIN r : r[j][1] \in EngineMsgs => j = n
    BY <1>1, <2>1
  <2> QED
    BY <1>3, <2>2, NoneIsNoMessage DEF TokenIs, OneToken
<1> QED
  BY <1>2, <1>3 DEF r

LEMMA TokenGets ==
    ASSUME NEW q \in Seq(Message), q # <<>>, NEW x, TokenIs(q, x)
    PROVE  /\ Head(q)[1] \notin EngineMsgs => TokenIs(Tail(q), x)
           /\ Head(q)[1] \in EngineMsgs => x = Head(q)[1] /\ TokenIs(Tail(q), "none")
<1> DEFINE r == Tail(q)
           n == Len(q)
<1>1. /\ Head(q) = q[1] /\ DOMAIN q = 1 .. n /\ DOMAIN r = 1 .. n - 1
      /\ \A i \in 1 .. n - 1 : r[i] = q[i + 1] /\ i + 1 \in 1 .. n /\ i + 1 # 1
      /\ \A i \in 2 .. n : i - 1 \in 1 .. n - 1 /\ r[i - 1] = q[i]
      /\ \A i \in 1 .. n : i = 1 \/ i \in 2 .. n
      /\ 1 \in 1 .. n /\ \A i \in 1 .. n - 1, j \in 2 .. n : i + 1 = j => i = j - 1
  BY SeqTails
<1> HIDE DEF r, n
<1>2. ASSUME Head(q)[1] \notin EngineMsgs PROVE TokenIs(r, x)
  <2>1. CASE x = "none"
    BY <1>1, <2>1 DEF TokenIs, NoToken
  <2>2. CASE x # "none"
    <3>1. PICK i \in 1 .. n : q[i][1] = x /\ \A j \in 1 .. n : q[j][1] \in EngineMsgs => j = i
      BY <1>1, <2>2 DEF TokenIs, OneToken
    <3>4. x \in EngineMsgs
      BY <2>2 DEF TokenIs, OneToken
    <3>2. i \in 2 .. n
      BY <1>1, <1>2, <3>1, <3>4
    <3>3. i - 1 \in DOMAIN r /\ r[i - 1][1] = x
      BY <1>1, <3>1, <3>2
    <3>5. ASSUME NEW j \in DOMAIN r, r[j][1] \in EngineMsgs
          PROVE  j = i - 1
      <4>1. j \in 1 .. n - 1 /\ r[j] = q[j + 1] /\ j + 1 \in 1 .. n
        BY <1>1
      <4>2. j + 1 = i
        BY <3>1, <3>5, <4>1
      <4> QED
        BY <1>1, <3>2, <4>1, <4>2
    <3> QED
      BY <2>2, <3>3, <3>4, <3>5 DEF TokenIs, OneToken
  <2> QED
    BY <2>1, <2>2
<1>3. ASSUME Head(q)[1] \in EngineMsgs PROVE x = Head(q)[1] /\ TokenIs(r, "none")
  <2>1. x # "none"
    BY <1>1, <1>3 DEF TokenIs, NoToken
  <2>2. PICK i \in 1 .. n : q[i][1] = x /\ \A j \in 1 .. n : q[j][1] \in EngineMsgs => j = i
    BY <1>1, <2>1 DEF TokenIs, OneToken
  <2>3. i = 1
    BY <1>1, <1>3, <2>2
  <2>4. \A j \in DOMAIN r : r[j][1] \notin EngineMsgs
    BY <1>1, <2>2, <2>3
  <2> QED
    BY <1>1, <2>2, <2>3, <2>4 DEF TokenIs, NoToken
<1> QED
  BY <1>2, <1>3 DEF r

(* The buffers that the packer is done with.                                                      *)
Rel(q)     == {q[i][2] : i \in {j \in DOMAIN q : q[j][1] = "WRITE_DONE"}}
RelOnce(q) == \A i, j \in DOMAIN q : q[i][1] = "WRITE_DONE" /\ q[j][1] = "WRITE_DONE" /\ q[i][2] = q[j][2] => i = j

LEMMA RelPuts ==
    ASSUME NEW q \in Seq(Message), NEW e \in Message
    PROVE  /\ e[1] # "WRITE_DONE" => /\ Rel(Append(q, e)) = Rel(q)
                                     /\ RelOnce(q) => RelOnce(Append(q, e))
           /\ e[1] = "WRITE_DONE" => /\ Rel(Append(q, e)) = Rel(q) \cup {e[2]}
                                     /\ RelOnce(q) /\ e[2] \notin Rel(q) => RelOnce(Append(q, e))
<1> DEFINE r == Append(q, e)
           n == Len(q) + 1
<1>1. /\ DOMAIN q = 1 .. Len(q) /\ DOMAIN r = 1 .. n
      /\ \A i \in 1 .. Len(q) : r[i] = q[i] /\ i # n /\ i \in 1 .. n
      /\ r[n] = e /\ n \in 1 .. n
      /\ \A i \in 1 .. n : i \in 1 .. Len(q) \/ i = n
  <2>1. Len(q) \in Nat
    BY SeqAppends
  <2> QED
    BY <2>1, SeqAppends
<1> HIDE DEF r, n
<1>2. ASSUME NEW b PROVE b \in Rel(q) => b \in Rel(r)
  <2> SUFFICES ASSUME NEW i \in 1 .. Len(q), q[i][1] = "WRITE_DONE", b = q[i][2] PROVE b \in Rel(r)
    BY <1>1 DEF Rel
  <2>1. i \in DOMAIN r /\ r[i] = q[i]
    BY <1>1
  <2> QED
    BY <2>1 DEF Rel
<1>3. ASSUME NEW b, b \in Rel(r) PROVE b \in Rel(q) \/ (e[1] = "WRITE_DONE" /\ b = e[2])
  <2>1. PICK i \in 1 .. n : r[i][1] = "WRITE_DONE" /\ b = r[i][2]
    BY <1>1, <1>3 DEF Rel
  <2> QED
    BY <1>1, <2>1 DEF Rel
<1>4. e[1] = "WRITE_DONE" => e[2] \in Rel(r)
  <2> SUFFICES ASSUME e[1] = "WRITE_DONE" PROVE e[2] \in Rel(r)
    OBVIOUS
  <2>1. n \in DOMAIN r /\ r[n][1] = "WRITE_DONE" /\ e[2] = r[n][2]
    BY <1>1
  <2> QED
    BY <2>1 DEF Rel
<1>5. ASSUME RelOnce(q), e[1] = "WRITE_DONE" => e[2] \notin Rel(q) PROVE RelOnce(r)
  <2>1. \A i \in 1 .. Len(q) : q[i][1] = "WRITE_DONE" => q[i][2] \in Rel(q)
    BY <1>1 DEF Rel
  <2> QED
    BY <1>1, <1>5, <2>1 DEF RelOnce
<1> QED
  BY <1>2, <1>3, <1>4, <1>5 DEF r

LEMMA RelGets ==
    ASSUME NEW q \in Seq(Message), q # <<>>
    PROVE  /\ RelOnce(q) => RelOnce(Tail(q))
           /\ Head(q)[1] # "WRITE_DONE" => Rel(Tail(q)) = Rel(q)
           /\ Head(q)[1] = "WRITE_DONE" => /\ Head(q)[2] \in Rel(q)
                                           /\ Rel(q) = Rel(Tail(q)) \cup {Head(q)[2]}
                                           /\ RelOnce(q) => Head(q)[2] \notin Rel(Tail(q))
<1> DEFINE r == Tail(q)
           n == Len(q)
<1>1. /\ Head(q) = q[1] /\ DOMAIN q = 1 .. n /\ DOMAIN r = 1 .. n - 1
      /\ \A i \in 1 .. n - 1 : r[i] = q[i + 1] /\ i + 1 \in 1 .. n /\ i + 1 # 1
      /\ \A i \in 2 .. n : i - 1 \in 1 .. n - 1 /\ r[i - 1] = q[i]
      /\ \A i \in 1 .. n : i = 1 \/ i \in 2 .. n
      /\ 1 \in 1 .. n /\ \A i \in 1 .. n - 1, j \in 1 .. n - 1 : i + 1 = j + 1 => i = j
  BY SeqTails
<1> HIDE DEF r, n
<1>2. RelOnce(q) => RelOnce(r)
  BY <1>1 DEF RelOnce
<1>3. ASSUME NEW b, b \in Rel(r) PROVE b \in Rel(q)
  <2>1. PICK i \in 1 .. n - 1 : r[i][1] = "WRITE_DONE" /\ b = r[i][2]
    BY <1>1, <1>3 DEF Rel
  <2>2. i + 1 \in DOMAIN q /\ q[i + 1] = r[i]
    BY <1>1
  <2> QED
    BY <2>1, <2>2 DEF Rel
<1>4. ASSUME NEW b, b \in Rel(q), Head(q)[1] = "WRITE_DONE" => b # Head(q)[2] PROVE b \in Rel(r)
  <2>1. PICK i \in 1 .. n : q[i][1] = "WRITE_DONE" /\ b = q[i][2]
    BY <1>1, <1>4 DEF Rel
  <2>2. i \in 2 .. n
    BY <1>1, <1>4, <2>1
  <2>3. i - 1 \in DOMAIN r /\ r[i - 1] = q[i]
    BY <1>1, <2>2
  <2> QED
    BY <2>1, <2>3 DEF Rel
<1>5. Head(q)[1] = "WRITE_DONE" => Head(q)[2] \in Rel(q)
  BY <1>1 DEF Rel
<1>6. RelOnce(q) /\ Head(q)[1] = "WRITE_DONE" => Head(q)[2] \notin Rel(r)
  <2> SUFFICES ASSUME RelOnce(q), Head(q)[1] = "WRITE_DONE", Head(q)[2] \in Rel(r) PROVE FALSE
    OBVIOUS
  <2>1. PICK i \in 1 .. n - 1 : r[i][1] = "WRITE_DONE" /\ Head(q)[2] = r[i][2]
    BY <1>1 DEF Rel
  <2>2. i + 1 \in DOMAIN q /\ q[i + 1] = r[i] /\ i + 1 # 1
    BY <1>1
  <2> QED
    BY <1>1, <2>1, <2>2 DEF RelOnce
<1> QED
  BY <1>2, <1>3, <1>4, <1>5, <1>6 DEF r

LEMMA RelIsReleased == Released = Rel(msgs)
BY DEF Released, Rel

LEMMA ReleasesAreOuts ==
    ASSUME NEW q \in Seq(Message)
    PROVE  Rel(q) \subseteq Outs \cup {None}
BY DEF Rel, Message

--------------------------------------------------------------------------------------------------
(* jpeg_compress_free_addrs_get.                                                                  *)
LEMMA OutConstants ==
    /\ OutCount \in Nat /\ OutCount > 0 /\ Outs = 1 .. OutCount /\ None \notin Outs /\ None = 0
    /\ IsFiniteSet(Outs) /\ Cardinality(Outs) = OutCount
BY PipelineAssumption, FS_Interval DEF Outs, None

LEMMA MaxIsThere ==
    ASSUME NEW free \in SUBSET Outs, free # {}
    PROVE  Max(free) \in free
<1> DEFINE mirror == {OutCount + 1 - b : b \in free}
<1>1. mirror \in SUBSET (1 .. OutCount) /\ mirror # {}
  <2>1. \A b \in free : OutCount + 1 - b \in 1 .. OutCount
    BY OutConstants
  <2> QED
    BY <2>1
<1>2. PICK m \in mirror : \A n \in mirror : m <= n
  BY <1>1, OutConstants, LeastElement
<1>3. PICK b \in free : m = OutCount + 1 - b
  BY <1>2
<1>4. ASSUME NEW c \in free PROVE b >= c
  <2>1. OutCount + 1 - c \in mirror
    OBVIOUS
  <2>2. m <= OutCount + 1 - c
    BY <1>2, <2>1
  <2> QED
    BY <1>3, <2>2, OutConstants
<1> QED
  BY <1>4 DEF Max

Free(u) == {b \in Outs : ~u[b]}

LEMMA AllocateGives ==
    ASSUME NEW u \in [Outs -> BOOLEAN], Allocate(u)
    PROVE  \/ /\ out' \in Outs /\ ~u[out'] /\ used' = [u EXCEPT ![out'] = TRUE] /\ waiting' = waiting
              /\ freeSize' = Cardinality(Free(u)) /\ freeSize' \in 0 .. OutCount
           \/ /\ out' = None /\ used' = u /\ waiting' = waiting /\ freeSize' = 0
           \/ /\ Free(u) = {} /\ used' = u /\ freeSize' = 1
              /\ \E i \in 1 .. Len(waiting) : out' = waiting[i] /\ waiting' = Without(waiting, i)
<1>1. CASE Free(u) # {}
  <2>1. Max(Free(u)) \in Free(u)
    BY <1>1, MaxIsThere DEF Free
  <2>2. Cardinality(Free(u)) \in 0 .. OutCount
    <3>1. IsFiniteSet(Free(u)) /\ Cardinality(Free(u)) <= OutCount
      BY OutConstants, FS_Subset DEF Free
    <3> QED
      BY <3>1, FS_CardinalityType, OutConstants
  <2> QED
    BY <1>1, <2>1, <2>2 DEF Allocate, Free
<1>2. CASE Free(u) = {}
  BY <1>2 DEF Allocate, Free
<1> QED
  BY <1>1, <1>2

--------------------------------------------------------------------------------------------------
(* The types.  A spot is a line's place: its frame, and its number in that.                       *)
Spot == Nat \X (1 .. LinesPerFrame)

TypeInv == TypeOK /\ lines \in Seq(Spot) /\ content \in [Outs -> Seq(Spot)]

(* TypeInv without what LineTypeOK says.                                                          *)
RestTypeOK ==
    /\ msgs \in Seq(Message)
    /\ engine \in {"IDLE", "BUSY"} /\ hw \in {"off", "on", "full"} /\ skip \in BOOLEAN
    /\ empty_count \in 0 .. LinesPerFrame - 1 /\ newbuf \in BOOLEAN
    /\ out \in Outs \cup {None} /\ used \in [Outs -> BOOLEAN]
    /\ freeSize \in 0 .. OutCount /\ waiting \in Seq(Outs) /\ packer \in Seq(Outs)
    /\ caller \in {"off", "on", "stopping"} /\ ack \in BOOLEAN
    /\ lines \in Seq(Spot) /\ content \in [Outs -> Seq(Spot)]

LEMMA TypeIsRest == TypeInv <=> LineTypeOK /\ RestTypeOK
BY DEF TypeInv, TypeOK, RestTypeOK, Message

LEMMA TypeThen == TypeInv' <=> LineTypeOK' /\ RestTypeOK'
BY DEF TypeInv, TypeOK, RestTypeOK, Message

LEMMA MsgIsMessage ==
    /\ \A m \in {"NOTIFY", "DONE", "FULL", "FULL_SW"} : Msg(m) \in Message
    /\ \A b \in Outs : <<"WRITE_DONE", b>> \in Message
BY DEF Msg, Message, None

LEMMA HeadOfQueue ==
    ASSUME jpegQ \in Seq(Entry), jpegQ # <<>>
    PROVE  /\ Head(jpegQ) \in Entry /\ Head(jpegQ).frame \in Nat /\ Head(jpegQ).line \in 1 .. LinesPerFrame
           /\ <<Head(jpegQ).frame, Head(jpegQ).line>> \in Spot
<1>1. Head(jpegQ) \in Entry
  BY SeqTails
<1> QED
  BY <1>1 DEF Entry, Spot

LEMMA TypeTakeLine ==
    ASSUME LineTypeOK, RestTypeOK, TakeLine
    PROVE  RestTypeOK'
<1> DEFINE l == <<Head(jpegQ).frame, Head(jpegQ).line>>
<1>1. l \in Spot
  BY HeadOfQueue DEF LineTypeOK, TakeLine, Get
<1> HIDE DEF l
<1>2. /\ lines \in Seq(Spot) /\ Append(lines, l) \in Seq(Spot) /\ <<l>> \in Seq(Spot)
  BY <1>1 DEF RestTypeOK
<1>3. lines' \in Seq(Spot) /\ out' \in Outs \cup {None} /\ freeSize' \in 0 .. OutCount
      /\ used' \in [Outs -> BOOLEAN] /\ waiting' \in Seq(Outs)
  <2>1. CASE skip \/ ~newbuf
    <3>1. Allocate(SkipEnds) /\ lines' = <<l>>
      BY <2>1 DEF TakeLine, l
    <3>2. SkipEnds \in [Outs -> BOOLEAN]
      BY DEF SkipEnds, RestTypeOK
    <3>3. waiting \in Seq(Outs)
      BY DEF RestTypeOK
    <3>4. \A i \in 1 .. Len(waiting) : waiting[i] \in Outs /\ Without(waiting, i) \in Seq(Outs)
      BY <3>3, WithoutGives
    <3>5. 0 \in 0 .. OutCount /\ 1 \in 0 .. OutCount
      BY OutConstants
    <3> QED
      BY <1>2, <3>1, <3>2, <3>3, <3>4, <3>5, AllocateGives
  <2>2. CASE ~(skip \/ ~newbuf)
    BY <1>2, <2>2 DEF TakeLine, RestTypeOK, l
  <2> QED
    BY <2>1, <2>2
<1>4. empty_count' \in 0 .. LinesPerFrame - 1 /\ skip' = FALSE /\ newbuf' = TRUE
      /\ engine' = "BUSY" /\ hw' = "on"
  BY Constants DEF TakeLine, RestTypeOK
<1>5. UNCHANGED <<msgs, packer, caller, ack, content>>
  BY DEF TakeLine, restVars
<1> QED
  BY <1>3, <1>4, <1>5 DEF RestTypeOK

LEMMA TypeDoneFrame ==
    ASSUME LineTypeOK, RestTypeOK, DoneFrame
    PROVE  RestTypeOK'
<1>1. msgs' \in Seq(Message) /\ UNCHANGED <<hw, skip, freeSize, lines, caller>>
  BY SeqTails DEF DoneFrame, Received, RestTypeOK
<1>2. engine' \in {"IDLE", "BUSY"} /\ ack' \in BOOLEAN
  BY DEF DoneFrame, AfterLine, RestTypeOK
<1>3. newbuf' \in BOOLEAN /\ empty_count' \in 0 .. LinesPerFrame - 1 /\ out' \in Outs \cup {None}
  <2>1. newbuf' = FALSE /\ empty_count' = 0 /\ out' = None
    BY DEF DoneFrame, FrameDone
  <2>2. 0 \in 0 .. LinesPerFrame - 1
    BY Constants
  <2> QED
    BY <2>1, <2>2
<1>4. used' \in [Outs -> BOOLEAN] /\ content' \in [Outs -> Seq(Spot)]
  BY DEF DoneFrame, FrameDone, RestTypeOK
<1>5. waiting' \in Seq(Outs) /\ packer' \in Seq(Outs)
  <2>1. waiting \in Seq(Outs) /\ packer \in Seq(Outs) /\ out \in Outs \cup {None}
    BY DEF RestTypeOK
  <2>2. CASE out = None \/ skip
    BY <2>1, <2>2 DEF DoneFrame, FrameDone
  <2>3. CASE out # None /\ ~skip
    <3>1. HandOver
      BY <2>3 DEF DoneFrame, FrameDone
    <3>2. Append(waiting, out) \in Seq(Outs)
      BY <2>1, <2>3, SeqAppends
    <3>3. packer \o Append(waiting, out) \in Seq(Outs)
      BY <2>1, <3>2, InConcat
    <3>4. <<>> \in Seq(Outs)
      OBVIOUS
    <3> QED
      BY <2>1, <3>1, <3>2, <3>3, <3>4 DEF HandOver, Put
  <2> QED
    BY <2>2, <2>3
<1> QED
  BY <1>1, <1>2, <1>3, <1>4, <1>5 DEF RestTypeOK

LEMMA TypeWriteDone ==
    ASSUME LineTypeOK, RestTypeOK, WriteDone
    PROVE  RestTypeOK'
<1>1. msgs \in Seq(Message) /\ msgs # <<>> /\ waiting \in Seq(Outs) /\ packer \in Seq(Outs)
  BY DEF WriteDone, Received, RestTypeOK
<1>2. msgs' \in Seq(Message)
  BY <1>1, SeqTails DEF WriteDone
<1>3. waiting' \in Seq(Outs) /\ packer' \in Seq(Outs)
  <2>1. CASE waiting = <<>>
    BY <1>1, <2>1 DEF WriteDone
  <2>2. CASE waiting # <<>>
    <3>1. Head(waiting) \in Outs /\ Tail(waiting) \in Seq(Outs)
      BY <1>1, <2>2, SeqTails
    <3>2. Append(packer, Head(waiting)) \in Seq(Outs)
      BY <1>1, <3>1, SeqAppends
    <3> QED
      BY <2>2, <3>1, <3>2 DEF WriteDone
  <2> QED
    BY <2>1, <2>2
<1>4. used' \in [Outs -> BOOLEAN]
  BY DEF WriteDone, RestTypeOK
<1> QED
  BY <1>2, <1>3, <1>4 DEF WriteDone, RestTypeOK, taskVars

LEMMA TypePackerWrites ==
    ASSUME LineTypeOK, RestTypeOK, PackerWrites
    PROVE  RestTypeOK'
<1>1. packer' \in Seq(Outs) /\ msgs' \in Seq(Message)
  <2>1. Head(packer) \in Outs /\ Tail(packer) \in Seq(Outs)
    BY SeqTails DEF RestTypeOK, PackerWrites
  <2>2. Append(msgs, <<"WRITE_DONE", Head(packer)>>) \in Seq(Message)
    BY <2>1, MsgIsMessage, SeqAppends DEF RestTypeOK
  <2> QED
    BY <2>1, <2>2 DEF PackerWrites
<1> QED
  BY <1>1 DEF PackerWrites, RestTypeOK, frameVars, taskVars

(* A message more, or one less, and nothing else but flags.                                       *)
LEMMA TypeMessages ==
    ASSUME LineTypeOK, RestTypeOK,
           LineReady \/ LineGlitch \/ EngineDone \/ EngineFull \/ Notify \/ Full \/ FullSw
             \/ DoneLine \/ DoneTooLong
    PROVE  RestTypeOK'
<1>1. msgs \in Seq(Message) /\ (msgs # <<>> => Tail(msgs) \in Seq(Message))
  BY SeqTails DEF RestTypeOK
<1>2. \A m \in {"NOTIFY", "DONE", "FULL", "FULL_SW"} :
         /\ Append(msgs, Msg(m)) \in Seq(Message)
         /\ msgs # <<>> => Append(Tail(msgs), Msg(m)) \in Seq(Message)
  BY <1>1, MsgIsMessage, SeqAppends
<1>3. CASE LineReady \/ LineGlitch
  <2>1. msgs' \in Seq(Message) /\ UNCHANGED <<frameVars, taskVars, restVars>>
    BY <1>1, <1>2, <1>3 DEF LineReady, LineGlitch, Line
  <2> QED
    BY <2>1 DEF RestTypeOK, frameVars, taskVars, restVars
<1>4. CASE EngineDone \/ EngineFull
  <2>1. msgs' \in Seq(Message) /\ hw' \in {"off", "full"} /\ UNCHANGED <<frameVars, engine, skip, restVars>>
    BY <1>2, <1>4 DEF EngineDone, EngineFull
  <2> QED
    BY <2>1 DEF RestTypeOK, frameVars, restVars
<1>5. CASE Notify \/ Full \/ FullSw
  <2>1. /\ msgs' \in Seq(Message) /\ hw' \in {hw, "on"} /\ engine' \in {engine, "IDLE"}
        /\ skip' \in BOOLEAN /\ UNCHANGED <<frameVars, restVars>>
    BY <1>1, <1>5 DEF Notify, Full, FullSw, Received, RestTypeOK
  <2> QED
    BY <2>1 DEF RestTypeOK, frameVars, restVars
<1>6. CASE DoneLine
  <2>1. msgs' \in Seq(Message) /\ engine' \in {engine, "IDLE"} /\ ack' \in BOOLEAN
    BY <1>1, <1>6 DEF DoneLine, AfterLine, Received, RestTypeOK
  <2>2. empty_count' \in 0 .. LinesPerFrame - 1
    BY <1>6, Constants DEF DoneLine, LastLine, RestTypeOK
  <2> QED
    BY <1>6, <2>1, <2>2 DEF DoneLine, RestTypeOK
<1>7. CASE DoneTooLong
  <2>1. msgs' \in Seq(Message)
    BY <1>2, <1>7 DEF DoneTooLong, Received
  <2>2. empty_count' \in 0 .. LinesPerFrame - 1
    BY <1>7, Constants DEF DoneTooLong, LastLine, RestTypeOK
  <2> QED
    BY <1>7, <2>1, <2>2 DEF DoneTooLong, RestTypeOK, restVars
<1> QED
  BY <1>3, <1>4, <1>5, <1>6, <1>7

LEMMA TypeStep ==
    ASSUME LineTypeOK, LineTypeOK', RestTypeOK, [Next]_vars
    PROVE  RestTypeOK'
<1>1. CASE Start
  <2>1. [b \in Outs |-> FALSE] \in [Outs -> BOOLEAN] /\ <<>> \in Seq(Outs)
    OBVIOUS
  <2>2. /\ ack' = FALSE /\ engine' = "IDLE" /\ hw' = "off" /\ empty_count' = 0 /\ newbuf' = FALSE
        /\ waiting' = <<>> /\ used' = [b \in Outs |-> FALSE] /\ caller' = "on"
        /\ UNCHANGED <<msgs, skip, out, freeSize, lines, packer, content>>
    BY <1>1 DEF Start
  <2>3. 0 \in 0 .. LinesPerFrame - 1
    BY Constants
  <2> QED
    BY <2>1, <2>2, <2>3 DEF RestTypeOK
<1>2. CASE Stop
  BY <1>2 DEF Stop, RestTypeOK, queueVars, frameVars, taskVars
<1>3. CASE Stopped
  <2>1. <<>> \in Seq(Outs)
    OBVIOUS
  <2> QED
    BY <1>3, <2>1 DEF Stopped, RestTypeOK
<1>4. CASE TakeBusy \/ GiveBack \/ TakeNothing \/ TakeDummy
  <2>1. skip' \in BOOLEAN
    BY <1>4 DEF TakeBusy, GiveBack, TakeNothing, TakeDummy, RestTypeOK
  <2>2. UNCHANGED <<msgs, frameVars, engine, hw, restVars>>
    BY <1>4 DEF TakeBusy, GiveBack, TakeNothing, TakeDummy, queueVars
  <2> QED
    BY <2>1, <2>2 DEF RestTypeOK, frameVars, restVars
<1>5. CASE TakeSkipped
  <2>1. ack' \in BOOLEAN
    BY <1>5 DEF TakeSkipped, RestTypeOK, StopGet
  <2> QED
    BY <1>5, <2>1 DEF TakeSkipped, RestTypeOK, frameVars
<1>6. CASE UNCHANGED vars
  BY <1>6 DEF vars, RestTypeOK, queueVars, frameVars, taskVars, restVars
<1>7. CASE \/ LineReady \/ LineGlitch \/ EngineDone \/ EngineFull \/ Notify \/ Full \/ FullSw
           \/ DoneLine \/ DoneTooLong
  BY <1>7, TypeMessages
<1> QED
  BY <1>1, <1>2, <1>3, <1>4, <1>5, <1>6, <1>7, TypeTakeLine, TypeDoneFrame, TypeWriteDone,
     TypePackerWrites
  DEF Next, InterruptStep, EncoderStep, TakeStep, CallerStep

--------------------------------------------------------------------------------------------------
(* The engine.  It is at a line, or has a message of its own on the way, or rests: one of these.  *)
(* Between recordings nothing goes on.                                                            *)
OffInv ==
    caller = "off" => /\ msgs = <<>> /\ packer = <<>> /\ waiting = <<>> /\ jpegQ = <<>>
                      /\ hw = "off" /\ pc = "pend" /\ videoRecordFlag = "NOTHING"

(* The number of lines done of a frame that is kept is that of the lines taken, but for the one   *)
(* the engine is at.                                                                              *)
LinesDone(x) ==
    newbuf /\ ~skip /\ caller # "off" =>
        /\ hw # "off" \/ x \in {"DONE", "FULL"} => empty_count = Len(lines) - 1
        /\ hw = "off" /\ x = "none" => empty_count = Len(lines)

EngineState(x) ==
    /\ hw = "on" => x = "none"
    /\ hw = "full" <=> x = "FULL"
    /\ hw # "off" \/ x # "none" => engine = "BUSY" /\ newbuf /\ caller # "off"
    /\ pc = "get" => engine = "IDLE"
    /\ ~newbuf => empty_count = 0
    /\ newbuf => lines # <<>>
    /\ LinesDone(x)

EngineInv == \E x \in EngineMsgs \cup {"none"} : TokenIs(msgs, x) /\ EngineState(x)

LEMMA EngineThen ==
    ASSUME NEW x \in EngineMsgs \cup {"none"}, TokenIs(msgs', x), EngineState(x)'
    PROVE  EngineInv'
BY DEF EngineInv

LEMMA NoTokenOfNone == \A x \in EngineMsgs \cup {"none"} : TokenIs(<<>>, x) <=> x = "none"
BY NoneIsNoMessage DEF TokenIs, NoToken, OneToken

(* The engine's own messages, and those of others.                                                *)
LEMMA MsgTokens ==
    /\ \A m : Msg(m)[1] = m
    /\ \A b : <<"WRITE_DONE", b>>[1] = "WRITE_DONE" /\ <<"WRITE_DONE", b>>[2] = b
BY DEF Msg

(* A step that leaves the engine and its frame alone, and sends or takes messages of others.      *)
LEMMA EngineRests ==
    ASSUME RestTypeOK, EngineInv, UNCHANGED <<engine, hw, empty_count, newbuf, lines>>,
           caller' = caller \/ (caller # "off" /\ caller' # "off"), skip' = skip \/ skip' = TRUE,
           pc' \in {pc, "pend", "take"} \/ engine = "IDLE",
           \/ msgs' = msgs
           \/ \E e \in Message : e[1] \notin EngineMsgs /\ msgs' = Append(msgs, e)
           \/ msgs # <<>> /\ Head(msgs)[1] \notin EngineMsgs /\ msgs' = Tail(msgs)
    PROVE  EngineInv'
<1>1. PICK x \in EngineMsgs \cup {"none"} : TokenIs(msgs, x) /\ EngineState(x)
  BY DEF EngineInv
<1>2. msgs \in Seq(Message)
  BY DEF RestTypeOK
<1>3. TokenIs(msgs', x)
  <2>1. CASE msgs' = msgs
    BY <1>1, <2>1
  <2>2. ASSUME NEW e \in Message, e[1] \notin EngineMsgs, msgs' = Append(msgs, e)
        PROVE  TokenIs(msgs', x)
    <3>1. TokenIs(Append(msgs, e), x)
      BY ONLY <1>1, <1>2, <2>2, TokenPuts
    <3> QED
      BY <2>2, <3>1
  <2>3. CASE msgs # <<>> /\ Head(msgs)[1] \notin EngineMsgs /\ msgs' = Tail(msgs)
    <3>1. TokenIs(Tail(msgs), x)
      BY ONLY <1>1, <1>2, <2>3, TokenGets
    <3> QED
      BY <2>3, <3>1
  <2> QED
    BY <2>1, <2>2, <2>3
<1>4. EngineState(x)'
  BY <1>1 DEF EngineState, LinesDone
<1> QED
  BY <1>3, <1>4, EngineThen

LEMMA EngineOwnMessages ==
    ASSUME RestTypeOK, EngineInv, EngineDone \/ EngineFull
    PROVE  EngineInv'
<1>1. PICK x \in EngineMsgs \cup {"none"} : TokenIs(msgs, x) /\ EngineState(x)
  BY DEF EngineInv
<1>2. msgs \in Seq(Message)
  BY DEF RestTypeOK
<1>3. x = "none"
  BY <1>1 DEF EngineState, EngineDone, EngineFull
<1>4. \A m \in EngineMsgs : TokenIs(Append(msgs, Msg(m)), m)
  <2> SUFFICES ASSUME NEW m \in EngineMsgs PROVE TokenIs(Append(msgs, Msg(m)), m)
    OBVIOUS
  <2>1. Msg(m) \in Message /\ Msg(m)[1] = m
    BY MsgIsMessage, MsgTokens DEF EngineMsgs
  <2> QED
    BY <1>1, <1>2, <1>3, <2>1, TokenPuts
<1>5. CASE EngineDone
  <2>1. /\ msgs' = Append(msgs, Msg("DONE")) /\ hw = "on" /\ hw' = "off"
        /\ UNCHANGED <<pc, engine, skip, empty_count, newbuf, lines, caller>>
    BY <1>5 DEF EngineDone, frameVars, restVars
  <2>2. EngineState("DONE")'
    BY <1>1, <1>3, <2>1 DEF EngineState, LinesDone
  <2> QED
    BY <1>4, <2>1, <2>2, EngineThen DEF EngineMsgs
<1>6. CASE EngineFull
  <2>1. /\ msgs' = Append(msgs, Msg("FULL")) /\ hw = "on" /\ hw' = "full"
        /\ UNCHANGED <<pc, engine, skip, empty_count, newbuf, lines, caller>>
    BY <1>6 DEF EngineFull, frameVars, restVars
  <2>2. EngineState("FULL")'
    BY <1>1, <1>3, <2>1 DEF EngineState, LinesDone
  <2> QED
    BY <1>4, <2>1, <2>2, EngineThen DEF EngineMsgs
<1> QED
  BY <1>5, <1>6

(* What the task knows of the engine when one of its messages is there.                           *)
LEMMA EngineReceived ==
    ASSUME RestTypeOK, EngineInv, NEW m \in EngineMsgs, Received(m)
    PROVE  /\ TokenIs(msgs, m) /\ EngineState(m) /\ TokenIs(Tail(msgs), "none")
           /\ msgs # <<>> /\ Tail(msgs) \in Seq(Message)
<1>1. PICK x \in EngineMsgs \cup {"none"} : TokenIs(msgs, x) /\ EngineState(x)
  BY DEF EngineInv
<1>2. msgs \in Seq(Message) /\ msgs # <<>> /\ Head(msgs)[1] = m
  BY DEF RestTypeOK, Received
<1>3. x = m /\ TokenIs(Tail(msgs), "none")
  BY <1>1, <1>2, TokenGets
<1> QED
  BY <1>1, <1>2, <1>3, SeqTails

LEMMA EngineAnswered ==
    ASSUME RestTypeOK, EngineInv, Full \/ FullSw \/ DoneFrame \/ DoneLine \/ DoneTooLong
    PROVE  EngineInv'
<1>1. CASE Full
  <2>1. /\ Received("FULL") /\ msgs' = Tail(msgs) /\ skip' = TRUE /\ hw' = "on"
        /\ UNCHANGED <<pc, engine, empty_count, newbuf, lines, caller>>
    BY <1>1 DEF Full, frameVars, restVars
  <2>2. EngineState("FULL") /\ TokenIs(Tail(msgs), "none")
    BY <2>1, EngineReceived DEF EngineMsgs
  <2>3. EngineState("none")'
    BY <2>1, <2>2 DEF EngineState, LinesDone
  <2> QED
    BY <2>1, <2>2, <2>3, EngineThen
<1>2. CASE FullSw
  <2>1. /\ Received("FULL_SW") /\ msgs' = Tail(msgs) /\ skip' = TRUE /\ engine' = "IDLE"
        /\ UNCHANGED <<hw, empty_count, newbuf, lines, caller>> /\ pc' = "take"
    BY <1>2 DEF FullSw, frameVars, restVars
  <2>2. EngineState("FULL_SW") /\ TokenIs(Tail(msgs), "none") /\ hw \in {"off", "on", "full"}
    BY <2>1, EngineReceived DEF EngineMsgs, RestTypeOK
  <2>3. EngineState("none")'
    BY <2>1, <2>2 DEF EngineState, LinesDone
  <2> QED
    BY <2>1, <2>2, <2>3, EngineThen
<1>3. CASE DoneFrame
  <2>1. /\ Received("DONE") /\ msgs' = Tail(msgs) /\ newbuf' = FALSE /\ empty_count' = 0
        /\ UNCHANGED <<hw, lines, caller>> /\ pc' \in {"pend", "take"}
    BY <1>3 DEF DoneFrame, FrameDone, AfterLine
  <2>2. EngineState("DONE") /\ TokenIs(Tail(msgs), "none") /\ hw \in {"off", "on", "full"}
    BY <2>1, EngineReceived DEF EngineMsgs, RestTypeOK
  <2>3. EngineState("none")'
    BY <2>1, <2>2 DEF EngineState, LinesDone
  <2> QED
    BY <2>1, <2>2, <2>3, EngineThen
<1>4. CASE DoneLine
  <2>1. /\ Received("DONE") /\ msgs' = Tail(msgs) /\ empty_count' = empty_count + 1
        /\ UNCHANGED <<hw, skip, newbuf, lines, caller>> /\ pc' \in {"pend", "take"}
    BY <1>4 DEF DoneLine, AfterLine
  <2>2. /\ EngineState("DONE") /\ TokenIs(Tail(msgs), "none") /\ hw \in {"off", "on", "full"}
        /\ Len(lines) \in Nat
    BY <2>1, EngineReceived DEF EngineMsgs, RestTypeOK
  <2>3. EngineState("none")'
    BY <2>1, <2>2 DEF EngineState, LinesDone
  <2> QED
    BY <2>1, <2>2, <2>3, EngineThen
<1>5. CASE DoneTooLong
  <2>1. /\ Received("DONE") /\ msgs' = Append(Tail(msgs), Msg("FULL_SW"))
        /\ UNCHANGED <<hw, engine, pc, skip, newbuf, lines, caller>> /\ pc = "pend"
    BY <1>5 DEF DoneTooLong, Received, restVars
  <2>2. EngineState("DONE") /\ TokenIs(Tail(msgs), "none") /\ hw \in {"off", "on", "full"}
        /\ Tail(msgs) \in Seq(Message)
    BY <2>1, EngineReceived DEF EngineMsgs, RestTypeOK
  <2>3. TokenIs(msgs', "FULL_SW")
    <3>1. Msg("FULL_SW") \in Message /\ Msg("FULL_SW")[1] = "FULL_SW" /\ "FULL_SW" \in EngineMsgs
      BY MsgIsMessage, MsgTokens DEF EngineMsgs
    <3> QED
      BY <2>1, <2>2, <3>1, TokenPuts
  <2>4. EngineState("FULL_SW")'
    BY <2>1, <2>2 DEF EngineState, LinesDone
  <2> QED
    BY <2>3, <2>4, EngineThen DEF EngineMsgs
<1> QED
  BY <1>1, <1>2, <1>3, <1>4, <1>5

(* The engine rests when a line is taken.                                                         *)
LEMMA EngineAtGet ==
    ASSUME RestTypeOK, EngineInv, OffInv, Get
    PROVE  /\ engine = "IDLE" /\ hw = "off" /\ TokenIs(msgs, "none") /\ EngineState("none")
           /\ caller # "off"
<1>1. PICK x \in EngineMsgs \cup {"none"} : TokenIs(msgs, x) /\ EngineState(x)
  BY DEF EngineInv
<1>2. pc = "get"
  BY DEF Get
<1> QED
  BY <1>1, <1>2 DEF EngineState, OffInv

LEMMA EngineTakeLine ==
    ASSUME LineTypeOK, RestTypeOK, EngineInv, OffInv, TakeLine
    PROVE  EngineInv'
<1> DEFINE l == <<Head(jpegQ).frame, Head(jpegQ).line>>
<1>1. /\ engine = "IDLE" /\ hw = "off" /\ TokenIs(msgs, "none") /\ EngineState("none")
      /\ caller # "off"
  BY EngineAtGet DEF TakeLine
<1>2. /\ skip' = FALSE /\ empty_count' = IF skip THEN 0 ELSE empty_count
      /\ newbuf' = TRUE /\ engine' = "BUSY" /\ hw' = "on" /\ pc' = "pend"
      /\ UNCHANGED <<msgs, caller>>
      /\ lines' = IF skip \/ ~newbuf THEN <<l>> ELSE Append(lines, l)
  BY DEF TakeLine, Get, restVars
<1>0. l \in Spot
  BY HeadOfQueue DEF LineTypeOK, TakeLine, Get
<1> HIDE DEF l
<1>3. /\ <<l>> # <<>> /\ Len(<<l>>) = 1 /\ Append(lines, l) # <<>>
      /\ Len(lines) \in Nat /\ Len(Append(lines, l)) = Len(lines) + 1
  <2>1. lines \in Seq(Spot)
    BY DEF RestTypeOK
  <2> QED
    BY ONLY <1>0, <2>1, SeqAppends
<1>4. EngineState("none")'
  <2>1. CASE skip \/ ~newbuf
    <3>1. lines' = <<l>> /\ empty_count' = 0
      BY <1>1, <1>2, <2>1 DEF EngineState
    <3>2. lines' # <<>> /\ Len(lines') = 1
      BY <1>3, <3>1
    <3> QED
      BY <1>1, <1>2, <3>1, <3>2 DEF LinesDone, EngineState
  <2>2. CASE ~skip /\ newbuf
    <3>1. lines' = Append(lines, l) /\ empty_count' = empty_count /\ empty_count = Len(lines)
      BY <1>1, <1>2, <2>2 DEF EngineState, LinesDone
    <3>2. lines' # <<>> /\ empty_count' = Len(lines') - 1
      BY <1>3, <3>1
    <3> QED
      BY <1>1, <1>2, <3>2 DEF LinesDone, EngineState
  <2> QED
    BY <2>1, <2>2 DEF RestTypeOK
<1> QED
  BY <1>1, <1>2, <1>4, EngineThen

LEMMA EngineStep ==
    ASSUME LineTypeOK, RestTypeOK, EngineInv, OffInv, [Next]_vars
    PROVE  EngineInv'
<1>1. CASE Start
  <2>1. TokenIs(msgs', "none")
    BY <1>1, NoTokenOfNone DEF Start
  <2>2. EngineState("none")'
    BY <1>1 DEF Start, EngineState, LinesDone
  <2> QED
    BY <2>1, <2>2, EngineThen
<1>2. CASE Stop
  BY <1>2, EngineRests DEF Stop, queueVars, frameVars, taskVars
<1>3. CASE Stopped
  <2>1. PICK x \in EngineMsgs \cup {"none"} : TokenIs(msgs, x) /\ EngineState(x)
    BY DEF EngineInv
  <2>2. x = "none" /\ TokenIs(msgs', "none")
    BY <1>3, <2>1, NoTokenOfNone DEF Stopped
  <2>3. EngineState("none")'
    BY <1>3, <2>1, <2>2 DEF Stopped, EngineState, LinesDone
  <2> QED
    BY <2>2, <2>3, EngineThen
<1>4. CASE LineReady \/ LineGlitch
  <2>1. UNCHANGED <<engine, hw, empty_count, newbuf, lines, caller, skip, pc>>
    BY <1>4 DEF LineReady, LineGlitch, Line, frameVars, taskVars, restVars
  <2>2. msgs' = msgs \/ msgs' = Append(msgs, Msg("NOTIFY"))
    BY <1>4 DEF LineReady, LineGlitch, Line
  <2>3. Msg("NOTIFY") \in Message /\ Msg("NOTIFY")[1] \notin EngineMsgs
    BY MsgIsMessage, MsgTokens, NoneIsNoMessage
  <2> QED
    BY <2>1, <2>2, <2>3, EngineRests
<1>5. CASE EngineDone \/ EngineFull
  BY <1>5, EngineOwnMessages
<1>6. CASE Notify
  <2>1. Head(msgs)[1] = "NOTIFY" /\ msgs # <<>> /\ msgs' = Tail(msgs)
        /\ UNCHANGED <<engine, hw, empty_count, newbuf, lines, caller, skip>> /\ pc' = "take"
    BY <1>6 DEF Notify, Received, frameVars, restVars
  <2> QED
    BY <2>1, NoneIsNoMessage, EngineRests
<1>7. CASE WriteDone
  <2>1. Head(msgs)[1] = "WRITE_DONE" /\ msgs # <<>> /\ msgs' = Tail(msgs)
        /\ UNCHANGED <<engine, hw, empty_count, newbuf, lines, caller, skip, pc>>
    BY <1>7 DEF WriteDone, Received, taskVars
  <2> QED
    BY <2>1, NoneIsNoMessage, EngineRests
<1>8. CASE PackerWrites
  <2>1. msgs' = Append(msgs, <<"WRITE_DONE", Head(packer)>>) /\ Head(packer) \in Outs
        /\ UNCHANGED <<engine, hw, empty_count, newbuf, lines, caller, skip, pc>>
    BY <1>8, SeqTails DEF PackerWrites, RestTypeOK, taskVars, frameVars
  <2>2. <<"WRITE_DONE", Head(packer)>> \in Message
    BY <2>1, MsgIsMessage
  <2>3. <<"WRITE_DONE", Head(packer)>>[1] \notin EngineMsgs
    BY NoneIsNoMessage
  <2> QED
    BY <2>1, <2>2, <2>3, EngineRests
<1>9. CASE Full \/ FullSw \/ DoneFrame \/ DoneLine \/ DoneTooLong
  BY <1>9, EngineAnswered
<1>10. CASE TakeBusy \/ GiveBack \/ TakeNothing \/ TakeDummy \/ TakeSkipped
  <2>1. /\ UNCHANGED <<engine, hw, empty_count, newbuf, lines, caller, msgs>>
        /\ skip' = skip \/ skip' = TRUE
        /\ pc' = "pend" \/ engine = "IDLE"
    BY <1>10 DEF TakeBusy, GiveBack, TakeNothing, TakeDummy, TakeSkipped, Get,
                 queueVars, frameVars, restVars
  <2> QED
    BY <2>1, EngineRests
<1>11. CASE TakeLine
  BY <1>11, EngineTakeLine
<1>12. CASE UNCHANGED vars
  BY <1>12, EngineRests DEF vars, queueVars, frameVars, taskVars, restVars
<1> QED
  BY <1>1, <1>2, <1>3, <1>4, <1>5, <1>6, <1>7, <1>8, <1>9, <1>10, <1>11, <1>12
  DEF Next, InterruptStep, EncoderStep, TakeStep, CallerStep

LEMMA OffStep ==
    ASSUME RestTypeOK, OffInv, [Next]_vars
    PROVE  OffInv'
<1> SUFFICES ASSUME caller' = "off"
             PROVE  /\ msgs' = <<>> /\ packer' = <<>> /\ waiting' = <<>> /\ jpegQ' = <<>>
                    /\ hw' = "off" /\ pc' = "pend" /\ videoRecordFlag' = "NOTHING"
  BY DEF OffInv
<1>1. CASE Stopped
  BY <1>1 DEF Stopped
<1>2. CASE UNCHANGED vars
  BY <1>2 DEF OffInv, vars, isrVars, queueVars, frameVars, taskVars, restVars
<1>3. CASE Start \/ Stop
  BY <1>3 DEF Start, Stop
<1>4. CASE LineReady \/ LineGlitch
  <2>1. caller' = caller /\ videoRecordFlag # "NOTHING"
    BY <1>4 DEF LineReady, LineGlitch, Line, restVars
  <2> QED
    BY <2>1 DEF OffInv
<1>5. CASE EngineDone \/ EngineFull
  <2>1. caller' = caller /\ hw = "on"
    BY <1>5 DEF EngineDone, EngineFull, restVars
  <2> QED
    BY <2>1 DEF OffInv
<1>6. CASE Notify \/ Full \/ FullSw \/ DoneFrame \/ DoneLine \/ DoneTooLong \/ WriteDone
  <2>1. caller' = caller /\ msgs # <<>>
    BY <1>6 DEF Notify, Full, FullSw, DoneFrame, DoneLine, DoneTooLong, WriteDone, Received, restVars
  <2> QED
    BY <2>1 DEF OffInv
<1>7. CASE TakeStep
  <2>1. caller' = caller /\ pc # "pend"
    BY <1>7 DEF TakeStep, TakeBusy, GiveBack, TakeNothing, TakeDummy, TakeSkipped, TakeLine, Get, restVars
  <2> QED
    BY <2>1 DEF OffInv
<1>8. CASE PackerWrites
  <2>1. caller' = caller /\ packer # <<>>
    BY <1>8 DEF PackerWrites
  <2> QED
    BY <2>1 DEF OffInv
<1> QED
  BY <1>1, <1>2, <1>3, <1>4, <1>5, <1>6, <1>7, <1>8
  DEF Next, InterruptStep, EncoderStep, CallerStep

--------------------------------------------------------------------------------------------------
(* The output buffers.  OutsInOnePlace for one buffer, with its places spelled out.               *)
Holders(a, b, c, d, u) ==
    /\ u <=> a \/ b \/ c \/ d
    /\ ~(a /\ b) /\ ~(a /\ c) /\ ~(a /\ d) /\ ~(b /\ c) /\ ~(b /\ d) /\ ~(c /\ d)

HeldOnce(b) == Holders(newbuf /\ out = b, b \in In(waiting), b \in In(packer), b \in Rel(msgs), used[b])

(* What is in one place is there once; and the buffer that is still named at a start is free.      *)
OutsInv ==
    /\ caller # "off" => \A b \in Outs : HeldOnce(b)
    /\ Distinct(waiting) /\ Distinct(packer) /\ RelOnce(msgs)
    /\ caller # "off" /\ ~newbuf /\ out # None => ~used[out]

LEMMA NothingInEmpty == In(<<>>) = {} /\ Rel(<<>>) = {} /\ Distinct(<<>>) /\ RelOnce(<<>>)
BY DEF In, Rel, Distinct, RelOnce

(* A message that is not the packer's leaves the packer's alone.                                  *)
LEMMA RelRests ==
    ASSUME RestTypeOK, RelOnce(msgs),
           \/ msgs' = msgs
           \/ \E m \in {"NOTIFY", "DONE", "FULL", "FULL_SW"} : msgs' = Append(msgs, Msg(m))
           \/ msgs # <<>> /\ Head(msgs)[1] # "WRITE_DONE"
                /\ \/ msgs' = Tail(msgs)
                   \/ msgs' = Append(Tail(msgs), Msg("FULL_SW"))
    PROVE  Rel(msgs') = Rel(msgs) /\ RelOnce(msgs')
<1>1. msgs \in Seq(Message) /\ (msgs # <<>> => Tail(msgs) \in Seq(Message))
  BY SeqTails DEF RestTypeOK
<1>2. \A m \in {"NOTIFY", "DONE", "FULL", "FULL_SW"} :
         Msg(m) \in Message /\ Msg(m)[1] # "WRITE_DONE"
  BY MsgIsMessage, MsgTokens
<1>3. CASE msgs' = msgs
  BY <1>3
<1>4. ASSUME NEW m \in {"NOTIFY", "DONE", "FULL", "FULL_SW"}, msgs' = Append(msgs, Msg(m))
      PROVE  Rel(msgs') = Rel(msgs) /\ RelOnce(msgs')
  <2>1. Rel(Append(msgs, Msg(m))) = Rel(msgs) /\ RelOnce(Append(msgs, Msg(m)))
    BY <1>1, <1>2, RelPuts
  <2> QED
    BY <1>4, <2>1
<1>5. CASE msgs # <<>> /\ Head(msgs)[1] # "WRITE_DONE"
  <2>1. Rel(Tail(msgs)) = Rel(msgs) /\ RelOnce(Tail(msgs)) /\ Tail(msgs) \in Seq(Message)
    BY <1>1, <1>5, RelGets
  <2>2. /\ Rel(Append(Tail(msgs), Msg("FULL_SW"))) = Rel(Tail(msgs))
        /\ RelOnce(Append(Tail(msgs), Msg("FULL_SW")))
    BY <2>1, <1>2, RelPuts
  <2>3. CASE msgs' = Tail(msgs)
    BY <2>1, <2>3
  <2>4. CASE msgs' = Append(Tail(msgs), Msg("FULL_SW"))
    BY <2>1, <2>2, <2>4
  <2>5. CASE \E m \in {"NOTIFY", "DONE", "FULL", "FULL_SW"} : msgs' = Append(msgs, Msg(m))
    BY <1>4, <2>5
  <2> QED
    BY <1>3, <2>3, <2>4, <2>5
<1> QED
  BY <1>3, <1>4, <1>5

LEMMA OutsRest ==
    ASSUME OutsInv, UNCHANGED <<newbuf, out, used, waiting, packer>>,
           caller' # "off" => caller # "off", Rel(msgs') = Rel(msgs), RelOnce(msgs')
    PROVE  OutsInv'
<1>1. caller' # "off" => \A b \in Outs : HeldOnce(b)'
  BY DEF OutsInv, HeldOnce
<1> QED
  BY <1>1 DEF OutsInv

LEMMA OutsStart ==
    ASSUME RestTypeOK, OffInv, Start
    PROVE  OutsInv'
<1>1. /\ waiting' = <<>> /\ packer' = <<>> /\ msgs' = <<>> /\ newbuf' = FALSE
      /\ used' = [b \in Outs |-> FALSE] /\ out' \in Outs \cup {None}
  BY DEF Start, OffInv, RestTypeOK
<1>2. \A b \in Outs : HeldOnce(b)'
  BY <1>1, NothingInEmpty DEF HeldOnce, Holders
<1> QED
  BY <1>1, <1>2, NothingInEmpty DEF OutsInv

(* When a frame starts the buffers in use are those of frames that wait or are with the packer.    *)
LEMMA OutsAtFrameStart ==
    ASSUME RestTypeOK, OutsInv, caller # "off", skip \/ ~newbuf
    PROVE  /\ SkipEnds \in [Outs -> BOOLEAN]
           /\ \A b \in Outs : /\ SkipEnds[b] <=> b \in In(waiting) \/ b \in In(packer) \/ b \in Rel(msgs)
                              /\ ~(b \in In(waiting) /\ b \in In(packer))
                              /\ ~(b \in In(waiting) /\ b \in Rel(msgs))
                              /\ ~(b \in In(packer) /\ b \in Rel(msgs))
<1>1. used \in [Outs -> BOOLEAN] /\ out \in Outs \cup {None} /\ newbuf \in BOOLEAN /\ skip \in BOOLEAN
  BY DEF RestTypeOK
<1>2. SkipEnds \in [Outs -> BOOLEAN]
  BY <1>1 DEF SkipEnds
<1>3. ASSUME NEW b \in Outs
      PROVE  /\ SkipEnds[b] <=> b \in In(waiting) \/ b \in In(packer) \/ b \in Rel(msgs)
             /\ ~(b \in In(waiting) /\ b \in In(packer))
             /\ ~(b \in In(waiting) /\ b \in Rel(msgs))
             /\ ~(b \in In(packer) /\ b \in Rel(msgs))
  <2>1. HeldOnce(b) /\ (~newbuf /\ out # None => ~used[out])
    BY DEF OutsInv
  <2>2. SkipEnds[b] = IF skip /\ out = b THEN FALSE ELSE used[b]
    BY <1>1, OutConstants DEF SkipEnds
  <2> QED
    BY <1>1, <2>1, <2>2, OutConstants DEF HeldOnce, Holders
<1> QED
  BY <1>2, <1>3

(* A frame's first line takes a buffer that nobody has, or one from the frames that wait.         *)
LEMMA OutsTakeLine ==
    ASSUME RestTypeOK, OutsInv, EngineInv, OffInv, TakeLine
    PROVE  OutsInv'
<1>0. caller # "off" /\ UNCHANGED <<msgs, packer, caller>> /\ newbuf' = TRUE
  BY EngineAtGet DEF TakeLine, restVars
<1>1. /\ waiting \in Seq(Outs) /\ used \in [Outs -> BOOLEAN] /\ out \in Outs \cup {None}
      /\ newbuf \in BOOLEAN /\ skip \in BOOLEAN
  BY DEF RestTypeOK
<1>2. CASE ~(skip \/ ~newbuf)
  <2>1. UNCHANGED <<newbuf, out, used, waiting, packer, msgs, caller>>
    BY <1>0, <1>1, <1>2 DEF TakeLine
  <2> QED
    BY <2>1, OutsRest DEF OutsInv
<1>3. CASE skip \/ ~newbuf
  <2>1. Allocate(SkipEnds)
    BY <1>3 DEF TakeLine
  <2>2. /\ SkipEnds \in [Outs -> BOOLEAN]
        /\ \A b \in Outs : /\ SkipEnds[b] <=> b \in In(waiting) \/ b \in In(packer) \/ b \in Rel(msgs)
                           /\ ~(b \in In(waiting) /\ b \in In(packer))
                           /\ ~(b \in In(waiting) /\ b \in Rel(msgs))
                           /\ ~(b \in In(packer) /\ b \in Rel(msgs))
    BY <1>0, <1>3, OutsAtFrameStart
  <2> DEFINE u == SkipEnds
  <2> HIDE DEF u
  <2>4. Allocate(u) /\ u \in [Outs -> BOOLEAN]
    BY <2>1, <2>2 DEF u
  <2>5. \A b \in Outs : /\ u[b] <=> b \in In(waiting) \/ b \in In(packer) \/ b \in Rel(msgs)
                        /\ ~(b \in In(waiting) /\ b \in In(packer))
                        /\ ~(b \in In(waiting) /\ b \in Rel(msgs))
                        /\ ~(b \in In(packer) /\ b \in Rel(msgs))
    BY <2>2 DEF u
  <2>6. Distinct(waiting) /\ Distinct(packer) /\ RelOnce(msgs)
    BY DEF OutsInv
  <2>7. CASE out' \in Outs /\ ~u[out'] /\ used' = [u EXCEPT ![out'] = TRUE] /\ waiting' = waiting
    <3>1. \A b \in Outs : HeldOnce(b)'
      BY <1>0, <2>4, <2>5, <2>7 DEF HeldOnce, Holders
    <3> QED
      BY <1>0, <2>6, <2>7, <3>1 DEF OutsInv
  <2>8. CASE out' = None /\ used' = u /\ waiting' = waiting
    <3>1. \A b \in Outs : HeldOnce(b)'
      BY <1>0, <2>5, <2>8, OutConstants DEF HeldOnce, Holders
    <3> QED
      BY <1>0, <2>6, <2>8, <3>1 DEF OutsInv
  <2>9. ASSUME NEW i \in 1 .. Len(waiting), used' = u,
               out' = waiting[i], waiting' = Without(waiting, i)
        PROVE  OutsInv'
    <3>1. Distinct(Without(waiting, i)) /\ waiting[i] \in In(waiting)
          /\ In(Without(waiting, i)) = In(waiting) \ {waiting[i]}
      BY ONLY <1>1, <2>6, <2>9, InWithout
    <3>2. Distinct(waiting') /\ out' \in In(waiting) /\ In(waiting') = In(waiting) \ {out'}
      BY <2>9, <3>1
    <3>3. \A b \in Outs : HeldOnce(b)'
      BY <1>0, <2>5, <2>9, <3>2 DEF HeldOnce, Holders
    <3> QED
      BY <1>0, <2>6, <3>2, <3>3 DEF OutsInv
  <2> QED
    BY <2>4, <2>7, <2>8, <2>9, AllocateGives
<1> QED
  BY <1>2, <1>3

LEMMA OutsDoneFrame ==
    ASSUME RestTypeOK, OutsInv, EngineInv, DoneFrame
    PROVE  OutsInv'
<1>0. newbuf /\ caller # "off" /\ caller' = caller /\ newbuf' = FALSE /\ out' = None
  <2>1. EngineState("DONE")
    BY EngineReceived DEF DoneFrame, EngineMsgs
  <2> QED
    BY <2>1 DEF EngineState, DoneFrame, FrameDone
<1>1. /\ waiting \in Seq(Outs) /\ packer \in Seq(Outs) /\ used \in [Outs -> BOOLEAN]
      /\ out \in Outs \cup {None}
  BY DEF RestTypeOK
<1>2. Rel(msgs') = Rel(msgs) /\ RelOnce(msgs')
  <2>1. msgs # <<>> /\ Head(msgs)[1] # "WRITE_DONE" /\ msgs' = Tail(msgs)
    BY DEF DoneFrame, Received
  <2> QED
    BY <2>1, RelRests DEF OutsInv
<1>3. Distinct(waiting) /\ Distinct(packer) /\ \A b \in Outs : HeldOnce(b)
  BY <1>0 DEF OutsInv
<1>4. CASE out = None
  <2>1. UNCHANGED <<used, waiting, packer>>
    BY <1>4 DEF DoneFrame, FrameDone
  <2>2. \A b \in Outs : HeldOnce(b)'
    BY <1>0, <1>2, <1>3, <1>4, <2>1, OutConstants DEF HeldOnce, Holders
  <2> QED
    BY <1>0, <1>2, <1>3, <2>1, <2>2 DEF OutsInv
<1>5. CASE out # None /\ skip
  <2>1. UNCHANGED <<waiting, packer>> /\ used' = [used EXCEPT ![out] = FALSE]
    BY <1>5 DEF DoneFrame, FrameDone
  <2>2. \A b \in Outs : HeldOnce(b)'
    BY <1>0, <1>1, <1>2, <1>3, <1>5, <2>1, OutConstants DEF HeldOnce, Holders
  <2> QED
    BY <1>0, <1>2, <1>3, <2>1, <2>2 DEF OutsInv
<1>6. CASE out # None /\ ~skip
  <2>0. out \in Outs /\ HandOver /\ used' = used
    BY <1>1, <1>6 DEF DoneFrame, FrameDone
  <2>1. out \notin In(waiting) /\ out \notin In(packer)
    BY <1>0, <1>3, <2>0 DEF HeldOnce, Holders
  <2>2. /\ Append(waiting, out) \in Seq(Outs) /\ In(Append(waiting, out)) = In(waiting) \cup {out}
        /\ Distinct(Append(waiting, out))
    <3>1. Append(waiting, out) \in Seq(Outs)
      BY ONLY <1>1, <2>0, SeqAppends
    <3>2. In(Append(waiting, out)) = In(waiting) \cup {out}
      BY ONLY <1>1, <2>0, InAppend
    <3>3. Distinct(Append(waiting, out))
      BY ONLY <1>1, <1>3, <2>0, <2>1, DistinctAppend
    <3> QED
      BY <3>1, <3>2, <3>3
  <2>3. CASE PackerHungry
    <3>1. packer' = packer \o Append(waiting, out) /\ waiting' = <<>>
      BY <2>0, <2>3 DEF HandOver, Put
    <3>2. In(packer) \cap In(Append(waiting, out)) = {}
      <4>1. In(packer) \subseteq Outs
        BY <1>1 DEF In
      <4> QED
        BY <1>3, <2>1, <2>2, <4>1 DEF HeldOnce, Holders
    <3>3. /\ In(packer \o Append(waiting, out)) = In(packer) \cup In(waiting) \cup {out}
          /\ Distinct(packer \o Append(waiting, out))
      <4>1. /\ In(packer \o Append(waiting, out)) = In(packer) \cup In(Append(waiting, out))
            /\ Distinct(packer \o Append(waiting, out))
        <5> DEFINE t == Append(waiting, out)
        <5>1. t \in Seq(Outs) /\ packer \in Seq(Outs) /\ Distinct(t) /\ Distinct(packer)
              /\ In(packer) \cap In(t) = {}
          BY <1>1, <1>3, <2>2, <3>2
        <5> HIDE DEF t
        <5>2. In(packer \o t) = In(packer) \cup In(t) /\ Distinct(packer \o t)
          BY ONLY <5>1, InConcat
        <5> QED
          BY <5>2 DEF t
      <4> QED
        BY <2>2, <4>1
    <3>4. In(waiting') = {} /\ In(packer') = In(packer) \cup In(waiting) \cup {out}
          /\ Distinct(waiting') /\ Distinct(packer')
      BY <3>1, <3>3, NothingInEmpty
    <3>5. \A b \in Outs : HeldOnce(b)'
      BY <1>0, <1>2, <1>3, <2>0, <3>4 DEF HeldOnce, Holders
    <3> QED
      BY <1>0, <1>2, <3>4, <3>5 DEF OutsInv
  <2>4. CASE ~PackerHungry
    <3>1. packer' = packer /\ In(waiting') = In(waiting) \cup {out} /\ Distinct(waiting')
      BY <2>0, <2>2, <2>4 DEF HandOver
    <3>2. \A b \in Outs : HeldOnce(b)'
      BY <1>0, <1>2, <1>3, <2>0, <3>1 DEF HeldOnce, Holders
    <3> QED
      BY <1>0, <1>2, <1>3, <3>1, <3>2 DEF OutsInv
  <2> QED
    BY <2>3, <2>4
<1> QED
  BY <1>4, <1>5, <1>6

LEMMA OutsWriteDone ==
    ASSUME RestTypeOK, OutsInv, OffInv, WriteDone
    PROVE  OutsInv'
<1> DEFINE h == Head(msgs)[2]
<1>0. caller # "off" /\ UNCHANGED <<caller, newbuf, out>> /\ msgs # <<>> /\ msgs' = Tail(msgs)
      /\ used' = [used EXCEPT ![h] = FALSE] /\ Head(msgs)[1] = "WRITE_DONE"
  BY DEF WriteDone, Received, OffInv
<1>1. /\ waiting \in Seq(Outs) /\ packer \in Seq(Outs) /\ used \in [Outs -> BOOLEAN]
      /\ out \in Outs \cup {None} /\ msgs \in Seq(Message)
  BY DEF RestTypeOK
<1>2. Distinct(waiting) /\ Distinct(packer) /\ RelOnce(msgs) /\ \A b \in Outs : HeldOnce(b)
  BY <1>0 DEF OutsInv
<1>3. /\ h \in Rel(msgs) /\ Rel(msgs) = Rel(msgs') \cup {h} /\ h \notin Rel(msgs') /\ RelOnce(msgs')
  <2>1. /\ h \in Rel(msgs) /\ Rel(msgs) = Rel(Tail(msgs)) \cup {h} /\ h \notin Rel(Tail(msgs))
        /\ RelOnce(Tail(msgs))
    BY ONLY <1>0, <1>1, <1>2, RelGets
  <2> QED
    BY <1>0, <2>1
<1> HIDE DEF h
<1>4. \A b \in Outs : used'[b] = IF b = h THEN FALSE ELSE used[b]
  BY <1>0, <1>1
<1>5. ~newbuf /\ out # None => ~used'[out]
  <2>1. ~newbuf /\ out # None => ~used[out]
    BY <1>0 DEF OutsInv
  <2> QED
    BY <1>1, <1>4, <2>1
<1>6. CASE waiting = <<>>
  <2>1. UNCHANGED <<waiting, packer>>
    BY <1>6 DEF WriteDone
  <2>2. \A b \in Outs : HeldOnce(b)'
    BY <1>0, <1>2, <1>3, <1>4, <2>1 DEF HeldOnce, Holders
  <2> QED
    BY <1>0, <1>2, <1>3, <1>5, <2>1, <2>2 DEF OutsInv
<1>7. CASE waiting # <<>>
  <2> DEFINE w == Head(waiting)
  <2>1. packer' = Append(packer, w) /\ waiting' = Tail(waiting)
    BY <1>7 DEF WriteDone
  <2>2. w \in Outs /\ w \in In(waiting) /\ In(waiting) = In(Tail(waiting)) \cup {w}
        /\ Distinct(Tail(waiting)) /\ w \notin In(Tail(waiting))
    BY ONLY <1>1, <1>2, <1>7, InTail, SeqTails
  <2> HIDE DEF w
  <2>3. w \notin In(packer)
    BY <1>2, <2>2 DEF HeldOnce, Holders
  <2>4. In(Append(packer, w)) = In(packer) \cup {w} /\ Distinct(Append(packer, w))
    BY ONLY <1>1, <1>2, <2>2, <2>3, InAppend, DistinctAppend
  <2>5. /\ In(waiting) = In(waiting') \cup {w} /\ w \notin In(waiting') /\ Distinct(waiting')
        /\ In(packer') = In(packer) \cup {w} /\ Distinct(packer')
    BY <2>1, <2>2, <2>4
  <2>6. \A b \in Outs : HeldOnce(b)'
    BY <1>0, <1>2, <1>3, <1>4, <2>5 DEF HeldOnce, Holders
  <2> QED
    BY <1>0, <1>3, <1>5, <2>5, <2>6 DEF OutsInv
<1> QED
  BY <1>6, <1>7

LEMMA OutsPackerWrites ==
    ASSUME RestTypeOK, OutsInv, OffInv, PackerWrites
    PROVE  OutsInv'
<1> DEFINE w == Head(packer)
<1>0. caller # "off" /\ UNCHANGED <<caller, newbuf, out, used, waiting>> /\ packer # <<>>
      /\ packer' = Tail(packer) /\ msgs' = Append(msgs, <<"WRITE_DONE", w>>)
  BY DEF PackerWrites, OffInv, frameVars
<1>1. packer \in Seq(Outs) /\ msgs \in Seq(Message)
  BY DEF RestTypeOK
<1>2. Distinct(waiting) /\ Distinct(packer) /\ RelOnce(msgs) /\ \A b \in Outs : HeldOnce(b)
  BY <1>0 DEF OutsInv
<1>3. /\ w \in Outs /\ w \in In(packer) /\ In(packer) = In(Tail(packer)) \cup {w}
      /\ Distinct(Tail(packer)) /\ w \notin In(Tail(packer))
  BY ONLY <1>0, <1>1, <1>2, InTail, SeqTails
<1> HIDE DEF w
<1>4. w \notin Rel(msgs)
  BY <1>2, <1>3 DEF HeldOnce, Holders
<1>5. Rel(Append(msgs, <<"WRITE_DONE", w>>)) = Rel(msgs) \cup {w}
      /\ RelOnce(Append(msgs, <<"WRITE_DONE", w>>))
  <2>1. <<"WRITE_DONE", w>> \in Message
    BY <1>3, MsgIsMessage
  <2>2. <<"WRITE_DONE", w>>[1] = "WRITE_DONE" /\ <<"WRITE_DONE", w>>[2] = w
    BY MsgTokens
  <2> QED
    BY <1>1, <1>2, <1>4, <2>1, <2>2, RelPuts
<1>6. /\ In(packer) = In(packer') \cup {w} /\ w \notin In(packer') /\ Distinct(packer')
      /\ Rel(msgs') = Rel(msgs) \cup {w} /\ RelOnce(msgs')
  BY <1>0, <1>3, <1>5
<1>7. \A b \in Outs : HeldOnce(b)'
  BY <1>0, <1>2, <1>4, <1>6 DEF HeldOnce, Holders
<1> QED
  BY <1>0, <1>2, <1>6, <1>7 DEF OutsInv

LEMMA OutsStep ==
    ASSUME RestTypeOK, OutsInv, EngineInv, OffInv, [Next]_vars
    PROVE  OutsInv'
<1>1. CASE Start
  BY <1>1, OutsStart
<1>2. CASE Stopped
  <2>1. caller' = "off" /\ waiting' = <<>> /\ packer' = packer /\ msgs' = msgs
    BY <1>2 DEF Stopped
  <2> QED
    BY <2>1, NothingInEmpty DEF OutsInv
<1>3. CASE TakeLine
  BY <1>3, OutsTakeLine
<1>4. CASE DoneFrame
  BY <1>4, OutsDoneFrame
<1>5. CASE WriteDone
  BY <1>5, OutsWriteDone
<1>6. CASE PackerWrites
  BY <1>6, OutsPackerWrites
<1>7. CASE LineReady \/ LineGlitch \/ EngineDone \/ EngineFull
  <2>1. UNCHANGED <<newbuf, out, used, waiting, packer, caller>>
    BY <1>7 DEF LineReady, LineGlitch, EngineDone, EngineFull, Line, frameVars, restVars
  <2>2. msgs' = msgs \/ \E m \in {"NOTIFY", "DONE", "FULL", "FULL_SW"} : msgs' = Append(msgs, Msg(m))
    BY <1>7 DEF LineReady, LineGlitch, EngineDone, EngineFull, Line
  <2>3. Rel(msgs') = Rel(msgs) /\ RelOnce(msgs')
    BY <2>2, RelRests DEF OutsInv
  <2> QED
    BY <2>1, <2>3, OutsRest
<1>8. CASE Notify \/ Full \/ FullSw \/ DoneLine \/ DoneTooLong
  <2>1. UNCHANGED <<newbuf, out, used, waiting, packer, caller>>
    BY <1>8 DEF Notify, Full, FullSw, DoneLine, DoneTooLong, frameVars, restVars
  <2>2. /\ msgs # <<>> /\ Head(msgs)[1] # "WRITE_DONE"
        /\ msgs' = Tail(msgs) \/ msgs' = Append(Tail(msgs), Msg("FULL_SW"))
    BY <1>8 DEF Notify, Full, FullSw, DoneLine, DoneTooLong, Received
  <2>3. Rel(msgs') = Rel(msgs) /\ RelOnce(msgs')
    BY <2>2, RelRests DEF OutsInv
  <2> QED
    BY <2>1, <2>3, OutsRest
<1>9. CASE Stop \/ TakeBusy \/ GiveBack \/ TakeNothing \/ TakeDummy \/ TakeSkipped \/ UNCHANGED vars
  <2>1. UNCHANGED <<newbuf, out, used, waiting, packer, msgs>> /\ (caller' # "off" => caller # "off")
    BY <1>9 DEF Stop, TakeBusy, GiveBack, TakeNothing, TakeDummy, TakeSkipped, vars,
                queueVars, frameVars, restVars
  <2>2. Rel(msgs') = Rel(msgs) /\ RelOnce(msgs')
    BY <2>1 DEF OutsInv
  <2> QED
    BY <2>1, <2>2, OutsRest
<1> QED
  BY <1>1, <1>2, <1>3, <1>4, <1>5, <1>6, <1>7, <1>8, <1>9
  DEF Next, InterruptStep, EncoderStep, TakeStep, CallerStep

(* OutsInv says what OutsInOnePlace counts.                                                       *)
LEMMA OutsAreCounted ==
    ASSUME OutsInv
    PROVE  OutsInOnePlace
<1> SUFFICES ASSUME caller # "off", NEW b \in Outs
             PROVE  Cardinality({p \in 1 .. 4 : b \in CASE p = 1 -> Compressing [] p = 2 -> In(waiting)
                                                        [] p = 3 -> In(packer) [] p = 4 -> Released})
                    = IF used[b] THEN 1 ELSE 0
  BY DEF OutsInOnePlace
<1> DEFINE At(p) == CASE p = 1 -> Compressing [] p = 2 -> In(waiting)
                      [] p = 3 -> In(packer) [] p = 4 -> Released
<1>1. /\ b \in At(1) <=> newbuf /\ out = b
      /\ b \in At(2) <=> b \in In(waiting)
      /\ b \in At(3) <=> b \in In(packer)
      /\ b \in At(4) <=> b \in Rel(msgs)
  BY RelIsReleased DEF Compressing
<1> HIDE DEF At
<1>2. Holders(b \in At(1), b \in At(2), b \in At(3), b \in At(4), used[b])
  BY <1>1 DEF OutsInv, HeldOnce, Holders
<1>3. \A p \in 1 .. 4 : p = 1 \/ p = 2 \/ p = 3 \/ p = 4
  OBVIOUS
<1>4. CASE used[b]
  <2>1. \E p \in 1 .. 4 : {q \in 1 .. 4 : b \in At(q)} = {p}
    <3>1. CASE b \in At(1)
      <4>1. {q \in 1 .. 4 : b \in At(q)} = {1}
        BY <1>2, <1>3, <3>1 DEF Holders
      <4> QED
        BY <4>1
    <3>2. CASE b \in At(2)
      <4>1. {q \in 1 .. 4 : b \in At(q)} = {2}
        BY <1>2, <1>3, <3>2 DEF Holders
      <4> QED
        BY <4>1
    <3>3. CASE b \in At(3)
      <4>1. {q \in 1 .. 4 : b \in At(q)} = {3}
        BY <1>2, <1>3, <3>3 DEF Holders
      <4> QED
        BY <4>1
    <3>4. CASE b \in At(4)
      <4>1. {q \in 1 .. 4 : b \in At(q)} = {4}
        BY <1>2, <1>3, <3>4 DEF Holders
      <4> QED
        BY <4>1
    <3> QED
      BY <1>2, <1>4, <3>1, <3>2, <3>3, <3>4 DEF Holders
  <2>2. Cardinality({q \in 1 .. 4 : b \in At(q)}) = 1
    BY <2>1, FS_Singleton
  <2> QED
    BY <1>4, <2>2 DEF At
<1>5. CASE ~used[b]
  <2>1. {q \in 1 .. 4 : b \in At(q)} = {}
    BY <1>2, <1>3, <1>5 DEF Holders
  <2>2. Cardinality({q \in 1 .. 4 : b \in At(q)}) = 0
    BY <2>1, FS_EmptySet
  <2> QED
    BY <1>5, <2>2 DEF At
<1> QED
  BY <1>4, <1>5

--------------------------------------------------------------------------------------------------
(* Waiting frames.  With nothing at the packer no more than one waits, and the next that is kept  *)
(* behind one goes to the packer: when its buffer was taken only the one that waits had another.  *)
HungryInv ==
    packer = <<>> /\ Rel(msgs) = {} =>
        /\ Len(waiting) <= 1
        /\ newbuf /\ ~skip /\ out # None /\ waiting # <<>> => PackerHungry

LEMMA HungryRests ==
    ASSUME HungryInv, UNCHANGED <<newbuf, out, freeSize, waiting, packer>>, Rel(msgs') = Rel(msgs),
           skip' = skip \/ skip' = TRUE
    PROVE  HungryInv'
BY DEF HungryInv, PackerHungry

LEMMA HungryDoneFrame ==
    ASSUME RestTypeOK, EngineInv, OutsInv, HungryInv, DoneFrame
    PROVE  HungryInv'
<1>1. newbuf /\ newbuf' = FALSE
  <2>1. EngineState("DONE")
    BY EngineReceived DEF DoneFrame, EngineMsgs
  <2> QED
    BY <2>1 DEF EngineState, DoneFrame, FrameDone
<1>2. Rel(msgs') = Rel(msgs)
  <2>1. msgs # <<>> /\ Head(msgs)[1] # "WRITE_DONE" /\ msgs' = Tail(msgs)
    BY DEF DoneFrame, Received
  <2> QED
    BY <2>1, RelRests DEF OutsInv
<1>3. /\ waiting \in Seq(Outs) /\ packer \in Seq(Outs) /\ out \in Outs \cup {None}
  BY DEF RestTypeOK
<1> SUFFICES ASSUME packer' = <<>>, Rel(msgs') = {}
             PROVE  Len(waiting') <= 1
  BY <1>1 DEF HungryInv
<1>4. CASE out = None \/ skip
  <2>1. UNCHANGED <<waiting, packer>>
    BY <1>4 DEF DoneFrame, FrameDone
  <2> QED
    BY <1>2, <2>1 DEF HungryInv
<1>5. CASE out # None /\ ~skip
  <2>1. HandOver /\ out \in Outs
    BY <1>3, <1>5 DEF DoneFrame, FrameDone
  <2>2. Append(waiting, out) \in Seq(Outs) /\ Append(waiting, out) # <<>>
        /\ Len(Append(waiting, out)) = Len(waiting) + 1 /\ Len(waiting) \in Nat
    BY ONLY <1>3, <2>1, SeqAppends
  <2>3. CASE PackerHungry
    <3>1. packer' = packer \o Append(waiting, out)
      BY <2>1, <2>3 DEF HandOver, Put
    <3>2. packer \o Append(waiting, out) # <<>>
      <4> DEFINE t == Append(waiting, out)
      <4>1. t \in Seq(Outs) /\ packer \in Seq(Outs) /\ t # <<>>
        BY <1>3, <2>2
      <4> HIDE DEF t
      <4>2. packer \o t # <<>>
        BY ONLY <4>1, InConcat
      <4> QED
        BY <4>2 DEF t
    <3> QED
      BY <3>1, <3>2
  <2>4. CASE ~PackerHungry
    <3>1. packer' = packer /\ waiting' = Append(waiting, out)
      BY <2>1, <2>4 DEF HandOver
    <3>2. waiting = <<>>
      BY <1>1, <1>2, <1>5, <2>4, <3>1 DEF HungryInv
    <3>3. Len(waiting) = 0
      BY <3>2
    <3> QED
      BY <2>2, <3>1, <3>3
  <2> QED
    BY <2>3, <2>4
<1> QED
  BY <1>3, <1>4, <1>5

LEMMA HungryTakeLine ==
    ASSUME PackerThreshold >= 2, RestTypeOK, EngineInv, OffInv, OutsInv, HungryInv, TakeLine
    PROVE  HungryInv'
<1>0. caller # "off" /\ UNCHANGED <<msgs, packer, caller>> /\ newbuf' = TRUE /\ skip' = FALSE
  BY EngineAtGet DEF TakeLine, restVars
<1>1. waiting \in Seq(Outs) /\ newbuf \in BOOLEAN /\ skip \in BOOLEAN
  BY DEF RestTypeOK
<1>2. CASE ~(skip \/ ~newbuf)
  <2>1. UNCHANGED <<newbuf, out, freeSize, waiting, packer, msgs, skip>>
    BY <1>0, <1>1, <1>2 DEF TakeLine
  <2> QED
    BY <2>1, HungryRests
<1>3. CASE skip \/ ~newbuf
  <2> SUFFICES ASSUME packer = <<>>, Rel(msgs) = {}
               PROVE  /\ Len(waiting') <= 1
                      /\ out' # None /\ waiting' # <<>> => freeSize' > OutCount - PackerThreshold
    BY <1>0 DEF HungryInv, PackerHungry
  <2> DEFINE u == SkipEnds
  <2>1. Allocate(u)
    BY <1>3 DEF TakeLine
  <2>2. /\ u \in [Outs -> BOOLEAN]
        /\ \A b \in Outs : u[b] <=> b \in In(waiting) \/ b \in In(packer) \/ b \in Rel(msgs)
    BY <1>0, <1>3, OutsAtFrameStart
  <2> HIDE DEF u
  <2>3. Len(waiting) <= 1 /\ Len(waiting) \in Nat
    BY <1>1, SeqAppends DEF HungryInv
  <2>4. CASE waiting' = waiting /\ freeSize' = Cardinality(Free(u))
    <3> SUFFICES ASSUME waiting # <<>>
                 PROVE  Cardinality(Free(u)) > OutCount - PackerThreshold
      BY <2>3, <2>4
    <3> DEFINE w == Head(waiting)
    <3>1. w \in Outs /\ In(waiting) = In(Tail(waiting)) \cup {w} /\ Len(Tail(waiting)) = Len(waiting) - 1
          /\ DOMAIN Tail(waiting) = 1 .. Len(waiting) - 1
      BY ONLY <1>1, InTail, SeqTails, waiting # <<>>
    <3> HIDE DEF w
    <3>2. In(Tail(waiting)) = {}
      BY <2>3, <3>1 DEF In
    <3>3. Free(u) = Outs \ {w}
      BY <2>2, <3>1, <3>2, NothingInEmpty DEF Free
    <3>4. Cardinality(Outs \ {w}) = OutCount - 1
      BY <3>1, OutConstants, FS_RemoveElement
    <3> QED
      BY <3>3, <3>4, OutConstants, PipelineAssumption
  <2>5. CASE out' = None /\ waiting' = waiting
    BY <2>3, <2>5
  <2>6. ASSUME NEW i \in 1 .. Len(waiting), waiting' = Without(waiting, i)
        PROVE  Len(waiting') <= 1 /\ waiting' = <<>>
    <3>1. Without(waiting, i) \in Seq(Outs) /\ Len(Without(waiting, i)) = Len(waiting) - 1
      BY ONLY <1>1, <2>6, WithoutGives
    <3>2. Len(Without(waiting, i)) = 0
      BY <2>3, <3>1
    <3>3. Without(waiting, i) = <<>>
      BY <3>1, <3>2
    <3> QED
      BY <2>6, <3>2, <3>3
  <2> QED
    BY <2>1, <2>2, <2>4, <2>5, <2>6, AllocateGives
<1> QED
  BY <1>2, <1>3

LEMMA HungryStep ==
    ASSUME PackerThreshold >= 2, RestTypeOK, EngineInv, OffInv, OutsInv, HungryInv, [Next]_vars
    PROVE  HungryInv'
<1>1. CASE Start \/ Stopped
  <2>1. waiting' = <<>>
    BY <1>1 DEF Start, Stopped
  <2> QED
    BY <2>1 DEF HungryInv
<1>3. CASE TakeLine
  BY <1>3, HungryTakeLine
<1>4. CASE DoneFrame
  BY <1>4, HungryDoneFrame
<1>5. CASE WriteDone
  <2>1. CASE waiting = <<>>
    <3>1. waiting' = <<>>
      BY <1>5, <2>1 DEF WriteDone
    <3> QED
      BY <3>1 DEF HungryInv
  <2>2. CASE waiting # <<>>
    <3>1. Head(waiting) \in Outs /\ packer \in Seq(Outs)
      BY <2>2, SeqTails DEF RestTypeOK
    <3>2. Append(packer, Head(waiting)) # <<>>
      BY ONLY <3>1, SeqAppends
    <3> QED
      BY <1>5, <2>2, <3>2 DEF WriteDone, HungryInv
  <2> QED
    BY <2>1, <2>2
<1>6. CASE PackerWrites
  <2>1. Head(packer) \in Outs /\ msgs \in Seq(Message)
    BY <1>6, SeqTails DEF RestTypeOK, PackerWrites
  <2>2. <<"WRITE_DONE", Head(packer)>> \in Message /\ <<"WRITE_DONE", Head(packer)>>[1] = "WRITE_DONE"
    BY <2>1, MsgIsMessage
  <2>3. Rel(msgs') = Rel(msgs) \cup {<<"WRITE_DONE", Head(packer)>>[2]}
    BY <1>6, <2>1, <2>2, RelPuts DEF PackerWrites
  <2> QED
    BY <2>3 DEF HungryInv
<1>7. CASE LineReady \/ LineGlitch \/ EngineDone \/ EngineFull
  <2>1. UNCHANGED <<newbuf, out, freeSize, waiting, packer, skip>>
    BY <1>7 DEF LineReady, LineGlitch, EngineDone, EngineFull, Line, frameVars, taskVars, restVars
  <2>2. msgs' = msgs \/ \E m \in {"NOTIFY", "DONE", "FULL", "FULL_SW"} : msgs' = Append(msgs, Msg(m))
    BY <1>7 DEF LineReady, LineGlitch, EngineDone, EngineFull, Line
  <2>3. Rel(msgs') = Rel(msgs)
    BY <2>2, RelRests DEF OutsInv
  <2> QED
    BY <2>1, <2>3, HungryRests
<1>8. CASE Notify \/ Full \/ FullSw \/ DoneLine \/ DoneTooLong
  <2>1. UNCHANGED <<newbuf, out, freeSize, waiting, packer>> /\ (skip' = skip \/ skip' = TRUE)
    BY <1>8 DEF Notify, Full, FullSw, DoneLine, DoneTooLong, frameVars, restVars
  <2>2. /\ msgs # <<>> /\ Head(msgs)[1] # "WRITE_DONE"
        /\ msgs' = Tail(msgs) \/ msgs' = Append(Tail(msgs), Msg("FULL_SW"))
    BY <1>8 DEF Notify, Full, FullSw, DoneLine, DoneTooLong, Received
  <2>3. Rel(msgs') = Rel(msgs)
    BY <2>2, RelRests DEF OutsInv
  <2> QED
    BY <2>1, <2>3, HungryRests
<1>9. CASE Stop \/ TakeBusy \/ GiveBack \/ TakeNothing \/ TakeDummy \/ TakeSkipped \/ UNCHANGED vars
  <2>1. /\ UNCHANGED <<newbuf, out, freeSize, waiting, packer, msgs>>
        /\ skip' = skip \/ skip' = TRUE
    BY <1>9 DEF Stop, TakeBusy, GiveBack, TakeNothing, TakeDummy, TakeSkipped, vars,
                queueVars, frameVars, taskVars, restVars
  <2> QED
    BY <2>1, HungryRests
<1> QED
  BY <1>1, <1>3, <1>4, <1>5, <1>6, <1>7, <1>8, <1>9
  DEF Next, InterruptStep, EncoderStep, TakeStep, CallerStep

--------------------------------------------------------------------------------------------------
(* The order of the frames.  A line's place is a spot; the lines still to come are those queued   *)
(* and the one that the interrupt is at.                                                          *)
Earlier(p, q) == p[1] < q[1] \/ (p[1] = q[1] /\ p[2] < q[2])
Pos(e) == <<e.frame, e.line>>
Sensor == <<frame, isr_count + 1>>
ToCome == {Pos(jpegQ[i]) : i \in DOMAIN jpegQ} \cup IF videoRecordFlag = "NOTHING" THEN {} ELSE {Sensor}

(* q is k lines or more behind p.                                                                 *)
Behind(p, k, q) == \/ q[1] > p[1] + 1
                   \/ q[1] = p[1] /\ q[2] >= p[2] + k
                   \/ q[1] = p[1] + 1 /\ q[2] + LinesPerFrame >= p[2] + k

LineOrder ==
    /\ \A i, j \in DOMAIN jpegQ : i < j => Earlier(Pos(jpegQ[i]), Pos(jpegQ[j]))
    /\ videoRecordFlag # "NOTHING" => \A i \in DOMAIN jpegQ : Earlier(Pos(jpegQ[i]), Sensor)

(* The frames that wait rise and are later than those put.  KeptBefore: all that were put and all  *)
(* that wait are earlier than frame n.                                                            *)
FrameIn(c, b) == c[b][1][1]
KeptBefore(put, w, c, n) == put < n /\ \A i \in DOMAIN w : FrameIn(c, w[i]) < n
KeptRise(put, w, c) ==
    /\ put \in Nat /\ \A i \in DOMAIN w : c[w[i]] # <<>>
    /\ \A i, j \in DOMAIN w : i < j => FrameIn(c, w[i]) < FrameIn(c, w[j])
    /\ \A i \in DOMAIN w : put < FrameIn(c, w[i])

OrderInv ==
    /\ LineOrder /\ KeptRise(lastPut, waiting, content)
    /\ KeptBefore(lastPut, waiting, content, frame + 1)
    /\ \A p \in ToCome : p[1] <= frame /\ KeptBefore(lastPut, waiting, content, p[1])
    /\ newbuf /\ ~skip => /\ lines[1][1] <= frame
                          /\ KeptBefore(lastPut, waiting, content, lines[1][1])
                          /\ \A p \in ToCome : Behind(lines[1], Len(lines), p)

LEMMA SpotParts ==
    /\ \A e : Pos(e)[1] = e.frame /\ Pos(e)[2] = e.line
    /\ Sensor[1] = frame /\ Sensor[2] = isr_count + 1
    /\ \A p \in Spot : p[1] \in Nat /\ p[2] \in 1 .. LinesPerFrame /\ p[2] \in Nat
BY Constants DEF Pos, Sensor, Spot

LEMMA EntriesAreSpots ==
    /\ \A e \in Entry : Pos(e) \in Spot
    /\ LineTypeOK => Sensor \in Spot
<1>1. LineTypeOK => isr_count + 1 \in 1 .. LinesPerFrame
  BY Constants DEF LineTypeOK
<1> QED
  BY <1>1 DEF Pos, Spot, Entry, Sensor, LineTypeOK

LEMMA ToComeAreSpots ==
    ASSUME LineTypeOK
    PROVE  ToCome \subseteq Spot
<1>1. \A i \in DOMAIN jpegQ : jpegQ[i] \in Entry
  BY DEF LineTypeOK
<1> QED
  BY <1>1, EntriesAreSpots DEF ToCome

(* A line is taken: it was the first of those to come.                                            *)
LEMMA OrderGets ==
    ASSUME LineTypeOK, LineOrder, jpegQ # <<>>, jpegQ' = Tail(jpegQ),
           UNCHANGED <<videoRecordFlag, frame, isr_count>>
    PROVE  /\ LineOrder' /\ ToCome' \subseteq ToCome /\ Pos(Head(jpegQ)) \in ToCome
           /\ \A p \in ToCome' : Earlier(Pos(Head(jpegQ)), p)
<1> DEFINE r == Tail(jpegQ)
           n == Len(jpegQ)
<1>0. jpegQ \in Seq(Entry)
  BY DEF LineTypeOK
<1>1. /\ Head(jpegQ) = jpegQ[1] /\ n \in Nat /\ n >= 1 /\ DOMAIN jpegQ = 1 .. n /\ DOMAIN r = 1 .. n - 1
      /\ \A i \in 1 .. n - 1 : r[i] = jpegQ[i + 1] /\ i + 1 \in 1 .. n /\ 1 < i + 1
      /\ 1 \in 1 .. n
  BY <1>0, SeqTails
<1> HIDE DEF r, n
<1>2. jpegQ' = r /\ Sensor' = Sensor
  BY DEF r, Sensor
<1>3. LineOrder'
  <2>1. ASSUME NEW i \in 1 .. n - 1, NEW j \in 1 .. n - 1, i < j
        PROVE  Earlier(Pos(r[i]), Pos(r[j]))
    <3>1. i + 1 \in DOMAIN jpegQ /\ j + 1 \in DOMAIN jpegQ /\ i + 1 < j + 1
      BY <1>1, <2>1
    <3>2. Earlier(Pos(jpegQ[i + 1]), Pos(jpegQ[j + 1]))
      BY <3>1 DEF LineOrder
    <3> QED
      BY <1>1, <3>2
  <2>2. ASSUME videoRecordFlag # "NOTHING", NEW i \in 1 .. n - 1
        PROVE  Earlier(Pos(r[i]), Sensor)
    BY <1>1, <2>2 DEF LineOrder
  <2>3. \A i, j \in DOMAIN r : i < j => Earlier(Pos(r[i]), Pos(r[j]))
    BY <1>1, <2>1
  <2>4. videoRecordFlag # "NOTHING" => \A i \in DOMAIN r : Earlier(Pos(r[i]), Sensor)
    BY <1>1, <2>2
  <2> QED
    BY <1>2, <2>3, <2>4 DEF LineOrder
<1>4. ASSUME NEW p \in ToCome'
      PROVE  p \in ToCome /\ Earlier(Pos(Head(jpegQ)), p)
  <2>1. CASE videoRecordFlag # "NOTHING" /\ p = Sensor
    BY <1>1, <2>1 DEF LineOrder, ToCome
  <2>2. ASSUME NEW i \in 1 .. n - 1, p = Pos(r[i])
        PROVE  p \in ToCome /\ Earlier(Pos(Head(jpegQ)), p)
    <3>1. i + 1 \in DOMAIN jpegQ /\ 1 \in DOMAIN jpegQ /\ 1 < i + 1 /\ p = Pos(jpegQ[i + 1])
      BY <1>1, <2>2
    <3>2. Earlier(Pos(jpegQ[1]), Pos(jpegQ[i + 1]))
      BY <3>1 DEF LineOrder
    <3> QED
      BY <1>1, <3>1, <3>2 DEF ToCome
  <2>3. \/ videoRecordFlag # "NOTHING" /\ p = Sensor
        \/ \E i \in 1 .. n - 1 : p = Pos(r[i])
    BY <1>1, <1>2 DEF ToCome
  <2> QED
    BY <2>1, <2>2, <2>3
<1>5. Pos(Head(jpegQ)) \in ToCome
  BY <1>1 DEF ToCome
<1> QED
  BY <1>3, <1>4, <1>5

(* The interrupt queues the line it was at, or refuses it, and goes on to the next.               *)
LEMMA OrderPuts ==
    ASSUME LineTypeOK, LineOrder, LineReady \/ LineGlitch
    PROVE  /\ LineOrder' /\ Sensor \in ToCome
           /\ \/ frame' = frame /\ isr_count' = isr_count + 1
              \/ frame' = frame + 1 /\ isr_count + 1 = LinesPerFrame /\ isr_count' = 0
              \/ frame' = frame /\ videoRecordFlag' = "NOTHING"
           /\ \A p \in ToCome' : p \in ToCome \/ (videoRecordFlag' # "NOTHING" /\ p = Sensor')
<1>1. PICK g \in BOOLEAN : Line(g)
  BY DEF LineReady, LineGlitch
<1>2. videoRecordFlag # "NOTHING" /\ frame \in Nat /\ isr_count \in 0 .. LinesPerFrame - 1
      /\ jpegQ \in Seq(Entry)
  BY <1>1 DEF Line, LineTypeOK
<1>3. PICK e \in Entry : /\ Pos(e) = Sensor
                         /\ jpegQ' = jpegQ \/ jpegQ' = Append(jpegQ, e)
  <2> DEFINE e == [addr |-> IF g THEN Dummy ELSE bak0, frame |-> frame, line |-> isr_count + 1]
  <2>1. e \in Entry
    BY <1>2, Constants DEF Entry, LineTypeOK
  <2>2. jpegQ' = jpegQ \/ jpegQ' = Append(jpegQ, e)
    BY <1>1 DEF Line
  <2>3. Pos(e) = Sensor
    BY DEF Pos, Sensor
  <2> QED
    BY <2>1, <2>2, <2>3
<1>4. \/ /\ videoRecordFlag' = videoRecordFlag
         /\ \/ frame' = frame /\ isr_count' = isr_count + 1
            \/ frame' = frame + 1 /\ isr_count + 1 = LinesPerFrame /\ isr_count' = 0
      \/ frame' = frame /\ videoRecordFlag' = "NOTHING"
  <2>1. isr_count' = (isr_count + 1) % LinesPerFrame
    BY <1>1 DEF Line
  <2>2. isr_count + 1 < LinesPerFrame => isr_count' = isr_count + 1
    BY <1>2, <2>1, Constants
  <2>3. isr_count + 1 = LinesPerFrame => isr_count' = 0
    BY <1>2, <2>1, Constants
  <2>4. isr_count + 1 < LinesPerFrame \/ isr_count + 1 = LinesPerFrame
    BY <1>2, Constants
  <2>5. CASE StopsHere
    BY <1>1, <2>5 DEF Line
  <2>6. CASE ~StopsHere
    <3>1. videoRecordFlag' = videoRecordFlag /\ frame' = IF FrameEnds THEN frame + 1 ELSE frame
      BY <1>1, <2>6 DEF Line
    <3> QED
      BY <1>2, <2>2, <2>3, <2>4, <3>1, Constants DEF FrameEnds
  <2> QED
    BY <2>5, <2>6
<1>5. videoRecordFlag' # "NOTHING" => Earlier(Sensor, Sensor')
  <2>1. Sensor[1] = frame /\ Sensor[2] = isr_count + 1 /\ Sensor'[1] = frame' /\ Sensor'[2] = isr_count' + 1
    BY DEF Sensor
  <2> QED
    BY <1>2, <1>4, <2>1, Constants DEF Earlier
<1>6. Sensor \in ToCome /\ Sensor \in Spot
  BY <1>2, EntriesAreSpots DEF ToCome
<1>7. \A i \in DOMAIN jpegQ : Pos(jpegQ[i]) \in Spot /\ Earlier(Pos(jpegQ[i]), Sensor)
  BY <1>2, EntriesAreSpots DEF LineOrder
<1>8. videoRecordFlag' # "NOTHING" => \A i \in DOMAIN jpegQ : Earlier(Pos(jpegQ[i]), Sensor')
  <2> SUFFICES ASSUME videoRecordFlag' # "NOTHING", NEW i \in DOMAIN jpegQ
               PROVE  Earlier(Pos(jpegQ[i]), Sensor')
    OBVIOUS
  <2> DEFINE p == Pos(jpegQ[i])
  <2>1. p \in Spot /\ Earlier(p, Sensor)
    BY <1>7
  <2>2. Sensor'[1] \in Nat /\ Sensor'[2] \in Nat
    BY <1>2, <1>4 DEF Sensor
  <2> HIDE DEF p
  <2>3. Earlier(p, Sensor')
    BY <1>5, <1>6, <2>1, <2>2, SpotParts DEF Earlier
  <2> QED
    BY <2>3 DEF p
<1>9. CASE jpegQ' = jpegQ
  <2>1. LineOrder'
    BY <1>8, <1>9 DEF LineOrder
  <2>2. \A p \in ToCome' : p \in ToCome \/ (videoRecordFlag' # "NOTHING" /\ p = Sensor')
    BY <1>9 DEF ToCome
  <2> QED
    BY <1>4, <1>6, <2>1, <2>2
<1>10. CASE jpegQ' = Append(jpegQ, e)
  <2> DEFINE r == Append(jpegQ, e)
             n == Len(jpegQ) + 1
  <2>1. /\ n \in Nat /\ DOMAIN jpegQ = 1 .. n - 1 /\ DOMAIN r = 1 .. n
        /\ \A i \in 1 .. n - 1 : r[i] = jpegQ[i] /\ i # n
        /\ r[n] = e /\ \A i \in 1 .. n : i \in 1 .. n - 1 \/ i = n
    <3>1. Len(jpegQ) \in Nat
      BY <1>2, SeqAppends
    <3> QED
      BY <1>2, <1>3, <3>1, SeqAppends
  <2> HIDE DEF r, n
  <2>2. jpegQ' = r
    BY <1>10 DEF r
  <2>3. \A i, j \in DOMAIN r : i < j => Earlier(Pos(r[i]), Pos(r[j]))
    <3> SUFFICES ASSUME NEW i \in 1 .. n, NEW j \in 1 .. n, i < j
                 PROVE  Earlier(Pos(r[i]), Pos(r[j]))
      BY <2>1
    <3>1. i \in 1 .. n - 1
      BY <2>1
    <3>2. CASE j = n
      BY <1>3, <1>7, <2>1, <3>1, <3>2
    <3>3. CASE j \in 1 .. n - 1
      <4>1. Earlier(Pos(jpegQ[i]), Pos(jpegQ[j]))
        BY <2>1, <3>1, <3>3 DEF LineOrder
      <4> QED
        BY <2>1, <3>1, <3>3, <4>1
    <3> QED
      BY <2>1, <3>2, <3>3
  <2>4. videoRecordFlag' # "NOTHING" => \A i \in DOMAIN r : Earlier(Pos(r[i]), Sensor')
    BY <1>3, <1>5, <1>8, <2>1
  <2>5. LineOrder'
    BY <2>2, <2>3, <2>4 DEF LineOrder
  <2>6. ASSUME NEW p \in ToCome' PROVE p \in ToCome \/ (videoRecordFlag' # "NOTHING" /\ p = Sensor')
    <3>1. \/ \E i \in 1 .. n : p = Pos(r[i])
          \/ videoRecordFlag' # "NOTHING" /\ p = Sensor'
      BY <2>1, <2>2 DEF ToCome
    <3>2. ASSUME NEW i \in 1 .. n, p = Pos(r[i]) PROVE p \in ToCome
      <4>1. CASE i = n
        BY <1>3, <1>6, <2>1, <3>2, <4>1
      <4>2. CASE i \in 1 .. n - 1
        BY <2>1, <3>2, <4>2 DEF ToCome
      <4> QED
        BY <2>1, <4>1, <4>2
    <3> QED
      BY <3>1, <3>2
  <2> QED
    BY <1>4, <1>6, <2>5, <2>6
<1> QED
  BY <1>3, <1>9, <1>10

LEMMA FramesAreNumbers ==
    ASSUME NEW c \in [Outs -> Seq(Spot)], NEW w \in Seq(Outs), NEW put, KeptRise(put, w, c)
    PROVE  /\ put \in Nat
           /\ \A i \in DOMAIN w : w[i] \in Outs /\ FrameIn(c, w[i]) \in Nat
<1> SUFFICES ASSUME NEW i \in DOMAIN w
             PROVE  w[i] \in Outs /\ FrameIn(c, w[i]) \in Nat
  BY DEF KeptRise
<1>1. w[i] \in Outs
  OBVIOUS
<1> DEFINE s == c[w[i]]
<1>2. s \in Seq(Spot) /\ s # <<>>
  BY <1>1 DEF KeptRise
<1> HIDE DEF s
<1>3. s[1] \in Spot
  BY <1>2, SeqTails
<1>4. s[1][1] \in Nat
  BY <1>3, SpotParts
<1> QED
  BY <1>1, <1>4 DEF FrameIn, s

LEMMA KeptBeforeMore ==
    ASSUME NEW c \in [Outs -> Seq(Spot)], NEW w \in Seq(Outs), NEW put, KeptRise(put, w, c),
           NEW m \in Nat, NEW n \in Nat, m <= n, KeptBefore(put, w, c, m)
    PROVE  KeptBefore(put, w, c, n)
BY FramesAreNumbers DEF KeptBefore

(* Steps that leave the kept frames and those being written alone.                                *)
LEMMA OrderRests ==
    ASSUME OrderInv, UNCHANGED <<frame, newbuf, lines, waiting, content, lastPut>>,
           skip' = skip \/ skip' = TRUE, LineOrder', ToCome' \subseteq ToCome
    PROVE  OrderInv'
BY DEF OrderInv

LEMMA OrderSameLines ==
    ASSUME LineOrder, UNCHANGED <<jpegQ, frame, isr_count>>,
           videoRecordFlag' = "NOTHING" <=> videoRecordFlag = "NOTHING"
    PROVE  LineOrder' /\ ToCome' = ToCome
BY DEF LineOrder, ToCome, Sensor

LEMMA OrderLine ==
    ASSUME LineTypeOK, LineTypeOK', RestTypeOK, EngineInv, OrderInv, LineReady \/ LineGlitch
    PROVE  OrderInv'
<1> DEFINE Before(n) == KeptBefore(lastPut, waiting, content, n)
<1>1. UNCHANGED <<newbuf, lines, waiting, content, lastPut, skip>>
  BY DEF LineReady, LineGlitch, Line, frameVars, taskVars, restVars
<1>2. /\ LineOrder' /\ Sensor \in ToCome
      /\ \/ frame' = frame /\ isr_count' = isr_count + 1
         \/ frame' = frame + 1 /\ isr_count + 1 = LinesPerFrame /\ isr_count' = 0
         \/ frame' = frame /\ videoRecordFlag' = "NOTHING"
      /\ \A p \in ToCome' : p \in ToCome \/ (videoRecordFlag' # "NOTHING" /\ p = Sensor')
  BY OrderPuts DEF OrderInv
<1>3. frame \in Nat /\ frame' \in Nat /\ frame' >= frame /\ isr_count \in Nat /\ isr_count' \in Nat
  BY <1>2, Constants DEF LineTypeOK
<1>6. \A m, n \in Nat : Before(m) /\ m <= n => Before(n)
  <2>1. content \in [Outs -> Seq(Spot)] /\ waiting \in Seq(Outs) /\ KeptRise(lastPut, waiting, content)
    BY DEF RestTypeOK, OrderInv
  <2> QED
    BY <2>1, KeptBeforeMore
<1>7. /\ Sensor[1] = frame /\ Sensor[2] = isr_count + 1
      /\ Sensor'[1] = frame' /\ Sensor'[2] = isr_count' + 1
  BY DEF Sensor
<1>8. Before(frame)
  BY <1>2, <1>7 DEF OrderInv
<1>4. /\ \A p \in ToCome : p[1] <= frame /\ Before(p[1])
      /\ newbuf /\ ~skip => /\ lines[1][1] <= frame /\ Before(lines[1][1])
                            /\ \A p \in ToCome : Behind(lines[1], Len(lines), p)
  BY DEF OrderInv
<1>5. \A p \in ToCome : p[1] \in Nat
  BY ToComeAreSpots, SpotParts
<1> HIDE DEF Before
<1>9. Before(frame') /\ Before(frame' + 1)
  BY <1>3, <1>6, <1>8
<1>10. ASSUME NEW p \in ToCome'
       PROVE  p[1] <= frame' /\ Before(p[1])
  <2>1. CASE p \in ToCome
    <3>1. p[1] \in Nat /\ p[1] <= frame /\ Before(p[1])
      BY <1>4, <1>5, <2>1
    <3> QED
      BY <1>3, <3>1
  <2>2. CASE p = Sensor'
    <3>1. p[1] = frame'
      BY <1>7, <2>2
    <3> QED
      BY <1>3, <1>9, <3>1
  <2> QED
    BY <1>2, <2>1, <2>2
<1>11. ASSUME newbuf, ~skip
       PROVE  /\ lines[1][1] <= frame' /\ Before(lines[1][1])
              /\ \A p \in ToCome' : Behind(lines[1], Len(lines), p)
  <2>1. lines \in Seq(Spot) /\ lines # <<>>
    BY <1>11 DEF RestTypeOK, EngineInv, EngineState
  <2>2. lines[1] \in Spot /\ Len(lines) \in Nat
    BY <2>1, SeqTails
  <2>3. lines[1][1] \in Nat /\ lines[1][2] \in Nat
    BY <2>2, SpotParts
  <2>4. lines[1][1] <= frame /\ Before(lines[1][1]) /\ \A p \in ToCome : Behind(lines[1], Len(lines), p)
    BY <1>11, <1>4
  <2>5. Behind(lines[1], Len(lines), Sensor)
    BY <1>2, <2>4
  <2>6. videoRecordFlag' # "NOTHING" => Behind(lines[1], Len(lines), Sensor')
    <3> DEFINE k == Len(lines)
               f == lines[1][1]
               g == lines[1][2]
    <3>1. \/ frame > f + 1
          \/ frame = f /\ isr_count + 1 >= g + k
          \/ frame = f + 1 /\ isr_count + 1 + LinesPerFrame >= g + k
      BY <1>7, <2>5 DEF Behind
    <3>2. k \in Nat /\ f \in Nat /\ g \in Nat
      BY <2>2, <2>3
    <3> HIDE DEF k, f, g
    <3>3. videoRecordFlag' # "NOTHING" =>
             \/ frame' > f + 1
             \/ frame' = f /\ isr_count' + 1 >= g + k
             \/ frame' = f + 1 /\ isr_count' + 1 + LinesPerFrame >= g + k
      <4>1. CASE frame' = frame /\ isr_count' = isr_count + 1
        BY <1>3, <3>1, <3>2, <4>1, Constants
      <4>2. CASE frame' = frame + 1 /\ isr_count + 1 = LinesPerFrame /\ isr_count' = 0
        BY <1>3, <3>1, <3>2, <4>2, Constants
      <4> QED
        BY <1>2, <4>1, <4>2
    <3> QED
      BY <1>7, <3>3 DEF Behind, k, f, g
  <2>7. \A p \in ToCome' : Behind(lines[1], Len(lines), p)
    BY <1>2, <2>4, <2>6
  <2>8. lines[1][1] <= frame'
    BY <1>3, <2>3, <2>4
  <2> QED
    BY <2>4, <2>7, <2>8
<1>12. KeptRise(lastPut, waiting, content)
  BY DEF OrderInv
<1> QED
  BY <1>1, <1>2, <1>9, <1>10, <1>11, <1>12 DEF OrderInv, Before

(* A frame that waits is given up.                                                                *)
LEMMA KeptWithout ==
    ASSUME NEW c \in [Outs -> Seq(Spot)], NEW w \in Seq(Outs), NEW put, KeptRise(put, w, c),
           NEW i \in 1 .. Len(w)
    PROVE  /\ KeptRise(put, Without(w, i), c)
           /\ \A n : KeptBefore(put, w, c, n) => KeptBefore(put, Without(w, i), c, n)
<1> DEFINE v == Without(w, i)
<1>1. /\ v \in Seq(Outs) /\ Len(v) = Len(w) - 1
      /\ \A j \in 1 .. Len(w) - 1 : v[j] = IF j < i THEN w[j] ELSE w[j + 1]
  BY WithoutGives
<1> HIDE DEF v
<1>2. Len(w) \in Nat /\ DOMAIN w = 1 .. Len(w) /\ DOMAIN v = 1 .. Len(w) - 1
  BY <1>1
<1>3. ASSUME NEW j \in DOMAIN v
      PROVE  \E m \in DOMAIN w : v[j] = w[m] /\ m = IF j < i THEN j ELSE j + 1
  <2>1. /\ j \in 1 .. Len(w) - 1 /\ j \in DOMAIN w /\ j + 1 \in DOMAIN w
        /\ i \in Int /\ j \in Int
    BY <1>2
  <2>2. CASE j < i
    <3>1. v[j] = w[j]
      BY <1>1, <2>1, <2>2
    <3> QED
      BY <2>1, <2>2, <3>1
  <2>3. CASE ~(j < i)
    <3>1. v[j] = w[j + 1]
      BY <1>1, <2>1, <2>3
    <3> QED
      BY <2>1, <2>3, <3>1
  <2> QED
    BY <2>2, <2>3
<1>4. ASSUME NEW j \in DOMAIN v, NEW k \in DOMAIN v, j < k
      PROVE  FrameIn(c, v[j]) < FrameIn(c, v[k])
  <2>1. PICK m \in DOMAIN w : v[j] = w[m] /\ m = IF j < i THEN j ELSE j + 1
    BY <1>3
  <2>2. PICK n \in DOMAIN w : v[k] = w[n] /\ n = IF k < i THEN k ELSE k + 1
    BY <1>3
  <2>3. m < n
    BY <1>2, <1>4, <2>1, <2>2
  <2> QED
    BY <2>1, <2>2, <2>3 DEF KeptRise
<1>5. KeptRise(put, v, c)
  BY <1>3, <1>4 DEF KeptRise
<1>6. \A n : KeptBefore(put, w, c, n) => KeptBefore(put, v, c, n)
  BY <1>3 DEF KeptBefore
<1> QED
  BY <1>5, <1>6 DEF v

(* The first that waits is put.                                                                   *)
LEMMA KeptTail ==
    ASSUME NEW c \in [Outs -> Seq(Spot)], NEW w \in Seq(Outs), NEW put, KeptRise(put, w, c), w # <<>>
    PROVE  /\ KeptRise(FrameIn(c, Head(w)), Tail(w), c) /\ put < FrameIn(c, Head(w))
           /\ \A n : KeptBefore(put, w, c, n) => KeptBefore(FrameIn(c, Head(w)), Tail(w), c, n)
<1> DEFINE v == Tail(w)
<1>1. /\ Head(w) = w[1] /\ DOMAIN w = 1 .. Len(w) /\ DOMAIN v = 1 .. Len(w) - 1 /\ 1 \in 1 .. Len(w)
      /\ \A j \in 1 .. Len(w) - 1 : v[j] = w[j + 1] /\ j + 1 \in 1 .. Len(w) /\ 1 < j + 1
      /\ \A j \in 1 .. Len(w) - 1, k \in 1 .. Len(w) - 1 : j < k => j + 1 < k + 1
  BY SeqTails
<1> HIDE DEF v
<1>2. FrameIn(c, Head(w)) \in Nat /\ put < FrameIn(c, Head(w))
  <2>1. Head(w) = w[1] /\ 1 \in DOMAIN w
    BY <1>1
  <2>2. FrameIn(c, w[1]) \in Nat
    BY <2>1, FramesAreNumbers
  <2>3. put < FrameIn(c, w[1])
    BY <2>1 DEF KeptRise
  <2> QED
    BY <2>1, <2>2, <2>3
<1>3. \A j, k \in DOMAIN v : j < k => FrameIn(c, v[j]) < FrameIn(c, v[k])
  <2> SUFFICES ASSUME NEW j \in DOMAIN v, NEW k \in DOMAIN v, j < k
               PROVE  FrameIn(c, v[j]) < FrameIn(c, v[k])
    OBVIOUS
  <2>1. j + 1 \in DOMAIN w /\ k + 1 \in DOMAIN w /\ j + 1 < k + 1
    BY <1>1
  <2>2. FrameIn(c, w[j + 1]) < FrameIn(c, w[k + 1])
    BY <2>1 DEF KeptRise
  <2> QED
    BY <1>1, <2>2
<1>4. \A j \in DOMAIN v : FrameIn(c, Head(w)) < FrameIn(c, v[j]) /\ c[v[j]] # <<>>
  <2> SUFFICES ASSUME NEW j \in DOMAIN v
               PROVE  FrameIn(c, Head(w)) < FrameIn(c, v[j]) /\ c[v[j]] # <<>>
    OBVIOUS
  <2>1. j + 1 \in DOMAIN w /\ 1 < j + 1 /\ 1 \in DOMAIN w
    BY <1>1
  <2>2. FrameIn(c, w[1]) < FrameIn(c, w[j + 1]) /\ c[w[j + 1]] # <<>>
    BY <2>1 DEF KeptRise
  <2> QED
    BY <1>1, <2>2
<1>5. KeptRise(FrameIn(c, Head(w)), v, c)
  BY <1>2, <1>3, <1>4 DEF KeptRise
<1>6. \A n : KeptBefore(put, w, c, n) => KeptBefore(FrameIn(c, Head(w)), v, c, n)
  BY <1>1 DEF KeptBefore
<1> QED
  BY <1>2, <1>5, <1>6 DEF v

(* A frame later than all is kept in a buffer of its own: it waits, or is put with all that wait.  *)
LEMMA KeptAppend ==
    ASSUME NEW c \in [Outs -> Seq(Spot)], NEW w \in Seq(Outs), NEW put, KeptRise(put, w, c),
           NEW b \in Outs, b \notin In(w), NEW s \in Seq(Spot), s # <<>>,
           KeptBefore(put, w, c, s[1][1])
    PROVE  /\ s[1][1] \in Nat /\ put < s[1][1]
           /\ KeptRise(put, Append(w, b), [c EXCEPT ![b] = s])
           /\ KeptRise(s[1][1], <<>>, [c EXCEPT ![b] = s])
           /\ \A n : KeptBefore(put, w, c, n) /\ s[1][1] < n =>
                        /\ KeptBefore(put, Append(w, b), [c EXCEPT ![b] = s], n)
                        /\ KeptBefore(s[1][1], <<>>, [c EXCEPT ![b] = s], n)
<1> DEFINE v == Append(w, b)
           k == Len(w) + 1
           f == s[1][1]
           d == [c EXCEPT ![b] = s]
<1>1. /\ Len(w) \in Nat /\ DOMAIN w = 1 .. Len(w) /\ DOMAIN v = 1 .. k
      /\ \A i \in 1 .. Len(w) : v[i] = w[i]
      /\ v[k] = b /\ \A i \in 1 .. k : i \in 1 .. Len(w) \/ i = k
  <2>1. w \in Seq(Outs) /\ b \in Outs
    OBVIOUS
  <2> QED
    BY ONLY <2>1, SeqAppends
<1>2. f \in Nat
  <2>1. s[1] \in Spot
    BY SeqTails
  <2> QED
    BY <2>1, SpotParts
<1>0. k = Len(w) + 1 /\ k \in Nat /\ s[1][1] = f /\ d = [c EXCEPT ![b] = s]
  BY <1>1
<1> HIDE DEF v, k, f, d
<1>3. d[b] = s /\ FrameIn(d, b) = f /\ \A x \in Outs : x # b => d[x] = c[x] /\ FrameIn(d, x) = FrameIn(c, x)
  BY <1>0 DEF FrameIn
<1>4. \A i \in 1 .. Len(w) : w[i] \in Outs /\ w[i] # b
  BY <1>1 DEF In
<1>5. \A i \in 1 .. Len(w) : d[w[i]] = c[w[i]] /\ FrameIn(d, w[i]) = FrameIn(c, w[i])
  BY <1>3, <1>4
<1>6. KeptBefore(put, w, c, f)
  BY <1>0
<1>7. put \in Nat /\ put < f
  BY <1>6 DEF KeptRise, KeptBefore
<1>8. KeptRise(put, v, d)
  <2>1. \A i \in DOMAIN v : d[v[i]] # <<>> /\ put < FrameIn(d, v[i])
    <3> SUFFICES ASSUME NEW i \in 1 .. k
                 PROVE  d[v[i]] # <<>> /\ put < FrameIn(d, v[i])
      BY <1>1
    <3>1. CASE i = k
      BY <1>1, <1>3, <1>7, <3>1
    <3>2. CASE i \in 1 .. Len(w)
      BY <1>1, <1>5, <3>2 DEF KeptRise
    <3> QED
      BY <1>1, <3>1, <3>2
  <2>2. \A i, j \in DOMAIN v : i < j => FrameIn(d, v[i]) < FrameIn(d, v[j])
    <3> SUFFICES ASSUME NEW i \in 1 .. k, NEW j \in 1 .. k, i < j
                 PROVE  FrameIn(d, v[i]) < FrameIn(d, v[j])
      BY <1>1
    <3>1. i \in 1 .. Len(w)
      BY <1>0, <1>1
    <3>2. CASE j = k
      BY <1>1, <1>3, <1>5, <1>6, <3>1, <3>2 DEF KeptBefore
    <3>3. CASE j \in 1 .. Len(w)
      <4>1. FrameIn(c, w[i]) < FrameIn(c, w[j])
        BY <1>1, <3>1, <3>3 DEF KeptRise
      <4> QED
        BY <1>1, <1>5, <3>1, <3>3, <4>1
    <3> QED
      BY <1>1, <3>2, <3>3
  <2> QED
    BY <1>7, <2>1, <2>2 DEF KeptRise
<1>9. KeptRise(f, <<>>, d)
  BY <1>2 DEF KeptRise
<1>10. ASSUME NEW n, KeptBefore(put, w, c, n), f < n
       PROVE  KeptBefore(put, v, d, n) /\ KeptBefore(f, <<>>, d, n)
  <2>1. \A i \in 1 .. k : FrameIn(d, v[i]) < n
    <3> SUFFICES ASSUME NEW i \in 1 .. k PROVE FrameIn(d, v[i]) < n
      OBVIOUS
    <3>1. CASE i = k
      BY <1>1, <1>3, <1>10, <3>1
    <3>2. CASE i \in 1 .. Len(w)
      BY <1>1, <1>5, <1>10, <3>2 DEF KeptBefore
    <3> QED
      BY <1>1, <3>1, <3>2
  <2>2. KeptBefore(put, v, d, n)
    BY <1>1, <1>10, <2>1 DEF KeptBefore
  <2>3. KeptBefore(f, <<>>, d, n)
    BY <1>10 DEF KeptBefore
  <2> QED
    BY <2>2, <2>3
<1> QED
  BY <1>0, <1>2, <1>7, <1>8, <1>9, <1>10 DEF v, f, d

--------------------------------------------------------------------------------------------------
LEMMA OrderTakeLine ==
    ASSUME LineTypeOK, RestTypeOK, EngineInv, OffInv, OrderInv, TakeLine
    PROVE  OrderInv'
<1> DEFINE l == Pos(Head(jpegQ))
           Before(n) == KeptBefore(lastPut, waiting, content, n)
           Then(n) == KeptBefore(lastPut, waiting', content, n)
<1>1. /\ UNCHANGED <<videoRecordFlag, frame, isr_count, content, lastPut>>
      /\ jpegQ # <<>> /\ jpegQ' = Tail(jpegQ) /\ skip' = FALSE
  BY DEF TakeLine, Get, isrVars, restVars
<1>2. /\ LineOrder' /\ ToCome' \subseteq ToCome /\ l \in ToCome
      /\ \A p \in ToCome' : Earlier(l, p)
  BY <1>1, OrderGets DEF OrderInv
<1>3. /\ \A p \in ToCome : p \in Spot /\ p[1] \in Nat /\ p[2] \in Nat /\ p[2] >= 1 /\ p[2] <= LinesPerFrame
  BY ToComeAreSpots, SpotParts
<1>4. KeptRise(lastPut, waiting', content) /\ \A n : Before(n) => Then(n)
  <2>0. /\ content \in [Outs -> Seq(Spot)] /\ waiting \in Seq(Outs) /\ KeptRise(lastPut, waiting, content)
        /\ used \in [Outs -> BOOLEAN]
    BY DEF RestTypeOK, OrderInv
  <2>1. waiting' = waiting \/ \E i \in 1 .. Len(waiting) : waiting' = Without(waiting, i)
    <3>1. CASE skip \/ ~newbuf
      <4>1. Allocate(SkipEnds) /\ SkipEnds \in [Outs -> BOOLEAN]
        BY <2>0, <3>1 DEF TakeLine, SkipEnds
      <4> QED
        BY <4>1, AllocateGives
    <3>2. CASE ~(skip \/ ~newbuf)
      BY <3>2 DEF TakeLine
    <3> QED
      BY <3>1, <3>2
  <2>2. CASE waiting' = waiting
    BY <2>0, <2>2
  <2>3. ASSUME NEW i \in 1 .. Len(waiting), waiting' = Without(waiting, i)
        PROVE  KeptRise(lastPut, waiting', content) /\ \A n : Before(n) => Then(n)
    <3>1. /\ KeptRise(lastPut, Without(waiting, i), content)
          /\ \A n : KeptBefore(lastPut, waiting, content, n) => KeptBefore(lastPut, Without(waiting, i), content, n)
      BY ONLY <2>0, <2>3, KeptWithout
    <3> QED
      BY <2>3, <3>1
  <2> QED
    BY <2>1, <2>2, <2>3
<1>5. /\ Before(frame + 1) /\ \A p \in ToCome : p[1] <= frame /\ Before(p[1])
      /\ newbuf /\ ~skip => /\ lines[1][1] <= frame /\ Before(lines[1][1])
                            /\ \A p \in ToCome : Behind(lines[1], Len(lines), p)
  BY DEF OrderInv
<1>6. lines' = IF skip \/ ~newbuf THEN <<l>> ELSE Append(lines, l)
  BY DEF TakeLine, Pos
<1> HIDE DEF l, Before, Then
<1>7. /\ lines'[1][1] <= frame /\ Before(lines'[1][1])
      /\ \A p \in ToCome' : Behind(lines'[1], Len(lines'), p)
  <2>1. CASE skip \/ ~newbuf
    <3>1. lines'[1] = l /\ Len(lines') = 1
      BY <1>6, <2>1
    <3>2. \A p \in ToCome' : Behind(l, 1, p)
      <4> SUFFICES ASSUME NEW p \in ToCome' PROVE Behind(l, 1, p)
        OBVIOUS
      <4>1. Earlier(l, p) /\ p \in ToCome
        BY <1>2
      <4> QED
        BY <1>2, <1>3, <4>1, Constants DEF Earlier, Behind
    <3> QED
      BY <1>2, <1>5, <3>1, <3>2
  <2>2. CASE newbuf /\ ~skip
    <3>1. lines \in Seq(Spot) /\ lines # <<>> /\ l \in Spot
      BY <1>2, <1>3, <2>2 DEF RestTypeOK, EngineInv, EngineState
    <3>2. lines[1] \in Spot /\ Len(lines) \in Nat /\ 1 \in 1 .. Len(lines)
      BY <3>1, SeqTails
    <3>3. lines'[1] = lines[1] /\ Len(lines') = Len(lines) + 1
      <4>1. Append(lines, l)[1] = lines[1] /\ Len(Append(lines, l)) = Len(lines) + 1
        BY <3>1, <3>2, SeqAppends
      <4> QED
        BY <1>6, <2>2, <4>1
    <3>4. lines[1][1] \in Nat /\ lines[1][2] \in Nat
      BY <3>2, SpotParts
    <3>5. \A p \in ToCome' : Behind(lines[1], Len(lines) + 1, p)
      <4> SUFFICES ASSUME NEW p \in ToCome' PROVE Behind(lines[1], Len(lines) + 1, p)
        OBVIOUS
      <4>1. Earlier(l, p) /\ p \in ToCome /\ Behind(lines[1], Len(lines), l)
        BY <1>2, <1>5, <2>2
      <4> DEFINE k == Len(lines)
                 f == lines[1][1]
                 g == lines[1][2]
      <4>2. k \in Nat /\ f \in Nat /\ g \in Nat
        BY <3>2, <3>4
      <4>3. \/ l[1] > f + 1
            \/ l[1] = f /\ l[2] >= g + k
            \/ l[1] = f + 1 /\ l[2] + LinesPerFrame >= g + k
        BY <4>1 DEF Behind
      <4> HIDE DEF k, f, g
      <4>4. \/ p[1] > f + 1
            \/ p[1] = f /\ p[2] >= g + (k + 1)
            \/ p[1] = f + 1 /\ p[2] + LinesPerFrame >= g + (k + 1)
        <5>1. /\ p[1] \in Nat /\ p[2] \in Nat /\ p[2] >= 1
              /\ l[1] \in Nat /\ l[2] \in Nat /\ l[2] <= LinesPerFrame
              /\ l[1] < p[1] \/ (l[1] = p[1] /\ l[2] < p[2])
          BY <1>2, <1>3, <4>1 DEF Earlier
        <5>2. CASE l[1] > f + 1
          BY <4>2, <5>1, <5>2
        <5>3. CASE l[1] = f /\ l[2] >= g + k
          BY <4>2, <5>1, <5>3, Constants
        <5>4. CASE l[1] = f + 1 /\ l[2] + LinesPerFrame >= g + k
          BY <4>2, <5>1, <5>4, Constants
        <5> QED
          BY <4>3, <5>2, <5>3, <5>4
      <4> QED
        BY <4>4 DEF Behind, k, f, g
    <3> QED
      BY <1>5, <2>2, <3>3, <3>5
  <2> QED
    BY <2>1, <2>2 DEF RestTypeOK
<1> QED
  BY <1>1, <1>2, <1>4, <1>5, <1>7 DEF OrderInv, Before, Then

(* The frame done is whole, so that what is to come is of later frames.                           *)
LEMMA OrderDoneFrame ==
    ASSUME LineTypeOK, RestTypeOK, EngineInv, OutsInv, OrderInv, DoneFrame
    PROVE  OrderInv' /\ (lastPut' # lastPut => lastPut' > lastPut)
<1>1. /\ UNCHANGED <<jpegQ, videoRecordFlag, frame, isr_count, lines>> /\ newbuf' = FALSE
  BY DEF DoneFrame, FrameDone, isrVars
<1>2. LineOrder' /\ ToCome' = ToCome
  BY <1>1, OrderSameLines DEF OrderInv
<1>3. CASE out = None \/ skip
  <2>1. UNCHANGED <<waiting, content, lastPut>>
    BY <1>3 DEF DoneFrame, FrameDone
  <2> QED
    BY <1>1, <1>2, <2>1 DEF OrderInv
<1>4. CASE out # None /\ ~skip
  <2> DEFINE f == lines[1][1]
             Before(n) == KeptBefore(lastPut, waiting, content, n)
  <2>1. EngineState("DONE")
    BY EngineReceived DEF DoneFrame, EngineMsgs
  <2>2. newbuf /\ caller # "off" /\ lines # <<>> /\ empty_count = Len(lines) - 1
    BY <1>4, <2>1 DEF EngineState, LinesDone
  <2>3. /\ lines \in Seq(Spot) /\ content \in [Outs -> Seq(Spot)] /\ waiting \in Seq(Outs)
        /\ out \in Outs /\ empty_count \in Nat
    BY <1>4, Constants DEF RestTypeOK
  <2>4. Len(lines) \in Nat /\ Len(lines) >= LinesPerFrame
    BY <1>4, <2>2, <2>3, Constants DEF DoneFrame, FrameDone, LastLine
  <2>5. lines[1] \in Spot
    BY <2>2, <2>3, SeqTails
  <2>6. f \in Nat /\ lines[1][2] \in Nat /\ lines[1][2] >= 1
    BY <2>5, SpotParts
  <2>7. /\ f <= frame /\ Before(f) /\ Before(frame + 1)
        /\ \A p \in ToCome : Behind(lines[1], Len(lines), p) /\ p[1] <= frame /\ Before(p[1])
    BY <1>4, <2>2 DEF OrderInv
  <2>8. \A p \in ToCome : f < p[1]
    <3> SUFFICES ASSUME NEW p \in ToCome PROVE f < p[1]
      OBVIOUS
    <3>1. p[1] \in Nat /\ p[2] \in Nat /\ p[2] <= LinesPerFrame /\ Behind(lines[1], Len(lines), p)
      BY <2>7, ToComeAreSpots, SpotParts
    <3> QED
      BY <2>4, <2>6, <3>1, Constants DEF Behind
  <2>9. out \notin In(waiting)
    BY <2>2, <2>3 DEF OutsInv, HeldOnce, Holders
  <2>10. content' = [content EXCEPT ![out] = lines] /\ HandOver
    BY <1>4 DEF DoneFrame, FrameDone
  <2>11. KeptRise(lastPut, waiting, content) /\ KeptBefore(lastPut, waiting, content, f)
    BY <2>7 DEF OrderInv
  <2> DEFINE d == [content EXCEPT ![out] = lines]
  <2>12. d = content'
    BY <2>10
  <2>13. /\ lastPut < f /\ FrameIn(d, out) = f
         /\ KeptRise(lastPut, Append(waiting, out), d) /\ KeptRise(f, <<>>, d)
         /\ \A n : Before(n) /\ f < n =>
                      KeptBefore(lastPut, Append(waiting, out), d, n) /\ KeptBefore(f, <<>>, d, n)
    <3>1. /\ content \in [Outs -> Seq(Spot)] /\ waiting \in Seq(Outs)
          /\ KeptRise(lastPut, waiting, content) /\ out \in Outs /\ out \notin In(waiting)
          /\ lines \in Seq(Spot) /\ lines # <<>>
          /\ KeptBefore(lastPut, waiting, content, lines[1][1])
      BY <2>2, <2>3, <2>9, <2>11
    <3>2. lastPut < lines[1][1]
      BY ONLY <3>1, KeptAppend
    <3>3. FrameIn([content EXCEPT ![out] = lines], out) = lines[1][1]
      BY ONLY <3>1 DEF FrameIn
    <3>4. KeptRise(lastPut, Append(waiting, out), [content EXCEPT ![out] = lines])
      BY ONLY <3>1, KeptAppend
    <3>5. KeptRise(lines[1][1], <<>>, [content EXCEPT ![out] = lines])
      BY ONLY <3>1, KeptAppend
    <3>6. \A n : KeptBefore(lastPut, waiting, content, n) /\ lines[1][1] < n =>
                     /\ KeptBefore(lastPut, Append(waiting, out), [content EXCEPT ![out] = lines], n)
                     /\ KeptBefore(lines[1][1], <<>>, [content EXCEPT ![out] = lines], n)
      BY ONLY <3>1, KeptAppend
    <3> QED
      BY <3>2, <3>3, <3>4, <3>5, <3>6
  <2> HIDE DEF d
  <2>14. CASE PackerHungry
    <3>1. waiting' = <<>> /\ lastPut' = content'[Append(waiting, out)[Len(Append(waiting, out))]][1][1]
      BY <2>10, <2>14 DEF HandOver, Put
    <3>2. Append(waiting, out)[Len(Append(waiting, out))] = out
      BY <2>3, SeqAppends
    <3>3. lastPut' = f
      BY <2>12, <2>13, <3>1, <3>2 DEF FrameIn
    <3>4. \A n : Before(n) /\ f < n => KeptBefore(lastPut', waiting', content', n)
      BY <2>12, <2>13, <3>1, <3>3
    <3>5. KeptRise(lastPut', waiting', content')
      BY <2>12, <2>13, <3>1, <3>3
    <3>6. f < frame + 1
      BY <2>6, <2>7 DEF LineTypeOK
    <3> HIDE DEF f, Before
    <3> QED
      BY <1>1, <1>2, <2>7, <2>8, <2>13, <3>3, <3>4, <3>5, <3>6 DEF OrderInv
  <2>15. CASE ~PackerHungry
    <3>1. waiting' = Append(waiting, out) /\ lastPut' = lastPut
      BY <2>10, <2>15 DEF HandOver
    <3>4. \A n : Before(n) /\ f < n => KeptBefore(lastPut', waiting', content', n)
      BY <2>12, <2>13, <3>1
    <3>5. KeptRise(lastPut', waiting', content')
      BY <2>12, <2>13, <3>1
    <3>6. f < frame + 1
      BY <2>6, <2>7 DEF LineTypeOK
    <3> HIDE DEF f, Before
    <3> QED
      BY <1>1, <1>2, <2>7, <2>8, <3>1, <3>4, <3>5, <3>6 DEF OrderInv
  <2> QED
    BY <2>14, <2>15
<1> QED
  BY <1>3, <1>4

LEMMA OrderWriteDone ==
    ASSUME LineTypeOK, RestTypeOK, OrderInv, WriteDone
    PROVE  OrderInv' /\ (lastPut' # lastPut => lastPut' > lastPut)
<1>1. UNCHANGED <<jpegQ, videoRecordFlag, frame, isr_count, lines, newbuf, skip, content>>
  BY DEF WriteDone, isrVars, taskVars
<1>2. LineOrder' /\ ToCome' = ToCome
  BY <1>1, OrderSameLines DEF OrderInv
<1>3. CASE waiting = <<>>
  <2>1. UNCHANGED <<waiting, lastPut>>
    BY <1>3 DEF WriteDone
  <2> QED
    BY <1>1, <1>2, <2>1 DEF OrderInv
<1>4. CASE waiting # <<>>
  <2>1. waiting' = Tail(waiting) /\ lastPut' = FrameIn(content, Head(waiting))
    BY <1>4 DEF WriteDone, FrameIn
  <2>2. /\ content \in [Outs -> Seq(Spot)] /\ waiting \in Seq(Outs) /\ KeptRise(lastPut, waiting, content)
    BY DEF RestTypeOK, OrderInv
  <2>3. /\ KeptRise(lastPut', waiting', content) /\ lastPut < lastPut'
        /\ \A n : KeptBefore(lastPut, waiting, content, n) => KeptBefore(lastPut', waiting', content, n)
    <3>1. /\ KeptRise(FrameIn(content, Head(waiting)), Tail(waiting), content)
          /\ lastPut < FrameIn(content, Head(waiting))
          /\ \A n : KeptBefore(lastPut, waiting, content, n) =>
                       KeptBefore(FrameIn(content, Head(waiting)), Tail(waiting), content, n)
      BY ONLY <1>4, <2>2, KeptTail
    <3> QED
      BY <2>1, <3>1
  <2> QED
    BY <1>1, <1>2, <2>3 DEF OrderInv
<1> QED
  BY <1>3, <1>4

LEMMA OrderStartStop ==
    ASSUME LineTypeOK, LineTypeOK', RestTypeOK, OrderInv, Start \/ Stopped
    PROVE  OrderInv'
<1>0. frame \in Nat /\ lastPut \in Nat /\ lastPut < frame + 1
  BY DEF LineTypeOK, OrderInv, KeptRise, KeptBefore
<1>1. /\ jpegQ' = <<>> /\ waiting' = <<>> /\ UNCHANGED <<lines, content, lastPut>>
      /\ KeptRise(lastPut', waiting', content')
      /\ \A n : KeptBefore(lastPut, waiting, content, n) => KeptBefore(lastPut', waiting', content', n)
  <2>1. jpegQ' = <<>> /\ waiting' = <<>> /\ UNCHANGED <<lines, content, lastPut>>
    BY DEF Start, Stopped
  <2> QED
    BY <1>0, <2>1 DEF KeptRise, KeptBefore
<1>2. LineOrder'
  BY <1>1 DEF LineOrder
<1>3. CASE Start
  <2>1. newbuf' = FALSE /\ frame' = frame + 1 /\ isr_count' = 0
    BY <1>3 DEF Start
  <2>2. KeptBefore(lastPut', waiting', content', frame') /\ KeptBefore(lastPut', waiting', content', frame' + 1)
    BY <1>0, <1>1, <2>1 DEF KeptBefore
  <2>3. \A p \in ToCome' : p[1] = frame'
    BY <1>1 DEF ToCome, Sensor
  <2>4. \A p \in ToCome' : p[1] <= frame'
    BY <1>0, <2>1, <2>3
  <2>5. \A p \in ToCome' : KeptBefore(lastPut', waiting', content', p[1])
    BY <2>2, <2>3
  <2> QED
    BY <1>1, <1>2, <2>1, <2>2, <2>4, <2>5 DEF OrderInv
<1>4. CASE Stopped
  <2>1. ToCome' = {} /\ UNCHANGED <<newbuf, skip, frame>>
    BY <1>1, <1>4 DEF ToCome, Stopped
  <2> QED
    BY <1>1, <1>2, <2>1 DEF OrderInv
<1> QED
  BY <1>3, <1>4

LEMMA OrderStep ==
    ASSUME LineInv, LineInv', RestTypeOK, EngineInv, OffInv, OutsInv, OrderInv, [Next]_vars
    PROVE  OrderInv' /\ (lastPut' # lastPut => lastPut' > lastPut)
<1>0. LineTypeOK /\ LineTypeOK'
  BY DEF LineInv
<1>1. CASE Start \/ Stopped
  BY <1>0, <1>1, OrderStartStop DEF Start, Stopped
<1>2. CASE LineReady \/ LineGlitch
  <2>1. lastPut' = lastPut
    BY <1>2 DEF LineReady, LineGlitch, Line, restVars
  <2> QED
    BY <1>0, <1>2, <2>1, OrderLine
<1>3. CASE TakeLine
  <2>1. lastPut' = lastPut
    BY <1>3 DEF TakeLine, restVars
  <2> QED
    BY <1>0, <1>3, <2>1, OrderTakeLine
<1>4. CASE DoneFrame
  BY <1>0, <1>4, OrderDoneFrame
<1>5. CASE WriteDone
  BY <1>0, <1>5, OrderWriteDone
<1>6. CASE TakeDummy \/ TakeSkipped
  <2>1. /\ jpegQ # <<>> /\ jpegQ' = Tail(jpegQ) /\ (skip' = skip \/ skip' = TRUE)
        /\ UNCHANGED <<videoRecordFlag, isr_count, frame, newbuf, lines, waiting, content, lastPut>>
    BY <1>6 DEF TakeDummy, TakeSkipped, Get, isrVars, frameVars, restVars
  <2>2. LineOrder' /\ ToCome' \subseteq ToCome
    BY <1>0, <2>1, OrderGets DEF OrderInv
  <2> QED
    BY <2>1, <2>2, OrderRests
<1>7. CASE Stop
  <2>1. /\ skip' = skip /\ UNCHANGED <<jpegQ, isr_count, frame, newbuf, lines, waiting, content, lastPut>>
        /\ videoRecordFlag' = "STOP" /\ videoRecordFlag = "RECING"
    BY <1>7 DEF Stop, LineInv, queueVars, frameVars, taskVars
  <2>2. LineOrder' /\ ToCome' = ToCome
    BY <2>1, OrderSameLines DEF OrderInv
  <2> QED
    BY <2>1, <2>2, OrderRests
<1>8. CASE \/ EngineDone \/ EngineFull \/ Notify \/ Full \/ FullSw \/ DoneLine \/ DoneTooLong
           \/ PackerWrites \/ TakeBusy \/ GiveBack \/ TakeNothing \/ UNCHANGED vars
  <2>1. /\ UNCHANGED <<jpegQ, videoRecordFlag, isr_count, frame, newbuf, lines, waiting, content, lastPut>>
        /\ skip' = skip \/ skip' = TRUE
    BY <1>8 DEF EngineDone, EngineFull, Notify, Full, FullSw, DoneLine, DoneTooLong, PackerWrites,
                TakeBusy, GiveBack, TakeNothing, vars, isrVars, queueVars, frameVars, taskVars, restVars
  <2>2. LineOrder' /\ ToCome' = ToCome
    BY <2>1, OrderSameLines DEF OrderInv
  <2> QED
    BY <2>1, <2>2, OrderRests
<1> QED
  BY <1>0, <1>1, <1>2, <1>3, <1>4, <1>5, <1>6, <1>7, <1>8
  DEF Next, InterruptStep, EncoderStep, TakeStep, CallerStep

--------------------------------------------------------------------------------------------------
(* Whole frames.                                                                                  *)
After(p) == IF p[2] = LinesPerFrame THEN <<p[1] + 1, 1>> ELSE <<p[1], p[2] + 1>>
AnyToCome == jpegQ # <<>> \/ videoRecordFlag # "NOTHING"
NextToCome == IF jpegQ # <<>> THEN Pos(jpegQ[1]) ELSE Sensor

(* Each line to come is the one after the line before it.                                         *)
Chain ==
    /\ \A i, j \in DOMAIN jpegQ : j = i + 1 => Pos(jpegQ[j]) = After(Pos(jpegQ[i]))
    /\ jpegQ # <<>> /\ videoRecordFlag # "NOTHING" => Sensor = After(Pos(jpegQ[Len(jpegQ)]))

(* Unless a line was refused nothing is lost between the lines taken and those to come; and a     *)
(* frame that is kept begins with its first line.                                                 *)
LinesInv ==
    ~overrun /\ caller # "off" =>
        /\ Chain
        /\ ~newbuf /\ ~skip /\ AnyToCome => NextToCome[2] = 1
        /\ newbuf /\ ~skip => /\ Len(lines) <= LinesPerFrame
                              /\ \A l \in DOMAIN lines : lines[l] = <<lines[1][1], l>>
                              /\ AnyToCome => NextToCome = After(lines[Len(lines)])

WholeLines(s) == s = [l \in 1 .. LinesPerFrame |-> <<s[1][1], l>>]

(* The first of the lines to come is taken: the one after it is the next.                         *)
LEMMA ChainGets ==
    ASSUME LineTypeOK, Chain, jpegQ # <<>>, jpegQ' = Tail(jpegQ),
           UNCHANGED <<videoRecordFlag, frame, isr_count>>
    PROVE  /\ Chain' /\ AnyToCome /\ NextToCome = Pos(Head(jpegQ))
           /\ AnyToCome' => NextToCome' = After(Pos(Head(jpegQ)))
<1> DEFINE r == Tail(jpegQ)
           n == Len(jpegQ)
<1>0. jpegQ \in Seq(Entry)
  BY DEF LineTypeOK
<1>1. /\ Head(jpegQ) = jpegQ[1] /\ n \in Nat /\ n >= 1 /\ DOMAIN jpegQ = 1 .. n /\ DOMAIN r = 1 .. n - 1
      /\ \A i \in 1 .. n - 1 : r[i] = jpegQ[i + 1] /\ i + 1 \in 1 .. n
      /\ 1 \in 1 .. n /\ Len(r) = n - 1
  BY <1>0, SeqTails
<1>2. r # <<>> <=> n > 1
  BY <1>0, <1>1
<1> HIDE DEF r, n
<1>3. jpegQ' = r /\ Sensor' = Sensor
  BY DEF r, Sensor
<1>4. \A i, j \in DOMAIN r : j = i + 1 => Pos(r[j]) = After(Pos(r[i]))
  <2> SUFFICES ASSUME NEW i \in 1 .. n - 1, NEW j \in 1 .. n - 1, j = i + 1
               PROVE  Pos(r[j]) = After(Pos(r[i]))
    BY <1>1
  <2>1. i + 1 \in DOMAIN jpegQ /\ j + 1 \in DOMAIN jpegQ /\ j + 1 = (i + 1) + 1
    BY <1>1
  <2>2. Pos(jpegQ[j + 1]) = After(Pos(jpegQ[i + 1]))
    BY <2>1 DEF Chain
  <2> QED
    BY <1>1, <2>2
<1>5. r # <<>> /\ videoRecordFlag # "NOTHING" => Sensor = After(Pos(r[Len(r)]))
  <2> SUFFICES ASSUME n > 1, videoRecordFlag # "NOTHING"
               PROVE  Sensor = After(Pos(r[n - 1]))
    BY <1>1, <1>2
  <2>1. r[n - 1] = jpegQ[n]
    BY <1>1
  <2> QED
    BY <2>1 DEF Chain, n
<1>6. Chain'
  BY <1>3, <1>4, <1>5 DEF Chain
<1>7. AnyToCome /\ NextToCome = Pos(Head(jpegQ))
  BY <1>1 DEF AnyToCome, NextToCome
<1>8. ASSUME AnyToCome' PROVE NextToCome' = After(Pos(Head(jpegQ)))
  <2>1. CASE n > 1
    <3>1. 1 \in DOMAIN jpegQ /\ 1 + 1 \in DOMAIN jpegQ /\ r[1] = jpegQ[1 + 1]
      BY <1>1, <2>1
    <3>2. Pos(jpegQ[1 + 1]) = After(Pos(jpegQ[1]))
      BY <3>1 DEF Chain
    <3> QED
      BY <1>1, <1>2, <1>3, <2>1, <3>1, <3>2 DEF NextToCome
  <2>2. CASE n = 1
    <3>1. r = <<>> /\ videoRecordFlag # "NOTHING"
      BY <1>2, <1>3, <1>8, <2>2 DEF AnyToCome
    <3>2. Sensor = After(Pos(jpegQ[1]))
      BY <2>2, <3>1 DEF Chain, n
    <3> QED
      BY <1>1, <1>3, <3>1, <3>2 DEF NextToCome
  <2> QED
    BY <1>1, <2>1, <2>2
<1> QED
  BY <1>6, <1>7, <1>8

(* The line that the interrupt was at is queued: the next is the one after it.                    *)
LEMMA ChainPuts ==
    ASSUME LineTypeOK, Chain, LineReady \/ LineGlitch, overrun' = overrun
    PROVE  overrun \/ (Chain' /\ AnyToCome /\ NextToCome' = NextToCome)
<1>1. PICK g \in BOOLEAN : Line(g)
  BY DEF LineReady, LineGlitch
<1>2. videoRecordFlag # "NOTHING" /\ frame \in Nat /\ isr_count \in 0 .. LinesPerFrame - 1
      /\ jpegQ \in Seq(Entry)
  BY <1>1 DEF Line, LineTypeOK
<1> SUFFICES ASSUME overrun' # TRUE
             PROVE  Chain' /\ AnyToCome /\ NextToCome' = NextToCome
  BY <1>1 DEF Line
<1>3. PICK e \in Entry : Pos(e) = Sensor /\ jpegQ' = Append(jpegQ, e)
  <2> DEFINE e == [addr |-> IF g THEN Dummy ELSE bak0, frame |-> frame, line |-> isr_count + 1]
  <2>1. e \in Entry
    BY <1>2, Constants DEF Entry, LineTypeOK
  <2>2. jpegQ' = Append(jpegQ, e)
    BY <1>1 DEF Line
  <2>3. Pos(e) = Sensor
    BY DEF Pos, Sensor
  <2> QED
    BY <2>1, <2>2, <2>3
<1>4. videoRecordFlag' # "NOTHING" => Sensor' = After(Sensor)
  <2> SUFFICES ASSUME videoRecordFlag' # "NOTHING"
               PROVE  Sensor' = After(Sensor)
    OBVIOUS
  <2>1. ~StopsHere
    BY <1>1 DEF Line
  <2>2. isr_count' = (isr_count + 1) % LinesPerFrame /\ frame' = IF FrameEnds THEN frame + 1 ELSE frame
    BY <1>1, <2>1 DEF Line
  <2>3. CASE FrameEnds
    <3>1. isr_count' = 0 /\ frame' = frame + 1
      BY <1>2, <2>2, <2>3, Constants DEF FrameEnds
    <3> QED
      BY <2>3, <3>1 DEF Sensor, After, FrameEnds
  <2>4. CASE ~FrameEnds
    <3>1. isr_count + 1 < LinesPerFrame
      BY <1>2, <2>4, Constants DEF FrameEnds
    <3>2. isr_count' = isr_count + 1 /\ frame' = frame
      BY <1>2, <2>2, <2>4, <3>1, Constants
    <3> QED
      BY <2>4, <3>2 DEF Sensor, After, FrameEnds
  <2> QED
    BY <2>3, <2>4
<1> DEFINE r == Append(jpegQ, e)
           n == Len(jpegQ) + 1
<1>5. /\ n \in Nat /\ n >= 1 /\ DOMAIN jpegQ = 1 .. n - 1 /\ DOMAIN r = 1 .. n /\ Len(r) = n /\ Len(jpegQ) = n - 1
      /\ \A i \in 1 .. n - 1 : r[i] = jpegQ[i]
      /\ r[n] = e /\ \A i \in 1 .. n : i \in 1 .. n - 1 \/ i = n
  <2>1. Len(jpegQ) \in Nat
    BY <1>2, SeqAppends
  <2> QED
    BY <1>2, <1>3, <2>1, SeqAppends
<1>6. r # <<>> /\ jpegQ' = r /\ (jpegQ # <<>> <=> n > 1)
  BY <1>2, <1>3, <1>5, SeqAppends
<1> HIDE DEF r, n
<1>7. \A i, j \in DOMAIN r : j = i + 1 => Pos(r[j]) = After(Pos(r[i]))
  <2> SUFFICES ASSUME NEW i \in 1 .. n, NEW j \in 1 .. n, j = i + 1
               PROVE  Pos(r[j]) = After(Pos(r[i]))
    BY <1>5
  <2>1. i \in 1 .. n - 1
    BY <1>5
  <2>2. CASE j = n
    <3>1. i = Len(jpegQ) /\ n > 1
      BY <1>5, <2>1, <2>2
    <3>2. Sensor = After(Pos(jpegQ[i]))
      BY <1>2, <1>6, <3>1 DEF Chain
    <3> QED
      BY <1>3, <1>5, <2>1, <2>2, <3>2
  <2>3. CASE j \in 1 .. n - 1
    <3>1. Pos(jpegQ[j]) = After(Pos(jpegQ[i]))
      BY <1>5, <2>1, <2>3 DEF Chain
    <3> QED
      BY <1>5, <2>1, <2>3, <3>1
  <2> QED
    BY <1>5, <2>2, <2>3
<1>8. videoRecordFlag' # "NOTHING" => Sensor' = After(Pos(r[Len(r)]))
  BY <1>3, <1>4, <1>5
<1>9. Chain'
  BY <1>6, <1>7, <1>8 DEF Chain
<1>10. NextToCome' = NextToCome
  <2>1. CASE n > 1
    <3>1. r[1] = jpegQ[1]
      BY <1>5, <2>1
    <3> QED
      BY <1>6, <2>1, <3>1 DEF NextToCome
  <2>2. CASE n = 1
    BY <1>3, <1>5, <1>6, <2>2 DEF NextToCome
  <2> QED
    BY <1>5, <2>1, <2>2
<1> QED
  BY <1>2, <1>9, <1>10 DEF AnyToCome

LEMMA LinesRest ==
    ASSUME LinesInv, UNCHANGED <<jpegQ, frame, isr_count, newbuf, lines, caller, overrun>>,
           videoRecordFlag' = "NOTHING" <=> videoRecordFlag = "NOTHING",
           skip' = skip \/ skip' = TRUE
    PROVE  LinesInv'
BY DEF LinesInv, Chain, AnyToCome, NextToCome, Sensor

LEMMA LinesLine ==
    ASSUME LineTypeOK, LinesInv, LineReady \/ LineGlitch
    PROVE  LinesInv'
<1>1. UNCHANGED <<newbuf, lines, skip, caller>> /\ (overrun' = overrun \/ overrun' = TRUE)
  BY DEF LineReady, LineGlitch, Line, frameVars, taskVars, restVars
<1> SUFFICES ASSUME ~overrun', caller' # "off"
             PROVE  /\ Chain'
                    /\ ~newbuf /\ ~skip /\ AnyToCome' => NextToCome'[2] = 1
                    /\ newbuf /\ ~skip => /\ Len(lines) <= LinesPerFrame
                                          /\ \A l \in DOMAIN lines : lines[l] = <<lines[1][1], l>>
                                          /\ AnyToCome' => NextToCome' = After(lines[Len(lines)])
  BY <1>1 DEF LinesInv
<1>2. ~overrun /\ caller # "off"
  BY <1>1
<1>3. Chain' /\ AnyToCome /\ NextToCome' = NextToCome
  BY <1>1, <1>2, ChainPuts DEF LinesInv
<1> QED
  BY <1>2, <1>3 DEF LinesInv

(* The first line of a frame, or the one that its frame goes on with.                             *)
LEMMA LinesTakeLine ==
    ASSUME LineTypeOK, RestTypeOK, EngineInv, OffInv, LinesInv, TakeLine
    PROVE  LinesInv'
<1> DEFINE l == Pos(Head(jpegQ))
<1>1. /\ UNCHANGED <<videoRecordFlag, frame, isr_count, overrun, caller>>
      /\ jpegQ # <<>> /\ jpegQ' = Tail(jpegQ) /\ skip' = FALSE /\ newbuf' = TRUE
      /\ lines' = IF skip \/ ~newbuf THEN <<l>> ELSE Append(lines, l)
      /\ skip => Head(jpegQ).line = 1
  BY DEF TakeLine, Get, isrVars, restVars, Pos
<1> SUFFICES ASSUME ~overrun, caller # "off"
             PROVE  /\ Chain' /\ Len(lines') <= LinesPerFrame
                    /\ \A i \in DOMAIN lines' : lines'[i] = <<lines'[1][1], i>>
                    /\ AnyToCome' => NextToCome' = After(lines'[Len(lines')])
  BY <1>1 DEF LinesInv
<1>2. /\ Chain' /\ AnyToCome /\ NextToCome = l
      /\ AnyToCome' => NextToCome' = After(l)
  BY <1>1, ChainGets DEF LinesInv
<1>3. l \in Spot /\ l[1] = Head(jpegQ).frame /\ l[2] = Head(jpegQ).line
  BY <1>1, HeadOfQueue DEF LineTypeOK, Pos
<1>4. l = <<l[1], l[2]>>
  BY DEF Pos
<1> HIDE DEF l
<1>5. CASE skip \/ ~newbuf
  <2>1. l[2] = 1
    BY <1>1, <1>2, <1>3, <1>5 DEF LinesInv
  <2>2. lines' = <<l>>
    BY <1>1, <1>5
  <2>3. Len(lines') = 1 /\ DOMAIN lines' = 1 .. 1 /\ lines'[1] = l
    BY <2>2
  <2>4. \A i \in DOMAIN lines' : lines'[i] = <<lines'[1][1], i>>
    BY <1>4, <2>1, <2>3
  <2> QED
    BY <1>2, <2>3, <2>4, Constants
<1>6. CASE newbuf /\ ~skip
  <2>1. lines \in Seq(Spot) /\ lines # <<>> /\ empty_count = Len(lines) /\ empty_count < LinesPerFrame
    <3>1. hw = "off" /\ EngineState("none")
      BY EngineAtGet DEF TakeLine
    <3> QED
      BY <1>6, <3>1, Constants DEF EngineState, LinesDone, RestTypeOK
  <2>2. /\ \A i \in DOMAIN lines : lines[i] = <<lines[1][1], i>>
        /\ l = After(lines[Len(lines)])
    BY <1>2, <1>6 DEF LinesInv
  <2> DEFINE r == Append(lines, l)
             n == Len(lines)
  <2>3. /\ n \in Nat /\ n >= 1 /\ DOMAIN lines = 1 .. n /\ DOMAIN r = 1 .. n + 1 /\ Len(r) = n + 1
        /\ \A i \in 1 .. n : r[i] = lines[i]
        /\ r[n + 1] = l /\ \A i \in 1 .. n + 1 : i \in 1 .. n \/ i = n + 1
    <3>1. n \in Nat /\ n >= 1
      BY <2>1, SeqTails
    <3> QED
      BY <1>3, <2>1, <3>1, SeqAppends
  <2>4. lines' = r /\ n < LinesPerFrame
    BY <1>1, <1>6, <2>1
  <2> HIDE DEF r, n
  <2>5. lines[n] = <<lines[1][1], n>> /\ r[1] = lines[1]
    BY <2>2, <2>3
  <2>6. l = After(lines[n])
    BY <2>2 DEF n
  <2>7. l = <<lines[1][1], n + 1>>
    BY <2>3, <2>4, <2>5, <2>6, Constants DEF After
  <2>8. \A i \in 1 .. n + 1 : r[i] = <<r[1][1], i>>
    <3> SUFFICES ASSUME NEW i \in 1 .. n + 1 PROVE r[i] = <<r[1][1], i>>
      OBVIOUS
    <3>1. CASE i \in 1 .. n
      BY <2>2, <2>3, <2>5, <3>1
    <3>2. CASE i = n + 1
      BY <2>3, <2>5, <2>7, <3>2
    <3> QED
      BY <2>3, <3>1, <3>2
  <2>9. Len(r) <= LinesPerFrame
    BY <2>3, <2>4, Constants
  <2> QED
    BY <1>2, <2>3, <2>4, <2>8, <2>9
<1> QED
  BY <1>5, <1>6 DEF RestTypeOK

(* The frame done has all its lines.                                                              *)
LEMMA FrameDoneIsWhole ==
    ASSUME RestTypeOK, EngineInv, LinesInv, DoneFrame, ~skip, ~overrun
    PROVE  /\ newbuf /\ caller # "off" /\ WholeLines(lines)
           /\ AnyToCome => NextToCome[2] = 1
<1>1. EngineState("DONE")
  BY EngineReceived DEF DoneFrame, EngineMsgs
<1>2. newbuf /\ caller # "off" /\ lines # <<>> /\ empty_count = Len(lines) - 1
  BY <1>1 DEF EngineState, LinesDone
<1>3. lines \in Seq(Spot) /\ empty_count \in Nat
  BY Constants DEF RestTypeOK
<1>4. Len(lines) \in Nat /\ DOMAIN lines = 1 .. Len(lines)
  BY <1>3, SeqAppends
<1>5. /\ Len(lines) <= LinesPerFrame /\ \A l \in DOMAIN lines : lines[l] = <<lines[1][1], l>>
      /\ AnyToCome => NextToCome = After(lines[Len(lines)])
  BY <1>2 DEF LinesInv
<1>6. Len(lines) = LinesPerFrame
  BY <1>2, <1>3, <1>4, <1>5, Constants DEF DoneFrame, FrameDone, LastLine
<1>7. lines = [l \in 1 .. LinesPerFrame |-> <<lines[1][1], l>>]
  <2> DEFINE f == [l \in 1 .. LinesPerFrame |-> <<lines[1][1], l>>]
  <2>1. DOMAIN lines = DOMAIN f /\ \A l \in DOMAIN lines : lines[l] = f[l]
    BY <1>4, <1>5, <1>6
  <2>2. lines = [l \in DOMAIN lines |-> lines[l]] /\ f = [l \in DOMAIN f |-> f[l]]
    BY <1>3
  <2> HIDE DEF f
  <2>3. lines = f
    BY <2>1, <2>2
  <2> QED
    BY <2>3 DEF f
<1>8. AnyToCome => NextToCome[2] = 1
  <2>1. lines[LinesPerFrame] = <<lines[1][1], LinesPerFrame>>
    BY <1>4, <1>5, <1>6, Constants
  <2> QED
    BY <1>5, <1>6, <2>1 DEF After
<1> QED
  BY <1>2, <1>7, <1>8 DEF WholeLines

LEMMA LinesStep ==
    ASSUME LineInv, RestTypeOK, EngineInv, OffInv, LinesInv, [Next]_vars
    PROVE  LinesInv'
<1>0. LineTypeOK
  BY DEF LineInv
<1>1. CASE Start
  <2>1. jpegQ' = <<>> /\ newbuf' = FALSE /\ isr_count' = 0
    BY <1>1 DEF Start
  <2> QED
    BY <2>1 DEF LinesInv, Chain, NextToCome, Sensor
<1>2. CASE Stopped
  BY <1>2 DEF Stopped, LinesInv
<1>3. CASE LineReady \/ LineGlitch
  BY <1>0, <1>3, LinesLine
<1>4. CASE TakeLine
  BY <1>0, <1>4, LinesTakeLine
<1>5. CASE DoneFrame
  <2>1. /\ UNCHANGED <<jpegQ, videoRecordFlag, isr_count, frame, overrun, lines, skip, caller>>
        /\ newbuf' = FALSE
    BY <1>5 DEF DoneFrame, FrameDone, isrVars
  <2>2. Chain' = Chain /\ AnyToCome' = AnyToCome /\ NextToCome' = NextToCome
    BY <2>1 DEF Chain, AnyToCome, NextToCome, Sensor
  <2>3. ~overrun /\ ~skip => (AnyToCome => NextToCome[2] = 1)
    BY <1>5, FrameDoneIsWhole
  <2> QED
    BY <2>1, <2>2, <2>3 DEF LinesInv
<1>6. CASE TakeDummy \/ TakeSkipped
  <2>1. /\ jpegQ # <<>> /\ jpegQ' = Tail(jpegQ) /\ skip' = TRUE
        /\ UNCHANGED <<videoRecordFlag, isr_count, frame, overrun, caller>>
    BY <1>6 DEF TakeDummy, TakeSkipped, Get, isrVars, restVars, RestTypeOK
  <2>2. ~overrun /\ caller # "off" => Chain'
    BY <1>0, <2>1, ChainGets DEF LinesInv
  <2> QED
    BY <2>1, <2>2 DEF LinesInv
<1>7. CASE Stop
  <2>1. /\ skip' = skip /\ UNCHANGED <<jpegQ, isr_count, frame, newbuf, lines, overrun>>
        /\ videoRecordFlag' = "STOP" /\ videoRecordFlag = "RECING" /\ caller # "off"
    BY <1>7 DEF Stop, LineInv, queueVars, frameVars, taskVars
  <2> QED
    BY <2>1 DEF LinesInv, Chain, AnyToCome, NextToCome, Sensor
<1>8. CASE \/ EngineDone \/ EngineFull \/ Notify \/ Full \/ FullSw \/ DoneLine \/ DoneTooLong
           \/ WriteDone \/ PackerWrites \/ TakeBusy \/ GiveBack \/ TakeNothing \/ UNCHANGED vars
  <2>1. /\ UNCHANGED <<jpegQ, videoRecordFlag, isr_count, frame, newbuf, lines, caller, overrun>>
        /\ skip' = skip \/ skip' = TRUE
    BY <1>8 DEF EngineDone, EngineFull, Notify, Full, FullSw, DoneLine, DoneTooLong, WriteDone, PackerWrites,
                TakeBusy, GiveBack, TakeNothing, vars, isrVars, queueVars, frameVars, taskVars, restVars
  <2> QED
    BY <2>1, LinesRest
<1> QED
  BY <1>1, <1>2, <1>3, <1>4, <1>5, <1>6, <1>7, <1>8
  DEF Next, InterruptStep, EncoderStep, TakeStep, CallerStep

Kept == In(waiting) \cup In(packer)

LEMMA WholeRests ==
    ASSUME WholeFrames, Kept' \subseteq Kept, content' = content, overrun' = overrun \/ overrun' = TRUE
    PROVE  WholeFrames'
<1>1. ~overrun' => ~overrun
  OBVIOUS
<1> QED
  BY <1>1 DEF WholeFrames, Kept

LEMMA WholeDoneFrame ==
    ASSUME RestTypeOK, EngineInv, OutsInv, LinesInv, WholeFrames, DoneFrame
    PROVE  WholeFrames'
<1>1. overrun' = overrun
  BY DEF DoneFrame, isrVars
<1>2. CASE out = None \/ skip
  <2>1. UNCHANGED <<waiting, packer, content>>
    BY <1>2 DEF DoneFrame, FrameDone
  <2> QED
    BY <1>1, <2>1, WholeRests DEF Kept
<1>3. CASE out # None /\ ~skip /\ ~overrun
  <2>1. /\ newbuf /\ caller # "off" /\ WholeLines(lines)
    BY <1>3, FrameDoneIsWhole
  <2>2. /\ content \in [Outs -> Seq(Spot)] /\ waiting \in Seq(Outs) /\ packer \in Seq(Outs) /\ out \in Outs
    BY <1>3 DEF RestTypeOK
  <2>3. out \notin Kept /\ Kept \subseteq Outs
    BY <2>1, <2>2 DEF OutsInv, HeldOnce, Holders, Kept, In
  <2>4. content' = [content EXCEPT ![out] = lines] /\ HandOver
    BY <1>3 DEF DoneFrame, FrameDone
  <2>5. In(Append(waiting, out)) = In(waiting) \cup {out} /\ Append(waiting, out) \in Seq(Outs)
    BY ONLY <2>2, InAppend, SeqAppends
  <2>6. Kept' \subseteq Kept \cup {out}
    <3>1. CASE PackerHungry
      <4>1. packer' = packer \o Append(waiting, out) /\ waiting' = <<>>
        BY <2>4, <3>1 DEF HandOver, Put
      <4> DEFINE t == Append(waiting, out)
      <4>2. t \in Seq(Outs) /\ packer \in Seq(Outs)
        BY <2>2, <2>5
      <4> HIDE DEF t
      <4>3. In(packer \o t) = In(packer) \cup In(t)
        BY ONLY <4>2, InConcat
      <4>4. packer' = packer \o t /\ In(t) = In(waiting) \cup {out}
        BY <2>5, <4>1 DEF t
      <4> QED
        BY <4>1, <4>3, <4>4, NothingInEmpty DEF Kept
    <3>2. CASE ~PackerHungry
      <4>1. packer' = packer /\ waiting' = Append(waiting, out)
        BY <2>4, <3>2 DEF HandOver
      <4> QED
        BY <2>5, <4>1 DEF Kept
    <3> QED
      BY <3>1, <3>2
  <2>7. \A b \in Kept : WholeLines(content[b])
    BY <1>3 DEF WholeFrames, Kept, WholeLines
  <2>8. \A b \in Kept \cup {out} : WholeLines(content'[b])
    <3> SUFFICES ASSUME NEW b \in Kept \cup {out} PROVE WholeLines(content'[b])
      OBVIOUS
    <3>1. content'[b] = IF b = out THEN lines ELSE content[b]
      BY <2>2, <2>3, <2>4
    <3> QED
      BY <2>1, <2>7, <3>1
  <2>9. \A b \in Kept' : WholeLines(content'[b])
    BY <2>6, <2>8
  <2> QED
    BY <2>9 DEF WholeFrames, Kept, WholeLines
<1> QED
  BY <1>1, <1>2, <1>3 DEF WholeFrames

LEMMA WholeStep ==
    ASSUME RestTypeOK, EngineInv, OffInv, OutsInv, LinesInv, WholeFrames, [Next]_vars
    PROVE  WholeFrames'
<1>0. waiting \in Seq(Outs) /\ packer \in Seq(Outs)
  BY DEF RestTypeOK
<1>1. CASE Start \/ Stopped
  <2>1. waiting' = <<>> /\ packer' = <<>>
    BY <1>1 DEF Start, Stopped, OffInv
  <2> QED
    BY <2>1, NothingInEmpty DEF WholeFrames
<1>2. CASE DoneFrame
  BY <1>2, WholeDoneFrame
<1>3. CASE WriteDone
  <2>1. content' = content /\ overrun' = overrun
    BY <1>3 DEF WriteDone, isrVars
  <2>2. Kept' \subseteq Kept
    <3>1. CASE waiting = <<>>
      BY <1>3, <3>1 DEF WriteDone, Kept
    <3>2. CASE waiting # <<>>
      <4>1. Head(waiting) \in Outs /\ Head(waiting) \in In(waiting) /\ In(Tail(waiting)) \subseteq In(waiting)
        BY ONLY <1>0, <3>2, SeqTails, InTail
      <4>2. In(Append(packer, Head(waiting))) = In(packer) \cup {Head(waiting)}
        BY ONLY <1>0, <4>1, InAppend
      <4> QED
        BY <1>3, <3>2, <4>1, <4>2 DEF WriteDone, Kept
    <3> QED
      BY <3>1, <3>2
  <2> QED
    BY <2>1, <2>2, WholeRests
<1>4. CASE PackerWrites
  <2>1. UNCHANGED <<content, waiting, overrun>> /\ packer # <<>> /\ packer' = Tail(packer)
    BY <1>4 DEF PackerWrites, frameVars, isrVars
  <2>2. In(Tail(packer)) \subseteq In(packer)
    BY ONLY <1>0, <2>1, InTail
  <2> QED
    BY <2>1, <2>2, WholeRests DEF Kept
<1>5. CASE TakeLine
  <2>1. UNCHANGED <<content, packer, overrun>>
    BY <1>5 DEF TakeLine, restVars, isrVars
  <2>2. waiting' = waiting \/ \E i \in 1 .. Len(waiting) : waiting' = Without(waiting, i)
    <3>1. CASE skip \/ ~newbuf
      <4>1. Allocate(SkipEnds) /\ SkipEnds \in [Outs -> BOOLEAN]
        BY <1>5, <3>1 DEF TakeLine, SkipEnds, RestTypeOK
      <4> QED
        BY <4>1, AllocateGives
    <3>2. CASE ~(skip \/ ~newbuf)
      BY <1>5, <3>2 DEF TakeLine
    <3> QED
      BY <3>1, <3>2
  <2>3. Distinct(waiting)
    BY DEF OutsInv
  <2>4. ASSUME NEW i \in 1 .. Len(waiting), waiting' = Without(waiting, i)
        PROVE  In(waiting') \subseteq In(waiting)
    <3>1. In(Without(waiting, i)) = In(waiting) \ {waiting[i]}
      BY ONLY <1>0, <2>3, <2>4, InWithout
    <3> QED
      BY <2>4, <3>1
  <2> QED
    BY <2>1, <2>2, <2>4, WholeRests DEF Kept
<1>6. CASE \/ LineReady \/ LineGlitch \/ Stop \/ EngineDone \/ EngineFull \/ Notify \/ Full \/ FullSw
           \/ DoneLine \/ DoneTooLong \/ TakeBusy \/ GiveBack \/ TakeNothing \/ TakeDummy \/ TakeSkipped
           \/ UNCHANGED vars
  <2>1. UNCHANGED <<waiting, packer, content>> /\ (overrun' = overrun \/ overrun' = TRUE)
    BY <1>6 DEF LineReady, LineGlitch, Line, Stop, EngineDone, EngineFull, Notify, Full, FullSw, DoneLine,
                DoneTooLong, TakeBusy, GiveBack, TakeNothing, TakeDummy, TakeSkipped, vars,
                isrVars, queueVars, frameVars, taskVars, restVars
  <2> QED
    BY <2>1, WholeRests DEF Kept
<1> QED
  BY <1>1, <1>2, <1>3, <1>4, <1>5, <1>6
  DEF Next, InterruptStep, EncoderStep, TakeStep, CallerStep

--------------------------------------------------------------------------------------------------
(* The inductive invariant.                                                                       *)
FrameInv ==
    /\ LineInv /\ RestTypeOK /\ OffInv /\ EngineInv /\ OutsInv /\ OrderInv /\ LinesInv /\ WholeFrames

LEMMA FrameInitially == Init => FrameInv /\ HungryInv
<1> SUFFICES ASSUME Init PROVE FrameInv /\ HungryInv
  OBVIOUS
<1>1. LineInv
  BY LineInitially
<1>2. RestTypeOK
  <2>1. /\ <<>> \in Seq(Message) /\ <<>> \in Seq(Outs) /\ <<>> \in Seq(Spot)
        /\ 0 \in 0 .. LinesPerFrame - 1 /\ 0 \in 0 .. OutCount
    BY Constants, OutConstants
  <2>2. /\ [b \in Outs |-> FALSE] \in [Outs -> BOOLEAN]
        /\ [b \in Outs |-> <<>>] \in [Outs -> Seq(Spot)]
    BY <2>1
  <2> QED
    BY <2>1, <2>2 DEF Init, RestTypeOK
<1>3. OffInv
  BY DEF Init, OffInv
<1>4. EngineInv
  <2>1. TokenIs(msgs, "none") /\ EngineState("none")
    BY NoTokenOfNone DEF Init, EngineState, LinesDone
  <2> QED
    BY <2>1 DEF EngineInv
<1>5. OutsInv /\ WholeFrames
  BY NothingInEmpty DEF Init, OutsInv, WholeFrames
<1>6. OrderInv
  <2>1. /\ jpegQ = <<>> /\ waiting = <<>> /\ frame = 0 /\ lastPut = 0 /\ newbuf = FALSE
        /\ videoRecordFlag = "NOTHING"
    BY DEF Init
  <2>2. ToCome = {} /\ LineOrder
    BY <2>1 DEF ToCome, LineOrder
  <2>3. KeptRise(lastPut, waiting, content) /\ KeptBefore(lastPut, waiting, content, frame + 1)
    BY <2>1 DEF KeptRise, KeptBefore
  <2> QED
    BY <2>1, <2>2, <2>3 DEF OrderInv
<1>7. LinesInv
  BY DEF Init, LinesInv
<1>8. HungryInv
  BY DEF Init, HungryInv
<1> QED
  BY <1>1, <1>2, <1>3, <1>4, <1>5, <1>6, <1>7, <1>8 DEF FrameInv

LEMMA FrameStep ==
    ASSUME FrameInv, [Next]_vars
    PROVE  FrameInv' /\ (lastPut' # lastPut => lastPut' > lastPut)
<1>0. /\ LineInv /\ LineTypeOK /\ RestTypeOK /\ OffInv /\ EngineInv /\ OutsInv /\ OrderInv /\ LinesInv
      /\ WholeFrames
  BY DEF FrameInv, LineInv
<1>1. LineInv' /\ LineTypeOK'
  <2>1. LineInv'
    BY <1>0, LineStep
  <2> QED
    BY <2>1 DEF LineInv
<1>2. RestTypeOK'
  BY <1>0, <1>1, TypeStep
<1>3. OffInv'
  BY <1>0, OffStep
<1>4. EngineInv'
  BY <1>0, EngineStep
<1>5. OutsInv'
  BY <1>0, OutsStep
<1>6. OrderInv' /\ (lastPut' # lastPut => lastPut' > lastPut)
  BY <1>0, <1>1, OrderStep
<1>7. LinesInv'
  BY <1>0, LinesStep
<1>8. WholeFrames'
  BY <1>0, WholeStep
<1> QED
  BY <1>1, <1>2, <1>3, <1>4, <1>5, <1>6, <1>7, <1>8 DEF FrameInv

(* The pipeline's state is sound in every reachable state: the line buffers (LineInv), the output *)
(* buffers and their counter (OutsInv), the engine and the one message it owes the encoder task   *)
(* (EngineInv), the order of the frames that wait (OrderInv), and the lines of the frame at work  *)
(* (LinesInv) are kept together by every step of the interrupts, the encoder task, the packer and *)
(* the caller.                                                                                    *)
THEOREM FrameInvCorrect == Spec => []FrameInv
<1>1. Init => FrameInv
  BY FrameInitially
<1>2. FrameInv /\ [Next]_vars => FrameInv'
  BY FrameStep
<1> QED
  BY <1>1, <1>2, PTL DEF Spec

(* The queues, messages and counters of the encoder stay in their ranges: empty_count below a     *)
(* frame's lines, freeSize between none and all of the output buffers, and every message is one   *)
(* of the five kinds and names a buffer or none.                                                  *)
THEOREM TypeOKHolds == Spec => []TypeOK
<1>1. FrameInv => TypeOK
  BY TypeIsRest DEF FrameInv, LineInv, TypeInv
<1> QED
  BY <1>1, FrameInvCorrect, PTL

(* An output buffer in use has one party that will free it, a free one has none.                  *)
THEOREM OutsInOnePlaceHolds == Spec => []OutsInOnePlace
<1>1. FrameInv => OutsInOnePlace
  BY OutsAreCounted DEF FrameInv
<1> QED
  BY <1>1, FrameInvCorrect, PTL

(* A frame handed to the packer, or waiting for it, holds all its lines, in order, of one frame of *)
(* the sensor, but after a line was refused by a full queue (jpeg_fifo_irq_cb does not note it).  *)
THEOREM WholeFramesHold == Spec => []WholeFrames
<1>1. FrameInv => WholeFrames
  BY DEF FrameInv
<1> QED
  BY <1>1, FrameInvCorrect, PTL

(* Frames are put to the packer in the order the sensor gave them, whichever of them wait, are    *)
(* given up for a new one or are put at once.                                                     *)
THEOREM InOrderHolds == Spec => InOrder
<1>1. FrameInv /\ [Next]_vars => [lastPut' # lastPut => lastPut' > lastPut]_vars
  BY FrameStep
<1> QED
  BY <1>1, FrameInvCorrect, PTL DEF Spec, InOrder

(* More than one frame never waits with nothing at the packer, or on the way back from it, that   *)
(* would put them, for a threshold of 2, as AVI_PACKER_TH is in the code, or more.                *)
THEOREM WaitingHasReleaseHolds ==
    ASSUME PackerThreshold >= 2
    PROVE  Spec => []WaitingHasRelease
<1>1. Init => HungryInv
  BY FrameInitially
<1>2. FrameInv /\ HungryInv /\ [Next]_vars => HungryInv'
  BY HungryStep DEF FrameInv
<1>3. FrameInv /\ HungryInv => WaitingHasRelease
  <2> SUFFICES ASSUME FrameInv, HungryInv, Len(waiting) > 1
               PROVE  packer # <<>> \/ Released # {}
    BY DEF WaitingHasRelease
  <2>1. Len(waiting) \in Nat
    BY SeqAppends DEF FrameInv, RestTypeOK
  <2> QED
    BY <2>1, RelIsReleased DEF HungryInv
<1> QED
  BY <1>1, <1>2, <1>3, FrameInvCorrect, PTL DEF Spec
====

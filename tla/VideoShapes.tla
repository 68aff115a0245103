---------------------------- MODULE VideoShapes -----------------------------
(***************************************************************************)
(* Where the open files of VideoRecord are: under KeysOnly every reachable *)
(* state has one of six shapes, which say together what waits in the two   *)
(* queues, which handles the state task holds and which files are open.    *)
(***************************************************************************)
EXTENDS VideoTypes

\* The inputs that the theorems under this assumption are about: the record
\* key, the lock key and the mode key, in any number and at any moment, with
\* any number of switches of the cyclic timer, of file numbers, of handles and
\* of free-space levels. No call of the encoder fails, the card stays in, and
\* nothing but the user stops the recording. These are the inputs of the runs
\* record_keys and record_wrap; the others are left to TLC.
KeysOnly ==
  /\ Inputs \subseteq {"VIDEO_RECORD_ACTIVE", "SOS_KEY", "MODE"}
  /\ MaxFaults = 0 /\ MaxCardMoves = 0 /\ MaxSelfStops = 0

\* The messages that the state task can have in its queue then.
KeyIds == {"VID_REPLY", "VID_CYCLIC_REPLY", "VIDEO_RECORD_ACTIVE", "SOS_KEY", "MODE",
           "CYCLIC_VIDEO_RECORD"}

\* No message of S in the queue q; at most one; and m as the only one.
None(q, S) == \A k \in 1 .. Len(q) : q[k] \notin S
AtMostOne(q, S) == \A j, k \in 1 .. Len(q) : q[j] \in S /\ q[k] \in S => j = k
Sole(q, S, m) ==
  /\ m \in S
  /\ \E k \in 1 .. Len(q) : q[k] = m /\ \A j \in 1 .. Len(q) : q[j] \in S => j = k

\* The messages about the file of a recording and about its next file.
FileReqs == {m \in SsMsg : m.id = "VID_REQ"}
NextReqs == {m \in SsMsg : m.id = "VID_CYCLIC_REQ" /\ m.on}
PicReqs == {m \in SsMsg : m.id = "PIC_REQ"}
FileReplies == {m \in ApMsg : m.id = "VID_REPLY"}
NextReplies == {m \in ApMsg : m.id = "VID_CYCLIC_REPLY"}
OtherMsgs == {m \in ApMsg : m.id \notin KeyIds}

\* No file, and no next file, is on its way.
NoFileDue == None(ssq, FileReqs) /\ None(apq, FileReplies)
NoNextDue == None(ssq, NextReqs) /\ None(apq, NextReplies)

\* Between recordings: nothing is open and nothing is on its way.
Idle ==
  /\ ~busy /\ ~packer /\ next = NoHandle
  /\ NoFileDue /\ NoNextDue
  /\ DOMAIN opened = {}

\* A recording has begun and has no file yet: the request for it is in the
\* queue of the storage task (or was answered by nothing, when all numbers are
\* taken), or the reply is in that of the state task.
Waiting == busy /\ curr = NoHandle /\ ~packer /\ next = NoHandle /\ NoNextDue
FileAsked ==
  /\ Waiting
  /\ AtMostOne(ssq, FileReqs) /\ None(apq, FileReplies)
  /\ DOMAIN opened = {}
FileGiven ==
  /\ Waiting
  /\ None(ssq, FileReqs)
  /\ \E m \in FileReplies :
       /\ Sole(apq, FileReplies, m)
       /\ DOMAIN opened = {m.h} \ {NoHandle}
       /\ m.h # NoHandle => opened[m.h] = g_file_path

\* The packer writes the current file, and there is no next file, whose request
\* or reply is in a queue, or there is one.
Recording ==
  /\ busy /\ curr # NoHandle /\ packer /\ packer_file = curr
  /\ opened[curr] = g_file_path
  /\ NoFileDue
NextAsked ==
  /\ Recording /\ next = NoHandle
  /\ AtMostOne(ssq, NextReqs) /\ None(apq, NextReplies)
  /\ DOMAIN opened = {curr}
NextGiven ==
  /\ Recording /\ next = NoHandle
  /\ None(ssq, NextReqs)
  /\ \E m \in NextReplies :
       /\ Sole(apq, NextReplies, m)
       /\ m.h # curr
       /\ DOMAIN opened = {curr} \cup ({m.h} \ {NoHandle})
       /\ m.h # NoHandle => opened[m.h] = g_next_file_path
BothFiles ==
  /\ Recording /\ next # NoHandle /\ next # curr
  /\ NoNextDue
  /\ DOMAIN opened = {curr, next}
  /\ opened[next] = g_next_file_path

\* Every state of the system has one of six shapes: this is what makes the two
\* queues, the handles of the state task and the open files agree, and what
\* OneHolder needs to be inductive.
Shape == Idle \/ FileAsked \/ FileGiven \/ NextAsked \/ NextGiven \/ BothFiles

\* What no input of KeysOnly changes.
KeysInv ==
  /\ again = "none" /\ card /\ mounted
  /\ None(apq, OtherMsgs)
  /\ None(ssq, PicReqs)
  /\ present_state = "VIDEO_PREVIEW" => ~busy

\* The inductive invariant.
IndInv == TypeOK /\ KeysInv /\ Shape

-----------------------------------------------------------------------------
(* Queues. *)

\* Taking the first message: what is absent stays absent, and what was the only
\* one is gone.
LEMMA TailKeeps ==
  ASSUME NEW T, NEW q \in Seq(T), q # << >>, NEW S
  PROVE  /\ None(q, S) => None(Tail(q), S) /\ Head(q) \notin S
         /\ AtMostOne(q, S) => AtMostOne(Tail(q), S)
         /\ AtMostOne(q, S) /\ Head(q) \in S => None(Tail(q), S)
<1>1. /\ Head(q) = q[1] /\ Len(q) \in Nat /\ 1 \in 1 .. Len(q)
      /\ Len(Tail(q)) = Len(q) - 1
      /\ \A k \in 1 .. Len(q) - 1 : Tail(q)[k] = q[k + 1] /\ k + 1 \in 1 .. Len(q)
  OBVIOUS
<1> HIDE DEF None
<1>2. None(q, S) => None(Tail(q), S) /\ Head(q) \notin S
  BY <1>1 DEF None
<1>3. AtMostOne(q, S) => AtMostOne(Tail(q), S)
  <2> SUFFICES ASSUME AtMostOne(q, S), NEW j \in 1 .. Len(q) - 1, NEW k \in 1 .. Len(q) - 1,
                      q[j + 1] \in S, q[k + 1] \in S
               PROVE  j = k
    BY <1>1 DEF AtMostOne
  <2>1. j + 1 = k + 1
    BY <1>1 DEF AtMostOne
  <2> QED
    BY <2>1
<1>4. AtMostOne(q, S) /\ Head(q) \in S => None(Tail(q), S)
  <2> SUFFICES ASSUME AtMostOne(q, S), q[1] \in S, NEW k \in 1 .. Len(q) - 1, q[k + 1] \in S
               PROVE  FALSE
    BY <1>1 DEF None
  <2>1. 1 = k + 1
    BY <1>1 DEF AtMostOne
  <2> QED
    BY <2>1
<1> QED
  BY <1>2, <1>3, <1>4

\* Taking the first message takes the only message of S, or leaves it.
LEMMA TailSole ==
  ASSUME NEW T, NEW q \in Seq(T), q # << >>, NEW S, NEW m, Sole(q, S, m)
  PROVE  /\ Head(q) \notin S => Sole(Tail(q), S, m)
         /\ Head(q) \in S => Head(q) = m /\ None(Tail(q), S)
<1>1. /\ Head(q) = q[1] /\ Len(q) \in Nat /\ 1 \in 1 .. Len(q)
      /\ Len(Tail(q)) = Len(q) - 1
      /\ \A k \in 1 .. Len(q) - 1 : Tail(q)[k] = q[k + 1] /\ k + 1 \in 1 .. Len(q)
  OBVIOUS
<1>2. PICK k \in 1 .. Len(q) : q[k] = m /\ \A j \in 1 .. Len(q) : q[j] \in S => j = k
  BY DEF Sole
<1>3. m \in S
  BY DEF Sole
<1>4. CASE Head(q) \in S
  <2>1. k = 1
    BY <1>1, <1>2, <1>4
  <2>2. \A j \in 1 .. Len(q) - 1 : q[j + 1] \in S => FALSE
    <3> SUFFICES ASSUME NEW j \in 1 .. Len(q) - 1, q[j + 1] \in S
                 PROVE  FALSE
      OBVIOUS
    <3>1. j + 1 = 1
      BY <1>1, <1>2, <2>1
    <3> QED
      BY <3>1
  <2> QED
    BY <1>1, <1>2, <1>4, <2>1, <2>2 DEF None
<1>5. CASE Head(q) \notin S
  <2>1. k # 1 /\ k - 1 \in 1 .. Len(q) - 1 /\ Tail(q)[k - 1] = m
    BY <1>1, <1>2, <1>3, <1>5
  <2>2. \A j \in 1 .. Len(q) - 1 : Tail(q)[j] \in S => j = k - 1
    <3> SUFFICES ASSUME NEW j \in 1 .. Len(q) - 1, q[j + 1] \in S
                 PROVE  j = k - 1
      BY <1>1
    <3>1. j + 1 = k
      BY <1>1, <1>2
    <3> QED
      BY <3>1
  <2> QED
    BY <1>1, <1>3, <1>5, <2>1, <2>2 DEF Sole
<1> QED
  BY <1>4, <1>5

\* Sending a message to the back.
LEMMA AppendKeeps ==
  ASSUME NEW T, NEW q \in Seq(T), NEW S, NEW x \in T
  PROVE  /\ x \notin S => /\ None(q, S) => None(Append(q, x), S)
                          /\ AtMostOne(q, S) => AtMostOne(Append(q, x), S)
                          /\ \A m : Sole(q, S, m) => Sole(Append(q, x), S, m)
         /\ None(q, S) /\ x \in S => AtMostOne(Append(q, x), S) /\ Sole(Append(q, x), S, x)
<1>1. /\ Len(q) \in Nat /\ Len(Append(q, x)) = Len(q) + 1
      /\ \A k \in 1 .. Len(q) : Append(q, x)[k] = q[k]
      /\ Append(q, x)[Len(q) + 1] = x
  OBVIOUS
<1>2. \A k \in 1 .. Len(q) + 1 : k \in 1 .. Len(q) \/ k = Len(q) + 1
  BY <1>1
<1>3. 1 .. Len(q) \subseteq 1 .. Len(q) + 1 /\ Len(q) + 1 \in 1 .. Len(q) + 1
  BY <1>1
<1>4. ASSUME x \notin S
      PROVE  /\ None(q, S) => None(Append(q, x), S)
             /\ AtMostOne(q, S) => AtMostOne(Append(q, x), S)
             /\ \A m : Sole(q, S, m) => Sole(Append(q, x), S, m)
  <2>1. None(q, S) => None(Append(q, x), S)
    BY <1>1, <1>2, <1>4 DEF None
  <2>2. AtMostOne(q, S) => AtMostOne(Append(q, x), S)
    BY <1>1, <1>2, <1>4 DEF AtMostOne
  <2>3. ASSUME NEW m, Sole(q, S, m)
        PROVE  Sole(Append(q, x), S, m)
    BY <1>1, <1>2, <1>3, <1>4, <2>3 DEF Sole
  <2> QED
    BY <2>1, <2>2, <2>3
<1>5. ASSUME None(q, S), x \in S
      PROVE  AtMostOne(Append(q, x), S) /\ Sole(Append(q, x), S, x)
  <2>1. \A k \in 1 .. Len(q) + 1 : Append(q, x)[k] \in S => k = Len(q) + 1
    BY <1>1, <1>2, <1>5 DEF None
  <2> QED
    BY <1>1, <1>3, <1>5, <2>1 DEF AtMostOne, Sole
<1> QED
  BY <1>4, <1>5

\* Putting messages before or after the queue.
LEMMA ConcatKeeps ==
  ASSUME NEW T, NEW q \in Seq(T), NEW r \in Seq(T), NEW S
  PROVE  /\ None(q, S) /\ None(r, S) => None(q \o r, S)
         /\ None(q, S) /\ AtMostOne(r, S) => AtMostOne(q \o r, S)
         /\ AtMostOne(q, S) /\ None(r, S) => AtMostOne(q \o r, S)
<1>1. /\ Len(q) \in Nat /\ Len(r) \in Nat /\ Len(q \o r) = Len(q) + Len(r)
      /\ \A k \in 1 .. Len(q) : (q \o r)[k] = q[k]
  OBVIOUS
<1>2. \A k \in 1 .. Len(q) + Len(r) :
        ~(k \in 1 .. Len(q)) => k - Len(q) \in 1 .. Len(r) /\ (q \o r)[k] = r[k - Len(q)]
  BY <1>1
<1>3. None(q, S) /\ None(r, S) => None(q \o r, S)
  BY <1>1, <1>2 DEF None
<1>4. ASSUME None(q, S), AtMostOne(r, S)
      PROVE  AtMostOne(q \o r, S)
  <2> SUFFICES ASSUME NEW j \in 1 .. Len(q) + Len(r), NEW k \in 1 .. Len(q) + Len(r),
                      (q \o r)[j] \in S, (q \o r)[k] \in S
               PROVE  j = k
    BY <1>1 DEF AtMostOne
  <2>1. j \notin 1 .. Len(q) /\ k \notin 1 .. Len(q)
    BY <1>1, <1>4 DEF None
  <2>2. j - Len(q) = k - Len(q)
    BY <1>2, <1>4, <2>1 DEF AtMostOne
  <2> QED
    BY <1>1, <2>2
<1>5. ASSUME AtMostOne(q, S), None(r, S)
      PROVE  AtMostOne(q \o r, S)
  <2> SUFFICES ASSUME NEW j \in 1 .. Len(q) + Len(r), NEW k \in 1 .. Len(q) + Len(r),
                      (q \o r)[j] \in S, (q \o r)[k] \in S
               PROVE  j = k
    BY <1>1 DEF AtMostOne
  <2>1. j \in 1 .. Len(q) /\ k \in 1 .. Len(q)
    BY <1>2, <1>5 DEF None
  <2> QED
    BY <1>1, <1>5, <2>1 DEF AtMostOne
<1> QED
  BY <1>3, <1>4, <1>5

\* Queues of no, one and two messages.
LEMMA ShortQueues ==
  ASSUME NEW T, NEW x \in T, NEW y \in T, NEW S
  PROVE  /\ <<x>> \in Seq(T) /\ <<x, y>> \in Seq(T) /\ << >> \in Seq(T)
         /\ None(<< >>, S) /\ AtMostOne(<< >>, S)
         /\ x \notin S => None(<<x>>, S)
         /\ x \notin S /\ y \notin S => None(<<x, y>>, S)
         /\ AtMostOne(<<x>>, S)
         /\ x \notin S \/ y \notin S => AtMostOne(<<x, y>>, S)
<1>1. <<x>> \in Seq(T) /\ <<x, y>> \in Seq(T) /\ << >> \in Seq(T)
  OBVIOUS
<1>2. /\ Len(<< >>) = 0 /\ Len(<<x>>) = 1 /\ Len(<<x, y>>) = 2
      /\ <<x>>[1] = x /\ <<x, y>>[1] = x /\ <<x, y>>[2] = y
  OBVIOUS
<1>3. 1 .. 0 = {} /\ 1 .. 1 = {1} /\ 1 .. 2 = {1, 2}
  OBVIOUS
<1> QED
  BY <1>1, <1>2, <1>3 DEF None, AtMostOne

-----------------------------------------------------------------------------
(* Steps that leave the shape alone. *)

\* A change of the state task's queue, and of the storage task's, that no shape
\* tells apart.
ApKept ==
  /\ None(apq, FileReplies) => None(apq', FileReplies)
  /\ None(apq, NextReplies) => None(apq', NextReplies)
  /\ \A m : Sole(apq, FileReplies, m) => Sole(apq', FileReplies, m)
  /\ \A m : Sole(apq, NextReplies, m) => Sole(apq', NextReplies, m)
SsKept ==
  /\ None(ssq, FileReqs) => None(ssq', FileReqs)
  /\ None(ssq, NextReqs) => None(ssq', NextReqs)
  /\ AtMostOne(ssq, FileReqs) => AtMostOne(ssq', FileReqs)
  /\ AtMostOne(ssq, NextReqs) => AtMostOne(ssq', NextReqs)

shapeVars == <<busy, curr, next, packer, packer_file, opened, g_file_path, g_next_file_path>>

\* A step that changes the queues only so, and no handle, keeps the shape.
LEMMA ShapeKept ==
  ASSUME Shape, ApKept, SsKept, UNCHANGED shapeVars
  PROVE  Shape'
<1> USE DEF shapeVars
<1>1. CASE Idle
  <2>1. Idle'
    BY <1>1 DEF Idle, NoFileDue, NoNextDue, ApKept, SsKept
  <2> QED
    BY <2>1 DEF Shape
<1>2. Waiting => Waiting'
  BY DEF Waiting, NoNextDue, ApKept, SsKept
<1>3. CASE FileAsked
  <2>1. FileAsked'
    BY <1>2, <1>3 DEF FileAsked, ApKept, SsKept
  <2> QED
    BY <2>1 DEF Shape
<1>4. CASE FileGiven
  <2>1. FileGiven'
    BY <1>2, <1>4 DEF FileGiven, ApKept, SsKept
  <2> QED
    BY <2>1 DEF Shape
<1>5. Recording => Recording'
  BY DEF Recording, NoFileDue, ApKept, SsKept
<1>6. CASE NextAsked
  <2>1. NextAsked'
    BY <1>5, <1>6 DEF NextAsked, ApKept, SsKept
  <2> QED
    BY <2>1 DEF Shape
<1>7. CASE NextGiven
  <2>1. NextGiven'
    BY <1>5, <1>7 DEF NextGiven, ApKept, SsKept
  <2> QED
    BY <2>1 DEF Shape
<1>8. CASE BothFiles
  <2>1. BothFiles'
    BY <1>5, <1>8 DEF BothFiles, NoNextDue, ApKept, SsKept
  <2> QED
    BY <2>1 DEF Shape
<1> QED
  BY <1>1, <1>3, <1>4, <1>6, <1>7, <1>8 DEF Shape

\* The changes of the queues that keep the shape: none,
LEMMA ApSame ==
  ASSUME apq' = apq
  PROVE  ApKept /\ (None(apq, OtherMsgs) => None(apq', OtherMsgs))
BY DEF ApKept

\* for either queue,
LEMMA SsSame ==
  ASSUME ssq' = ssq
  PROVE  SsKept /\ (None(ssq, PicReqs) => None(ssq', PicReqs))
BY DEF SsKept

\* a message taken that is not a reply,
LEMMA ApTail ==
  ASSUME TypeOK, apq # << >>, apq' = Tail(apq),
         Head(apq).id \notin {"VID_REPLY", "VID_CYCLIC_REPLY"}
  PROVE  ApKept /\ (None(apq, OtherMsgs) => None(apq', OtherMsgs))
<1>1. apq \in Seq(ApMsg) /\ Head(apq) \notin FileReplies /\ Head(apq) \notin NextReplies
  BY BodyParts DEF QueueTypeOK, FileReplies, NextReplies
<1> QED
  BY <1>1, TailKeeps, TailSole DEF ApKept

\* a key or a tick of the cyclic timer,
LEMMA ApAppend ==
  ASSUME TypeOK, NEW id \in KeyIds, apq' = Append(apq, Msg(id, NoHandle)),
         id \notin {"VID_REPLY", "VID_CYCLIC_REPLY"}
  PROVE  ApKept /\ (None(apq, OtherMsgs) => None(apq', OtherMsgs))
<1> DEFINE x == Msg(id, NoHandle)
<1>1. x.id = id /\ x \in ApMsg
  BY MsgTypes DEF Msg, KeyIds, ApIds
<1>2. x \notin FileReplies /\ x \notin NextReplies /\ x \notin OtherMsgs
  BY <1>1 DEF FileReplies, NextReplies, OtherMsgs
<1>3. apq \in Seq(ApMsg)
  BY BodyParts DEF QueueTypeOK
<1> HIDE DEF x
<1> QED
  BY <1>1, <1>2, <1>3, AppendKeeps DEF ApKept, x

\* a message that the storage task takes,
LEMMA SsTail ==
  ASSUME TypeOK, ssq # << >>, ssq' = Tail(ssq)
  PROVE  SsKept /\ (None(ssq, PicReqs) => None(ssq', PicReqs))
<1>1. ssq \in Seq(SsMsg)
  BY BodyParts DEF QueueTypeOK
<1> QED
  BY <1>1, TailKeeps DEF SsKept

\* Requests that ask for no file.
PlainReqs == SsMsg \ (FileReqs \cup NextReqs \cup PicReqs)

\* and a request that is not for a file,
LEMMA PlainReqIds ==
  /\ \A id \in {"STORAGE_CHECK", "TIMER_START", "FREESIZE_CHECK_SWITCH", "FREESIZE_CHECK",
                "VIDEO_FILE_DEL", "AUTO_DEL_LOCK"} :
       \A on \in BOOLEAN : Req(id, on) \in PlainReqs
  /\ Req("VID_CYCLIC_REQ", FALSE) \in PlainReqs
BY DEF PlainReqs, FileReqs, NextReqs, PicReqs, Req, SsMsg, SsIds

\* sent to the back,
LEMMA SsAppend ==
  ASSUME TypeOK, NEW x \in PlainReqs, ssq' = Append(ssq, x)
  PROVE  SsKept /\ (None(ssq, PicReqs) => None(ssq', PicReqs))
<1>1. /\ ssq \in Seq(SsMsg) /\ x \in SsMsg
      /\ x \notin FileReqs /\ x \notin NextReqs /\ x \notin PicReqs
  BY BodyParts DEF QueueTypeOK, PlainReqs
<1> QED
  BY <1>1, AppendKeeps DEF SsKept

\* or sent by the storage task to itself,
LEMMA SsTailAppend ==
  ASSUME TypeOK, ssq # << >>, NEW x \in PlainReqs, ssq' = Append(Tail(ssq), x)
  PROVE  SsKept /\ (None(ssq, PicReqs) => None(ssq', PicReqs))
<1>1. /\ ssq \in Seq(SsMsg) /\ x \in SsMsg
      /\ x \notin FileReqs /\ x \notin NextReqs /\ x \notin PicReqs
  BY BodyParts DEF QueueTypeOK, PlainReqs
<1>2. Tail(ssq) \in Seq(SsMsg)
  BY <1>1
<1> QED
  BY <1>1, <1>2, AppendKeeps, TailKeeps DEF SsKept

\* What FuncKeyStop and SwitchFile do to the queue: plain requests before and
\* after it.
LEMMA PlainQueue ==
  ASSUME NEW q \in Seq(PlainReqs)
  PROVE  /\ q \in Seq(SsMsg)
         /\ None(q, FileReqs) /\ None(q, NextReqs) /\ None(q, PicReqs)
<1>1. \A k \in 1 .. Len(q) : q[k] \in PlainReqs
  OBVIOUS
<1>2. q \in Seq(SsMsg)
  <2>1. PlainReqs \subseteq SsMsg
    BY DEF PlainReqs
  <2> QED
    BY <2>1
<1> QED
  BY <1>1, <1>2 DEF None, PlainReqs

\* before and after those that wait, as a stop does.
LEMMA SsAround ==
  ASSUME TypeOK, NEW a \in Seq(PlainReqs), NEW b \in Seq(PlainReqs), ssq' = a \o ssq \o b
  PROVE  SsKept /\ (None(ssq, PicReqs) => None(ssq', PicReqs))
<1>1. ssq \in Seq(SsMsg) /\ a \in Seq(SsMsg) /\ b \in Seq(SsMsg)
  BY BodyParts, PlainQueue DEF QueueTypeOK
<1>2. a \o ssq \in Seq(SsMsg)
  BY <1>1
<1>3. \A S \in {FileReqs, NextReqs, PicReqs} : None(a, S) /\ None(b, S)
  BY PlainQueue
<1>4. ASSUME NEW S \in {FileReqs, NextReqs, PicReqs}
      PROVE  /\ None(ssq, S) => None(ssq', S)
             /\ AtMostOne(ssq, S) => AtMostOne(ssq', S)
  <2>1. /\ None(ssq, S) => None(a \o ssq, S)
        /\ AtMostOne(ssq, S) => AtMostOne(a \o ssq, S)
    BY <1>1, <1>3, ConcatKeeps
  <2> QED
    BY <1>1, <1>2, <1>3, <2>1, ConcatKeeps
<1> QED
  BY <1>4 DEF SsKept

\* The open files after an open and after a close.
LEMMA Files ==
  ASSUME NEW H, NEW h, NEW n
  PROVE  /\ DOMAIN Closed(opened, H) = DOMAIN opened \ H
         /\ \A g \in DOMAIN opened \ H : Closed(opened, H)[g] = opened[g]
         /\ DOMAIN Opened(opened, h, n) = DOMAIN opened \cup {h}
         /\ Opened(opened, h, n)[h] = n
         /\ \A g \in DOMAIN opened \ {h} : Opened(opened, h, n)[g] = opened[g]
<1>1. DOMAIN opened \cap (DOMAIN opened \ H) = DOMAIN opened \ H
  OBVIOUS
<1> QED
  BY <1>1 DEF Closed, Opened, Restrict

-----------------------------------------------------------------------------
(* The state task. *)

\* Under KeysOnly no call fails.
LEMMA NoFaults ==
  ASSUME TypeOK, KeysOnly
  PROVE  ~Fault
<1>1. faults \in 0 .. 0
  BY BodyParts DEF CountTypeOK, KeysOnly
<1> QED
  BY <1>1 DEF Fault, KeysOnly

\* A stop ends idle: it closes the current file and the next one, and a request
\* still in the queue is undone or answered before it can be used. (Under
\* KeysOnly a stop is only possible when both files are there: UserKeys.)
LEMMA StopShape ==
  ASSUME TypeOK, KeysOnly, Shape, FuncKeyStop("VIDEO_RECORD_ACTIVE", << >>, << >>), ApKept
  PROVE  /\ Shape' /\ UNCHANGED <<card, mounted>>
         /\ None(ssq, PicReqs) => None(ssq', PicReqs)
<1>1. next # NoHandle /\ curr # NoHandle /\ busy
  BY DEF FuncKeyStop, UserKeys, FilesReady
<1>2. BothFiles
  BY <1>1 DEF Shape, Idle, FileAsked, FileGiven, Waiting, NextAsked, NextGiven
<1>3. packer /\ packer_file = curr /\ DOMAIN opened = {curr, next}
  BY <1>2 DEF BothFiles, Recording
<1>4. PICK ok \in BOOLEAN :
        /\ EncodeStopped(ok)
        /\ opened' = Closed(opened, StopCloses \cup {next} \cup (IF ok THEN {} ELSE {curr}))
  BY <1>3 DEF FuncKeyStop
<1>5. packer' = FALSE
  BY <1>4, NoFaults DEF EncodeStopped
<1>6. DOMAIN opened' = {}
  <2>1. {curr, next} \ (StopCloses \cup {next} \cup (IF ok THEN {} ELSE {curr})) = {}
    BY <1>3 DEF StopCloses
  <2> QED
    BY <1>3, <1>4, <2>1, Files
<1>7. SsKept /\ (None(ssq, PicReqs) => None(ssq', PicReqs))
  <2> DEFINE a == <<Req("FREESIZE_CHECK_SWITCH", FALSE)>>
             b == <<Req("VID_CYCLIC_REQ", FALSE)>>
             c == <<Req("TIMER_START", FALSE)>>
  <2>1. a \in Seq(PlainReqs) /\ b \in Seq(PlainReqs) /\ c \in Seq(PlainReqs)
    <3>1. /\ Req("FREESIZE_CHECK_SWITCH", FALSE) \in PlainReqs
          /\ Req("VID_CYCLIC_REQ", FALSE) \in PlainReqs
          /\ Req("TIMER_START", FALSE) \in PlainReqs
      BY PlainReqIds
    <3> QED
      BY <3>1, ShortQueues
  <2>2. ssq' = a \o ssq \o << >> \o b \o (c \o << >>)
    BY <1>1 DEF FuncKeyStop
  <2>3. ssq \in Seq(SsMsg)
    BY BodyParts DEF QueueTypeOK
  <2> HIDE DEF a, b, c
  <2>4. a \in Seq(SsMsg) /\ b \in Seq(SsMsg) /\ c \in Seq(SsMsg) /\ b \o c \in Seq(PlainReqs)
    BY <2>1, PlainQueue
  <2>5. ssq' = a \o ssq \o (b \o c)
    BY <2>2, <2>3, <2>4
  <2> QED
    BY <2>1, <2>4, <2>5, SsAround
<1>8. NoFileDue' /\ NoNextDue'
  BY <1>2, <1>7 DEF BothFiles, Recording, NoFileDue, NoNextDue, SsKept, ApKept
<1>9. busy' = FALSE /\ next' = NoHandle /\ UNCHANGED <<card, mounted>>
  BY DEF FuncKeyStop, serviceVars
<1>10. Idle'
  BY <1>5, <1>6, <1>8, <1>9 DEF Idle
<1> QED
  BY <1>7, <1>9, <1>10 DEF Shape

\* A start ends waiting for its file.
LEMMA StartShape ==
  ASSUME TypeOK, Shape, FuncKeyStart, ApKept
  PROVE  /\ Shape' /\ UNCHANGED <<card, mounted>>
         /\ None(ssq, PicReqs) => None(ssq', PicReqs)
<1> DEFINE x == Req("VID_REQ", FALSE)
<1>1. Idle
  BY DEF FuncKeyStart, Shape, FileAsked, FileGiven, Waiting, NextAsked, NextGiven,
     BothFiles, Recording
<1>2. /\ busy' = TRUE /\ curr' = NoHandle /\ ssq' = Append(ssq, x)
      /\ UNCHANGED <<packer, next, opened, card, mounted>>
  BY DEF FuncKeyStart, encoderVars, cardVars, storageVars
<1>3. x \in SsMsg /\ x \in FileReqs /\ x \notin NextReqs /\ x \notin PicReqs
  BY DEF Req, SsMsg, SsIds, FileReqs, NextReqs, PicReqs
<1>4. ssq \in Seq(SsMsg)
  BY BodyParts DEF QueueTypeOK
<1> HIDE DEF x
<1>5. /\ AtMostOne(ssq', FileReqs) /\ None(ssq', NextReqs)
      /\ None(ssq, PicReqs) => None(ssq', PicReqs)
  BY <1>1, <1>2, <1>3, <1>4, AppendKeeps DEF Idle, NoFileDue, NoNextDue
<1>6. None(apq', FileReplies) /\ None(apq', NextReplies)
  BY <1>1 DEF Idle, NoFileDue, NoNextDue, ApKept
<1>7. Waiting'
  BY <1>1, <1>2, <1>5, <1>6 DEF Waiting, Idle, NoNextDue
<1>8. FileAsked'
  BY <1>1, <1>2, <1>5, <1>6, <1>7 DEF FileAsked, Idle
<1> QED
  BY <1>2, <1>5, <1>8 DEF Shape

\* So each branch of the record key keeps the shape.
LEMMA FuncKeyShape ==
  ASSUME TypeOK, KeysOnly, Shape, FuncKey("VIDEO_RECORD_ACTIVE"), ApKept
  PROVE  /\ Shape' /\ UNCHANGED <<card, mounted>>
         /\ None(ssq, PicReqs) => None(ssq', PicReqs)
<1>1. CASE FuncKeyRefused("VIDEO_RECORD_ACTIVE") \/ FuncKeyNoStart
  <2>1. UNCHANGED <<ssq, cardVars, storageVars, recordVars, encoderVars>>
    BY <1>1 DEF FuncKeyRefused, FuncKeyNoStart
  <2>2. UNCHANGED shapeVars /\ UNCHANGED <<card, mounted>>
    BY <2>1 DEF shapeVars, cardVars, storageVars, recordVars, encoderVars
  <2> QED
    BY <2>1, <2>2, SsSame, ShapeKept
<1> QED
  BY <1>1, StopShape, StartShape DEF FuncKey

\* The reply with a file finds the recording waiting for it, and starts it or,
\* with no file, ends it.
LEMMA VidReplyShape ==
  ASSUME TypeOK, KeysOnly, KeysInv, Shape, VidReply
  PROVE  Shape' /\ KeysInv'
<1> DEFINE m == Head(apq)
<1>1. /\ apq # << >> /\ apq' = Tail(apq) /\ m.id = "VID_REPLY" /\ present_state = "VIDEO_RECORD"
      /\ UNCHANGED <<present_state, again>>
  BY DEF VidReply, Handle, Next_
<1>2. apq \in Seq(ApMsg) /\ m \in ApMsg /\ m \in FileReplies /\ m \notin NextReplies
  BY <1>1, BodyParts DEF QueueTypeOK, FileReplies, NextReplies
<1>3. ~None(apq, FileReplies)
  BY <1>1, <1>2, TailKeeps
<1>4. FileGiven
  BY <1>3 DEF Shape, Idle, FileAsked, Recording, NoFileDue, NextAsked, NextGiven, BothFiles
<1>5. /\ DOMAIN opened = {m.h} \ {NoHandle}
      /\ m.h # NoHandle => opened[m.h] = g_file_path
      /\ None(apq', FileReplies)
  <2>1. PICK r \in FileReplies : /\ Sole(apq, FileReplies, r)
                                 /\ DOMAIN opened = {r.h} \ {NoHandle}
                                 /\ r.h # NoHandle => opened[r.h] = g_file_path
    BY <1>4 DEF FileGiven
  <2>2. m = r /\ None(apq', FileReplies)
    BY <1>1, <1>2, <2>1, TailSole
  <2> QED
    BY <2>1, <2>2
<1>6. None(apq', NextReplies) /\ None(apq', OtherMsgs)
  BY <1>1, <1>2, <1>4, TailKeeps DEF FileGiven, Waiting, NoNextDue, KeysInv
<1>7. ssq \in Seq(SsMsg) /\ None(ssq, FileReqs) /\ None(ssq, NextReqs) /\ None(ssq, PicReqs)
  BY <1>4, BodyParts DEF FileGiven, Waiting, NoNextDue, KeysInv, QueueTypeOK
<1>8. busy /\ ~packer /\ next = NoHandle
  BY <1>4 DEF FileGiven, Waiting
<1> HIDE DEF m
<1>9. CASE ReplyNoFile
  <2>1. /\ m.h = NoHandle /\ ~busy' /\ ssq' = Append(ssq, Req("TIMER_START", FALSE))
        /\ UNCHANGED <<card, mounted, opened, packer, next>>
    BY <1>9 DEF ReplyNoFile, m, cardVars, encoderVars, serviceVars
  <2>2. SsKept /\ None(ssq', PicReqs)
    BY <1>7, <2>1, PlainReqIds, SsAppend
  <2>3. NoFileDue' /\ NoNextDue'
    BY <1>5, <1>6, <1>7, <2>2 DEF NoFileDue, NoNextDue, SsKept
  <2>4. Idle'
    BY <1>5, <1>8, <2>1, <2>3 DEF Idle
  <2> QED
    BY <1>1, <1>6, <2>1, <2>2, <2>4 DEF Shape, KeysInv
<1>10. CASE ReplyStart
  <2> DEFINE a == Req("VID_CYCLIC_REQ", TRUE)
             b == Req("FREESIZE_CHECK_SWITCH", TRUE)
             c == Req("VIDEO_FILE_DEL", FALSE)
  <2>1. /\ m.h # NoHandle /\ packer' = TRUE /\ packer_file' = m.h /\ curr' = m.h
        /\ ssq' = ssq \o <<a, b>> \o <<c>> \/ ssq' = ssq \o <<a, b>> \o << >>
        /\ UNCHANGED <<card, mounted, opened, g_file_path, busy, next>>
    BY <1>10 DEF ReplyStart, EncodeStart, m, cardVars, serviceVars
  <2>2. /\ a \in SsMsg /\ a \notin FileReqs /\ a \notin PicReqs
        /\ b \in SsMsg /\ b \notin FileReqs /\ b \notin PicReqs /\ b \notin NextReqs
        /\ c \in SsMsg /\ c \notin FileReqs /\ c \notin PicReqs /\ c \notin NextReqs
    BY DEF Req, SsMsg, SsIds, FileReqs, NextReqs, PicReqs
  <2> HIDE DEF a, b, c
  <2>3. <<a, b>> \in Seq(SsMsg) /\ <<c>> \in Seq(SsMsg) /\ << >> \in Seq(SsMsg)
    BY <2>2
  <2>4. ssq \o <<a, b>> \in Seq(SsMsg)
    BY <1>7, <2>3
  <2>5. /\ None(<<a, b>>, FileReqs) /\ None(<<a, b>>, PicReqs) /\ AtMostOne(<<a, b>>, NextReqs)
    BY <2>2, ShortQueues
  <2>6. /\ None(ssq \o <<a, b>>, FileReqs) /\ None(ssq \o <<a, b>>, PicReqs)
        /\ AtMostOne(ssq \o <<a, b>>, NextReqs)
    BY <1>7, <2>3, <2>5, ConcatKeeps
  <2>7. \A q \in {<<c>>, << >>} : None(q, FileReqs) /\ None(q, PicReqs) /\ None(q, NextReqs)
    BY <2>2, ShortQueues
  <2>8. None(ssq', FileReqs) /\ None(ssq', PicReqs) /\ AtMostOne(ssq', NextReqs)
    <3>1. PICK q \in {<<c>>, << >>} : ssq' = (ssq \o <<a, b>>) \o q
      BY <2>1
    <3>2. q \in Seq(SsMsg)
      BY <2>3
    <3> QED
      BY <2>4, <2>6, <2>7, <3>1, <3>2, ConcatKeeps
  <2>9. Recording'
    BY <1>5, <1>8, <2>1, <2>8 DEF Recording, NoFileDue
  <2>10. NextAsked'
    BY <1>5, <1>6, <1>8, <2>1, <2>8, <2>9 DEF NextAsked
  <2> QED
    BY <1>1, <1>6, <2>1, <2>8, <2>10 DEF Shape, KeysInv
<1>11. ~LateReply(g_file_path) /\ ~ReplyStartFails
  BY <1>8, NoFaults DEF LateReply, ReplyStartFails, EncodeStart
<1> QED
  BY <1>9, <1>10, <1>11 DEF VidReply

\* The reply with the next file finds the recording that asked for it.
LEMMA VidCyclicReplyShape ==
  ASSUME TypeOK, KeysInv, Shape, VidCyclicReply
  PROVE  Shape' /\ KeysInv'
<1> DEFINE m == Head(apq)
<1>1. /\ apq # << >> /\ apq' = Tail(apq) /\ m.id = "VID_CYCLIC_REPLY"
      /\ present_state = "VIDEO_RECORD" /\ UNCHANGED <<present_state, again>>
  BY DEF VidCyclicReply, Handle, Next_
<1>2. apq \in Seq(ApMsg) /\ m \in ApMsg /\ m \in NextReplies /\ m \notin FileReplies
  BY <1>1, BodyParts DEF QueueTypeOK, FileReplies, NextReplies
<1>3. ~None(apq, NextReplies)
  BY <1>1, <1>2, TailKeeps
<1>4. NextGiven
  BY <1>3 DEF Shape, Idle, Waiting, FileAsked, FileGiven, NoNextDue, NextAsked, BothFiles
<1>5. /\ m.h # curr
      /\ DOMAIN opened = {curr} \cup ({m.h} \ {NoHandle})
      /\ m.h # NoHandle => opened[m.h] = g_next_file_path
      /\ None(apq', NextReplies)
  <2>1. PICK r \in NextReplies : /\ Sole(apq, NextReplies, r)
                                 /\ r.h # curr
                                 /\ DOMAIN opened = {curr} \cup ({r.h} \ {NoHandle})
                                 /\ r.h # NoHandle => opened[r.h] = g_next_file_path
    BY <1>4 DEF NextGiven
  <2>2. m = r /\ None(apq', NextReplies)
    BY <1>1, <1>2, <2>1, TailSole
  <2> QED
    BY <2>1, <2>2
<1>6. None(apq', FileReplies) /\ None(apq', OtherMsgs)
  BY <1>1, <1>2, <1>4, TailKeeps DEF NextGiven, Recording, NoFileDue, KeysInv
<1>7. /\ busy /\ next = NoHandle
      /\ None(ssq, NextReqs) /\ None(ssq, FileReqs)
  BY <1>4 DEF NextGiven, Recording, NoFileDue
<1> HIDE DEF m
<1>8. /\ next' = IF m.h = NoHandle THEN next ELSE m.h
      /\ UNCHANGED <<ssq, card, mounted, opened, g_file_path, g_next_file_path, busy, curr,
                     packer, packer_file>>
  BY <1>7 DEF VidCyclicReply, LateReply, m, cardVars, storageVars, encoderVars
<1>9. Recording'
  BY <1>4, <1>6, <1>8 DEF NextGiven, Recording, NoFileDue
<1>10. CASE m.h = NoHandle
  <2>1. AtMostOne(ssq', NextReqs)
    BY <1>7, <1>8 DEF None, AtMostOne
  <2>2. NextAsked'
    BY <1>5, <1>7, <1>8, <1>9, <1>10, <2>1 DEF NextAsked
  <2> QED
    BY <1>1, <1>6, <1>8, <2>2 DEF Shape, KeysInv
<1>11. CASE m.h # NoHandle
  <2>1. BothFiles'
    BY <1>5, <1>7, <1>8, <1>9, <1>11 DEF BothFiles, NoNextDue
  <2> QED
    BY <1>1, <1>6, <1>8, <2>1 DEF Shape, KeysInv
<1> QED
  BY <1>10, <1>11

\* The switch to the next file happens with both files there: the old one is
\* closed, the next one becomes the current one, and one more is asked for.
LEMMA SwitchShape ==
  ASSUME TypeOK, KeysOnly, KeysInv, Shape, CyclicVideoRecord
  PROVE  Shape' /\ KeysInv'
<1>1. /\ apq # << >> /\ apq' = Tail(apq) /\ Head(apq).id = "CYCLIC_VIDEO_RECORD"
      /\ present_state = "VIDEO_RECORD" /\ UNCHANGED <<present_state, again>>
  BY DEF CyclicVideoRecord, Handle, Next_
<1>2. ApKept /\ None(apq', OtherMsgs)
  BY <1>1, ApTail DEF KeysInv
<1>3. CASE NoNextFile
  <2>1. UNCHANGED shapeVars /\ UNCHANGED <<ssq, card, mounted>>
    BY <1>3 DEF NoNextFile, shapeVars, cardVars, storageVars, recordVars, encoderVars
  <2> QED
    BY <1>1, <1>2, <2>1, SsSame, ShapeKept DEF KeysInv
<1>4. next # NoHandle => BothFiles
  BY DEF Shape, Idle, FileAsked, FileGiven, Waiting, NextAsked, NextGiven
<1>5. CASE SwitchFile
  <2> DEFINE a == Req("FREESIZE_CHECK_SWITCH", FALSE)
             b == Req("FREESIZE_CHECK_SWITCH", TRUE)
             c == Req("VID_CYCLIC_REQ", TRUE)
  <2>1. /\ packer_file' = next /\ curr' = next /\ next' = NoHandle
        /\ opened' = Closed(opened, {packer_file})
        /\ g_file_path' = g_next_file_path
        /\ ssq' = <<a>> \o ssq \o <<b, c>>
        /\ UNCHANGED <<card, mounted, busy, packer>>
    BY <1>5 DEF SwitchFile, serviceVars
  <2>2. BothFiles
    BY <1>4, <1>5 DEF SwitchFile
  <2>3. DOMAIN opened' = {next} /\ opened'[next] = g_next_file_path
    <3>1. /\ packer_file = curr /\ next # curr /\ DOMAIN opened = {curr, next}
          /\ opened[next] = g_next_file_path
      BY <2>2 DEF BothFiles, Recording
    <3>2. /\ DOMAIN opened' = DOMAIN opened \ {packer_file}
          /\ \A g \in DOMAIN opened \ {packer_file} : opened'[g] = opened[g]
      BY <2>1, Files
    <3> QED
      BY <3>1, <3>2
  <2>4. /\ a \in SsMsg /\ a \notin FileReqs /\ a \notin PicReqs /\ a \notin NextReqs
        /\ b \in SsMsg /\ b \notin FileReqs /\ b \notin PicReqs /\ b \notin NextReqs
        /\ c \in SsMsg /\ c \notin FileReqs /\ c \notin PicReqs
    BY DEF Req, SsMsg, SsIds, FileReqs, NextReqs, PicReqs
  <2> HIDE DEF a, b, c
  <2>5. ssq \in Seq(SsMsg) /\ None(ssq, FileReqs) /\ None(ssq, NextReqs) /\ None(ssq, PicReqs)
    BY <2>2, BodyParts DEF BothFiles, Recording, NoFileDue, NoNextDue, KeysInv, QueueTypeOK
  <2>6. <<a>> \in Seq(SsMsg) /\ <<b, c>> \in Seq(SsMsg) /\ <<a>> \o ssq \in Seq(SsMsg)
    BY <2>4, <2>5
  <2>7. /\ None(<<a>>, FileReqs) /\ None(<<a>>, PicReqs) /\ None(<<a>>, NextReqs)
        /\ None(<<b, c>>, FileReqs) /\ None(<<b, c>>, PicReqs) /\ AtMostOne(<<b, c>>, NextReqs)
    BY <2>4, ShortQueues
  <2>8. /\ None(<<a>> \o ssq, FileReqs) /\ None(<<a>> \o ssq, PicReqs)
        /\ None(<<a>> \o ssq, NextReqs)
    BY <2>5, <2>6, <2>7, ConcatKeeps
  <2>9. None(ssq', FileReqs) /\ None(ssq', PicReqs) /\ AtMostOne(ssq', NextReqs)
    BY <2>1, <2>6, <2>7, <2>8, ConcatKeeps
  <2>10. None(apq', FileReplies) /\ None(apq', NextReplies)
    BY <1>2, <2>2 DEF BothFiles, Recording, NoFileDue, NoNextDue, ApKept
  <2>11. Recording'
    BY <2>1, <2>2, <2>3, <2>9, <2>10 DEF BothFiles, Recording, NoFileDue
  <2>12. NextAsked'
    BY <2>1, <2>3, <2>9, <2>10, <2>11 DEF NextAsked
  <2> QED
    BY <1>1, <1>2, <2>1, <2>9, <2>12 DEF Shape, KeysInv
<1>6. ~SwitchFails
  BY <1>4, NoFaults DEF SwitchFails, BothFiles, Recording
<1> QED
  BY <1>3, <1>5, <1>6 DEF CyclicVideoRecord

\* Every message of the state task keeps the shape.
LEMMA StateTaskShape ==
  ASSUME TypeOK, KeysOnly, KeysInv, Shape, StateTask
  PROVE  Shape' /\ KeysInv'
<1>1. apq # << >> => Head(apq).id \in KeyIds
  <2>1. apq # << >> => Head(apq) \in ApMsg /\ Head(apq) \notin OtherMsgs
    BY BodyParts, TailKeeps DEF QueueTypeOK, KeysInv
  <2> QED
    BY <2>1 DEF OtherMsgs
<1>2. CASE RecordActive
  <2>1. /\ apq # << >> /\ apq' = Tail(apq) /\ Head(apq).id = "VIDEO_RECORD_ACTIVE"
        /\ present_state = "VIDEO_RECORD" /\ UNCHANGED <<present_state, again>>
        /\ FuncKey("VIDEO_RECORD_ACTIVE")
    BY <1>2 DEF RecordActive, Handle, Next_
  <2>2. ApKept /\ None(apq', OtherMsgs)
    BY <2>1, ApTail DEF KeysInv
  <2> QED
    BY <2>1, <2>2, FuncKeyShape DEF KeysInv
<1>3. CASE SosKey \/ ModeKey
  <2>1. /\ apq # << >> /\ apq' = Tail(apq) /\ Head(apq).id \in {"SOS_KEY", "MODE"}
        /\ UNCHANGED again /\ UNCHANGED <<ssq, card, mounted>> /\ UNCHANGED shapeVars
    BY <1>3 DEF SosKey, ModeKey, Handle, Next_, shapeVars, storageVars, cardVars, recordVars,
                encoderVars
  <2>2. ApKept /\ None(apq', OtherMsgs)
    BY <2>1, ApTail DEF KeysInv
  <2>3. present_state' = "VIDEO_PREVIEW" => ~busy'
    BY <1>3, <2>1 DEF SosKey, ModeKey, Handle, shapeVars
  <2> QED
    BY <2>1, <2>2, <2>3, SsSame, ShapeKept DEF KeysInv
<1>4. CASE PreviewRecordKey
  <2>1. /\ apq # << >> /\ Head(apq).id = "VIDEO_RECORD_ACTIVE"
        /\ apq' = Append(Tail(apq), Msg("VIDEO_RECORD_ACTIVE", NoHandle))
        /\ present_state' = "VIDEO_RECORD" /\ ~busy' /\ next' = NoHandle
        /\ UNCHANGED <<ssq, card, mounted, again, curr, packer, packer_file, opened, g_file_path,
                       g_next_file_path>>
    BY <1>4 DEF PreviewRecordKey, Next_, RecordEntered, cardVars, storageVars, encoderVars
  <2>2. ~busy /\ busy \in BOOLEAN /\ busy' \in BOOLEAN
    BY <1>4, BodyParts DEF PreviewRecordKey, RecordEntered, KeysInv, RecordTypeOK
  <2>3. next = NoHandle
    BY <2>2 DEF Shape, Idle, FileAsked, FileGiven, Waiting, NextAsked, NextGiven,
     BothFiles, Recording
  <2>4. ApKept /\ None(apq', OtherMsgs)
    <3> DEFINE x == Msg("VIDEO_RECORD_ACTIVE", NoHandle)
    <3>1. x.id = "VIDEO_RECORD_ACTIVE" /\ x \in ApMsg
      BY MsgTypes DEF Msg, ApIds
    <3>2. x \notin FileReplies /\ x \notin NextReplies /\ x \notin OtherMsgs
      BY <3>1 DEF FileReplies, NextReplies, OtherMsgs, KeyIds
    <3>3. apq \in Seq(ApMsg) /\ Tail(apq) \in Seq(ApMsg)
          /\ Head(apq) \notin FileReplies /\ Head(apq) \notin NextReplies
      BY <2>1, BodyParts DEF QueueTypeOK, FileReplies, NextReplies
    <3> HIDE DEF x
    <3> QED
      BY <2>1, <3>1, <3>2, <3>3, TailKeeps, TailSole, AppendKeeps DEF ApKept, KeysInv, x
  <2>5. busy' = busy /\ next' = next
    BY <2>1, <2>2, <2>3
  <2>6. UNCHANGED shapeVars
    BY <2>1, <2>5 DEF shapeVars
  <2> QED
    BY <2>1, <2>4, <2>6, SsSame, ShapeKept DEF KeysInv
<1>5. CASE PreviewIgnores
  <2>1. /\ apq # << >> /\ apq' = Tail(apq) /\ present_state = "VIDEO_PREVIEW"
        /\ UNCHANGED <<ssq, card, mounted, again, present_state>> /\ UNCHANGED shapeVars
    BY <1>5 DEF PreviewIgnores, InPreview, Next_, shapeVars, storageVars, cardVars, recordVars,
                encoderVars
  <2>2. Head(apq).id \notin {"VID_REPLY", "VID_CYCLIC_REPLY"}
    <3>1. Idle
      BY <2>1 DEF KeysInv, Shape, FileAsked, FileGiven, Waiting, NextAsked, NextGiven,
     BothFiles, Recording
    <3>2. Head(apq) \in ApMsg /\ Head(apq) \notin FileReplies /\ Head(apq) \notin NextReplies
      BY <2>1, <3>1, BodyParts, TailKeeps DEF QueueTypeOK, Idle, NoFileDue, NoNextDue
    <3> QED
      BY <3>2 DEF FileReplies, NextReplies
  <2>3. ApKept /\ None(apq', OtherMsgs)
    BY <2>1, <2>2, ApTail DEF KeysInv
  <2> QED
    BY <2>1, <2>3, SsSame, ShapeKept DEF KeysInv, shapeVars
<1>6. ~(\/ VdoRecStop \/ VdoRecRestart \/ FallThrough \/ PrevKey \/ AviPackerError
        \/ MountMsg \/ NoStorage \/ GetJpeg \/ PicReply \/ PreviewCard)
  BY <1>1 DEF VdoRecStop, VdoRecRestart, FallThrough, PrevKey, AviPackerError, MountMsg,
     NoStorage, GetJpeg, PicReply, PreviewCard, Handle, InPreview, Next_, KeyIds, KeysInv
<1> QED
  BY <1>2, <1>3, <1>4, <1>5, <1>6, VidReplyShape, VidCyclicReplyShape, SwitchShape DEF StateTask

-----------------------------------------------------------------------------
(* The storage task. *)

\* The storage task opens the file of a recording that waits for it, and no
\* other.
LEMMA OpenFileShape ==
  ASSUME TypeOK, KeysInv, Shape, VidReq, UNCHANGED <<busy, curr, next, packer, packer_file>>
  PROVE  Shape' /\ None(apq', OtherMsgs) /\ None(ssq', PicReqs)
<1> DEFINE h == OpenHandle(card /\ mounted)
           m == Msg("VID_REPLY", h)
<1>1. /\ ssq # << >> /\ ssq' = Tail(ssq) /\ Head(ssq).id = "VID_REQ"
      /\ apq' = Append(apq, m)
      /\ Truncate(h, g_file_path')
  BY DEF VidReq, FileOpen, Serve, Next_, Reply
<1>2. /\ ssq \in Seq(SsMsg) /\ apq \in Seq(ApMsg)
      /\ Head(ssq) \in FileReqs /\ Head(ssq) \notin NextReqs
  BY <1>1, BodyParts DEF QueueTypeOK, FileReqs, NextReqs
<1>3. ~None(ssq, FileReqs)
  BY <1>1, <1>2, TailKeeps
<1>4. FileAsked
  BY <1>3 DEF Shape, Idle, FileGiven, Recording, NoFileDue, NextAsked, NextGiven, BothFiles
<1>5. /\ None(ssq', FileReqs) /\ None(ssq', NextReqs) /\ None(ssq', PicReqs)
  BY <1>1, <1>2, <1>4, TailKeeps DEF FileAsked, Waiting, NoNextDue, KeysInv
<1>6. h \in Handles \cup {NoHandle}
  BY OpenHandleType
<1>7. m \in ApMsg /\ m.id = "VID_REPLY" /\ m.h = h
  BY <1>6, MsgTypes DEF Msg, ApIds
<1>8. m \in FileReplies /\ m \notin NextReplies /\ m \notin OtherMsgs
  BY <1>7 DEF FileReplies, NextReplies, OtherMsgs, KeyIds
<1> HIDE DEF m
<1>9. /\ Sole(apq', FileReplies, m) /\ None(apq', NextReplies) /\ None(apq', OtherMsgs)
  BY <1>1, <1>2, <1>4, <1>7, <1>8, AppendKeeps DEF FileAsked, Waiting, NoNextDue, KeysInv
<1>10. /\ DOMAIN opened' = {h} \ {NoHandle}
       /\ h # NoHandle => opened'[h] = g_file_path'
  <2> HIDE DEF h
  <2>1. CASE h = NoHandle
    BY <1>1, <1>4, <2>1 DEF Truncate, FileAsked
  <2>2. CASE h # NoHandle
    <3>1. opened' = Opened(opened, h, g_file_path') /\ DOMAIN opened = {}
      BY <1>1, <1>4, <2>2 DEF Truncate, FileAsked
    <3>2. DOMAIN opened' = DOMAIN opened \cup {h} /\ opened'[h] = g_file_path'
      BY <3>1, Files
    <3> QED
      BY <2>2, <3>1, <3>2
  <2> QED
    BY <2>1, <2>2
<1>11. Waiting'
  BY <1>4, <1>5, <1>9 DEF FileAsked, Waiting, NoNextDue
<1>12. FileGiven'
  BY <1>5, <1>7, <1>8, <1>9, <1>10, <1>11 DEF FileGiven
<1> QED
  BY <1>5, <1>9, <1>12 DEF Shape

\* It opens a next file only for a recording that asked for one.
LEMMA OpenNextShape ==
  ASSUME TypeOK, KeysInv, Shape, CyclicOpen, UNCHANGED <<busy, curr, next, packer, packer_file>>
  PROVE  Shape' /\ None(apq', OtherMsgs) /\ None(ssq', PicReqs)
<1> DEFINE h == OpenHandle(card /\ mounted)
           m == Msg("VID_CYCLIC_REPLY", h)
<1>1. /\ ssq # << >> /\ ssq' = Tail(ssq) /\ Head(ssq).id = "VID_CYCLIC_REQ" /\ Head(ssq).on
      /\ apq' = Append(apq, m)
      /\ Truncate(h, g_next_file_path')
      /\ UNCHANGED g_file_path
  BY DEF CyclicOpen, Serve, Next_, Reply
<1>2. ssq \in Seq(SsMsg) /\ apq \in Seq(ApMsg) /\ Head(ssq) \in NextReqs
  BY <1>1, BodyParts DEF QueueTypeOK, NextReqs
<1>3. ~None(ssq, NextReqs)
  BY <1>1, <1>2, TailKeeps
<1>4. NextAsked
  BY <1>3 DEF Shape, Idle, Waiting, NoNextDue, FileAsked, FileGiven, NextGiven, BothFiles
<1>5. /\ None(ssq', FileReqs) /\ None(ssq', NextReqs) /\ None(ssq', PicReqs)
  BY <1>1, <1>2, <1>4, TailKeeps DEF NextAsked, Recording, NoFileDue, KeysInv
<1>6. /\ h \in Handles \cup {NoHandle}
      /\ h # NoHandle => h \notin DOMAIN opened
  BY OpenHandleType
<1>7. m \in ApMsg /\ m.id = "VID_CYCLIC_REPLY" /\ m.h = h
  BY <1>6, MsgTypes DEF Msg, ApIds
<1>8. m \in NextReplies /\ m \notin FileReplies /\ m \notin OtherMsgs
  BY <1>7 DEF FileReplies, NextReplies, OtherMsgs, KeyIds
<1> HIDE DEF m
<1>9. /\ Sole(apq', NextReplies, m) /\ None(apq', FileReplies) /\ None(apq', OtherMsgs)
  BY <1>1, <1>2, <1>4, <1>7, <1>8, AppendKeeps DEF NextAsked, Recording, NoFileDue, KeysInv
<1>10. DOMAIN opened = {curr} /\ opened[curr] = g_file_path /\ curr # NoHandle
  BY <1>4 DEF NextAsked, Recording
<1>11. /\ h # curr
       /\ DOMAIN opened' = {curr} \cup ({h} \ {NoHandle})
       /\ opened'[curr] = g_file_path
       /\ h # NoHandle => opened'[h] = g_next_file_path'
  <2> HIDE DEF h
  <2>1. CASE h = NoHandle
    BY <1>1, <1>10, <2>1 DEF Truncate
  <2>2. CASE h # NoHandle
    <3>1. opened' = Opened(opened, h, g_next_file_path') /\ h # curr
      BY <1>1, <1>6, <1>10, <2>2 DEF Truncate
    <3>2. DOMAIN opened' = DOMAIN opened \cup {h} /\ opened'[h] = g_next_file_path'
      BY <3>1, Files
    <3>3. opened'[curr] = opened[curr]
      BY <1>10, <3>1 DEF Opened
    <3> QED
      BY <1>10, <2>2, <3>1, <3>2, <3>3
  <2> QED
    BY <2>1, <2>2
<1>12. Recording'
  BY <1>1, <1>4, <1>5, <1>9, <1>11 DEF NextAsked, Recording, NoFileDue
<1>13. NextGiven'
  BY <1>4, <1>5, <1>7, <1>8, <1>9, <1>11, <1>12 DEF NextGiven, NextAsked
<1> QED
  BY <1>5, <1>9, <1>13 DEF Shape

\* Every other step of the storage task, in the states of KeysInv: no file is
\* opened and no message is sent to the state task.
LEMMA StorageKeeps ==
  ASSUME TypeOK, KeysOnly, KeysInv, StorageTask, ~VidReq, ~CyclicOpen
  PROVE  /\ UNCHANGED <<apq, card, mounted, opened, g_file_path, g_next_file_path>>
         /\ SsKept /\ None(ssq', PicReqs)
<1>1. ssq # << >> => Head(ssq).id # "PIC_REQ"
  <2>1. ssq # << >> => Head(ssq) \in SsMsg /\ Head(ssq) \notin PicReqs
    BY BodyParts, TailKeeps DEF QueueTypeOK, KeysInv
  <2> QED
    BY <2>1 DEF PicReqs
<1>2. ~PicReq
  BY <1>1 DEF PicReq, FileOpen, Serve, Next_
<1>3. CASE TimerStart \/ FreesizeCheckSwitch \/ FreesizeCheckStep \/ NoFilename \/ CyclicHang
           \/ CyclicUndo
  <2>1. /\ ssq # << >> /\ ssq' = Tail(ssq)
        /\ UNCHANGED <<apq, card, mounted, opened, g_file_path, g_next_file_path>>
    BY <1>3 DEF TimerStart, FreesizeCheckSwitch, FreesizeCheckStep, NoFilename, CyclicHang,
       CyclicUndo, Serve, Next_, cardVars
  <2> QED
    BY <2>1, SsTail DEF KeysInv
<1>4. CASE StorageCheck
  <2>1. ~MountCard /\ ~LoseCard
    BY DEF MountCard, LoseCard, KeysInv
  <2>2. /\ ssq # << >> /\ ssq' = Tail(ssq)
        /\ UNCHANGED <<apq, card, mounted, opened, g_file_path, g_next_file_path>>
    BY <1>4, <2>1 DEF StorageCheck, SameCard, Serve, Next_
  <2> QED
    BY <2>2, SsTail DEF KeysInv
<1>5. ASSUME NEW free, NEW rest, ReDel(free, rest)
      PROVE  /\ UNCHANGED apq
             /\ ssq' = rest \/ ssq' = Append(rest, Req("FREESIZE_CHECK", FALSE))
  <2>1. self_stops \in 0 .. 0
    BY BodyParts DEF StorageTypeOK, DelTypeOK, KeysOnly
  <2>2. ~(self_stops < MaxSelfStops)
    BY <2>1 DEF KeysOnly
  <2>3. \A id : ~SelfStop(id)
    BY <2>2 DEF SelfStop
  <2> QED
    BY <1>5, <2>3 DEF ReDel, DelDisabled, DelNothing, DelVideo
<1>6. CASE FreesizeCheck \/ FreesizeCheckAgain
  <2>1. UNCHANGED <<card, mounted, opened, g_file_path, g_next_file_path>>
    BY <1>6 DEF FreesizeCheck, FreesizeCheckAgain, DelUnchanged
  <2>2. CASE FreesizeCheck
    <3>1. /\ ssq # << >> /\ UNCHANGED apq
          /\ ssq' = Tail(ssq) \/ ssq' = Append(Tail(ssq), Req("FREESIZE_CHECK", FALSE))
      BY <1>5, <2>2 DEF FreesizeCheck, Next_
    <3> QED
      BY <2>1, <3>1, SsTail, SsTailAppend, PlainReqIds DEF KeysInv
  <2>3. CASE FreesizeCheckAgain
    <3>1. /\ UNCHANGED apq
          /\ ssq' = ssq \/ ssq' = Append(ssq, Req("FREESIZE_CHECK", FALSE))
      BY <1>5, <2>3 DEF FreesizeCheckAgain
    <3> QED
      BY <2>1, <3>1, SsSame, SsAppend, PlainReqIds DEF KeysInv
  <2> QED
    BY <1>6, <2>2, <2>3
<1> QED
  BY <1>2, <1>3, <1>4, <1>6 DEF StorageTask

\* Every message of the storage task keeps the shape.
LEMMA ServiceShape ==
  ASSUME TypeOK, KeysOnly, KeysInv, Shape, Service
  PROVE  Shape' /\ KeysInv'
<1>1. UNCHANGED <<busy, curr, next, packer, packer_file, present_state, again>>
  BY DEF Service, recordVars, encoderVars
<1>2. CASE VidReq \/ CyclicOpen
  <2>1. UNCHANGED <<card, mounted>>
    BY <1>2 DEF VidReq, CyclicOpen, FileOpen
  <2> QED
    BY <1>1, <1>2, <2>1, OpenFileShape, OpenNextShape DEF KeysInv
<1>3. CASE ~VidReq /\ ~CyclicOpen
  BY <1>1, <1>3, StorageKeeps, ApSame, ShapeKept DEF Service, KeysInv, shapeVars
<1> QED
  BY <1>2, <1>3

-----------------------------------------------------------------------------
(* All of it. *)

\* So do the timers, the user and the card.
LEMMA SurroundingsShape ==
  ASSUME TypeOK, KeysOnly, KeysInv, Shape, ServiceTick \/ Input \/ CyclicTick \/ MoveCard
  PROVE  Shape' /\ KeysInv'
<1>1. UNCHANGED <<card, mounted, again, present_state>> /\ UNCHANGED shapeVars
  <2>1. ~MoveCard
    <3>1. moves \in 0 .. 0
      BY BodyParts DEF CountTypeOK, KeysOnly
    <3> QED
      BY <3>1 DEF MoveCard, KeysOnly
  <2> QED
    BY <2>1 DEF ServiceTick, StorageTick, MountTick, FreesizeTick, Input, CyclicTick, shapeVars,
       cardVars, storageVars, recordVars, encoderVars
<1>2. ApKept /\ None(apq', OtherMsgs)
  <2>1. CASE ServiceTick
    BY <2>1, ApSame DEF ServiceTick, StorageTick, MountTick, FreesizeTick, KeysInv
  <2>2. CASE Input
    <3>1. PICK id \in Inputs : apq' = Append(apq, Msg(id, NoHandle))
      BY <2>2 DEF Input
    <3>2. id \in KeyIds /\ id \notin {"VID_REPLY", "VID_CYCLIC_REPLY"}
      BY DEF KeysOnly, KeyIds
    <3> QED
      BY <3>1, <3>2, ApAppend DEF KeysInv
  <2>3. CASE CyclicTick
    <3>1. /\ apq' = Append(apq, Msg("CYCLIC_VIDEO_RECORD", NoHandle))
          /\ "CYCLIC_VIDEO_RECORD" \in KeyIds
      BY <2>3 DEF CyclicTick, KeyIds
    <3> QED
      BY <3>1, ApAppend DEF KeysInv
  <2>4. CASE MoveCard
    BY <2>4, ApSame DEF MoveCard, KeysInv
  <2> QED
    BY <2>1, <2>2, <2>3, <2>4
<1>3. SsKept /\ None(ssq', PicReqs)
  <2>1. CASE ServiceTick
    <3>1. \E x \in PlainReqs : ssq' = Append(ssq, x)
      BY <2>1, PlainReqIds DEF ServiceTick, StorageTick, MountTick, FreesizeTick
    <3> QED
      BY <3>1, SsAppend DEF KeysInv
  <2>2. CASE Input \/ CyclicTick \/ MoveCard
    BY <2>2, SsSame DEF Input, CyclicTick, MoveCard, KeysInv
  <2> QED
    BY <2>1, <2>2
<1> QED
  BY <1>1, <1>2, <1>3, ShapeKept DEF KeysInv, shapeVars

\* The shape at the start.
LEMMA IndInit == Init => KeysInv /\ Shape
<1> SUFFICES ASSUME Init
             PROVE  KeysInv /\ Shape
  OBVIOUS
<1>1. /\ apq = << >> /\ ssq = << >> /\ card = TRUE /\ mounted = TRUE /\ again = "none"
      /\ present_state = "VIDEO_RECORD" /\ busy = FALSE /\ packer = FALSE /\ next = NoHandle
      /\ opened = << >>
  BY DEF Init, CardInit, StorageInit
<1>2. DOMAIN << >> = {} /\ \A S : None(<< >>, S)
  BY DEF None
<1>3. Idle
  BY <1>1, <1>2 DEF Idle, NoFileDue, NoNextDue
<1> QED
  BY <1>1, <1>2, <1>3 DEF KeysInv, Shape

\* The shape is inductive.
LEMMA IndStep ==
  ASSUME KeysOnly, TypeOK, KeysInv, Shape, [Next]_vars
  PROVE  Shape' /\ KeysInv'
<1>1. CASE UNCHANGED vars
  <2>1. UNCHANGED <<apq, ssq, card, mounted, again, present_state>> /\ UNCHANGED shapeVars
    BY <1>1 DEF vars, shapeVars, cardVars, storageVars, recordVars, encoderVars
  <2> QED
    BY <2>1, ApSame, SsSame, ShapeKept DEF KeysInv, shapeVars
<1> QED
  BY <1>1, StateTaskShape, ServiceShape, SurroundingsShape DEF Next

\* Under KeysOnly every reachable state has one of the six shapes, for every
\* number of files, handles, presses and switches.
THEOREM IndInvCorrect ==
  ASSUME KeysOnly
  PROVE  Spec => []IndInv
<1>1. Init => IndInv
  BY IndInit, InitTypes DEF IndInv
<1>2. IndInv /\ [Next]_vars => IndInv'
  BY IndStep, TypeStep DEF IndInv
<1> QED
  BY <1>1, <1>2, PTL DEF Spec

\* A reply on its way with a handle is one of the two replies.
LEMMA InFlightReplies ==
  ASSUME TypeOK, KeysInv, NEW k \in InFlight
  PROVE  /\ k \in 1 .. Len(apq) /\ apq[k].h # NoHandle
         /\ apq[k] \in FileReplies \/ apq[k] \in NextReplies
<1>1. k \in 1 .. Len(apq) /\ apq[k].id \in Replies /\ apq[k].h # NoHandle
  BY DEF InFlight
<1>2. apq[k] \in ApMsg /\ apq[k] \notin OtherMsgs
  BY <1>1, BodyParts DEF QueueTypeOK, KeysInv, None
<1> QED
  BY <1>1, <1>2 DEF OtherMsgs, KeyIds, Replies, FileReplies, NextReplies

\* No reply, no handle on its way.
LEMMA NoneInFlight ==
  ASSUME TypeOK, KeysInv, None(apq, FileReplies), None(apq, NextReplies)
  PROVE  InFlight = {}
<1> SUFFICES ASSUME NEW k \in InFlight
             PROVE  FALSE
  OBVIOUS
<1> QED
  BY InFlightReplies DEF None

\* One reply, at most one handle on its way.
LEMMA OneInFlight ==
  ASSUME TypeOK, KeysInv, NEW S, NEW R, NEW m, {S, R} = {FileReplies, NextReplies},
         Sole(apq, S, m), None(apq, R)
  PROVE  /\ \A j, k \in InFlight : j = k
         /\ \A k \in InFlight : apq[k] = m
         /\ {apq[k].h : k \in InFlight} = {m.h} \ {NoHandle}
<1>1. PICK i \in 1 .. Len(apq) : apq[i] = m /\ \A j \in 1 .. Len(apq) : apq[j] \in S => j = i
  BY DEF Sole
<1>2. \A k \in InFlight : k = i
  <2> SUFFICES ASSUME NEW k \in InFlight
               PROVE  k = i
    OBVIOUS
  <2>1. k \in 1 .. Len(apq) /\ (apq[k] \in S \/ apq[k] \in R)
    BY InFlightReplies
  <2> QED
    BY <1>1, <2>1 DEF None
<1>3. m.h # NoHandle => i \in InFlight
  <2>1. m.id \in Replies
    BY DEF Sole, FileReplies, NextReplies, Replies
  <2> QED
    BY <1>1, <2>1 DEF InFlight
<1>4. \A k \in InFlight : apq[k].h # NoHandle
  BY DEF InFlight
<1> QED
  BY <1>1, <1>2, <1>3, <1>4

\* In each shape every open file has one holder, and the path names the file
\* that is recorded.
LEMMA ShapesHold ==
  ASSUME TypeOK, KeysInv, Shape
  PROVE  OneHolder /\ PathNamesRecording
<1>1. CASE Idle
  <2>1. InFlight = {} /\ Recorded = {} /\ NextHeld = {} /\ DOMAIN opened = {}
    BY <1>1, NoneInFlight DEF Idle, NoFileDue, NoNextDue, Recorded, NextHeld
  <2> QED
    BY <2>1 DEF OneHolder, PathNamesRecording
<1>2. CASE FileAsked
  <2>1. InFlight = {} /\ Recorded = {} /\ NextHeld = {} /\ DOMAIN opened = {}
    BY <1>2, NoneInFlight DEF FileAsked, Waiting, NoNextDue, Recorded, NextHeld
  <2> QED
    BY <2>1 DEF OneHolder, PathNamesRecording
<1>3. CASE FileGiven
  <2>1. PICK m : Sole(apq, FileReplies, m) /\ DOMAIN opened = {m.h} \ {NoHandle}
    BY <1>3 DEF FileGiven
  <2>2. None(apq, NextReplies) /\ Recorded = {} /\ NextHeld = {}
    BY <1>3 DEF FileGiven, Waiting, NoNextDue, Recorded, NextHeld
  <2>3. /\ \A j, k \in InFlight : j = k
        /\ {apq[k].h : k \in InFlight} = {m.h} \ {NoHandle}
    BY <2>1, <2>2, OneInFlight
  <2> QED
    BY <2>1, <2>2, <2>3 DEF OneHolder, PathNamesRecording
<1>4. Recording => Recorded = {curr} /\ opened[curr] = g_file_path
  BY DEF Recording, Recorded
<1>5. CASE NextAsked
  <2>1. InFlight = {} /\ NextHeld = {} /\ Recorded = {curr} /\ DOMAIN opened = {curr}
    BY <1>4, <1>5, NoneInFlight DEF NextAsked, Recording, NoFileDue, NextHeld
  <2> QED
    BY <1>4, <1>5, <2>1 DEF NextAsked, OneHolder, PathNamesRecording
<1>6. CASE NextGiven
  <2>1. PICK m : /\ Sole(apq, NextReplies, m) /\ m.h # curr
                 /\ DOMAIN opened = {curr} \cup ({m.h} \ {NoHandle})
    BY <1>6 DEF NextGiven
  <2>2. None(apq, FileReplies) /\ Recorded = {curr} /\ NextHeld = {} /\ opened[curr] = g_file_path
    BY <1>4, <1>6 DEF NextGiven, Recording, NoFileDue, NextHeld
  <2>3. /\ \A j, k \in InFlight : j = k
        /\ \A k \in InFlight : apq[k] = m
        /\ {apq[k].h : k \in InFlight} = {m.h} \ {NoHandle}
    BY <2>1, <2>2, OneInFlight
  <2> QED
    BY <2>1, <2>2, <2>3 DEF OneHolder, PathNamesRecording
<1>7. CASE BothFiles
  <2>1. /\ InFlight = {} /\ NextHeld = {next} /\ Recorded = {curr} /\ next # curr
        /\ DOMAIN opened = {curr, next}
        /\ opened[curr] = g_file_path /\ opened[next] = g_next_file_path
    BY <1>4, <1>7, NoneInFlight DEF BothFiles, Recording, NoFileDue, NoNextDue, NextHeld
  <2> QED
    BY <2>1 DEF OneHolder, PathNamesRecording
<1> QED
  BY <1>1, <1>2, <1>3, <1>5, <1>6, <1>7 DEF Shape

\* Every open file is held in exactly one place (the current handle, the next
\* one, or one reply on its way), and nothing else is: no handle leaks and none
\* is closed twice, whatever the order of keys, replies and switches.
THEOREM OneHolderHolds ==
  ASSUME KeysOnly
  PROVE  Spec => []OneHolder
<1>1. IndInv => OneHolder
  BY ShapesHold DEF IndInv
<1> QED
  BY <1>1, IndInvCorrect, PTL

\* While the packer writes a file, g_file_path names that file: the lock and
\* the delete that use the path hit the right file.
THEOREM PathNamesRecordingHolds ==
  ASSUME KeysOnly
  PROVE  Spec => []PathNamesRecording
<1>1. IndInv => PathNamesRecording
  BY ShapesHold DEF IndInv
<1> QED
  BY <1>1, IndInvCorrect, PTL

=============================================================================

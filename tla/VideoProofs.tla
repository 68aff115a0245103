---------------------------- MODULE VideoProofs -----------------------------
(***************************************************************************)
(* Proofs about VideoRecord that rest on its types and its shapes: what    *)
(* the state task knows of the card, the numbers of the files, the polling *)
(* of the card between recordings, the finished videos, and the files that *)
(* are open or locked.                                                     *)
(***************************************************************************)
EXTENDS VideoShapes

-----------------------------------------------------------------------------
(* What the state task knows of the card. *)

\* The messages by which the storage task tells the state task of the card; the
\* last one in a queue.
CardMsgs == {m \in ApMsg : m.id \in {"MOUNT", "NO_STORAGE"}}

Last(q, S, m) ==
  /\ m \in S
  /\ \E k \in 1 .. Len(q) : q[k] = m /\ \A j \in 1 .. Len(q) : q[j] \in S => j <= k

\* The last such message on its way says what the storage task knows; with none
\* on its way, the state task knows it too.
CardInv ==
  \/ None(apq, CardMsgs) /\ unmounted = ~mounted
  \/ \E m \in CardMsgs : Last(apq, CardMsgs, m) /\ mounted = (m.id = "MOUNT")

\* The last message of S stays last until it is taken.
LEMMA TailLast ==
  ASSUME NEW T, NEW q \in Seq(T), q # << >>, NEW S, NEW m, Last(q, S, m)
  PROVE  Last(Tail(q), S, m) \/ (Head(q) = m /\ None(Tail(q), S))
<1>1. /\ Head(q) = q[1] /\ Len(q) \in Nat /\ 1 \in 1 .. Len(q)
      /\ Len(Tail(q)) = Len(q) - 1
      /\ \A k \in 1 .. Len(q) - 1 : Tail(q)[k] = q[k + 1] /\ k + 1 \in 1 .. Len(q)
  OBVIOUS
<1>2. PICK k \in 1 .. Len(q) : q[k] = m /\ \A j \in 1 .. Len(q) : q[j] \in S => j <= k
  BY DEF Last
<1>3. \A j \in 1 .. Len(q) - 1 : Tail(q)[j] \in S => j + 1 <= k
  BY <1>1, <1>2
<1>4. m \in S
  BY DEF Last
<1>5. CASE k = 1
  <2>1. \A j \in 1 .. Len(q) - 1 : Tail(q)[j] \notin S
    BY <1>3, <1>5
  <2> QED
    BY <1>1, <1>2, <1>5, <2>1 DEF None
<1>6. CASE k # 1
  <2>1. k - 1 \in 1 .. Len(q) - 1 /\ Tail(q)[k - 1] = m
    BY <1>1, <1>2, <1>6
  <2>2. \A j \in 1 .. Len(q) - 1 : Tail(q)[j] \in S => j <= k - 1
    BY <1>1, <1>3
  <2> QED
    BY <1>1, <1>4, <2>1, <2>2 DEF Last
<1> QED
  BY <1>5, <1>6

\* A later message of S becomes the last.
LEMMA AppendLast ==
  ASSUME NEW T, NEW q \in Seq(T), NEW S, NEW x \in T
  PROVE  /\ \A m : x \notin S /\ Last(q, S, m) => Last(Append(q, x), S, m)
         /\ x \in S => Last(Append(q, x), S, x)
<1>1. /\ Len(q) \in Nat /\ Len(Append(q, x)) = Len(q) + 1
      /\ \A k \in 1 .. Len(q) : Append(q, x)[k] = q[k]
      /\ Append(q, x)[Len(q) + 1] = x
  OBVIOUS
<1>2. \A k \in 1 .. Len(q) + 1 : k \in 1 .. Len(q) \/ k = Len(q) + 1
  BY <1>1
<1>3. 1 .. Len(q) \subseteq 1 .. Len(q) + 1 /\ Len(q) + 1 \in 1 .. Len(q) + 1
  BY <1>1
<1>4. ASSUME NEW m, x \notin S, Last(q, S, m)
      PROVE  Last(Append(q, x), S, m)
  BY <1>1, <1>2, <1>3, <1>4 DEF Last
<1>5. x \in S => Last(Append(q, x), S, x)
  <2>1. \A k \in 1 .. Len(q) + 1 : k <= Len(q) + 1
    BY <1>1
  <2> QED
    BY <1>1, <1>3, <2>1 DEF Last
<1> QED
  BY <1>4, <1>5

\* A step that sends and takes no message about the card keeps CardInv;
LEMMA CardKept ==
  ASSUME TypeOK, CardInv, UNCHANGED <<mounted, unmounted>>, NEW q \in Seq(ApMsg), NEW x \in ApMsg,
         \/ q = apq
         \/ apq # << >> /\ q = Tail(apq) /\ Head(apq) \notin CardMsgs,
         apq' = q \/ (apq' = Append(q, x) /\ x \notin CardMsgs)
  PROVE  CardInv'
<1>1. apq \in Seq(ApMsg)
  BY BodyParts DEF QueueTypeOK
<1>2. CASE None(apq, CardMsgs) /\ unmounted = ~mounted
  <2>1. None(q, CardMsgs)
    <3>1. CASE apq # << >> /\ q = Tail(apq)
      BY <1>1, <1>2, <3>1, TailKeeps
    <3> QED
      BY <1>2, <3>1
  <2>2. None(apq', CardMsgs)
    BY <2>1, AppendKeeps
  <2> QED
    BY <1>2, <2>2 DEF CardInv
<1>3. CASE \E m \in CardMsgs : Last(apq, CardMsgs, m) /\ mounted = (m.id = "MOUNT")
  <2>1. PICK m \in CardMsgs : Last(apq, CardMsgs, m) /\ mounted = (m.id = "MOUNT")
    BY <1>3
  <2>2. Last(q, CardMsgs, m)
    BY <1>1, <2>1, TailLast
  <2>3. Last(apq', CardMsgs, m)
    BY <2>2, AppendLast
  <2> QED
    BY <2>1, <2>3 DEF CardInv
<1> QED
  BY <1>2, <1>3 DEF CardInv

\* The same, by the ids of the messages.
LEMMA CardKeptId ==
  ASSUME TypeOK, CardInv, UNCHANGED <<mounted, unmounted>>,
         \/ UNCHANGED apq
         \/ apq # << >> /\ apq' = Tail(apq) /\ Head(apq).id \notin {"MOUNT", "NO_STORAGE"}
         \/ \E id \in ApIds \ {"MOUNT", "NO_STORAGE"} : \E h \in Handles \cup {NoHandle} :
              \/ apq' = Append(apq, Msg(id, h))
              \/ /\ apq # << >> /\ Head(apq).id \notin {"MOUNT", "NO_STORAGE"}
                 /\ apq' = Append(Tail(apq), Msg(id, h))
  PROVE  CardInv'
<1>1. apq \in Seq(ApMsg) /\ (apq # << >> => Tail(apq) \in Seq(ApMsg))
  BY BodyParts DEF QueueTypeOK
<1>2. Head(apq).id \notin {"MOUNT", "NO_STORAGE"} => Head(apq) \notin CardMsgs
  BY DEF CardMsgs
<1>3. \A id \in ApIds \ {"MOUNT", "NO_STORAGE"} : \A h \in Handles \cup {NoHandle} :
        Msg(id, h) \in ApMsg /\ Msg(id, h) \notin CardMsgs
  BY MsgTypes DEF Msg, CardMsgs
<1>4. \E x : x \in ApMsg
  <2>1. Msg("MODE", NoHandle) \in ApMsg
    BY MsgTypes DEF ApIds
  <2> QED
    BY <2>1
<1> QED
  BY <1>1, <1>2, <1>3, <1>4, CardKept

\* The storage task sends such a message exactly when what it knows changes.
LEMMA StorageMounted ==
  ASSUME TypeOK, CardInv, Service
  PROVE  CardInv'
<1>1. UNCHANGED unmounted
  BY DEF Service
<1>2. \A able : OpenHandle(able) \in Handles \cup {NoHandle}
  BY OpenHandleType
<1>3. NoHandle \in Handles \cup {NoHandle}
  OBVIOUS
<1>4. CASE StorageCheck
  <2>1. CASE MountCard \/ LoseCard
    <3> DEFINE x == IF card THEN Msg("MOUNT", NoHandle) ELSE Msg("NO_STORAGE", NoHandle)
    <3>1. /\ apq' = Append(apq, x)
          /\ mounted' = (x.id = "MOUNT")
      BY <2>1 DEF MountCard, LoseCard, Reply, Msg
    <3>2. x \in ApMsg /\ x \in CardMsgs
      BY MsgTypes DEF ApIds, CardMsgs, Msg
    <3>3. apq \in Seq(ApMsg)
      BY BodyParts DEF QueueTypeOK
    <3> HIDE DEF x
    <3>4. Last(apq', CardMsgs, x)
      BY <3>1, <3>2, <3>3, AppendLast
    <3> QED
      BY <3>1, <3>2, <3>4 DEF CardInv
  <2>2. CASE UNCHANGED <<apq, mounted>>
    BY <1>1, <2>2, CardKeptId
  <2> QED
    BY <1>4, <2>1, <2>2 DEF StorageCheck, SameCard
<1>5. CASE VidReq \/ PicReq \/ CyclicOpen
  <2>1. /\ UNCHANGED mounted
        /\ \E id \in {"VID_REPLY", "PIC_REPLY", "VID_CYCLIC_REPLY"} :
           \E h \in Handles \cup {NoHandle} : apq' = Append(apq, Msg(id, h))
    BY <1>2, <1>5 DEF VidReq, PicReq, CyclicOpen, FileOpen, Reply
  <2> QED
    BY <1>1, <2>1, CardKeptId DEF ApIds
<1>6. ASSUME NEW free, NEW rest, ReDel(free, rest)
      PROVE  \/ UNCHANGED apq
             \/ \E id \in {"VDO_REC_STOP", "VDO_REC_RESTART"} : apq' = Append(apq, Msg(id, NoHandle))
  BY <1>6 DEF ReDel, DelDisabled, DelNothing, DelVideo, SelfStop, Reply
<1>7. CASE FreesizeCheck \/ FreesizeCheckAgain
  <2>1. /\ UNCHANGED mounted
        /\ \/ UNCHANGED apq
           \/ \E id \in {"VDO_REC_STOP", "VDO_REC_RESTART"} : apq' = Append(apq, Msg(id, NoHandle))
    BY <1>6, <1>7 DEF FreesizeCheck, FreesizeCheckAgain, DelUnchanged
  <2> QED
    BY <1>1, <1>3, <2>1, CardKeptId DEF ApIds
<1>8. CASE \/ TimerStart \/ FreesizeCheckSwitch \/ NoFilename \/ CyclicHang \/ CyclicUndo
           \/ FreesizeCheckStep
  <2>1. UNCHANGED <<apq, mounted>>
    BY <1>8 DEF TimerStart, FreesizeCheckSwitch, NoFilename, CyclicHang, CyclicUndo,
       FreesizeCheckStep
  <2> QED
    BY <1>1, <2>1, CardKeptId
<1> QED
  BY <1>4, <1>5, <1>7, <1>8 DEF Service, StorageTask

\* The record key does not change what the storage task knows.
LEMMA KeyMounted ==
  /\ \A event, pre, post : FuncKeyStop(event, pre, post) => UNCHANGED mounted
  /\ \A event : FuncKey(event) => UNCHANGED mounted
  /\ \A pre, post : StopIfBusy(pre, post) => UNCHANGED mounted
<1>1. \A event, pre, post : FuncKeyStop(event, pre, post) => UNCHANGED mounted
  BY DEF FuncKeyStop, serviceVars
<1> QED
  BY <1>1 DEF FuncKey, FuncKeyRefused, FuncKeyStart, FuncKeyNoStart, StopIfBusy, storageVars

\* The state task believes the message that it takes.
LEMMA StateTaskMounted ==
  ASSUME TypeOK, CardInv, StateTask
  PROVE  CardInv'
<1>1. CASE MountMsg \/ NoStorage \/ PreviewCard
  <2>1. /\ apq # << >> /\ apq' = Tail(apq) /\ Head(apq).id \in {"MOUNT", "NO_STORAGE"}
        /\ unmounted' = (Head(apq).id = "NO_STORAGE")
        /\ UNCHANGED mounted
    BY <1>1, KeyMounted
    DEF MountMsg, NoStorage, PreviewCard, Handle, InPreview, Next_, storageVars
  <2>2. apq \in Seq(ApMsg) /\ Head(apq) \in CardMsgs
    BY <2>1, BodyParts DEF QueueTypeOK, CardMsgs
  <2>3. ~None(apq, CardMsgs)
    BY <2>1, <2>2, TailKeeps
  <2>4. PICK m \in CardMsgs : Last(apq, CardMsgs, m) /\ mounted = (m.id = "MOUNT")
    BY <2>3 DEF CardInv
  <2>5. CASE Last(Tail(apq), CardMsgs, m)
    BY <2>1, <2>4, <2>5 DEF CardInv
  <2>6. CASE Head(apq) = m /\ None(Tail(apq), CardMsgs)
    <3>1. None(apq', CardMsgs) /\ unmounted' = ~mounted'
      BY <2>1, <2>4, <2>6
    <3> QED
      BY <3>1 DEF CardInv
  <2> QED
    BY <2>1, <2>2, <2>4, <2>5, <2>6, TailLast
<1>2. CASE FallThrough
  <2>1. UNCHANGED <<apq, mounted, unmounted>>
    BY <1>2, KeyMounted DEF FallThrough
  <2> QED
    BY <2>1, CardKeptId
<1>3. CASE AviPackerError
  <2>1. /\ UNCHANGED <<mounted, unmounted>> /\ apq # << >> /\ Head(apq).id = "AVI_PACKER_ERROR"
        /\ apq' = Tail(apq) \/ apq' = Append(Tail(apq), Msg("VIDEO_RECORD_ACTIVE", NoHandle))
    BY <1>3, KeyMounted DEF AviPackerError, Next_
  <2> QED
    BY <2>1, CardKeptId DEF ApIds
<1>4. CASE PreviewRecordKey
  <2>1. /\ UNCHANGED <<mounted, unmounted>> /\ apq # << >> /\ Head(apq).id = "VIDEO_RECORD_ACTIVE"
        /\ apq' = Append(Tail(apq), Msg("VIDEO_RECORD_ACTIVE", NoHandle))
    BY <1>4 DEF PreviewRecordKey, Next_, storageVars
  <2> QED
    BY <2>1, CardKeptId DEF ApIds
<1>5. CASE RecordActive \/ VdoRecStop \/ VdoRecRestart \/ PrevKey
  <2>1. /\ UNCHANGED <<mounted, unmounted>> /\ apq # << >> /\ apq' = Tail(apq)
        /\ Head(apq).id \notin {"MOUNT", "NO_STORAGE"}
    BY <1>5, KeyMounted DEF RecordActive, VdoRecStop, VdoRecRestart, PrevKey, Handle, Next_
  <2> QED
    BY <2>1, CardKeptId
<1>6. CASE SosKey \/ GetJpeg \/ PicReply \/ ModeKey \/ PreviewIgnores
  <2>1. /\ UNCHANGED <<mounted, unmounted>> /\ apq # << >> /\ apq' = Tail(apq)
        /\ Head(apq).id \notin {"MOUNT", "NO_STORAGE"}
    BY <1>6 DEF SosKey, GetJpeg, PicReply, ModeKey, PreviewIgnores, Handle, InPreview, Next_,
       storageVars
  <2> QED
    BY <2>1, CardKeptId
<1>7. CASE VidReply \/ VidCyclicReply \/ CyclicVideoRecord
  <2>1. UNCHANGED mounted
    BY <1>7 DEF VidReply, VidCyclicReply, CyclicVideoRecord, LateReply, ReplyNoFile,
       ReplyStartFails, ReplyStart, SwitchFile, SwitchFails, NoNextFile, storageVars, serviceVars
  <2>2. /\ UNCHANGED unmounted /\ apq # << >> /\ apq' = Tail(apq)
        /\ Head(apq).id \notin {"MOUNT", "NO_STORAGE"}
    BY <1>7 DEF VidReply, VidCyclicReply, CyclicVideoRecord, Handle, Next_
  <2> QED
    BY <2>1, <2>2, CardKeptId
<1> QED
  BY <1>1, <1>2, <1>3, <1>4, <1>5, <1>6, <1>7 DEF StateTask

\* The timers, the user and the card change neither.
LEMMA SurroundingsMounted ==
  ASSUME TypeOK, CardInv, ServiceTick \/ Input \/ CyclicTick \/ MoveCard
  PROVE  CardInv'
<1>1. UNCHANGED <<mounted, unmounted>>
  BY DEF ServiceTick, StorageTick, MountTick, FreesizeTick, Input, CyclicTick, MoveCard, storageVars
<1>2. \/ UNCHANGED apq
      \/ \E id \in ApIds \ {"MOUNT", "NO_STORAGE"} : apq' = Append(apq, Msg(id, NoHandle))
  <2>1. Inputs \subseteq ApIds \ {"MOUNT", "NO_STORAGE"}
    BY RecordAssumption DEF InputIds, ApIds
  <2> QED
    BY <2>1 DEF ServiceTick, StorageTick, MountTick, FreesizeTick, Input, CyclicTick, MoveCard,
       ApIds
<1> QED
  BY <1>1, <1>2, CardKeptId

\* When no message about the card is on its way, the state task and the storage
\* task agree on whether the card is mounted: for every value of the constants,
\* with card moves, faults and all inputs.
THEOREM CardKnownHolds == Spec => []CardKnown
<1>1. Init => CardInv
  <2> SUFFICES ASSUME Init
               PROVE  CardInv
    OBVIOUS
  <2>1. apq = << >> /\ unmounted = FALSE /\ mounted = TRUE
    BY DEF Init, CardInit, StorageInit
  <2>2. None(<< >>, CardMsgs)
    BY DEF None
  <2>3. unmounted = ~mounted
    BY <2>1
  <2> QED
    BY <2>1, <2>2, <2>3 DEF CardInv
<1>2. TypeOK /\ CardInv /\ [Next]_vars => CardInv'
  <2> SUFFICES ASSUME TypeOK, CardInv, [Next]_vars
               PROVE  CardInv'
    OBVIOUS
  <2>1. CASE UNCHANGED vars
    <3>1. UNCHANGED <<apq, mounted, unmounted>>
      BY <2>1 DEF vars, storageVars
    <3> QED
      BY <3>1, CardKeptId
  <2> QED
    BY <2>1, StateTaskMounted, StorageMounted, SurroundingsMounted DEF Next
<1>3. CardInv => CardKnown
  <2>1. \A m : ~Last(<< >>, CardMsgs, m)
    BY DEF Last
  <2> QED
    BY <2>1 DEF CardInv, CardKnown
<1> QED
  BY <1>1, <1>2, <1>3, TypeCorrect, PTL DEF Spec

-----------------------------------------------------------------------------
(* The numbers of the files. *)

\* The request that gives a next file back; the replies that hold one.
UndoReqs == {m \in SsMsg : m.id = "VID_CYCLIC_REQ" /\ ~m.on}
NextFiles == {m \in NextReplies : m.h # NoHandle}

\* Every message of S comes before every message of R.
Before(q, S, R) == \A j, k \in 1 .. Len(q) : q[j] \in S /\ q[k] \in R => j < k

\* The number before g_file_index, around the end of the table: that of the
\* newest file.
LastIndex == (g_file_index + N - 1) % N

\* The table of numbers knows every video on the card.
MoviIn == \A i \in Idx : <<"MOVI", i>> \in disk => i \in avi_file_table

\* A request to give the next file back waits only between recordings, once,
\* and before the request for another file: the number that it frees is that of
\* the next file, which is the newest, and which is not on the card.
UndoInv ==
  /\ AtMostOne(ssq, UndoReqs)
  /\ Before(ssq, UndoReqs, FileReqs)
  /\ ~None(ssq, UndoReqs) => /\ ~packer /\ None(apq, FileReplies)
                             /\ <<"MOVI", LastIndex>> \notin disk

\* A next file that was opened has the newest number.
NextInv ==
  ~None(apq, NextFiles) \/ next # NoHandle => g_next_file_path = <<"MOVI", LastIndex>>

\* What NeverTruncates needs beyond the shapes: all the numbers of the videos
\* on the card are in avi_file_table, also after the number of an unused next
\* file was given back.
NumbersInv == MoviIn /\ UndoInv /\ NextInv

\* The order of two kinds of messages survives a message taken and a message
\* sent.
LEMMA BeforeKept ==
  ASSUME NEW T, NEW q \in Seq(T), NEW S, NEW R
  PROVE  /\ q # << >> /\ Before(q, S, R) => Before(Tail(q), S, R)
         /\ q # << >> /\ Before(q, S, R) /\ Head(q) \in R => None(q, S)
         /\ \A x \in T : x \notin S /\ Before(q, S, R) => Before(Append(q, x), S, R)
         /\ None(q, R) => Before(q, S, R)
<1>1. ASSUME q # << >>, Before(q, S, R)
      PROVE  Before(Tail(q), S, R) /\ (Head(q) \in R => None(q, S))
  <2>1. /\ Head(q) = q[1] /\ Len(q) \in Nat /\ 1 \in 1 .. Len(q)
        /\ Len(Tail(q)) = Len(q) - 1
        /\ \A k \in 1 .. Len(q) - 1 : Tail(q)[k] = q[k + 1] /\ k + 1 \in 1 .. Len(q)
    BY <1>1
  <2>2. ASSUME NEW j \in 1 .. Len(q) - 1, NEW k \in 1 .. Len(q) - 1,
               Tail(q)[j] \in S, Tail(q)[k] \in R
        PROVE  j < k
    <3>1. j + 1 < k + 1
      BY <1>1, <2>1, <2>2 DEF Before
    <3> QED
      BY <3>1
  <2>3. ASSUME Head(q) \in R, NEW j \in 1 .. Len(q), q[j] \in S
        PROVE  FALSE
    <3>1. j < 1
      BY <1>1, <2>1, <2>3 DEF Before
    <3> QED
      BY <3>1
  <2> QED
    BY <2>1, <2>2, <2>3 DEF Before, None
<1>2. ASSUME NEW x \in T, x \notin S, Before(q, S, R)
      PROVE  Before(Append(q, x), S, R)
  <2>1. /\ Len(q) \in Nat /\ Len(Append(q, x)) = Len(q) + 1
        /\ \A k \in 1 .. Len(q) : Append(q, x)[k] = q[k]
        /\ Append(q, x)[Len(q) + 1] = x
    OBVIOUS
  <2> SUFFICES ASSUME NEW j \in 1 .. Len(q) + 1, NEW k \in 1 .. Len(q) + 1,
                      Append(q, x)[j] \in S, Append(q, x)[k] \in R
               PROVE  j < k
    BY <2>1 DEF Before
  <2>2. j \in 1 .. Len(q) /\ q[j] \in S
    BY <1>2, <2>1
  <2>3. CASE k = Len(q) + 1
    BY <2>1, <2>2, <2>3
  <2>4. CASE k \in 1 .. Len(q)
    BY <1>2, <2>1, <2>2, <2>4 DEF Before
  <2> QED
    BY <2>1, <2>3, <2>4
<1>3. None(q, R) => Before(q, S, R)
  BY DEF None, Before
<1> QED
  BY <1>1, <1>2, <1>3

\* Locking a video puts no other unlocked video on the card.
LEMMA LockAddsNoVideo ==
  ASSUME NEW d, NEW n, NEW i, <<"MOVI", i>> \in Locked(d, n)
  PROVE  <<"MOVI", i>> \in d
<1>1. <<"MOVI", i>> # <<"LOCK", n[2]>> /\ <<"MOVI", i>> # <<"LOCKPIC", n[2]>>
  OBVIOUS
<1> QED
  BY <1>1 DEF Locked, LockName

\* A step that leaves the numbers alone and puts no video on the card.
NumbersSame ==
  /\ UNCHANGED <<avi_file_table, g_file_index>>
  /\ \A i \in Idx : <<"MOVI", i>> \in disk' => <<"MOVI", i>> \in disk
  /\ UNCHANGED g_next_file_path

\* They keep the first part,
LEMMA MoviKept ==
  ASSUME MoviIn, NumbersSame
  PROVE  MoviIn'
BY DEF MoviIn, NumbersSame

\* the third,
LEMMA NextKept ==
  ASSUME NextInv, NumbersSame, ~None(apq', NextFiles) \/ next' # NoHandle =>
                                 ~None(apq, NextFiles) \/ next # NoHandle
  PROVE  NextInv'
BY DEF NextInv, NumbersSame, LastIndex

\* The newest number is a number.
LEMMA LastInIdx ==
  ASSUME TypeOK
  PROVE  LastIndex \in Idx
BY IdxNext, TypeParts DEF LastIndex, TableTypeOK

\* and the second.
LEMMA UndoKept ==
  ASSUME TypeOK, UndoInv, NumbersSame,
         packer' => packer, None(apq, FileReplies) => None(apq', FileReplies),
         \/ ssq' = ssq
         \/ ssq # << >> /\ ssq' = Tail(ssq)
         \/ \E x \in SsMsg \ UndoReqs :
              ssq' = Append(ssq, x) \/ (ssq # << >> /\ ssq' = Append(Tail(ssq), x))
  PROVE  UndoInv'
<1>1. ssq \in Seq(SsMsg) /\ (ssq # << >> => Tail(ssq) \in Seq(SsMsg))
  BY BodyParts DEF QueueTypeOK
<1>2. /\ AtMostOne(ssq', UndoReqs) /\ Before(ssq', UndoReqs, FileReqs)
      /\ None(ssq, UndoReqs) => None(ssq', UndoReqs)
  <2> DEFINE Kept(q) == /\ q \in Seq(SsMsg)
                        /\ AtMostOne(q, UndoReqs) /\ Before(q, UndoReqs, FileReqs)
                        /\ None(ssq, UndoReqs) => None(q, UndoReqs)
  <2>1. Kept(ssq)
    BY <1>1 DEF UndoInv
  <2>2. ssq # << >> => Kept(Tail(ssq))
    BY <1>1, TailKeeps, BeforeKept DEF UndoInv
  <2>3. ASSUME NEW q, Kept(q), NEW x \in SsMsg \ UndoReqs
        PROVE  Kept(Append(q, x))
    <3>1. Append(q, x) \in Seq(SsMsg)
      BY <2>3
    <3> QED
      BY <2>3, <3>1, AppendKeeps, BeforeKept
  <2>4. Kept(ssq')
    <3> HIDE DEF Kept
    <3> QED
      BY <2>1, <2>2, <2>3
  <2> QED
    BY <2>4
<1>3. <<"MOVI", LastIndex>> \notin disk => (<<"MOVI", LastIndex>> \notin disk)'
  <2>1. LastIndex' = LastIndex
    BY DEF NumbersSame, LastIndex
  <2> QED
    BY <2>1, LastInIdx DEF NumbersSame
<1> QED
  BY <1>2, <1>3 DEF UndoInv

\* With the shapes: what a pending request to give a number back excludes.
LEMMA ShapeFacts ==
  ASSUME TypeOK, KeysInv, Shape, UndoInv
  PROVE  /\ busy /\ curr # NoHandle => None(ssq, UndoReqs) /\ packer
         /\ ~(busy /\ curr # NoHandle) => next = NoHandle /\ None(apq, NextFiles) /\ None(apq, NextReplies)
         /\ ~None(ssq, UndoReqs) => next = NoHandle /\ None(apq, NextFiles)
<1>1. None(apq, NextReplies) => None(apq, NextFiles)
  BY DEF None, NextFiles
<1>2. CASE Idle \/ FileAsked \/ FileGiven
  <2>1. next = NoHandle /\ None(apq, NextReplies) /\ ~(busy /\ curr # NoHandle)
    BY <1>2 DEF Idle, FileAsked, FileGiven, Waiting, NoNextDue
  <2> QED
    BY <1>1, <2>1
<1>3. CASE NextAsked \/ NextGiven \/ BothFiles
  <2>1. busy /\ curr # NoHandle /\ packer
    BY <1>3 DEF NextAsked, NextGiven,
     BothFiles, Recording
  <2>2. None(ssq, UndoReqs)
    BY <2>1 DEF UndoInv
  <2> QED
    BY <2>1, <2>2
<1> QED
  BY <1>2, <1>3 DEF Shape

\* A stop gives the next file back only when it holds one, and that file has
\* the newest number.
LEMMA StopNumbers ==
  ASSUME KeysOnly, TypeOK, KeysInv, Shape, NumbersInv, Shape',
         FuncKeyStop("VIDEO_RECORD_ACTIVE", << >>, << >>), ApKept
  PROVE  NumbersInv'
<1>1. next # NoHandle /\ curr # NoHandle /\ busy
  BY DEF FuncKeyStop, UserKeys, FilesReady
<1>2. BothFiles /\ packer
  BY <1>1 DEF Shape, Idle, FileAsked, FileGiven, Waiting, NextAsked, NextGiven,
     BothFiles, Recording
<1>3. g_next_file_path = <<"MOVI", LastIndex>> /\ None(ssq, UndoReqs)
  BY <1>1, ShapeFacts DEF NumbersInv, NextInv
<1>4. PICK ok \in BOOLEAN, kept \in {disk, Locked(disk, g_file_path), Unlinked(disk, g_file_path)} :
        EncodeStopped(ok) /\ disk' = Unlinked(kept, g_next_file_path)
  BY <1>1, <1>2 DEF FuncKeyStop
<1>5. \A i : <<"MOVI", i>> \in kept => <<"MOVI", i>> \in disk
  BY LockAddsNoVideo DEF Unlinked
<1>6. disk' = kept \ {g_next_file_path}
  BY <1>4 DEF Unlinked, KeysInv
<1>7. UNCHANGED <<avi_file_table, g_file_index, g_next_file_path>> /\ next' = NoHandle
  BY DEF FuncKeyStop, serviceVars
<1>8. NumbersSame
  BY <1>5, <1>6, <1>7 DEF NumbersSame
<1>9. /\ LastIndex' = LastIndex
      /\ <<"MOVI", LastIndex>> \notin disk'
  BY <1>3, <1>6, <1>7 DEF LastIndex
<1>10. packer' = FALSE
  BY <1>4, NoFaults DEF EncodeStopped
<1>11. None(apq', FileReplies) /\ None(apq', NextFiles)
  BY <1>2 DEF BothFiles, Recording, NoFileDue, NoNextDue, ApKept, None, NextFiles
<1>12. None(ssq', FileReqs)
  <2>1. ~busy'
    BY DEF FuncKeyStop
  <2>2. Idle'
    BY <2>1 DEF Shape, FileAsked, FileGiven, Waiting, NextAsked, NextGiven,
     BothFiles, Recording
  <2> QED
    BY <2>2 DEF Idle, NoFileDue
<1>13. AtMostOne(ssq', UndoReqs) /\ ssq' \in Seq(SsMsg)
  <2> DEFINE a == Req("FREESIZE_CHECK_SWITCH", FALSE)
             b == Req("VID_CYCLIC_REQ", FALSE)
             c == Req("TIMER_START", FALSE)
  <2>1. /\ a \in SsMsg /\ b \in SsMsg /\ c \in SsMsg /\ a \notin UndoReqs /\ c \notin UndoReqs
    BY DEF Req, SsMsg, SsIds, UndoReqs
  <2>2. ssq' = <<a>> \o ssq \o << >> \o <<b>> \o (<<c>> \o << >>)
    BY <1>1 DEF FuncKeyStop
  <2>3. ssq \in Seq(SsMsg)
    BY BodyParts DEF QueueTypeOK
  <2> DEFINE p == <<a>>
             r == <<b>>
             t == <<c>>
  <2>4. p \in Seq(SsMsg) /\ r \in Seq(SsMsg) /\ t \in Seq(SsMsg)
    BY <2>1, ShortQueues
  <2>5. ssq' = p \o ssq \o << >> \o r \o (t \o << >>)
    BY <2>2
  <2>6. None(p, UndoReqs) /\ AtMostOne(r, UndoReqs) /\ None(t, UndoReqs)
    BY <2>1, ShortQueues
  <2> HIDE DEF p, r, t
  <2>7. ssq' = (p \o ssq) \o (r \o t) /\ p \o ssq \in Seq(SsMsg) /\ r \o t \in Seq(SsMsg)
    <3>1. ASSUME NEW x \in Seq(SsMsg), NEW y \in Seq(SsMsg)
          PROVE  x \o y \in Seq(SsMsg) /\ x \o << >> = x
      BY <3>1
    <3>2. p \o ssq \in Seq(SsMsg) /\ r \o t \in Seq(SsMsg)
      BY <2>3, <2>4, <3>1
    <3>3. t \o << >> = t /\ (p \o ssq) \o << >> = p \o ssq
      BY <2>4, <3>1, <3>2
    <3>4. ssq' = (p \o ssq) \o r \o t
      BY <2>5, <3>3
    <3>5. ASSUME NEW x \in Seq(SsMsg), NEW y \in Seq(SsMsg), NEW z \in Seq(SsMsg)
          PROVE  (x \o y) \o z = x \o (y \o z)
      BY <3>5
    <3>6. (p \o ssq) \o r \o t = (p \o ssq) \o (r \o t)
      <4> DEFINE x == p \o ssq
      <4>1. x \in Seq(SsMsg)
        BY <3>2
      <4> HIDE DEF x
      <4>2. (x \o r) \o t = x \o (r \o t)
        BY <2>4, <3>5, <4>1, Zenon
      <4> QED
        BY <4>2 DEF x
    <3> QED
      BY <3>2, <3>4, <3>6
  <2>8. None(p \o ssq, UndoReqs)
    BY <1>3, <2>3, <2>4, <2>6, ConcatKeeps
  <2>9. AtMostOne(r \o t, UndoReqs)
    BY <2>4, <2>6, ConcatKeeps
  <2>10. AtMostOne(ssq', UndoReqs)
    BY <2>7, <2>8, <2>9, ConcatKeeps
  <2>11. ssq' \in Seq(SsMsg)
    BY <2>7
  <2> QED
    BY <2>10, <2>11
<1>14. UndoInv'
  BY <1>9, <1>10, <1>11, <1>12, <1>13, BeforeKept DEF UndoInv
<1>15. NextInv'
  BY <1>7, <1>11 DEF NextInv
<1> QED
  BY <1>8, <1>14, <1>15, MoviKept DEF NumbersInv

\* So each branch of the record key keeps the numbers.
LEMMA FuncKeyNumbers ==
  ASSUME KeysOnly, TypeOK, KeysInv, Shape, NumbersInv, Shape',
         FuncKey("VIDEO_RECORD_ACTIVE"), ApKept, None(apq, NextFiles) => None(apq', NextFiles)
  PROVE  NumbersInv'
<1>1. CASE FuncKeyRefused("VIDEO_RECORD_ACTIVE") \/ FuncKeyNoStart
  <2>1. UNCHANGED <<ssq, cardVars, storageVars, recordVars, encoderVars>>
    BY <1>1 DEF FuncKeyRefused, FuncKeyNoStart
  <2>2. NumbersSame /\ UNCHANGED <<ssq, next, packer>>
    BY <2>1 DEF NumbersSame, cardVars, storageVars, tableVars, recordVars, encoderVars
  <2> QED
    BY <2>2, MoviKept, NextKept, UndoKept DEF NumbersInv, ApKept
<1>2. CASE FuncKeyStart
  <2>1. /\ ssq' = Append(ssq, Req("VID_REQ", FALSE))
        /\ UNCHANGED <<next, cardVars, storageVars, encoderVars>>
    BY <1>2 DEF FuncKeyStart
  <2>2. NumbersSame /\ UNCHANGED packer
    BY <2>1 DEF NumbersSame, cardVars, storageVars, tableVars, encoderVars
  <2>3. Req("VID_REQ", FALSE) \in SsMsg \ UndoReqs
    BY DEF Req, SsMsg, SsIds, UndoReqs
  <2> QED
    BY <2>1, <2>2, <2>3, MoviKept, NextKept, UndoKept DEF NumbersInv, ApKept
<1> QED
  BY <1>1, <1>2, StopNumbers DEF FuncKey

\* Taking a message adds none.
LEMMA NextFilesTail ==
  ASSUME TypeOK, apq # << >>, apq' = Tail(apq)
  PROVE  /\ None(apq, NextFiles) => None(apq', NextFiles)
         /\ None(apq, FileReplies) => None(apq', FileReplies)
BY BodyParts, TailKeeps DEF QueueTypeOK

\* The replies and the switch keep the numbers.
LEMMA RepliesNumbers ==
  ASSUME KeysOnly, TypeOK, KeysInv, Shape, NumbersInv,
         VidReply \/ VidCyclicReply \/ CyclicVideoRecord
  PROVE  NumbersInv'
<1>1. apq # << >> /\ apq' = Tail(apq)
  BY DEF VidReply, VidCyclicReply, CyclicVideoRecord, Handle, Next_
<1>2. /\ None(apq, NextFiles) => None(apq', NextFiles)
      /\ None(apq, FileReplies) => None(apq', FileReplies)
  BY <1>1, NextFilesTail
<1>3. apq \in Seq(ApMsg) /\ Head(apq) \in ApMsg /\ ssq \in Seq(SsMsg)
  BY <1>1, BodyParts DEF QueueTypeOK
<1>4. CASE VidReply
  <2>1. Head(apq) \in FileReplies
    BY <1>3, <1>4 DEF VidReply, Handle, Next_, FileReplies
  <2>2. ~None(apq, FileReplies)
    BY <1>1, <1>3, <2>1, TailKeeps
  <2>3. FileGiven
    BY <2>2 DEF Shape, Idle, FileAsked, Recording, NoFileDue, NextAsked, NextGiven, BothFiles
  <2>4. busy /\ ~packer /\ next = NoHandle /\ None(ssq, UndoReqs)
    BY <2>2, <2>3 DEF FileGiven, Waiting, NumbersInv, UndoInv
  <2>5. CASE ReplyNoFile
    <3>1. /\ ssq' = Append(ssq, Req("TIMER_START", FALSE))
          /\ UNCHANGED <<packer, next>>
      BY <2>5 DEF ReplyNoFile, encoderVars
    <3>2. NumbersSame
      BY <2>5 DEF ReplyNoFile, NumbersSame, cardVars, serviceVars
    <3>3. Req("TIMER_START", FALSE) \in SsMsg \ UndoReqs
      BY DEF Req, SsMsg, SsIds, UndoReqs
    <3> QED
      BY <1>2, <3>1, <3>2, <3>3, MoviKept, NextKept, UndoKept DEF NumbersInv
  <2>6. CASE ReplyStart
    <3> DEFINE a == Req("VID_CYCLIC_REQ", TRUE)
               b == Req("FREESIZE_CHECK_SWITCH", TRUE)
               c == Req("VIDEO_FILE_DEL", FALSE)
    <3>1. /\ ssq' = ssq \o <<a, b>> \o <<c>> \/ ssq' = ssq \o <<a, b>> \o << >>
          /\ UNCHANGED next
      BY <2>6 DEF ReplyStart
    <3>2. NumbersSame
      BY <2>6 DEF ReplyStart, NumbersSame, cardVars, serviceVars
    <3>3. a \in SsMsg \ UndoReqs /\ b \in SsMsg \ UndoReqs /\ c \in SsMsg \ UndoReqs
      BY DEF Req, SsMsg, SsIds, UndoReqs
    <3> HIDE DEF a, b, c
    <3>4. PICK q \in {<<c>>, << >>} : ssq' = (ssq \o <<a, b>>) \o q
      BY <3>1
    <3>5. <<a, b>> \in Seq(SsMsg) /\ q \in Seq(SsMsg) /\ ssq \o <<a, b>> \in Seq(SsMsg)
      <4>1. <<a, b>> \in Seq(SsMsg) /\ <<c>> \in Seq(SsMsg) /\ << >> \in Seq(SsMsg)
        BY <3>3
      <4>2. ssq \o <<a, b>> \in Seq(SsMsg)
        BY <1>3, <4>1
      <4> QED
        BY <3>4, <4>1, <4>2
    <3>6. /\ None(<<a, b>>, UndoReqs) /\ None(q, UndoReqs)
          /\ None(<<a, b>>, FileReqs) /\ None(q, FileReqs)
      <4>1. a \notin FileReqs /\ b \notin FileReqs /\ c \notin FileReqs
        BY DEF Req, FileReqs, a, b, c
      <4> QED
        BY <3>3, <4>1, ShortQueues
    <3>7. None(ssq, FileReqs)
      BY <2>3 DEF FileGiven
    <3>8. None(ssq', UndoReqs) /\ None(ssq', FileReqs) /\ ssq' \in Seq(SsMsg)
      <4>1. None(ssq \o <<a, b>>, UndoReqs) /\ None(ssq \o <<a, b>>, FileReqs)
        BY <1>3, <2>4, <3>5, <3>6, <3>7, ConcatKeeps
      <4>2. None(ssq', UndoReqs) /\ None(ssq', FileReqs)
        BY <3>4, <3>5, <3>6, <4>1, ConcatKeeps
      <4>3. ssq' \in Seq(SsMsg)
        BY <3>4, <3>5
      <4> QED
        BY <4>2, <4>3
    <3>9. UndoInv'
      BY <3>8, BeforeKept DEF UndoInv, None, AtMostOne
    <3> QED
      BY <1>2, <3>1, <3>2, <3>9, MoviKept, NextKept DEF NumbersInv
  <2> QED
    BY <1>4, <2>4, <2>5, <2>6, NoFaults DEF VidReply, LateReply, ReplyStartFails, EncodeStart
<1>5. CASE VidCyclicReply
  <2>1. Head(apq) \in NextReplies
    BY <1>3, <1>5 DEF VidCyclicReply, Handle, Next_, NextReplies
  <2>2. ~None(apq, NextReplies)
    BY <1>1, <1>3, <2>1, TailKeeps
  <2>3. busy
    BY <2>2, ShapeFacts DEF NumbersInv
  <2>4. /\ next' = IF Head(apq).h = NoHandle THEN next ELSE Head(apq).h
        /\ UNCHANGED <<ssq, cardVars, storageVars, packer>>
    BY <1>5, <2>3 DEF VidCyclicReply, LateReply, encoderVars
  <2>5. NumbersSame
    BY <2>4 DEF NumbersSame, cardVars, storageVars, tableVars
  <2>6. Head(apq).h # NoHandle => ~None(apq, NextFiles)
    <3>1. Head(apq).h # NoHandle => Head(apq) \in NextFiles
      BY <2>1 DEF NextFiles
    <3> QED
      BY <1>1, <1>3, <3>1, TailKeeps
  <2> QED
    BY <1>2, <2>4, <2>5, <2>6, MoviKept, NextKept, UndoKept DEF NumbersInv
<1>6. CASE CyclicVideoRecord
  <2>1. CASE NoNextFile
    <3>1. NumbersSame /\ UNCHANGED <<ssq, next, packer>>
      BY <2>1 DEF NoNextFile, NumbersSame, cardVars, storageVars, tableVars, recordVars, encoderVars
    <3> QED
      BY <1>2, <3>1, MoviKept, NextKept, UndoKept DEF NumbersInv
  <2>2. next # NoHandle => BothFiles
    BY DEF Shape, Idle, FileAsked, FileGiven, Waiting, NextAsked, NextGiven
  <2>3. CASE SwitchFile
    <3> DEFINE a == Req("FREESIZE_CHECK_SWITCH", FALSE)
               b == Req("FREESIZE_CHECK_SWITCH", TRUE)
               c == Req("VID_CYCLIC_REQ", TRUE)
    <3>1. /\ next' = NoHandle
          /\ ssq' = <<a>> \o ssq \o <<b, c>>
          /\ UNCHANGED <<avi_file_table, g_file_index, g_next_file_path>>
          /\ disk' \in {disk, Locked(disk, g_file_path)}
      BY <2>3 DEF SwitchFile, serviceVars
    <3>2. NumbersSame
      BY <3>1, LockAddsNoVideo DEF NumbersSame
    <3>3. /\ a \in SsMsg \ UndoReqs /\ b \in SsMsg \ UndoReqs /\ c \in SsMsg \ UndoReqs
          /\ a \notin FileReqs /\ b \notin FileReqs /\ c \notin FileReqs
      BY DEF Req, SsMsg, SsIds, UndoReqs, FileReqs
    <3>4. BothFiles
      BY <2>2, <2>3 DEF SwitchFile
    <3>5. None(ssq, UndoReqs) /\ None(ssq, FileReqs)
      BY <3>4, ShapeFacts DEF BothFiles, Recording, NoFileDue, NumbersInv
    <3> HIDE DEF a, b, c
    <3>6. <<a>> \in Seq(SsMsg) /\ <<b, c>> \in Seq(SsMsg) /\ <<a>> \o ssq \in Seq(SsMsg)
      BY <1>3, <3>3
    <3>7. /\ None(<<a>>, UndoReqs) /\ None(<<b, c>>, UndoReqs)
          /\ None(<<a>>, FileReqs) /\ None(<<b, c>>, FileReqs)
      BY <3>3, ShortQueues
    <3>8. None(ssq', UndoReqs) /\ None(ssq', FileReqs) /\ ssq' \in Seq(SsMsg)
      <4>1. None(<<a>> \o ssq, UndoReqs) /\ None(<<a>> \o ssq, FileReqs)
        BY <1>3, <3>5, <3>6, <3>7, ConcatKeeps
      <4>2. None(ssq', UndoReqs) /\ None(ssq', FileReqs)
        BY <3>1, <3>6, <3>7, <4>1, ConcatKeeps
      <4>3. ssq' \in Seq(SsMsg)
        BY <3>1, <3>6
      <4> QED
        BY <4>2, <4>3
    <3>9. UndoInv'
      BY <3>8, BeforeKept DEF UndoInv, None, AtMostOne
    <3> QED
      BY <1>2, <3>1, <3>2, <3>9, MoviKept, NextKept DEF NumbersInv
  <2>4. ~SwitchFails
    BY <2>2, NoFaults DEF SwitchFails, BothFiles, Recording
  <2> QED
    BY <1>6, <2>1, <2>3, <2>4 DEF CyclicVideoRecord
<1> QED
  BY <1>4, <1>5, <1>6

\* So does every message of the state task.
LEMMA StateTaskNumbers ==
  ASSUME KeysOnly, TypeOK, KeysInv, Shape, NumbersInv, StateTask, Shape'
  PROVE  NumbersInv'
<1>1. apq # << >> => Head(apq).id \in KeyIds
  <2>1. apq # << >> => Head(apq) \in ApMsg /\ Head(apq) \notin OtherMsgs
    BY BodyParts, TailKeeps DEF QueueTypeOK, KeysInv
  <2> QED
    BY <2>1 DEF OtherMsgs
<1>2. CASE RecordActive
  <2>1. /\ apq # << >> /\ apq' = Tail(apq) /\ Head(apq).id = "VIDEO_RECORD_ACTIVE"
        /\ FuncKey("VIDEO_RECORD_ACTIVE")
    BY <1>2 DEF RecordActive, Handle, Next_
  <2>2. ApKept /\ (None(apq, NextFiles) => None(apq', NextFiles))
    BY <2>1, ApTail, NextFilesTail
  <2> QED
    BY <2>1, <2>2, FuncKeyNumbers
<1>3. CASE SosKey \/ ModeKey \/ PreviewIgnores
  <2>1. /\ apq # << >> /\ apq' = Tail(apq)
        /\ UNCHANGED <<ssq, next, packer>>
    BY <1>3 DEF SosKey, ModeKey, PreviewIgnores, InPreview, Handle, Next_, recordVars, encoderVars
  <2>2. /\ UNCHANGED <<avi_file_table, g_file_index, g_next_file_path>>
        /\ disk' \in {disk, Locked(disk, prev_path)}
    BY <1>3 DEF SosKey, ModeKey, PreviewIgnores, cardVars, storageVars, tableVars
  <2>3. NumbersSame
    BY <2>2, LockAddsNoVideo DEF NumbersSame
  <2> QED
    BY <2>1, <2>3, NextFilesTail, MoviKept, NextKept, UndoKept DEF NumbersInv
<1>4. CASE PreviewRecordKey
  <2> DEFINE x == Msg("VIDEO_RECORD_ACTIVE", NoHandle)
  <2>1. /\ apq # << >> /\ apq' = Append(Tail(apq), x)
        /\ next' = NoHandle
        /\ UNCHANGED <<ssq, cardVars, storageVars, packer>>
    BY <1>4 DEF PreviewRecordKey, Next_, RecordEntered, encoderVars
  <2>2. x \in ApMsg /\ x \notin FileReplies /\ x \notin NextFiles
    BY MsgTypes DEF Msg, ApIds, FileReplies, NextReplies, NextFiles
  <2>3. apq \in Seq(ApMsg) /\ Tail(apq) \in Seq(ApMsg)
    BY <2>1, BodyParts DEF QueueTypeOK
  <2> HIDE DEF x
  <2>4. /\ None(apq, NextFiles) => None(apq', NextFiles)
        /\ None(apq, FileReplies) => None(apq', FileReplies)
    BY <2>1, <2>2, <2>3, TailKeeps, AppendKeeps
  <2>5. NumbersSame
    BY <2>1 DEF NumbersSame, cardVars, storageVars, tableVars
  <2> QED
    BY <2>1, <2>4, <2>5, MoviKept, NextKept, UndoKept DEF NumbersInv
<1>5. ~(\/ VdoRecStop \/ VdoRecRestart \/ FallThrough \/ PrevKey \/ AviPackerError
        \/ MountMsg \/ NoStorage \/ GetJpeg \/ PicReply \/ PreviewCard)
  BY <1>1 DEF VdoRecStop, VdoRecRestart, FallThrough, PrevKey, AviPackerError, MountMsg,
     NoStorage, GetJpeg, PicReply, PreviewCard, Handle, InPreview, Next_, KeyIds, KeysInv
<1> QED
  BY <1>2, <1>3, <1>4, <1>5, RepliesNumbers DEF StateTask

\* Going on and back by one number returns to it.
LEMMA IdxRound ==
  ASSUME NEW i \in Idx
  PROVE  (((i + 1) % N) + N - 1) % N = i
<1>1. N \in Nat /\ N > 0 /\ i \in 0 .. N - 1
  BY CardAssumption DEF Idx
<1>2. CASE i = N - 1
  <2>1. (i + 1) % N = 0
    BY <1>1, <1>2
  <2>2. (0 + N - 1) % N = N - 1
    BY <1>1
  <2> QED
    BY <1>2, <2>1, <2>2
<1>3. CASE i # N - 1
  <2>1. (i + 1) % N = i + 1
    BY <1>1, <1>3
  <2>2. (i + 1 + N - 1) % N = i
    BY <1>1
  <2> QED
    BY <2>1, <2>2
<1> QED
  BY <1>2, <1>3

\* What a reply of the storage task adds.
LEMMA NewMsg ==
  ASSUME TypeOK, NEW id \in {"VID_REPLY", "VID_CYCLIC_REPLY"}, NEW h \in Handles \cup {NoHandle},
         apq' = Append(apq, Msg(id, h))
  PROVE  /\ id = "VID_REPLY" \/ h = NoHandle => (None(apq, NextFiles) => None(apq', NextFiles))
         /\ id = "VID_CYCLIC_REPLY" => (None(apq, FileReplies) => None(apq', FileReplies))
<1> DEFINE x == Msg(id, h)
<1>1. x \in ApMsg /\ x.id = id /\ x.h = h
  BY MsgTypes DEF Msg, ApIds
<1>2. /\ id = "VID_REPLY" \/ h = NoHandle => x \notin NextFiles
      /\ id = "VID_CYCLIC_REPLY" => x \notin FileReplies
  BY <1>1 DEF NextFiles, NextReplies, FileReplies
<1>3. apq \in Seq(ApMsg)
  BY BodyParts DEF QueueTypeOK
<1> HIDE DEF x
<1> QED
  BY <1>1, <1>2, <1>3, AppendKeeps DEF x

\* A video that is opened has its number in the table.
LEMMA TruncateNumbers ==
  ASSUME MoviIn, NEW i \in Idx, NEW h, Truncate(h, <<"MOVI", i>>),
         avi_file_table' = Take(avi_file_table, h, i)
  PROVE  MoviIn'
<1>1. CASE h = NoHandle
  BY <1>1 DEF Truncate, Take, MoviIn
<1>2. CASE h # NoHandle
  <2>1. disk' = disk \cup {<<"MOVI", i>>} /\ avi_file_table' = avi_file_table \cup {i}
    BY <1>2 DEF Truncate, Take
  <2>2. \A j : <<"MOVI", j>> = <<"MOVI", i>> => j = i
    OBVIOUS
  <2> QED
    BY <2>1, <2>2 DEF MoviIn
<1> QED
  BY <1>1, <1>2

\* Opening a file or a next file keeps the numbers.
LEMMA OpenNumbers ==
  ASSUME TypeOK, KeysInv, Shape, NumbersInv, VidReq \/ CyclicOpen, UNCHANGED <<next, packer>>
  PROVE  NumbersInv'
<1> DEFINE h == OpenHandle(card /\ mounted)
<1>1. h \in Handles \cup {NoHandle} /\ FreeIndex \in Idx
  BY OpenHandleType, FreeIndexType DEF VidReq, CyclicOpen, FileOpen
<1>2. /\ ssq # << >> /\ ssq' = Tail(ssq) /\ ssq \in Seq(SsMsg) /\ Head(ssq) \in SsMsg
  BY BodyParts DEF VidReq, CyclicOpen, FileOpen, Serve, Next_, QueueTypeOK
<1>3. CASE VidReq
  <2>1. /\ apq' = Append(apq, Msg("VID_REPLY", h))
        /\ Truncate(h, <<"MOVI", FreeIndex>>)
        /\ avi_file_table' = Take(avi_file_table, h, FreeIndex)
    BY <1>3 DEF VidReq, FileOpen, Reply
  <2>2. Head(ssq) \in FileReqs
    BY <1>2, <1>3 DEF VidReq, FileOpen, Serve, Next_, FileReqs
  <2>3. None(ssq, UndoReqs)
    BY <1>2, <2>2, BeforeKept DEF NumbersInv, UndoInv
  <2>4. ~None(ssq, FileReqs)
    BY <1>2, <2>2, TailKeeps
  <2>5. ~(busy /\ curr # NoHandle)
    BY <2>4 DEF Shape, Idle, FileAsked, FileGiven, Waiting, Recording, NoFileDue, NextAsked,
       NextGiven, BothFiles
  <2>6. next = NoHandle /\ None(apq, NextFiles)
    BY <2>5, ShapeFacts DEF NumbersInv
  <2>7. NextInv'
    BY <1>1, <2>1, <2>6, NewMsg DEF NextInv
  <2>8. UndoInv'
    <3>1. /\ AtMostOne(ssq', UndoReqs) /\ Before(ssq', UndoReqs, FileReqs) /\ None(ssq', UndoReqs)
      BY <1>2, <2>3, TailKeeps, BeforeKept DEF NumbersInv, UndoInv
    <3> QED
      BY <3>1 DEF UndoInv
  <2>9. MoviIn'
    BY <1>1, <2>1, TruncateNumbers DEF NumbersInv
  <2> QED
    BY <2>7, <2>8, <2>9 DEF NumbersInv
<1>4. CASE CyclicOpen
  <2>1. /\ apq' = Append(apq, Msg("VID_CYCLIC_REPLY", h))
        /\ Truncate(h, <<"MOVI", FreeIndex>>)
        /\ avi_file_table' = Take(avi_file_table, h, FreeIndex)
        /\ g_next_file_path' = <<"MOVI", FreeIndex>>
        /\ Advance(h, FreeIndex)
    BY <1>4 DEF CyclicOpen, Reply
  <2>2. Head(ssq) \in NextReqs
    BY <1>2, <1>4 DEF CyclicOpen, Serve, Next_, NextReqs
  <2>3. ~None(ssq, NextReqs)
    BY <1>2, <2>2, TailKeeps
  <2>4. NextAsked
    BY <2>3 DEF Shape, Idle, Waiting, NoNextDue, FileAsked, FileGiven, NextGiven, BothFiles
  <2>5. /\ None(ssq, UndoReqs) /\ next = NoHandle /\ None(apq, NextReplies)
    BY <2>4, ShapeFacts DEF NextAsked, Recording, NumbersInv
  <2>6. None(apq, NextFiles)
    BY <2>5 DEF None, NextFiles
  <2>7. NextInv'
    <3>1. CASE h = NoHandle
      <4>1. None(apq', NextFiles)
        BY <1>1, <2>1, <2>6, <3>1, NewMsg
      <4> QED
        BY <2>5, <4>1 DEF NextInv
    <3>2. CASE h # NoHandle
      <4>1. g_file_index' = (FreeIndex + 1) % N
        BY <2>1, <3>2 DEF Advance
      <4>2. LastIndex' = FreeIndex
        BY <1>1, <4>1, IdxRound DEF LastIndex
      <4> QED
        BY <2>1, <4>2 DEF NextInv
    <3> QED
      BY <3>1, <3>2
  <2>8. UndoInv'
    <3>1. /\ AtMostOne(ssq', UndoReqs) /\ Before(ssq', UndoReqs, FileReqs) /\ None(ssq', UndoReqs)
      BY <1>2, <2>5, TailKeeps, BeforeKept DEF NumbersInv, UndoInv
    <3> QED
      BY <3>1 DEF UndoInv
  <2>9. MoviIn'
    BY <1>1, <2>1, TruncateNumbers DEF NumbersInv
  <2> QED
    BY <2>7, <2>8, <2>9 DEF NumbersInv
<1> QED
  BY <1>3, <1>4

\* So does a search that finds no number,
LEMMA NoFilenameNumbers ==
  ASSUME TypeOK, KeysInv, Shape, NumbersInv, NoFilename, UNCHANGED <<next, packer>>
  PROVE  NumbersInv'
<1>1. /\ ssq # << >> /\ ssq' = Tail(ssq) /\ ssq \in Seq(SsMsg) /\ Head(ssq) \in SsMsg
      /\ Head(ssq) \in FileReqs \cup PicReqs
      /\ UNCHANGED <<apq, disk, avi_file_table>>
  BY BodyParts DEF NoFilename, Serve, Next_, QueueTypeOK, FileReqs, PicReqs, cardVars
<1>2. Head(ssq) \in FileReqs /\ ~None(ssq, FileReqs)
  BY <1>1, TailKeeps DEF KeysInv
<1>3. None(ssq, UndoReqs)
  BY <1>1, <1>2, BeforeKept DEF NumbersInv, UndoInv
<1>4. ~(busy /\ curr # NoHandle)
  BY <1>2 DEF Shape, Idle, FileAsked, FileGiven, Waiting, Recording, NoFileDue, NextAsked,
     NextGiven, BothFiles
<1>5. next = NoHandle /\ None(apq, NextFiles)
  BY <1>4, ShapeFacts DEF NumbersInv
<1>6. NextInv'
  BY <1>1, <1>5 DEF NextInv
<1>7. UndoInv'
  <2>1. /\ AtMostOne(ssq', UndoReqs) /\ Before(ssq', UndoReqs, FileReqs) /\ None(ssq', UndoReqs)
    BY <1>1, <1>3, TailKeeps, BeforeKept DEF NumbersInv, UndoInv
  <2> QED
    BY <2>1 DEF UndoInv
<1>8. MoviIn'
  BY <1>1 DEF NumbersInv, MoviIn
<1> QED
  BY <1>6, <1>7, <1>8 DEF NumbersInv

\* and the undo: the number that it frees has no file on the card.
LEMMA UndoNumbers ==
  ASSUME TypeOK, KeysInv, Shape, NumbersInv, CyclicUndo, UNCHANGED <<next, packer>>
  PROVE  NumbersInv'
<1>1. /\ ssq # << >> /\ ssq' = Tail(ssq) /\ ssq \in Seq(SsMsg)
      /\ Head(ssq) \in UndoReqs
      /\ avi_file_table' = avi_file_table \ {LastIndex}
      /\ UNCHANGED <<apq, disk>>
  BY BodyParts DEF CyclicUndo, Serve, Next_, QueueTypeOK, UndoReqs, LastIndex, cardVars
<1>2. ~None(ssq, UndoReqs)
  BY <1>1, TailKeeps
<1>3. <<"MOVI", LastIndex>> \notin disk /\ next = NoHandle /\ None(apq, NextFiles)
  BY <1>2, ShapeFacts DEF NumbersInv, UndoInv
<1>4. NextInv'
  BY <1>1, <1>3 DEF NextInv
<1>5. UndoInv'
  <2>1. /\ AtMostOne(ssq', UndoReqs) /\ Before(ssq', UndoReqs, FileReqs) /\ None(ssq', UndoReqs)
    BY <1>1, TailKeeps, BeforeKept DEF NumbersInv, UndoInv
  <2> QED
    BY <2>1 DEF UndoInv
<1>6. MoviIn'
  BY <1>1, <1>3 DEF NumbersInv, MoviIn
<1> QED
  BY <1>4, <1>5, <1>6 DEF NumbersInv

\* The deletion frees only the numbers of the files that it deletes.
LEMMA DeleteNumbers ==
  ASSUME KeysOnly, TypeOK, KeysInv, NumbersInv, FreesizeCheck \/ FreesizeCheckAgain,
         UNCHANGED <<apq, next, packer>>
  PROVE  NumbersInv'
<1> DEFINE x == Req("FREESIZE_CHECK", FALSE)
<1>1. x \in SsMsg \ UndoReqs
  BY DEF Req, SsMsg, SsIds, UndoReqs
<1> HIDE DEF x
<1>2. ASSUME NEW free, NEW rest, ReDel(free, rest)
      PROVE  /\ ssq' = rest \/ ssq' = Append(rest, x)
             /\ \/ UNCHANGED <<disk, avi_file_table>>
                \/ \E i \in Idx : /\ disk' = Unlinked(disk, <<"MOVI", i>>)
                                  /\ \/ avi_file_table' = avi_file_table \ {i}
                                     \/ UNCHANGED avi_file_table
  BY <1>2 DEF ReDel, DelDisabled, DelNothing, DelVideo, x
<1>3. \/ UNCHANGED <<disk, avi_file_table>>
      \/ \E i \in Idx : /\ disk' = Unlinked(disk, <<"MOVI", i>>)
                        /\ avi_file_table' = avi_file_table \ {i} \/ UNCHANGED avi_file_table
  BY <1>2 DEF FreesizeCheck, FreesizeCheckAgain
<1>4. \/ ssq' = ssq
      \/ ssq # << >> /\ ssq' = Tail(ssq)
      \/ ssq' = Append(ssq, x) \/ (ssq # << >> /\ ssq' = Append(Tail(ssq), x))
  BY <1>2 DEF FreesizeCheck, FreesizeCheckAgain, Next_
<1>5. UNCHANGED <<g_file_index, g_next_file_path>>
  BY DEF FreesizeCheck, FreesizeCheckAgain, DelUnchanged
<1>6. (\A i \in Idx : <<"MOVI", i>> \in disk' => <<"MOVI", i>> \in disk) /\ MoviIn'
  <2>1. CASE UNCHANGED <<disk, avi_file_table>>
    BY <2>1 DEF NumbersInv, MoviIn
  <2>2. CASE \E i \in Idx : /\ disk' = Unlinked(disk, <<"MOVI", i>>)
                            /\ avi_file_table' = avi_file_table \ {i} \/ UNCHANGED avi_file_table
    <3>1. PICK i \in Idx : /\ disk' = disk \ {<<"MOVI", i>>}
                           /\ avi_file_table' = avi_file_table \ {i} \/ UNCHANGED avi_file_table
      BY <2>2 DEF Unlinked, KeysInv
    <3> QED
      BY <3>1 DEF NumbersInv, MoviIn
  <2> QED
    BY <1>3, <2>1, <2>2
<1>7. NextInv'
  BY <1>5 DEF NumbersInv, NextInv, LastIndex
<1>8. UndoInv'
  <2>1. ssq \in Seq(SsMsg) /\ (ssq # << >> => Tail(ssq) \in Seq(SsMsg))
    BY BodyParts DEF QueueTypeOK
  <2> DEFINE Kept(q) == /\ q \in Seq(SsMsg)
                        /\ AtMostOne(q, UndoReqs) /\ Before(q, UndoReqs, FileReqs)
                        /\ None(ssq, UndoReqs) => None(q, UndoReqs)
  <2>2. Kept(ssq)
    BY <2>1 DEF NumbersInv, UndoInv
  <2>3. ssq # << >> => Kept(Tail(ssq))
    BY <2>1, TailKeeps, BeforeKept DEF NumbersInv, UndoInv
  <2>4. ASSUME NEW q, Kept(q)
        PROVE  Kept(Append(q, x))
    <3>1. Append(q, x) \in Seq(SsMsg)
      BY <1>1, <2>4
    <3> QED
      BY <1>1, <2>4, <3>1, AppendKeeps, BeforeKept
  <2>5. Kept(ssq')
    <3> HIDE DEF Kept
    <3> QED
      BY <1>4, <2>2, <2>3, <2>4
  <2>6. <<"MOVI", LastIndex>> \notin disk => (<<"MOVI", LastIndex>> \notin disk)'
    <3>1. LastIndex' = LastIndex
      BY <1>5 DEF LastIndex
    <3> QED
      BY <1>6, <3>1, LastInIdx
  <2> QED
    BY <2>5, <2>6 DEF NumbersInv, UndoInv
<1> QED
  BY <1>6, <1>7, <1>8 DEF NumbersInv

\* Every message of the storage task keeps the numbers.
LEMMA ServiceNumbers ==
  ASSUME KeysOnly, TypeOK, KeysInv, Shape, NumbersInv, Service
  PROVE  NumbersInv'
<1>1. UNCHANGED <<next, packer>>
  BY DEF Service, recordVars, encoderVars
<1>2. CASE TimerStart \/ FreesizeCheckSwitch \/ FreesizeCheckStep \/ CyclicHang
  <2>1. /\ ssq # << >> /\ ssq' = Tail(ssq)
        /\ UNCHANGED <<apq, disk, avi_file_table, g_file_index, g_next_file_path>>
    BY <1>2 DEF TimerStart, FreesizeCheckSwitch, FreesizeCheckStep, CyclicHang, Serve, Next_,
       cardVars, tableVars
  <2>2. NumbersSame
    BY <2>1 DEF NumbersSame
  <2> QED
    BY <1>1, <2>1, <2>2, MoviKept, NextKept, UndoKept DEF NumbersInv
<1>3. CASE StorageCheck
  <2>1. ~MountCard /\ ~LoseCard
    BY DEF MountCard, LoseCard, KeysInv
  <2>2. /\ ssq # << >> /\ ssq' = Tail(ssq)
        /\ UNCHANGED <<apq, disk, avi_file_table, g_file_index, g_next_file_path>>
    BY <1>3, <2>1 DEF StorageCheck, SameCard, Serve, Next_, tableVars
  <2>3. NumbersSame
    BY <2>2 DEF NumbersSame
  <2> QED
    BY <1>1, <2>2, <2>3, MoviKept, NextKept, UndoKept DEF NumbersInv
<1>4. CASE FreesizeCheck \/ FreesizeCheckAgain
  <2>1. UNCHANGED apq
    <3>2. StorageTask
      BY DEF Service
    <3>3. ~VidReq /\ ~CyclicOpen => UNCHANGED apq
      BY <3>2, StorageKeeps
    <3>4. ASSUME VidReq \/ CyclicOpen
          PROVE  FALSE
      BY <1>4, <3>4
      DEF VidReq, CyclicOpen, FileOpen, Serve, Next_, FreesizeCheck, FreesizeCheckAgain
    <3> QED
      BY <3>3, <3>4
  <2> QED
    BY <1>1, <1>4, <2>1, DeleteNumbers
<1>5. ~PicReq
  <2>1. ssq # << >> => Head(ssq) \in SsMsg /\ Head(ssq) \notin PicReqs
    BY BodyParts, TailKeeps DEF QueueTypeOK, KeysInv
  <2> QED
    BY <2>1 DEF PicReqs, PicReq, FileOpen, Serve, Next_
<1> QED
  BY <1>1, <1>2, <1>3, <1>4, <1>5, OpenNumbers, NoFilenameNumbers, UndoNumbers
  DEF Service, StorageTask

\* So do the timers, the user and the card.
LEMMA SurroundingsNumbers ==
  ASSUME KeysOnly, TypeOK, NumbersInv, ServiceTick \/ Input \/ CyclicTick \/ MoveCard
  PROVE  NumbersInv'
<1>1. NumbersSame /\ UNCHANGED <<next, packer>>
  BY DEF NumbersSame, ServiceTick, StorageTick, MountTick, FreesizeTick, Input, CyclicTick,
     MoveCard, cardVars, storageVars, tableVars, recordVars, encoderVars
<1>2. \/ UNCHANGED apq
      \/ \E id \in ApIds : apq' = Append(apq, Msg(id, NoHandle))
                           /\ id \notin {"VID_REPLY", "VID_CYCLIC_REPLY"}
  BY DEF ServiceTick, StorageTick, MountTick, FreesizeTick, Input, CyclicTick, MoveCard, KeysOnly,
     ApIds
<1>3. /\ None(apq, NextFiles) => None(apq', NextFiles)
      /\ None(apq, FileReplies) => None(apq', FileReplies)
  <2>1. CASE UNCHANGED apq
    BY <2>1
  <2>2. CASE \E id \in ApIds : apq' = Append(apq, Msg(id, NoHandle))
                               /\ id \notin {"VID_REPLY", "VID_CYCLIC_REPLY"}
    <3>1. PICK x \in ApMsg : apq' = Append(apq, x) /\ x \notin FileReplies /\ x \notin NextFiles
      BY <2>2, MsgTypes DEF Msg, FileReplies, NextReplies, NextFiles
    <3>2. apq \in Seq(ApMsg)
      BY BodyParts DEF QueueTypeOK
    <3> QED
      BY <3>1, <3>2, AppendKeeps
  <2> QED
    BY <1>2, <2>1, <2>2
<1>4. \/ ssq' = ssq
      \/ \E x \in SsMsg \ UndoReqs : ssq' = Append(ssq, x)
  <2>1. /\ Req("STORAGE_CHECK", FALSE) \in SsMsg \ UndoReqs
        /\ Req("FREESIZE_CHECK", FALSE) \in SsMsg \ UndoReqs
    BY DEF Req, SsMsg, SsIds, UndoReqs
  <2> QED
    BY <2>1 DEF ServiceTick, StorageTick, MountTick, FreesizeTick, Input, CyclicTick, MoveCard
<1> QED
  BY <1>1, <1>3, <1>4, MoviKept, NextKept, UndoKept DEF NumbersInv

\* The numbers at the start.
LEMMA NumbersInit == Init => NumbersInv
<1> SUFFICES ASSUME Init
             PROVE  NumbersInv
  OBVIOUS
<1>1. /\ apq = << >> /\ ssq = << >> /\ disk = {} /\ next = NoHandle
  BY DEF Init, CardInit
<1>2. \A S : None(<< >>, S) /\ AtMostOne(<< >>, S)
  BY DEF None, AtMostOne
<1>3. Before(<< >>, UndoReqs, FileReqs)
  BY DEF Before
<1> QED
  BY <1>1, <1>2, <1>3 DEF NumbersInv, MoviIn, UndoInv, NextInv

\* The numbers are inductive.
LEMMA NumbersStep ==
  ASSUME KeysOnly, TypeOK, KeysInv, Shape, NumbersInv, [Next]_vars
  PROVE  NumbersInv'
<1>1. CASE UNCHANGED vars
  <2>1. NumbersSame /\ UNCHANGED <<apq, ssq, next, packer>>
    BY <1>1 DEF vars, NumbersSame, cardVars, storageVars, tableVars, recordVars, encoderVars
  <2> QED
    BY <2>1, MoviKept, NextKept, UndoKept DEF NumbersInv
<1>2. Shape'
  BY IndStep
<1> QED
  BY <1>1, <1>2, StateTaskNumbers, ServiceNumbers, SurroundingsNumbers DEF Next

\* Only a new file adds a handle, and it gets a number that no video has.
LEMMA NewFileStep ==
  ASSUME TypeOK, MoviIn, KeysOnly, KeysInv, Shape, [Next]_vars
  PROVE  \A h \in DOMAIN opened' \ DOMAIN opened : opened'[h] \notin disk
<1>1. CASE VidReq \/ CyclicOpen
  <2>1. FreeIndex \in Idx /\ FreeIndex \notin avi_file_table
    BY <1>1, FreeIndexType DEF VidReq, CyclicOpen, FileOpen, Used
  <2>2. <<"MOVI", FreeIndex>> \notin disk
    BY <2>1 DEF MoviIn
  <2>3. Truncate(OpenHandle(card /\ mounted), <<"MOVI", FreeIndex>>)
    BY <1>1 DEF VidReq, CyclicOpen, FileOpen
  <2>4. \A h \in DOMAIN opened' \ DOMAIN opened : opened'[h] = <<"MOVI", FreeIndex>>
    BY <2>3 DEF Truncate, Opened
  <2> QED
    BY <2>2, <2>4
<1>2. CASE \E H : opened' = Closed(opened, H)
  BY <1>2, Files
<1>3. CASE UNCHANGED opened
  BY <1>3
<1>4. CASE StateTask
  <2>1. \A event, pre, post : FuncKeyStop(event, pre, post) => \E H : opened' = Closed(opened, H)
    BY DEF FuncKeyStop
  <2>2. \A event : FuncKey(event) => UNCHANGED opened \/ \E H : opened' = Closed(opened, H)
    BY <2>1 DEF FuncKey, FuncKeyRefused, FuncKeyStart, FuncKeyNoStart, cardVars
  <2>3. \A pre, post : StopIfBusy(pre, post) =>
         UNCHANGED opened \/ \E H : opened' = Closed(opened, H)
    BY <2>1 DEF StopIfBusy, cardVars
  <2>4. UNCHANGED opened \/ \E H : opened' = Closed(opened, H)
    <3>1. CASE RecordActive \/ VdoRecStop \/ VdoRecRestart \/ FallThrough
      BY <2>2, <3>1 DEF RecordActive, VdoRecStop, VdoRecRestart, FallThrough
    <3>2. CASE PrevKey \/ AviPackerError \/ NoStorage
      BY <2>1, <2>3, <3>2 DEF PrevKey, AviPackerError, NoStorage, cardVars
    <3>3. CASE SosKey \/ MountMsg \/ GetJpeg \/ PicReply
      BY <3>3 DEF SosKey, MountMsg, GetJpeg, PicReply, cardVars
    <3>4. CASE VidReply \/ VidCyclicReply
      BY <3>4 DEF VidReply, VidCyclicReply, LateReply, ReplyNoFile, ReplyStartFails, ReplyStart,
         cardVars
    <3>5. CASE CyclicVideoRecord
      BY <3>5 DEF CyclicVideoRecord, SwitchFile, SwitchFails, NoNextFile, cardVars
    <3>6. CASE ModeKey \/ PreviewCard \/ PreviewRecordKey \/ PreviewIgnores
      BY <3>6 DEF ModeKey, PreviewCard, PreviewRecordKey, PreviewIgnores, cardVars
    <3> QED
      BY <1>4, <3>1, <3>2, <3>3, <3>4, <3>5, <3>6 DEF StateTask
  <2> QED
    BY <1>2, <1>3, <2>4
<1>5. CASE StorageTask /\ ~VidReq /\ ~CyclicOpen
  BY <1>3, <1>5, StorageKeeps
<1>6. CASE ServiceTick \/ Input \/ CyclicTick \/ MoveCard \/ UNCHANGED vars
  BY <1>3, <1>6
  DEF ServiceTick, StorageTick, MountTick, FreesizeTick, Input, CyclicTick, MoveCard, vars, cardVars
<1> QED
  BY <1>1, <1>4, <1>5, <1>6 DEF Next, Service

\* No file is opened over a video that is on the card (the open would truncate
\* it), however the numbers wrap, however often an unused next file gives its
\* number back, and whatever was deleted meanwhile.
THEOREM NeverTruncatesHolds ==
  ASSUME KeysOnly
  PROVE  Spec => NeverTruncates
<1>1. IndInv /\ NumbersInv /\ [Next]_vars => NumbersInv'
  BY NumbersStep DEF IndInv
<1>2. IndInv /\ NumbersInv /\ [Next]_vars =>
        [\A h \in DOMAIN opened' \ DOMAIN opened : opened'[h] \notin disk]_vars
  BY NewFileStep DEF IndInv, NumbersInv
<1> QED
  BY <1>1, <1>2, NumbersInit, IndInvCorrect, PTL DEF Spec, NeverTruncates

-----------------------------------------------------------------------------
(* The card is polled at rest. *)

\* The request that starts the polling of the card again.
Starts == {m \in SsMsg : m.id = "TIMER_START"}

\* The card is polled whenever nothing is recorded, or will be when the queue
\* is empty.
Polls == busy \/ mount_timer \/ ~None(ssq, Starts)

\* A request that is not taken stays.
LEMMA StartKept ==
  ASSUME NEW T, NEW q \in Seq(T), NEW S
  PROVE  /\ q # << >> /\ Head(q) \notin S => (None(Tail(q), S) => None(q, S))
         /\ \A x \in T : None(Append(q, x), S) => None(q, S) /\ x \notin S
<1>1. ASSUME q # << >>, Head(q) \notin S, None(Tail(q), S)
      PROVE  None(q, S)
  <2>1. /\ Head(q) = q[1] /\ Len(q) \in Nat /\ Len(Tail(q)) = Len(q) - 1
        /\ \A k \in 1 .. Len(q) - 1 : Tail(q)[k] = q[k + 1]
    BY <1>1
  <2> SUFFICES ASSUME NEW k \in 1 .. Len(q)
               PROVE  q[k] \notin S
    BY DEF None
  <2>2. CASE k = 1
    BY <1>1, <2>1, <2>2
  <2>3. CASE k # 1
    <3>1. k - 1 \in 1 .. Len(Tail(q)) /\ Tail(q)[k - 1] = q[k]
      BY <2>1, <2>3
    <3> QED
      BY <1>1, <3>1 DEF None
  <2> QED
    BY <2>2, <2>3
<1>2. ASSUME NEW x \in T, None(Append(q, x), S)
      PROVE  None(q, S) /\ x \notin S
  <2>1. /\ Len(q) \in Nat /\ Len(Append(q, x)) = Len(q) + 1
        /\ \A k \in 1 .. Len(q) : Append(q, x)[k] = q[k] /\ k \in 1 .. Len(q) + 1
        /\ Append(q, x)[Len(q) + 1] = x /\ Len(q) + 1 \in 1 .. Len(q) + 1
    OBVIOUS
  <2> QED
    BY <1>2, <2>1 DEF None
<1> QED
  BY <1>1, <1>2

\* A request sent is there.
LEMMA OneSent ==
  ASSUME NEW T, NEW x \in T, NEW q \in Seq(T), NEW r \in Seq(T), NEW S, x \in S
  PROVE  ~None(q \o <<x>> \o r, S)
<1>1. /\ q \o <<x>> \in Seq(T) /\ Len(q \o <<x>>) = Len(q) + 1
      /\ (q \o <<x>>)[Len(q) + 1] = x /\ Len(q) \in Nat
  OBVIOUS
<1> DEFINE p == q \o <<x>>
<1>2. /\ p \in Seq(T) /\ Len(p) = Len(q) + 1 /\ p[Len(q) + 1] = x /\ Len(q) \in Nat
  BY <1>1
<1> HIDE DEF p
<1>3. Len(q) + 1 \in 1 .. Len(p \o r)
  BY <1>2
<1>4. (p \o r)[Len(q) + 1] = x
  BY <1>2
<1>5. ~None(p \o r, S)
  BY <1>3, <1>4 DEF None
<1> QED
  BY <1>5 DEF p

\* So is this one.
LEMMA StartSent ==
  ASSUME NEW q \in Seq(SsMsg), NEW r \in Seq(SsMsg)
  PROVE  ~None(q \o <<Req("TIMER_START", FALSE)>> \o r, Starts)
<1> Req("TIMER_START", FALSE) \in SsMsg /\ Req("TIMER_START", FALSE) \in Starts
  BY DEF Req, SsMsg, SsIds, Starts
<1> QED
  BY OneSent

\* The state task ends a recording only with that request sent, and sends
\* nothing while idle.
LEMMA PollsState ==
  ASSUME KeysOnly, TypeOK, KeysInv, Shape, StateTask, ~busy'
  PROVE  /\ mount_timer' = mount_timer
         /\ busy => ~None(ssq', Starts)
         /\ ~busy => ssq' = ssq
<1>1. apq # << >> => Head(apq).id \in KeyIds
  <2>1. apq # << >> => Head(apq) \in ApMsg /\ Head(apq) \notin OtherMsgs
    BY BodyParts, TailKeeps DEF QueueTypeOK, KeysInv
  <2> QED
    BY <2>1 DEF OtherMsgs
<1>2. ssq \in Seq(SsMsg) /\ << >> \in Seq(SsMsg)
  BY BodyParts DEF QueueTypeOK
<1>3. CASE RecordActive
  <2>1. FuncKey("VIDEO_RECORD_ACTIVE")
    BY <1>3 DEF RecordActive
  <2>2. CASE FuncKeyStop("VIDEO_RECORD_ACTIVE", << >>, << >>)
    <3>1. busy /\ next # NoHandle /\ UNCHANGED mount_timer
      BY <2>2 DEF FuncKeyStop, UserKeys, FilesReady, serviceVars
    <3> DEFINE a == <<Req("FREESIZE_CHECK_SWITCH", FALSE)>>
               b == <<Req("VID_CYCLIC_REQ", FALSE)>>
               c == <<Req("TIMER_START", FALSE)>>
    <3>2. ssq' = a \o ssq \o << >> \o b \o (c \o << >>)
      BY <2>2, <3>1 DEF FuncKeyStop
    <3>3. a \in Seq(SsMsg) /\ b \in Seq(SsMsg) /\ c \in Seq(SsMsg)
      BY SsSends
    <3> HIDE DEF a, b
    <3>4. ssq' = (a \o ssq \o b) \o c \o << >> /\ a \o ssq \o b \in Seq(SsMsg)
      <4> HIDE DEF c
      <4> QED
        BY <1>2, <3>2, <3>3
    <3> QED
      BY <1>2, <3>1, <3>4, StartSent
  <2>3. CASE FuncKeyRefused("VIDEO_RECORD_ACTIVE") \/ FuncKeyNoStart
    BY <2>3 DEF FuncKeyRefused, FuncKeyNoStart, storageVars, recordVars
  <2>4. ~FuncKeyStart
    BY DEF FuncKeyStart
  <2> QED
    BY <2>1, <2>2, <2>3, <2>4 DEF FuncKey
<1>4. CASE VidReply
  <2>1. Head(apq) \in FileReplies /\ apq # << >> /\ apq \in Seq(ApMsg)
    BY <1>4, BodyParts DEF VidReply, Handle, Next_, FileReplies, QueueTypeOK
  <2>2. FileGiven
    <3>1. ~None(apq, FileReplies)
      BY <2>1, TailKeeps
    <3> QED
      BY <3>1 DEF Shape, Idle, FileAsked, Recording, NoFileDue, NextAsked, NextGiven, BothFiles
  <2>3. busy /\ ~packer
    BY <2>2 DEF FileGiven, Waiting
  <2>4. ReplyNoFile
    BY <1>4, <2>3, NoFaults DEF VidReply, LateReply, ReplyStartFails, EncodeStart, ReplyStart
  <2>5. ssq' = Append(ssq, Req("TIMER_START", FALSE)) /\ UNCHANGED mount_timer
    BY <2>4 DEF ReplyNoFile, serviceVars
  <2>6. Req("TIMER_START", FALSE) \in SsMsg /\ Req("TIMER_START", FALSE) \in Starts
    BY DEF Req, SsMsg, SsIds, Starts
  <2>7. ~None(ssq', Starts)
    BY <1>2, <2>5, <2>6, StartKept
  <2> QED
    BY <2>3, <2>5, <2>7
<1>5. CASE VidCyclicReply
  <2>1. Head(apq) \in NextReplies /\ apq # << >> /\ apq \in Seq(ApMsg)
    BY <1>5, BodyParts DEF VidCyclicReply, Handle, Next_, NextReplies, QueueTypeOK
  <2>2. NextGiven
    <3>1. ~None(apq, NextReplies)
      BY <2>1, TailKeeps
    <3> QED
      BY <3>1 DEF Shape, Idle, Waiting, FileAsked, FileGiven, NoNextDue, NextAsked, BothFiles
  <2> QED
    BY <1>5, <2>2 DEF VidCyclicReply, LateReply, NextGiven, Recording
<1>6. CASE CyclicVideoRecord
  <2>1. next # NoHandle => BothFiles
    BY DEF Shape, Idle, FileAsked, FileGiven, Waiting, NextAsked, NextGiven
  <2>2. ~SwitchFails
    BY <2>1, NoFaults DEF SwitchFails, BothFiles, Recording
  <2>3. ~SwitchFile
    BY <2>1 DEF SwitchFile, BothFiles, Recording
  <2> QED
    BY <1>6, <2>2, <2>3 DEF CyclicVideoRecord, NoNextFile, storageVars, recordVars
<1>7. CASE SosKey \/ ModeKey \/ PreviewIgnores \/ PreviewRecordKey
  <2>1. UNCHANGED <<ssq, mount_timer>>
    BY <1>7 DEF SosKey, ModeKey, PreviewIgnores, PreviewRecordKey, storageVars
  <2>2. ~busy
    BY <1>7 DEF SosKey, ModeKey, PreviewIgnores, PreviewRecordKey, InPreview, KeysInv, recordVars
  <2> QED
    BY <2>1, <2>2
<1>8. ~(\/ VdoRecStop \/ VdoRecRestart \/ FallThrough \/ PrevKey \/ AviPackerError
        \/ MountMsg \/ NoStorage \/ GetJpeg \/ PicReply \/ PreviewCard)
  BY <1>1 DEF VdoRecStop, VdoRecRestart, FallThrough, PrevKey, AviPackerError, MountMsg,
     NoStorage, GetJpeg, PicReply, PreviewCard, Handle, InPreview, Next_, KeyIds, KeysInv
<1> QED
  BY <1>3, <1>4, <1>5, <1>6, <1>7, <1>8 DEF StateTask

\* So the polling is inductive.
LEMMA PollsStep ==
  ASSUME KeysOnly, TypeOK, KeysInv, Shape, Polls, [Next]_vars
  PROVE  Polls'
<1> SUFFICES ASSUME ~busy', ~mount_timer'
             PROVE  ~None(ssq', Starts)
  BY DEF Polls
<1>1. ssq \in Seq(SsMsg)
  BY BodyParts DEF QueueTypeOK
<1>2. CASE StateTask
  BY <1>2, PollsState DEF Polls
<1>3. CASE Service
  <2>1. ~busy
    BY <1>3 DEF Service, recordVars
  <2>2. Idle
    BY <2>1 DEF Shape, FileAsked, FileGiven, Waiting, NextAsked, NextGiven,
     BothFiles, Recording
  <2>3. ssq # << >> => Head(ssq) \in SsMsg /\ Head(ssq) \notin FileReqs
                       /\ Head(ssq) \notin NextReqs /\ Head(ssq) \notin PicReqs
    BY <1>1, <2>2, TailKeeps DEF Idle, NoFileDue, NoNextDue, KeysInv
  <2>4. ~VidReq /\ ~PicReq /\ ~NoFilename /\ ~CyclicOpen /\ ~CyclicHang
    BY <2>3 DEF VidReq, PicReq, FileOpen, NoFilename, CyclicOpen, CyclicHang, Serve, Next_,
       FileReqs, NextReqs, PicReqs
  <2>5. ~TimerStart
    BY DEF TimerStart
  <2>6. UNCHANGED mount_timer
    BY <1>3, <2>4, <2>5 DEF Service, StorageTask, FreesizeCheckSwitch, CyclicUndo, StorageCheck,
       FreesizeCheck, FreesizeCheckAgain, FreesizeCheckStep, DelUnchanged
  <2>7. ~None(ssq, Starts)
    BY <2>1, <2>6 DEF Polls
  <2> DEFINE x == Req("FREESIZE_CHECK", FALSE)
  <2>8. x \in SsMsg
    BY DEF Req, SsMsg, SsIds
  <2> HIDE DEF x
  <2>9. ASSUME NEW free, NEW rest, ReDel(free, rest)
        PROVE  ssq' = rest \/ ssq' = Append(rest, x)
    BY <2>9 DEF ReDel, DelDisabled, DelNothing, DelVideo, x
  <2>10. \/ ssq' = ssq \/ ssq' = Append(ssq, x)
         \/ /\ ssq # << >> /\ Head(ssq).id # "TIMER_START"
            /\ ssq' = Tail(ssq) \/ ssq' = Append(Tail(ssq), x)
    BY <1>3, <2>4, <2>5, <2>9
    DEF Service, StorageTask, FreesizeCheckSwitch, CyclicUndo, StorageCheck, FreesizeCheck,
        FreesizeCheckAgain, FreesizeCheckStep, Serve, Next_
  <2>11. Head(ssq).id # "TIMER_START" => Head(ssq) \notin Starts
    BY DEF Starts
  <2>12. ASSUME NEW q \in Seq(SsMsg), ~None(q, Starts)
         PROVE  ~None(Append(q, x), Starts)
    <3>1. \A y \in SsMsg : None(Append(q, y), Starts) => None(q, Starts)
      BY StartKept
    <3> QED
      BY <2>8, <2>12, <3>1
  <2>13. CASE ssq' = ssq \/ ssq' = Append(ssq, x)
    BY <1>1, <2>7, <2>12, <2>13
  <2>14. CASE /\ ssq # << >> /\ Head(ssq).id # "TIMER_START"
              /\ ssq' = Tail(ssq) \/ ssq' = Append(Tail(ssq), x)
    <3>1. Tail(ssq) \in Seq(SsMsg)
      BY <1>1, <2>14
    <3>2. None(Tail(ssq), Starts) => None(ssq, Starts)
      <4>1. ssq # << >> /\ Head(ssq) \notin Starts
        BY <2>11, <2>14
      <4> QED
        BY <1>1, <4>1, StartKept
    <3>3. ~None(Tail(ssq), Starts)
      BY <2>7, <3>2
    <3> QED
      BY <2>12, <2>14, <3>1, <3>3
  <2> QED
    BY <2>10, <2>13, <2>14
<1>4. CASE ServiceTick \/ Input \/ CyclicTick \/ MoveCard \/ UNCHANGED vars
  <2>1. /\ UNCHANGED <<busy, mount_timer>>
        /\ ssq' = ssq \/ \E x \in SsMsg : ssq' = Append(ssq, x)
    <3>1. Req("STORAGE_CHECK", FALSE) \in SsMsg /\ Req("FREESIZE_CHECK", FALSE) \in SsMsg
      BY DEF Req, SsMsg, SsIds
    <3> QED
      BY <1>4, <3>1 DEF ServiceTick, StorageTick, MountTick, FreesizeTick, Input, CyclicTick,
         MoveCard, vars, storageVars, recordVars
  <2>2. ~None(ssq, Starts)
    BY <2>1 DEF Polls
  <2>3. \A x \in SsMsg : None(Append(ssq, x), Starts) => None(ssq, Starts)
    BY <1>1, StartKept
  <2> QED
    BY <2>1, <2>2, <2>3
<1> QED
  BY <1>2, <1>3, <1>4 DEF Next

\* At rest (no recording, empty queues) the storage service polls the card: a
\* card that is pulled or put in between recordings is noticed.
THEOREM RestPollsHolds ==
  ASSUME KeysOnly
  PROVE  Spec => []RestPolls
<1>1. Init => Polls
  BY DEF Init, StorageInit, Polls
<1>2. IndInv /\ Polls /\ [Next]_vars => Polls'
  BY PollsStep DEF IndInv
<1>3. TypeOK /\ Polls => RestPolls
  BY DEF Polls, RestPolls, AtRest, None
<1> QED
  BY <1>1, <1>2, <1>3, IndInvCorrect, TypeCorrect, PTL DEF Spec

-----------------------------------------------------------------------------
(* The files on the card. *)

\* The numbers have not wrapped around; a next file is open, for the state
\* task or on its way to it.
NotWrapped == ~g_avi_index_9999_exist
NextHere == ~None(apq, NextFiles) \/ next # NoHandle

\* The files on the card are videos, each locked or not, whose numbers are in
\* the table and below the one that is next.
NumberedInv ==
  /\ jpg_file_table = {}
  /\ \A i \in avi_file_table : i < g_file_index
  /\ \A n \in disk : n[1] \in {"MOVI", "LOCK"} /\ n[2] \in avi_file_table
  /\ \A i \in Idx : ~(<<"MOVI", i>> \in disk /\ <<"LOCK", i>> \in disk)

\* What is open is a video that is there and is not locked.
OpenInv == \A h \in DOMAIN opened : opened[h] \in disk /\ opened[h][1] = "MOVI"

\* The next file is newer than the one that is recorded, and a number that is
\* to be given back has no file, locked or not.
BehindInv ==
  /\ packer /\ NextHere => g_file_path[2] + 1 < g_file_index
  /\ ~None(ssq, UndoReqs) => g_file_index > 0 /\ \A n \in disk : n[2] # LastIndex

\* The file recorded before, which the lock key may lock, is older than both.
PrevInv ==
  continuing => /\ packer /\ prev_path[1] \in {"MOVI", "LOCK"}
                /\ prev_path[2] < g_file_path[2]

\* A file that is recorded has a path.
PathInv == packer => has_path

\* Until the numbers wrap around they order the files by age, so that a lock or
\* a deletion never meets a file that is open.
FilesInv == PathInv /\ (NotWrapped => NumberedInv /\ OpenInv /\ BehindInv /\ PrevInv)

\* The steps that open and close no file and give out no number.
Steady ==
  /\ UNCHANGED <<opened, jpg_file_table, g_file_index, g_avi_index_9999_exist, g_file_path,
                 g_next_file_path>>
  /\ NextHere' => NextHere
  /\ packer => packer' /\ UNCHANGED has_path
  /\ packer' /\ ~packer => has_path' /\ ~NextHere'
  /\ continuing' => continuing /\ prev_path' \in {prev_path, LockName(prev_path)}
  /\ None(ssq, UndoReqs) => None(ssq', UndoReqs)

\* Among them: those that leave the files on the card alone, that lock the file
\* recorded before, and that delete a video.
LeavesFiles == UNCHANGED <<disk, avi_file_table>>
LocksPrev == continuing /\ disk' = Locked(disk, prev_path) /\ UNCHANGED avi_file_table
Deletes ==
  /\ FreesizeCheck \/ FreesizeCheckAgain
  /\ \E i \in Idx : /\ DelIndex(i) /\ ~Spared(i)
                    /\ disk' = Unlinked(disk, <<"MOVI", i>>)
                    /\ disk' # disk => avi_file_table' = avi_file_table \ {i}

\* A file, or a next file, is opened (or there is no handle for it).
Opens ==
  \E h \in Handles \cup {NoHandle} :
    /\ h # NoHandle => h \notin DOMAIN opened
    /\ Used # Idx
    /\ Truncate(h, <<"MOVI", FreeIndex>>) /\ Advance(h, FreeIndex)
    /\ avi_file_table' = Take(avi_file_table, h, FreeIndex)
    /\ UNCHANGED <<jpg_file_table, packer, has_path, continuing, prev_path>>
    /\ None(ssq', UndoReqs)
    /\ packer => UNCHANGED g_file_path
    /\ NextHere' => h # NoHandle /\ g_next_file_path' = <<"MOVI", FreeIndex>>

\* There is no number for it.
FindsNone ==
  /\ Used = Idx
  /\ UNCHANGED <<disk, opened, packer, has_path, g_avi_index_9999_exist>>
  /\ ~NextHere'

\* The number of the next file is given back.
GivesBack ==
  /\ ~packer /\ ~NextHere' /\ ~None(ssq, UndoReqs) /\ None(ssq', UndoReqs)
  /\ UNCHANGED <<disk, opened, jpg_file_table, g_avi_index_9999_exist, packer, has_path,
                 continuing, prev_path, g_file_path, g_next_file_path>>
  /\ g_file_index' = LastIndex /\ avi_file_table' = avi_file_table \ {LastIndex}

\* The recording stops, or goes on in the next file.
Stops ==
  /\ BothFiles /\ ~packer' /\ ~continuing' /\ ~NextHere'
  /\ DOMAIN opened' = {}
  /\ disk' = (IF lock_flag > 0 /\ has_path THEN Locked(disk, g_file_path) ELSE disk)
             \ {g_next_file_path}
  /\ UNCHANGED <<avi_file_table, jpg_file_table, g_file_index, g_avi_index_9999_exist>>
Switches ==
  /\ BothFiles /\ SwitchFile /\ ~NextHere' /\ None(ssq', UndoReqs)

\* What a message of either task, or a timer or a key, does to the files.
StepKind ==
  \/ Steady /\ (LeavesFiles \/ LocksPrev \/ Deletes)
  \/ Opens \/ FindsNone \/ GivesBack \/ Stops \/ Switches

\* A queue that gains no request to give a number back.
LEMMA UndoNone ==
  ASSUME TypeOK, None(ssq, UndoReqs),
         \/ ssq' = ssq
         \/ ssq # << >> /\ ssq' = Tail(ssq)
         \/ \E x \in SsMsg \ UndoReqs :
              ssq' = Append(ssq, x) \/ (ssq # << >> /\ ssq' = Append(Tail(ssq), x))
  PROVE  None(ssq', UndoReqs)
<1>1. ssq \in Seq(SsMsg) /\ (ssq # << >> => Tail(ssq) \in Seq(SsMsg))
  BY BodyParts DEF QueueTypeOK
<1>2. ssq # << >> => None(Tail(ssq), UndoReqs)
  BY <1>1, TailKeeps
<1> QED
  BY <1>1, <1>2, AppendKeeps

\* The messages of the storage task.
LEMMA ServiceKind ==
  ASSUME KeysOnly, TypeOK, KeysInv, Shape, NumbersInv, Service
  PROVE  StepKind
<1>1. UNCHANGED <<next, packer, has_path, continuing, prev_path>>
  BY DEF Service, recordVars, encoderVars
<1>2. ASSUME UNCHANGED apq
      PROVE  NextHere' <=> NextHere
  BY <1>1, <1>2 DEF NextHere
<1>3. CASE TimerStart \/ FreesizeCheckSwitch \/ FreesizeCheckStep \/ CyclicHang \/ StorageCheck
  <2>1. ~MountCard /\ ~LoseCard
    BY DEF MountCard, LoseCard, KeysInv
  <2>2. /\ ssq # << >> /\ ssq' = Tail(ssq)
        /\ UNCHANGED <<apq, disk, opened, tableVars, g_file_path, g_next_file_path>>
    BY <1>3, <2>1 DEF TimerStart, FreesizeCheckSwitch, FreesizeCheckStep, CyclicHang, StorageCheck,
       SameCard, Serve, Next_, cardVars
  <2>3. Steady /\ LeavesFiles
    BY <1>1, <1>2, <2>2, UndoNone DEF Steady, LeavesFiles, tableVars
  <2> QED
    BY <2>3 DEF StepKind
<1>4. CASE FreesizeCheck \/ FreesizeCheckAgain
  <2> DEFINE x == Req("FREESIZE_CHECK", FALSE)
  <2>1. x \in SsMsg \ UndoReqs
    BY DEF Req, SsMsg, SsIds, UndoReqs
  <2> HIDE DEF x
  <2>2. ASSUME NEW free, NEW rest, ReDel(free, rest)
        PROVE  /\ ssq' = rest \/ ssq' = Append(rest, x)
               /\ LeavesFiles \/ Deletes
    <3>1. CASE DelDisabled(free, rest) \/ DelNothing(free, rest)
      BY <3>1 DEF DelDisabled, DelNothing, LeavesFiles, x
    <3>2. CASE DelVideo(free, rest)
      BY <1>4, <3>2 DEF DelVideo, Deletes
    <3> QED
      BY <2>2, <3>1, <3>2 DEF ReDel
  <2>3. LeavesFiles \/ Deletes
    BY <1>4, <2>2 DEF FreesizeCheck, FreesizeCheckAgain, LeavesFiles
  <2>4. \/ ssq' = ssq
        \/ ssq # << >> /\ ssq' = Tail(ssq)
        \/ ssq' = Append(ssq, x) \/ (ssq # << >> /\ ssq' = Append(Tail(ssq), x))
    BY <1>4, <2>2 DEF FreesizeCheck, FreesizeCheckAgain, Next_
  <2>5. UNCHANGED <<opened, jpg_file_table, g_file_index, g_avi_index_9999_exist, g_file_path,
                    g_next_file_path>>
    BY <1>4 DEF FreesizeCheck, FreesizeCheckAgain, DelUnchanged
  <2>6. UNCHANGED apq
    <3>1. StorageTask
      BY DEF Service
    <3>2. ~VidReq /\ ~CyclicOpen => UNCHANGED apq
      BY <3>1, StorageKeeps
    <3>3. ~VidReq /\ ~CyclicOpen
      BY <1>4 DEF VidReq, CyclicOpen, FileOpen, Serve, Next_, FreesizeCheck, FreesizeCheckAgain
    <3> QED
      BY <3>2, <3>3
  <2>7. Steady
    BY <1>1, <1>2, <2>1, <2>4, <2>5, <2>6, UndoNone DEF Steady
  <2> QED
    BY <2>3, <2>7 DEF StepKind
<1>5. CASE VidReq \/ CyclicOpen
  <2> DEFINE h == OpenHandle(card /\ mounted)
  <2>1. h \in Handles \cup {NoHandle} /\ (h # NoHandle => h \notin DOMAIN opened)
    BY OpenHandleType
  <2>2. /\ Used # Idx
        /\ Truncate(h, <<"MOVI", FreeIndex>>) /\ Advance(h, FreeIndex)
        /\ avi_file_table' = Take(avi_file_table, h, FreeIndex) /\ UNCHANGED jpg_file_table
    BY <1>5 DEF VidReq, CyclicOpen, FileOpen
  <2>3. /\ ssq # << >> /\ ssq' = Tail(ssq) /\ ssq \in Seq(SsMsg) /\ Head(ssq) \in SsMsg
    BY <1>5, BodyParts DEF VidReq, CyclicOpen, FileOpen, Serve, Next_, QueueTypeOK
  <2> HIDE DEF h
  <2>4. CASE VidReq
    <3>1. Head(ssq) \in FileReqs
      BY <2>3, <2>4 DEF VidReq, FileOpen, Serve, Next_, FileReqs
    <3>2. None(ssq, UndoReqs) /\ ~None(ssq, FileReqs)
      BY <2>3, <3>1, BeforeKept, TailKeeps DEF NumbersInv, UndoInv
    <3>3. None(ssq', UndoReqs)
      BY <2>3, <3>2, TailKeeps
    <3>4. ~packer /\ ~(busy /\ curr # NoHandle)
      BY <3>2 DEF Shape, Idle, FileAsked, FileGiven, Waiting, Recording, NoFileDue, NextAsked,
         NextGiven, BothFiles
    <3>5. next = NoHandle /\ None(apq, NextFiles)
      BY <3>4, ShapeFacts DEF NumbersInv
    <3>6. None(apq', NextFiles)
      <4>1. apq' = Append(apq, Msg("VID_REPLY", h))
        BY <2>4 DEF VidReq, FileOpen, Reply, h
      <4> QED
        BY <2>1, <3>5, <4>1, NewMsg
    <3>7. ~NextHere'
      BY <1>1, <3>5, <3>6 DEF NextHere
    <3>8. Opens
      BY <1>1, <2>1, <2>2, <3>3, <3>4, <3>7 DEF Opens
    <3> QED
      BY <3>8 DEF StepKind
  <2>5. CASE CyclicOpen
    <3>1. Head(ssq) \in NextReqs
      BY <2>3, <2>5 DEF CyclicOpen, Serve, Next_, NextReqs
    <3>2. ~None(ssq, NextReqs)
      BY <2>3, <3>1, TailKeeps
    <3>3. NextAsked
      BY <3>2 DEF Shape, Idle, Waiting, NoNextDue, FileAsked, FileGiven, NextGiven, BothFiles
    <3>4. /\ None(ssq, UndoReqs) /\ next = NoHandle /\ None(apq, NextReplies)
      BY <3>3, ShapeFacts DEF NextAsked, Recording, NumbersInv
    <3>5. None(apq, NextFiles)
      BY <3>4 DEF None, NextFiles
    <3>6. None(ssq', UndoReqs)
      BY <2>3, <3>4, TailKeeps
    <3>7. NextHere' => h # NoHandle
      <4>1. apq' = Append(apq, Msg("VID_CYCLIC_REPLY", h))
        BY <2>5 DEF CyclicOpen, Reply, h
      <4>2. h = NoHandle => None(apq', NextFiles)
        BY <2>1, <3>5, <4>1, NewMsg
      <4> QED
        BY <1>1, <3>4, <4>2 DEF NextHere
    <3>8. UNCHANGED g_file_path /\ g_next_file_path' = <<"MOVI", FreeIndex>>
      BY <2>5 DEF CyclicOpen
    <3>9. Opens
      BY <1>1, <2>1, <2>2, <3>6, <3>7, <3>8 DEF Opens
    <3> QED
      BY <3>9 DEF StepKind
  <2> QED
    BY <1>5, <2>4, <2>5
<1>6. ~PicReq /\ (NoFilename => ssq # << >> /\ Head(ssq) \in FileReqs)
  <2>1. ssq # << >> => Head(ssq) \in SsMsg /\ Head(ssq) \notin PicReqs
    BY BodyParts, TailKeeps DEF QueueTypeOK, KeysInv
  <2> QED
    BY <2>1 DEF PicReqs, PicReq, FileReqs, NoFilename, FileOpen, Serve, Next_
<1>7. CASE NoFilename
  <2>1. ~None(ssq, FileReqs)
    BY <1>6, <1>7, BodyParts, TailKeeps DEF QueueTypeOK
  <2>2. ~(busy /\ curr # NoHandle)
    BY <2>1 DEF Shape, Idle, FileAsked, FileGiven, Waiting, Recording, NoFileDue, NextAsked,
       NextGiven, BothFiles
  <2>3. next = NoHandle /\ None(apq, NextFiles)
    BY <2>2, ShapeFacts DEF NumbersInv
  <2>4. /\ Used = Idx
        /\ UNCHANGED <<apq, disk, opened, g_avi_index_9999_exist>>
    BY <1>7 DEF NoFilename, cardVars
  <2>5. ~NextHere'
    BY <1>1, <2>3, <2>4 DEF NextHere
  <2> QED
    BY <1>1, <2>4, <2>5 DEF FindsNone, StepKind
<1>8. CASE CyclicUndo
  <2>1. /\ ssq # << >> /\ ssq' = Tail(ssq) /\ ssq \in Seq(SsMsg)
        /\ Head(ssq) \in UndoReqs
        /\ g_file_index' = LastIndex
        /\ avi_file_table' = avi_file_table \ {LastIndex}
        /\ UNCHANGED <<apq, disk, opened, jpg_file_table, g_avi_index_9999_exist, g_file_path,
                       g_next_file_path>>
    BY <1>8, BodyParts DEF CyclicUndo, Serve, Next_, QueueTypeOK, UndoReqs, LastIndex, cardVars
  <2>2. ~None(ssq, UndoReqs) /\ None(ssq', UndoReqs)
    BY <2>1, TailKeeps DEF NumbersInv, UndoInv
  <2>3. ~packer /\ next = NoHandle /\ None(apq, NextFiles)
    BY <2>2, ShapeFacts DEF NumbersInv, UndoInv
  <2>4. ~NextHere'
    BY <1>1, <2>1, <2>3 DEF NextHere
  <2> QED
    BY <1>1, <2>1, <2>2, <2>3, <2>4 DEF GivesBack, StepKind
<1> QED
  BY <1>3, <1>4, <1>5, <1>6, <1>7, <1>8 DEF Service, StorageTask

\* A message that the state task takes brings no next file by itself.
LEMMA TakesOne ==
  ASSUME TypeOK, apq # << >>,
         apq' = Tail(apq) \/ apq' = Append(Tail(apq), Msg("VIDEO_RECORD_ACTIVE", NoHandle)),
         next' \in {next, NoHandle}
  PROVE  NextHere' => NextHere
<1> DEFINE x == Msg("VIDEO_RECORD_ACTIVE", NoHandle)
<1>1. x \in ApMsg /\ x \notin NextFiles
  BY MsgTypes DEF Msg, ApIds, NextReplies, NextFiles
<1>2. apq \in Seq(ApMsg) /\ Tail(apq) \in Seq(ApMsg)
  BY BodyParts DEF QueueTypeOK
<1>3. apq' = Tail(apq) \/ apq' = Append(Tail(apq), x)
  OBVIOUS
<1> HIDE DEF x
<1>4. None(apq, NextFiles) => None(Tail(apq), NextFiles)
  BY <1>2, TailKeeps
<1>5. None(apq, NextFiles) => None(apq', NextFiles)
  BY <1>1, <1>2, <1>3, <1>4, AppendKeeps
<1> QED
  BY <1>5 DEF NextHere

\* The record key.
LEMMA RecordKeyKind ==
  ASSUME KeysOnly, TypeOK, KeysInv, Shape, NumbersInv, RecordActive
  PROVE  StepKind
<1>1. /\ apq # << >> /\ apq' = Tail(apq) /\ FuncKey("VIDEO_RECORD_ACTIVE")
  BY DEF RecordActive, Handle, Next_
<1>2. CASE FuncKeyRefused("VIDEO_RECORD_ACTIVE") \/ FuncKeyNoStart
  <2>1. UNCHANGED <<ssq, cardVars, storageVars, recordVars, encoderVars>>
    BY <1>2 DEF FuncKeyRefused, FuncKeyNoStart
  <2>2. UNCHANGED <<ssq, disk, opened, avi_file_table, jpg_file_table, g_file_index,
                    g_avi_index_9999_exist, g_file_path, g_next_file_path,
                    next, has_path, continuing, prev_path, packer>>
    BY <2>1 DEF cardVars, storageVars, tableVars, recordVars, encoderVars
  <2>3. NextHere' => NextHere
    BY <1>1, <2>2, TakesOne
  <2> QED
    BY <2>2, <2>3 DEF Steady, LeavesFiles, StepKind
<1>3. CASE FuncKeyStart
  <2>1. /\ ssq' = Append(ssq, Req("VID_REQ", FALSE))
        /\ UNCHANGED <<cardVars, storageVars, next, has_path, continuing, prev_path, encoderVars>>
    BY <1>3 DEF FuncKeyStart
  <2>2. UNCHANGED <<disk, opened, avi_file_table, jpg_file_table, g_file_index,
                    g_avi_index_9999_exist, g_file_path, g_next_file_path,
                    next, has_path, continuing, prev_path, packer>>
    BY <2>1 DEF cardVars, storageVars, tableVars, encoderVars
  <2>3. NextHere' => NextHere
    BY <1>1, <2>2, TakesOne
  <2>4. Req("VID_REQ", FALSE) \in SsMsg \ UndoReqs
    BY DEF Req, SsMsg, SsIds, UndoReqs
  <2>5. None(ssq, UndoReqs) => None(ssq', UndoReqs)
    BY <2>1, <2>4, UndoNone
  <2> QED
    BY <2>2, <2>3, <2>5 DEF Steady, LeavesFiles, StepKind
<1>4. CASE FuncKeyStop("VIDEO_RECORD_ACTIVE", << >>, << >>)
  <2>1. next # NoHandle /\ curr # NoHandle /\ busy
    BY <1>4 DEF FuncKeyStop, UserKeys, FilesReady
  <2>2. BothFiles /\ packer /\ packer_file = curr /\ DOMAIN opened = {curr, next}
    BY <2>1 DEF Shape, Idle, FileAsked, FileGiven, Waiting, NextAsked, NextGiven,
       BothFiles, Recording
  <2>3. PICK ok \in BOOLEAN :
          /\ EncodeStopped(ok)
          /\ disk' = Unlinked(CASE ok /\ lock_flag > 0 /\ has_path -> Locked(disk, g_file_path)
                                [] ~ok -> Unlinked(disk, g_file_path)
                                [] OTHER -> disk, g_next_file_path)
          /\ opened' = Closed(opened, StopCloses \cup {next} \cup (IF ok THEN {} ELSE {curr}))
    BY <1>4, <2>1, <2>2 DEF FuncKeyStop
  <2>4. ok /\ packer' = FALSE
    BY <2>3, NoFaults DEF EncodeStopped
  <2>5. DOMAIN opened' = {}
    <3>1. {curr, next} \ (StopCloses \cup {next} \cup (IF ok THEN {} ELSE {curr})) = {}
      BY <2>2 DEF StopCloses
    <3> QED
      BY <2>2, <2>3, <3>1, Files
  <2>6. disk' = (IF lock_flag > 0 /\ has_path THEN Locked(disk, g_file_path) ELSE disk)
                \ {g_next_file_path}
    <3>1. disk' = Unlinked(IF lock_flag > 0 /\ has_path THEN Locked(disk, g_file_path) ELSE disk,
                           g_next_file_path)
      BY <2>3, <2>4
    <3> QED
      BY <3>1 DEF Unlinked, KeysInv
  <2>7. /\ next' = NoHandle /\ continuing' = FALSE
        /\ UNCHANGED <<avi_file_table, jpg_file_table, g_file_index, g_avi_index_9999_exist>>
    BY <1>4 DEF FuncKeyStop, serviceVars
  <2>8. ~NextHere'
    <3>1. None(apq, NextFiles)
      BY <2>2 DEF BothFiles, NoNextDue, None, NextFiles
    <3>2. None(apq', NextFiles)
      BY <1>1, <3>1, NextFilesTail
    <3> QED
      BY <2>7, <3>2 DEF NextHere
  <2> QED
    BY <2>2, <2>4, <2>5, <2>6, <2>7, <2>8 DEF Stops, StepKind
<1> QED
  BY <1>1, <1>2, <1>3, <1>4 DEF FuncKey

\* The replies and the loop recording timer.
LEMMA RepliesKind ==
  ASSUME KeysOnly, TypeOK, KeysInv, Shape, NumbersInv,
         VidReply \/ VidCyclicReply \/ CyclicVideoRecord
  PROVE  StepKind
<1>1. apq # << >> /\ apq' = Tail(apq)
  BY DEF VidReply, VidCyclicReply, CyclicVideoRecord, Handle, Next_
<1>2. None(apq, NextFiles) => None(apq', NextFiles)
  BY <1>1, NextFilesTail
<1>3. apq \in Seq(ApMsg) /\ Head(apq) \in ApMsg
  BY <1>1, BodyParts DEF QueueTypeOK
<1>4. NumbersInv'
  BY RepliesNumbers
<1>5. CASE VidReply
  <2>1. Head(apq) \in FileReplies
    BY <1>3, <1>5 DEF VidReply, Handle, Next_, FileReplies
  <2>2. ~None(apq, FileReplies)
    BY <1>1, <1>3, <2>1, TailKeeps
  <2>3. FileGiven
    BY <2>2 DEF Shape, Idle, FileAsked, Recording, NoFileDue, NextAsked, NextGiven, BothFiles
  <2>4. busy /\ ~packer /\ next = NoHandle /\ None(apq, NextFiles)
    BY <2>3 DEF FileGiven, Waiting, NoNextDue, None, NextFiles
  <2>5. CASE ReplyNoFile
    <3>1. /\ ssq' = Append(ssq, Req("TIMER_START", FALSE))
          /\ UNCHANGED <<disk, opened, avi_file_table, jpg_file_table, g_file_index,
                         g_avi_index_9999_exist, g_file_path, g_next_file_path,
                         next, continuing, prev_path, packer>>
      BY <2>5 DEF ReplyNoFile, cardVars, serviceVars, encoderVars
    <3>2. Req("TIMER_START", FALSE) \in SsMsg \ UndoReqs
      BY DEF Req, SsMsg, SsIds, UndoReqs
    <3>3. None(ssq, UndoReqs) => None(ssq', UndoReqs)
      BY <3>1, <3>2, UndoNone
    <3>4. NextHere' => NextHere
      BY <1>1, <3>1, TakesOne
    <3> QED
      BY <2>4, <3>1, <3>3, <3>4 DEF Steady, LeavesFiles, StepKind
  <2>6. CASE ReplyStart
    <3>1. /\ packer' = TRUE /\ has_path' = TRUE
          /\ UNCHANGED <<disk, opened, avi_file_table, jpg_file_table, g_file_index,
                         g_avi_index_9999_exist, g_file_path, g_next_file_path,
                         next, continuing, prev_path>>
      BY <2>6 DEF ReplyStart, EncodeStart, cardVars, serviceVars
    <3>2. None(ssq', UndoReqs)
      BY <1>4, <3>1 DEF NumbersInv, UndoInv
    <3>3. ~NextHere'
      BY <1>2, <2>4, <3>1 DEF NextHere
    <3> QED
      BY <2>4, <3>1, <3>2, <3>3 DEF Steady, LeavesFiles, StepKind
  <2> QED
    BY <1>5, <2>4, <2>5, <2>6, NoFaults DEF VidReply, LateReply, ReplyStartFails, EncodeStart
<1>6. CASE VidCyclicReply
  <2>1. Head(apq) \in NextReplies
    BY <1>3, <1>6 DEF VidCyclicReply, Handle, Next_, NextReplies
  <2>2. ~None(apq, NextReplies)
    BY <1>1, <1>3, <2>1, TailKeeps
  <2>3. busy
    BY <2>2, ShapeFacts DEF NumbersInv
  <2>4. /\ next' = IF Head(apq).h = NoHandle THEN next ELSE Head(apq).h
        /\ UNCHANGED <<ssq, cardVars, storageVars, has_path, continuing, prev_path, encoderVars>>
    BY <1>6, <2>3 DEF VidCyclicReply, LateReply
  <2>5. UNCHANGED <<ssq, disk, opened, avi_file_table, jpg_file_table, g_file_index,
                    g_avi_index_9999_exist, g_file_path, g_next_file_path,
                    has_path, continuing, prev_path, packer>>
    BY <2>4 DEF cardVars, storageVars, tableVars, encoderVars
  <2>6. Head(apq).h # NoHandle => ~None(apq, NextFiles)
    <3>1. Head(apq).h # NoHandle => Head(apq) \in NextFiles
      BY <2>1 DEF NextFiles
    <3> QED
      BY <1>1, <1>3, <3>1, TailKeeps
  <2>7. NextHere' => NextHere
    BY <1>2, <2>4, <2>6 DEF NextHere
  <2> QED
    BY <2>5, <2>7 DEF Steady, LeavesFiles, StepKind
<1>7. CASE CyclicVideoRecord
  <2>1. CASE NoNextFile
    <3>1. UNCHANGED <<ssq, disk, opened, avi_file_table, jpg_file_table, g_file_index,
                      g_avi_index_9999_exist, g_file_path, g_next_file_path,
                      next, has_path, continuing, prev_path, packer>>
      BY <2>1 DEF NoNextFile, cardVars, storageVars, tableVars, recordVars, encoderVars
    <3>2. NextHere' => NextHere
      BY <1>1, <3>1, TakesOne
    <3> QED
      BY <3>1, <3>2 DEF Steady, LeavesFiles, StepKind
  <2>2. next # NoHandle => BothFiles
    BY DEF Shape, Idle, FileAsked, FileGiven, Waiting, NextAsked, NextGiven
  <2>3. CASE SwitchFile
    <3>1. next # NoHandle /\ next' = NoHandle /\ packer /\ packer' = packer
      BY <2>3 DEF SwitchFile
    <3>2. None(apq, NextFiles)
      BY <2>2, <3>1 DEF BothFiles, NoNextDue, None, NextFiles
    <3>3. ~NextHere'
      BY <1>2, <3>1, <3>2 DEF NextHere
    <3>4. None(ssq', UndoReqs)
      BY <1>4, <3>1 DEF NumbersInv, UndoInv
    <3> QED
      BY <2>2, <2>3, <3>1, <3>3, <3>4 DEF Switches, StepKind
  <2>4. ~SwitchFails
    BY <2>2, NoFaults DEF SwitchFails, BothFiles, Recording
  <2> QED
    BY <1>7, <2>1, <2>3, <2>4 DEF CyclicVideoRecord
<1> QED
  BY <1>5, <1>6, <1>7

\* All the messages of the state task.
LEMMA StateTaskKind ==
  ASSUME KeysOnly, TypeOK, KeysInv, Shape, NumbersInv, StateTask
  PROVE  StepKind
<1>1. apq # << >> => Head(apq).id \in KeyIds
  <2>1. apq # << >> => Head(apq) \in ApMsg /\ Head(apq) \notin OtherMsgs
    BY BodyParts, TailKeeps DEF QueueTypeOK, KeysInv
  <2> QED
    BY <2>1 DEF OtherMsgs
<1>2. CASE SosKey
  <2>1. /\ apq # << >> /\ apq' = Tail(apq)
        /\ UNCHANGED <<ssq, opened, storageVars, next, has_path, continuing, encoderVars>>
    BY <1>2 DEF SosKey, Handle, Next_
  <2>2. UNCHANGED <<ssq, opened, avi_file_table, jpg_file_table, g_file_index,
                    g_avi_index_9999_exist, g_file_path, g_next_file_path,
                    next, has_path, continuing, packer>>
    BY <2>1 DEF storageVars, tableVars, encoderVars
  <2>3. \/ UNCHANGED <<disk, prev_path>>
        \/ continuing /\ disk' = Locked(disk, prev_path) /\ prev_path' = LockName(prev_path)
    BY <1>2 DEF SosKey
  <2>4. NextHere' => NextHere
    BY <2>1, <2>2, TakesOne
  <2>5. Steady /\ (LeavesFiles \/ LocksPrev)
    BY <2>2, <2>3, <2>4 DEF Steady, LeavesFiles, LocksPrev
  <2> QED
    BY <2>5 DEF StepKind
<1>3. CASE ModeKey \/ PreviewIgnores
  <2>1. /\ apq # << >> /\ apq' = Tail(apq)
        /\ UNCHANGED <<ssq, cardVars, storageVars, recordVars, encoderVars>>
    BY <1>3 DEF ModeKey, PreviewIgnores, Handle, InPreview, Next_
  <2>2. UNCHANGED <<ssq, disk, opened, avi_file_table, jpg_file_table, g_file_index,
                    g_avi_index_9999_exist, g_file_path, g_next_file_path,
                    next, has_path, continuing, prev_path, packer>>
    BY <2>1 DEF cardVars, storageVars, tableVars, recordVars, encoderVars
  <2>3. NextHere' => NextHere
    BY <2>1, <2>2, TakesOne
  <2> QED
    BY <2>2, <2>3 DEF Steady, LeavesFiles, StepKind
<1>4. CASE PreviewRecordKey
  <2>1. /\ apq # << >> /\ apq' = Append(Tail(apq), Msg("VIDEO_RECORD_ACTIVE", NoHandle))
        /\ next' = NoHandle /\ continuing' = FALSE
        /\ UNCHANGED <<ssq, cardVars, storageVars, has_path, encoderVars>>
    BY <1>4 DEF PreviewRecordKey, RecordEntered, Next_
  <2>2. UNCHANGED <<ssq, disk, opened, avi_file_table, jpg_file_table, g_file_index,
                    g_avi_index_9999_exist, g_file_path, g_next_file_path, has_path, packer>>
    BY <2>1 DEF cardVars, storageVars, tableVars, encoderVars
  <2>3. NextHere' => NextHere
    BY <2>1, TakesOne
  <2> QED
    BY <2>1, <2>2, <2>3 DEF Steady, LeavesFiles, StepKind
<1>5. ~(\/ VdoRecStop \/ VdoRecRestart \/ FallThrough \/ PrevKey \/ AviPackerError
        \/ MountMsg \/ NoStorage \/ GetJpeg \/ PicReply \/ PreviewCard)
  BY <1>1 DEF VdoRecStop, VdoRecRestart, FallThrough, PrevKey, AviPackerError, MountMsg,
     NoStorage, GetJpeg, PicReply, PreviewCard, Handle, InPreview, Next_, KeyIds, KeysInv
<1> QED
  BY <1>2, <1>3, <1>4, <1>5, RecordKeyKind, RepliesKind DEF StateTask

\* Every step is of one of these kinds.
LEMMA KindStep ==
  ASSUME KeysOnly, TypeOK, KeysInv, Shape, NumbersInv, [Next]_vars
  PROVE  StepKind
<1>1. CASE ServiceTick \/ Input \/ CyclicTick \/ MoveCard \/ UNCHANGED vars
  <2>1. /\ UNCHANGED <<storageVars, recordVars, encoderVars, disk, opened>>
    BY <1>1 DEF ServiceTick, StorageTick, MountTick, FreesizeTick, Input, CyclicTick, MoveCard,
       vars, cardVars
  <2>2. UNCHANGED <<disk, opened, avi_file_table, jpg_file_table, g_file_index,
                    g_avi_index_9999_exist, g_file_path, g_next_file_path,
                    next, has_path, continuing, prev_path, packer>>
    BY <2>1 DEF storageVars, tableVars, recordVars, encoderVars
  <2>3. \/ UNCHANGED apq
        \/ \E id \in ApIds : apq' = Append(apq, Msg(id, NoHandle))
                             /\ id \notin {"VID_REPLY", "VID_CYCLIC_REPLY"}
    BY <1>1 DEF ServiceTick, StorageTick, MountTick, FreesizeTick, Input, CyclicTick, MoveCard,
       KeysOnly, ApIds, vars
  <2>4. None(apq, NextFiles) => None(apq', NextFiles)
    <3>1. CASE UNCHANGED apq
      BY <3>1
    <3>2. CASE \E id \in ApIds : apq' = Append(apq, Msg(id, NoHandle))
                                 /\ id \notin {"VID_REPLY", "VID_CYCLIC_REPLY"}
      <4>1. PICK x \in ApMsg : apq' = Append(apq, x) /\ x \notin NextFiles
        BY <3>2, MsgTypes DEF Msg, NextReplies, NextFiles
      <4>2. apq \in Seq(ApMsg)
        BY BodyParts DEF QueueTypeOK
      <4> QED
        BY <4>1, <4>2, AppendKeeps
    <3> QED
      BY <2>3, <3>1, <3>2
  <2>5. \/ ssq' = ssq
        \/ \E x \in SsMsg \ UndoReqs : ssq' = Append(ssq, x)
    <3>1. /\ Req("STORAGE_CHECK", FALSE) \in SsMsg \ UndoReqs
          /\ Req("FREESIZE_CHECK", FALSE) \in SsMsg \ UndoReqs
      BY DEF Req, SsMsg, SsIds, UndoReqs
    <3> QED
      BY <1>1, <3>1 DEF ServiceTick, StorageTick, MountTick, FreesizeTick, Input, CyclicTick,
         MoveCard, vars
  <2>6. None(ssq, UndoReqs) => None(ssq', UndoReqs)
    BY <2>5, UndoNone
  <2>7. NextHere' => NextHere
    BY <2>2, <2>4 DEF NextHere
  <2> QED
    BY <2>2, <2>6, <2>7 DEF Steady, LeavesFiles, StepKind
<1> QED
  BY <1>1, StateTaskKind, ServiceKind DEF Next

-----------------------------------------------------------------------------
(* Finished videos. *)

\* A finished video is on the card, and is not the next file, which a stop
\* removes.
DoneInv == done \subseteq disk /\ (NextHere => g_next_file_path \notin done)

\* What a step makes of the finished videos: one that stays on the card, by its
\* name or its locked one, stays finished, unless it is opened anew; and when no
\* file is closed, the finished ones are the old ones or new names of these.
LEMMA FinishNames ==
  ASSUME Finish
  PROVE  /\ done' \subseteq disk'
         /\ UNCHANGED opened => \A n \in done' : n \in done \/ \E m \in done : n = LockName(m)
         /\ DOMAIN opened' \subseteq DOMAIN opened =>
              \A n \in done :
                n \in disk' \/ LockName(n) \in disk' => {n, LockName(n)} \cap done' # {}
         /\ \A n \in done :
              n \in disk' /\ (\A h \in DOMAIN opened' \ DOMAIN opened : opened'[h] # n) => n \in done'
         /\ \A h \in DOMAIN opened' \ DOMAIN opened : opened'[h] \notin done'
BY DEF Finish

\* The name that a lock gives is that of no unlocked video.
LEMMA LockNameOther ==
  ASSUME NEW n, NEW i
  PROVE  LockName(n) # <<"MOVI", i>>
<1>1. /\ <<"LOCK", n[2]>> # <<"MOVI", i>> /\ <<"LOCKPIC", n[2]>> # <<"MOVI", i>>
      /\ n[1] # "MOVI" => n # <<"MOVI", i>>
  OBVIOUS
<1> QED
  BY <1>1 DEF LockName

\* A lock leaves every file on the card, by its name or its locked name.
LEMMA LockKeeps ==
  ASSUME NEW d, NEW n, NEW f \in d
  PROVE  f \in Locked(d, n) \/ (f = n /\ LockName(f) \in Locked(d, n))
BY DEF Locked

\* Steps that open no file and close none that is recorded.
LEMMA SteadyDone ==
  ASSUME KeysInv, NumbersInv, DoneInv, Steady, LeavesFiles \/ LocksPrev \/ Deletes, Finish
  PROVE  /\ DoneInv'
         /\ \A n \in done : \/ {n, LockName(n)} \cap done' # {}
                            \/ n[1] = "MOVI" /\ Deletes
<1>1. UNCHANGED <<opened, g_next_file_path>> /\ (NextHere' => NextHere)
  BY DEF Steady
<1>2. NextHere' => g_next_file_path \notin done'
  <2> SUFFICES ASSUME NextHere'
               PROVE  g_next_file_path \notin done'
    OBVIOUS
  <2>1. NextHere /\ g_next_file_path = <<"MOVI", LastIndex>> /\ g_next_file_path \notin done
    BY <1>1 DEF NumbersInv, NextInv, NextHere, DoneInv
  <2> QED
    BY <1>1, <2>1, FinishNames, LockNameOther
<1>3. ASSUME NEW n \in done
      PROVE  {n, LockName(n)} \cap done' # {} \/ (n[1] = "MOVI" /\ Deletes)
  <2>1. n \in disk
    BY DEF DoneInv
  <2>2. CASE LeavesFiles \/ LocksPrev
    <3>1. n \in disk' \/ LockName(n) \in disk'
      BY <2>1, <2>2, LockKeeps DEF LeavesFiles, LocksPrev
    <3> QED
      BY <1>1, <3>1, FinishNames
  <2>3. CASE Deletes
    <3>1. n \in disk' \/ n[1] = "MOVI"
      BY <2>1, <2>3 DEF Deletes, Unlinked
    <3> QED
      BY <1>1, <2>3, <3>1, FinishNames
  <2> QED
    BY <2>2, <2>3
<1> QED
  BY <1>1, <1>2, <1>3, FinishNames DEF DoneInv

\* The others: a new file has the name of no file, and a stop removes only the
\* next one.
LEMMA OtherDone ==
  ASSUME TypeOK, KeysOnly, KeysInv, Shape, NumbersInv, DoneInv, [Next]_vars, Finish,
         Opens \/ FindsNone \/ GivesBack \/ Stops \/ Switches
  PROVE  /\ DoneInv'
         /\ \A n \in done : {n, LockName(n)} \cap done' # {}
<1>1. CASE Opens
  <2>1. PICK h \in Handles \cup {NoHandle} :
           /\ h # NoHandle => h \notin DOMAIN opened
           /\ Truncate(h, <<"MOVI", FreeIndex>>)
           /\ NextHere' => h # NoHandle /\ g_next_file_path' = <<"MOVI", FreeIndex>>
    BY <1>1 DEF Opens
  <2>2. NextHere' => h \in DOMAIN opened' \ DOMAIN opened /\ opened'[h] = g_next_file_path'
    BY <2>1 DEF Truncate, Opened
  <2>3. \A n \in done : n \in disk' /\ \A g \in DOMAIN opened' \ DOMAIN opened : opened'[g] # n
    BY <2>1, NewFileStep DEF Truncate, NumbersInv, DoneInv
  <2>4. NextHere' => g_next_file_path' \notin done'
    BY <2>2, FinishNames
  <2>5. \A n \in done : n \in done'
    BY <2>3, FinishNames
  <2> QED
    BY <2>4, <2>5, FinishNames DEF DoneInv
<1>2. CASE FindsNone \/ GivesBack
  <2>1. UNCHANGED <<disk, opened>> /\ ~NextHere'
    BY <1>2 DEF FindsNone, GivesBack
  <2>2. \A n \in done : n \in disk'
    BY <2>1 DEF DoneInv
  <2> QED
    BY <2>1, <2>2, FinishNames DEF DoneInv
<1>3. CASE Stops
  <2>1. g_next_file_path = <<"MOVI", LastIndex>> /\ g_next_file_path \notin done
    BY <1>3 DEF Stops, BothFiles, NextHere, NumbersInv, NextInv, DoneInv
  <2>2. ~NextHere' /\ DOMAIN opened' \subseteq DOMAIN opened
    BY <1>3 DEF Stops
  <2>3. PICK kept \in {disk, Locked(disk, g_file_path)} : disk' = kept \ {g_next_file_path}
    BY <1>3 DEF Stops
  <2>4. ASSUME NEW n \in done
        PROVE  n \in disk' \/ LockName(n) \in disk'
    <3>1. n \in kept \/ LockName(n) \in kept
      BY <2>3, LockKeeps DEF DoneInv
    <3>2. n # g_next_file_path /\ LockName(n) # g_next_file_path
      BY <2>1, LockNameOther
    <3> QED
      BY <2>3, <3>1, <3>2
  <2> QED
    BY <2>2, <2>4, FinishNames DEF DoneInv
<1>4. CASE Switches
  <2>1. /\ disk' \in {disk, Locked(disk, g_file_path)}
        /\ opened' = Closed(opened, {packer_file})
        /\ ~NextHere'
    BY <1>4 DEF Switches, SwitchFile
  <2>2. DOMAIN opened' \subseteq DOMAIN opened
    BY <2>1, Files
  <2>3. \A n \in done : n \in disk' \/ LockName(n) \in disk'
    BY <2>1, LockKeeps DEF DoneInv
  <2> QED
    BY <2>1, <2>2, <2>3, FinishNames DEF DoneInv
<1> QED
  BY <1>1, <1>2, <1>3, <1>4

\* DoneInv is inductive, and a finished video goes only by a deletion.
LEMMA DoneStep ==
  ASSUME KeysOnly, TypeOK, KeysInv, Shape, NumbersInv, DoneInv, [Next]_vars
  PROVE  /\ DoneInv'
         /\ [\A n \in done : \/ {n, LockName(n)} \cap done' # {}
                             \/ n[1] = "MOVI" /\ (FreesizeCheck \/ FreesizeCheckAgain)]_vars
<1>1. CASE UNCHANGED vars
  <2>1. UNCHANGED <<done, disk, apq, next, g_next_file_path>>
    BY <1>1 DEF vars, cardVars, storageVars, recordVars
  <2> QED
    BY <1>1, <2>1 DEF DoneInv, NextHere
<1>2. CASE Next
  <2>1. Finish
    BY <1>2 DEF Next
  <2>2. StepKind
    BY KindStep
  <2>3. CASE Steady /\ (LeavesFiles \/ LocksPrev \/ Deletes)
    <3>1. Deletes => FreesizeCheck \/ FreesizeCheckAgain
      BY DEF Deletes
    <3> QED
      BY <2>1, <2>3, <3>1, SteadyDone
  <2>4. CASE Opens \/ FindsNone \/ GivesBack \/ Stops \/ Switches
    BY <2>1, <2>4, OtherDone
  <2> QED
    BY <2>2, <2>3, <2>4 DEF StepKind
<1> QED
  BY <1>1, <1>2

\* A finished video stays on the card, locked or not: no file that is opened
\* later, no stop, no lock and no number given back takes it away; only the
\* background deletion does, and only when it is not locked. The numbers may wrap
\* around.
THEOREM VideosKeptHolds ==
  ASSUME KeysOnly
  PROVE  Spec => VideosKept
<1>1. Init => DoneInv
  BY DEF Init, CardInit, DoneInv
<1>2. IndInv /\ NumbersInv /\ [Next]_vars => NumbersInv'
  BY NumbersStep DEF IndInv
<1>3. IndInv /\ NumbersInv /\ DoneInv /\ [Next]_vars => DoneInv'
  BY DoneStep DEF IndInv
<1>4. IndInv /\ NumbersInv /\ DoneInv /\ [Next]_vars =>
        [\A n \in done : \/ {n, LockName(n)} \cap done' # {}
                         \/ n[1] = "MOVI" /\ (FreesizeCheck \/ FreesizeCheckAgain)]_vars
  BY DoneStep DEF IndInv
<1> QED
  BY <1>1, <1>2, <1>3, <1>4, NumbersInit, IndInvCorrect, PTL DEF Spec, VideosKept

-----------------------------------------------------------------------------
(* Open, locked and numbered files. *)

\* Parts of the types.
LEMMA FileTypes ==
  ASSUME TypeOK
  PROVE  /\ N \in Nat /\ N > 0 /\ Idx = 0 .. N - 1 /\ g_file_index \in Idx
         /\ avi_file_table \in SUBSET Idx
         /\ \A n \in disk : n \in Names
         /\ \A n \in Names : n = <<n[1], n[2]>> /\ n[2] \in Idx
         /\ g_file_path \in Names \cup {NoName} /\ prev_path \in Names \cup {NoName}
         /\ \A n \in Names \cup {NoName} : n[2] \in Nat
<1>1. N \in Nat /\ N > 0 /\ Idx = 0 .. N - 1
  BY CardAssumption DEF Idx
<1>2. g_file_index \in Idx /\ avi_file_table \in SUBSET Idx
  BY TypeParts DEF TableTypeOK
<1>3. \A n \in disk : n \in Names
  BY TypeParts DEF FileTypeOK
<1>4. \A n \in Names : n = <<n[1], n[2]>> /\ n[2] \in Idx
  BY DEF Names
<1>5. g_file_path \in Names \cup {NoName} /\ prev_path \in Names \cup {NoName}
  BY BodyParts DEF RecordTypeOK
<1>6. NoName[2] = 0
  BY DEF NoName
<1> QED
  BY <1>1, <1>2, <1>3, <1>4, <1>5, <1>6

\* Before the numbers wrap around, the newest one is one less than the next.
LEMMA LastBefore ==
  ASSUME TypeOK, g_file_index > 0
  PROVE  LastIndex = g_file_index - 1
<1>1. N \in Nat /\ g_file_index \in 1 .. N - 1
  BY FileTypes
<1>2. (g_file_index - 1 + N) % N = g_file_index - 1
  BY <1>1
<1>3. g_file_index + N - 1 = g_file_index - 1 + N
  BY <1>1
<1> QED
  BY <1>2, <1>3 DEF LastIndex

\* The search for a free number ends where it starts.
LEMMA FreeIsNext ==
  ASSUME TypeOK, NumberedInv
  PROVE  Used # Idx /\ FreeIndex = g_file_index
<1> DEFINE At(d) == (g_file_index + d) % N
           P(d) == At(d) \notin Used /\ \A e \in 0 .. d - 1 : At(e) \in Used
           k == CHOOSE d \in Idx : P(d)
<1>1. N \in Nat /\ N > 0 /\ Idx = 0 .. N - 1 /\ g_file_index \in Idx
  BY FileTypes
<1>2. g_file_index \notin Used
  BY <1>1, FileTypes DEF NumberedInv, Used
<1>3. At(0) = g_file_index
  BY <1>1
<1>4. 0 \in Idx /\ P(0)
  BY <1>1, <1>2, <1>3
<1>5. k \in Idx /\ P(k)
  BY <1>4
<1>6. k = 0
  <2> SUFFICES ASSUME k # 0
               PROVE  FALSE
    OBVIOUS
  <2> HIDE DEF k
  <2>1. 0 \in 0 .. k - 1
    BY <1>1, <1>5
  <2> QED
    BY <1>2, <1>3, <1>5, <2>1
<1>7. FreeIndex = At(k)
  BY DEF FreeIndex
<1>8. FreeIndex = g_file_index
  <2> HIDE DEF k, At
  <2> QED
    BY <1>3, <1>6, <1>7
<1> QED
  BY <1>1, <1>2, <1>8

\* The deletion takes the video with the least number.
LEMMA FirstVideo ==
  ASSUME TypeOK, NEW S \in SUBSET Idx, S # {}
  PROVE  FirstOf(S, 0) \in S /\ \A j \in S : FirstOf(S, 0) <= j
<1> DEFINE After == {j + 1 : j \in S}
           k == CHOOSE i \in S : \A j \in S : (i + N - 0) % N <= (j + N - 0) % N
<1>1. N \in Nat /\ N > 0 /\ Idx = 0 .. N - 1
  BY FileTypes
<1>2. After \in SUBSET (1 .. N) /\ After # {}
  <2>1. \A j \in S : j + 1 \in 1 .. N
    BY <1>1
  <2>2. PICK j \in S : TRUE
    OBVIOUS
  <2>3. j + 1 \in After
    OBVIOUS
  <2> QED
    BY <2>1, <2>3
<1>3. PICK a \in After : \A b \in After : a <= b
  BY <1>1, <1>2, LeastElement
<1>4. PICK i \in S : a = i + 1
  BY <1>3
<1>5. \A j \in S : i <= j
  <2> TAKE j \in S
  <2>1. j + 1 \in After
    OBVIOUS
  <2>2. i + 1 <= j + 1
    BY <1>3, <1>4, <2>1
  <2> QED
    BY <1>1, <2>2
<1>6. \A j \in S : (j + N - 0) % N = j
  BY <1>1
<1>7. \A j \in S : (i + N - 0) % N <= (j + N - 0) % N
  BY <1>5, <1>6
<1>8. k \in S /\ \A j \in S : (k + N - 0) % N <= (j + N - 0) % N
  BY <1>7
<1>9. FirstOf(S, 0) = k
  BY DEF FirstOf
<1> HIDE DEF k
<1> QED
  BY <1>6, <1>8, <1>9

\* The only files that are open are the one of the path and, while recording,
\* the next one.
LEMMA OpenFiles ==
  ASSUME Shape
  PROVE  /\ \A h \in DOMAIN opened : \/ opened[h] = g_file_path
                                     \/ packer /\ NextHere /\ opened[h] = g_next_file_path
         /\ packer => /\ curr \in DOMAIN opened /\ opened[curr] = g_file_path
                      /\ Recorded = {curr}
<1>1. CASE Idle \/ FileAsked \/ FileGiven
  BY <1>1 DEF Idle, FileAsked, FileGiven, Waiting
<1>2. CASE NextAsked
  BY <1>2 DEF NextAsked, Recording, Recorded
<1>3. CASE NextGiven
  <2>1. PICK m \in NextReplies :
           /\ Sole(apq, NextReplies, m)
           /\ DOMAIN opened = {curr} \cup ({m.h} \ {NoHandle})
           /\ m.h # NoHandle => opened[m.h] = g_next_file_path
    BY <1>3 DEF NextGiven
  <2>2. m.h # NoHandle => NextHere
    BY <2>1 DEF Sole, NextHere, None, NextFiles
  <2> QED
    BY <1>3, <2>1, <2>2 DEF NextGiven, Recording, Recorded
<1>4. CASE BothFiles
  BY <1>4 DEF BothFiles, Recording, Recorded, NextHere
<1> QED
  BY <1>1, <1>2, <1>3, <1>4 DEF Shape

\* The file that is recorded, until the numbers wrap around.
LEMMA RecordedFile ==
  ASSUME TypeOK, Shape, NumberedInv, OpenInv, packer
  PROVE  /\ g_file_path \in disk /\ g_file_path = <<"MOVI", g_file_path[2]>>
         /\ g_file_path[2] \in avi_file_table /\ g_file_path[2] < g_file_index
<1>1. g_file_path \in disk /\ g_file_path[1] = "MOVI"
  BY OpenFiles DEF OpenInv
<1> QED
  BY <1>1, FileTypes DEF NumberedInv

\* The name of a locked video has its number.
LEMMA LockNameVideo ==
  ASSUME NEW n, n[1] \in {"MOVI", "LOCK"}
  PROVE  LockName(n)[1] = "LOCK" /\ LockName(n)[2] = n[2]
BY DEF LockName

\* A lock changes no numbers, and only the file that is locked.
LEMMA LockFiles ==
  ASSUME TypeOK, NumberedInv, NEW n \in Names \cup {NoName}, n[1] \in {"MOVI", "LOCK"}
  PROVE  /\ \A f \in Locked(disk, n) : /\ f \in Names /\ f[1] \in {"MOVI", "LOCK"}
                                       /\ \E m \in disk : m[2] = f[2]
         /\ \A i \in Idx : ~(<<"MOVI", i>> \in Locked(disk, n) /\ <<"LOCK", i>> \in Locked(disk, n))
         /\ \A f \in disk : f[2] # n[2] => f \in Locked(disk, n)
<1>1. CASE ~(card /\ n \in disk)
  <2>1. Locked(disk, n) = disk
    BY <1>1 DEF Locked
  <2> QED
    BY <2>1, FileTypes DEF NumberedInv
<1>2. CASE card /\ n \in disk
  <2> DEFINE m == LockName(n)
  <2>1. Locked(disk, n) = (disk \ {n}) \cup {m}
    BY <1>2 DEF Locked
  <2>2. m[1] = "LOCK" /\ m[2] = n[2] /\ m \in Names /\ n \in Names
    BY <1>2, LockNameVideo, LockNameTypes, FileTypes
  <2> HIDE DEF m
  <2>3. m = <<"LOCK", n[2]>> /\ n[2] \in Idx /\ n \in {<<"MOVI", n[2]>>, <<"LOCK", n[2]>>}
    BY <2>2, FileTypes
  <2>4. ASSUME NEW i \in Idx, <<"MOVI", i>> \in Locked(disk, n), <<"LOCK", i>> \in Locked(disk, n)
        PROVE  FALSE
    <3>1. <<"MOVI", i>> # m
      BY <2>3
    <3>2. <<"MOVI", i>> \in disk /\ <<"MOVI", i>> # n
      BY <2>1, <2>4, <3>1
    <3>3. <<"LOCK", i>> \notin disk
      BY <3>2 DEF NumberedInv
    <3>4. <<"LOCK", i>> = m
      BY <2>1, <2>4, <3>3
    <3>5. i = n[2]
      BY <2>3, <3>4
    <3>6. n = <<"LOCK", i>>
      BY <2>3, <3>2, <3>5
    <3> QED
      BY <1>2, <3>3, <3>6
  <2>5. \A f \in Locked(disk, n) : /\ f \in Names /\ f[1] \in {"MOVI", "LOCK"}
                                   /\ \E g \in disk : g[2] = f[2]
    BY <1>2, <2>1, <2>2, FileTypes DEF NumberedInv
  <2>6. \A f \in disk : f[2] # n[2] => f \in Locked(disk, n)
    BY <2>1
  <2> QED
    BY <2>4, <2>5, <2>6
<1> QED
  BY <1>1, <1>2

\* Steps that open and close nothing.
LEMMA SteadyFiles ==
  ASSUME TypeOK, KeysInv, Shape, NumbersInv, FilesInv, Steady, LeavesFiles \/ LocksPrev \/ Deletes
  PROVE  FilesInv'
<1>1. PathInv'
  BY DEF FilesInv, PathInv, Steady
<1> SUFFICES ASSUME NotWrapped'
             PROVE  NumberedInv' /\ OpenInv' /\ BehindInv' /\ PrevInv'
  BY <1>1 DEF FilesInv
<1>2. NotWrapped /\ NumberedInv /\ OpenInv /\ BehindInv /\ PrevInv
  BY DEF FilesInv, NotWrapped, Steady
<1>3. UNCHANGED <<opened, jpg_file_table, g_file_index, g_file_path>>
  BY DEF Steady
<1>4. PrevInv'
  <2> SUFFICES ASSUME continuing'
               PROVE  /\ packer' /\ prev_path'[1] \in {"MOVI", "LOCK"}
                      /\ prev_path'[2] < g_file_path[2]
    BY <1>3 DEF PrevInv
  <2>1. /\ packer' /\ prev_path[1] \in {"MOVI", "LOCK"} /\ prev_path[2] < g_file_path[2]
        /\ prev_path' \in {prev_path, LockName(prev_path)}
    BY <1>2 DEF Steady, PrevInv
  <2> QED
    BY <2>1, LockNameVideo
<1>5. ASSUME \A f \in disk' : \E m \in disk : m[2] = f[2]
      PROVE  BehindInv'
  <2>1. packer' /\ NextHere' => g_file_path[2] + 1 < g_file_index
    BY <1>2 DEF Steady, BehindInv
  <2>2. LastIndex' = LastIndex
    BY <1>3 DEF LastIndex
  <2>3. ~None(ssq', UndoReqs) => g_file_index > 0 /\ \A n \in disk' : n[2] # LastIndex
    BY <1>2, <1>5 DEF Steady, BehindInv
  <2> QED
    BY <1>3, <2>1, <2>2, <2>3 DEF BehindInv
<1>6. CASE LeavesFiles
  <2>1. NumberedInv' /\ OpenInv'
    BY <1>2, <1>3, <1>6 DEF LeavesFiles, NumberedInv, OpenInv
  <2> QED
    BY <1>4, <1>5, <1>6, <2>1 DEF LeavesFiles
<1>7. CASE LocksPrev
  <2>1. /\ disk' = Locked(disk, prev_path) /\ avi_file_table' = avi_file_table
        /\ prev_path[1] \in {"MOVI", "LOCK"} /\ prev_path[2] < g_file_path[2] /\ packer
    BY <1>2, <1>7 DEF LocksPrev, PrevInv
  <2>2. /\ \A f \in disk' : /\ f \in Names /\ f[1] \in {"MOVI", "LOCK"}
                            /\ \E m \in disk : m[2] = f[2]
        /\ \A i \in Idx : ~(<<"MOVI", i>> \in disk' /\ <<"LOCK", i>> \in disk')
        /\ \A f \in disk : f[2] # prev_path[2] => f \in disk'
    BY <1>2, <2>1, FileTypes, LockFiles
  <2>3. NumberedInv'
    BY <1>2, <1>3, <2>1, <2>2 DEF NumberedInv
  <2>4. ASSUME NEW h \in DOMAIN opened
        PROVE  opened[h] \in disk' /\ opened[h][1] = "MOVI"
    <3>1. opened[h] \in disk /\ opened[h][1] = "MOVI"
      BY <1>2 DEF OpenInv
    <3>2. prev_path[2] \in Nat /\ g_file_path[2] \in Nat /\ g_file_index \in Nat
      BY FileTypes
    <3>3. opened[h][2] # prev_path[2]
      <4>1. CASE opened[h] = g_file_path
        BY <2>1, <3>2, <4>1
      <4>2. CASE packer /\ NextHere /\ opened[h] = g_next_file_path
        <5>1. g_next_file_path[2] = LastIndex
          BY <4>2 DEF NumbersInv, NextInv, NextHere
        <5>2. g_file_path[2] + 1 < g_file_index
          BY <1>2, <4>2 DEF BehindInv
        <5>3. LastIndex = g_file_index - 1
          BY <3>2, <5>2, LastBefore
        <5> QED
          BY <2>1, <3>2, <4>2, <5>1, <5>2, <5>3
      <4> QED
        BY <4>1, <4>2, OpenFiles
    <3> QED
      BY <2>2, <3>1, <3>3
  <2>5. OpenInv'
    BY <1>3, <2>4 DEF OpenInv
  <2> QED
    BY <1>4, <1>5, <2>2, <2>3, <2>5
<1>8. CASE Deletes
  <2> DEFINE videos == {j \in avi_file_table : card /\ <<"MOVI", j>> \in disk}
  <2>1. PICK i \in Idx : /\ DelIndex(i) /\ ~Spared(i)
                         /\ disk' = disk \ {<<"MOVI", i>>}
                         /\ disk' # disk => avi_file_table' = avi_file_table \ {i}
    BY <1>8 DEF Deletes, Unlinked, KeysInv
  <2>2. i = FirstOf(videos, 0)
    BY <1>2, <2>1 DEF DelIndex, NotWrapped
  <2>3. videos # {} /\ videos \in SUBSET Idx
    <3>1. N \notin Idx
      BY FileTypes
    <3> QED
      BY <2>1, <2>2, <3>1, FileTypes DEF FirstOf
  <2>4. i \in videos /\ \A j \in videos : i <= j
    BY <2>2, <2>3, FirstVideo
  <2>5. <<"MOVI", i>> \in disk /\ avi_file_table' = avi_file_table \ {i}
    BY <2>1, <2>4
  <2>6. NumberedInv'
    <3>1. \A n \in disk' : n[2] # i
      <4> SUFFICES ASSUME NEW n \in disk', n[2] = i
                   PROVE  FALSE
        OBVIOUS
      <4>1. n \in disk /\ n # <<"MOVI", i>> /\ n[1] \in {"MOVI", "LOCK"} /\ n = <<n[1], n[2]>>
        BY <1>2, <2>1, FileTypes DEF NumberedInv
      <4>2. n = <<"LOCK", i>>
        BY <4>1
      <4> QED
        BY <1>2, <2>5, <4>1, <4>2 DEF NumberedInv
    <3> QED
      BY <1>2, <1>3, <2>1, <2>5, <3>1 DEF NumberedInv
  <2>7. ASSUME NEW h \in DOMAIN opened
        PROVE  opened[h] \in disk' /\ opened[h][1] = "MOVI"
    <3>1. opened[h] \in disk /\ opened[h][1] = "MOVI"
      BY <1>2 DEF OpenInv
    <3>2. opened[h] # <<"MOVI", i>>
      <4>1. CASE opened[h] = g_file_path
        BY <2>1, <4>1 DEF Spared
      <4>2. CASE packer /\ NextHere /\ opened[h] = g_next_file_path
        <5>1. g_next_file_path = <<"MOVI", LastIndex>>
          BY <4>2 DEF NumbersInv, NextInv, NextHere
        <5>2. /\ g_file_path \in disk /\ g_file_path = <<"MOVI", g_file_path[2]>>
              /\ g_file_path[2] \in avi_file_table
          BY <1>2, <4>2, RecordedFile
        <5>3. g_file_path[2] \in videos
          BY <5>2 DEF KeysInv
        <5>4. i <= g_file_path[2] /\ g_file_path[2] + 1 < g_file_index
          BY <1>2, <2>4, <4>2, <5>3 DEF BehindInv
        <5>5. g_file_path[2] \in Nat /\ g_file_index \in Nat /\ i \in Nat
          BY <2>1, FileTypes
        <5>6. LastIndex = g_file_index - 1
          BY <5>4, <5>5, LastBefore
        <5>7. LastIndex # i
          BY <5>4, <5>5, <5>6
        <5> QED
          BY <4>2, <5>1, <5>7
      <4> QED
        BY <4>1, <4>2, OpenFiles
    <3> QED
      BY <2>1, <3>1, <3>2
  <2>8. OpenInv'
    BY <1>3, <2>7 DEF OpenInv
  <2> QED
    BY <1>4, <1>5, <2>1, <2>6, <2>8
<1> QED
  BY <1>6, <1>7, <1>8

\* A new file.
LEMMA OpensFiles ==
  ASSUME TypeOK, Shape, FilesInv, Opens
  PROVE  FilesInv'
<1>1. PICK h \in Handles \cup {NoHandle} :
         /\ h # NoHandle => h \notin DOMAIN opened
         /\ Truncate(h, <<"MOVI", FreeIndex>>) /\ Advance(h, FreeIndex)
         /\ avi_file_table' = Take(avi_file_table, h, FreeIndex)
         /\ UNCHANGED <<jpg_file_table, packer, has_path, continuing, prev_path>>
         /\ None(ssq', UndoReqs)
         /\ packer => UNCHANGED g_file_path
         /\ NextHere' => h # NoHandle /\ g_next_file_path' = <<"MOVI", FreeIndex>>
  BY DEF Opens
<1>2. PathInv'
  BY <1>1 DEF FilesInv, PathInv
<1> SUFFICES ASSUME NotWrapped'
             PROVE  NumberedInv' /\ OpenInv' /\ BehindInv' /\ PrevInv'
  BY <1>2 DEF FilesInv
<1>3. NotWrapped /\ NumberedInv /\ OpenInv /\ BehindInv /\ PrevInv
  BY <1>1 DEF FilesInv, NotWrapped, Advance
<1>4. PrevInv'
  BY <1>1, <1>3 DEF PrevInv
<1>5. FreeIndex = g_file_index
  BY <1>3, FreeIsNext
<1>6. g_file_index \in Idx /\ N \in Nat /\ N > 0 /\ Idx = 0 .. N - 1
  BY FileTypes
<1>7. CASE h = NoHandle
  <2>1. UNCHANGED <<disk, opened, avi_file_table, g_file_index>> /\ ~NextHere'
    BY <1>1, <1>5, <1>7 DEF Truncate, Advance, Take
  <2>2. NumberedInv' /\ OpenInv' /\ BehindInv'
    BY <1>1, <1>3, <2>1 DEF NumberedInv, OpenInv, BehindInv
  <2> QED
    BY <1>4, <2>2
<1>8. CASE h # NoHandle
  <2> DEFINE n == <<"MOVI", g_file_index>>
  <2>1. /\ disk' = disk \cup {n} /\ opened' = Opened(opened, h, n)
        /\ avi_file_table' = avi_file_table \cup {g_file_index}
        /\ g_file_index # N - 1 /\ g_file_index' = (g_file_index + 1) % N
    BY <1>1, <1>5, <1>8 DEF Truncate, Advance, Take, NotWrapped
  <2>2. g_file_index' = g_file_index + 1
    BY <1>6, <2>1
  <2>3. n[1] = "MOVI" /\ n[2] = g_file_index
    OBVIOUS
  <2>4. \A f \in disk : f[2] < g_file_index
    BY <1>3 DEF NumberedInv
  <2> HIDE DEF n
  <2>5. NumberedInv'
    <3>1. jpg_file_table' = {}
      BY <1>1, <1>3 DEF NumberedInv
    <3>2. \A i \in avi_file_table' : i < g_file_index'
      <4>1. \A i \in avi_file_table : i \in Nat /\ i < g_file_index
        BY <1>3, FileTypes DEF NumberedInv
      <4> QED
        BY <1>6, <2>1, <2>2, <4>1
    <3>3. \A f \in disk' : f[1] \in {"MOVI", "LOCK"} /\ f[2] \in avi_file_table'
      BY <1>3, <2>1, <2>3 DEF NumberedInv
    <3>4. ASSUME NEW i \in Idx, <<"MOVI", i>> \in disk', <<"LOCK", i>> \in disk'
          PROVE  FALSE
      <4>1. <<"LOCK", i>> # n
        BY DEF n
      <4>2. <<"LOCK", i>> \in disk
        BY <2>1, <3>4, <4>1
      <4>3. <<"MOVI", i>> # n
        BY <1>6, <2>4, <4>2 DEF n
      <4> QED
        BY <1>3, <2>1, <3>4, <4>2, <4>3 DEF NumberedInv
    <3> QED
      BY <3>1, <3>2, <3>3, <3>4 DEF NumberedInv
  <2>6. OpenInv'
    <3>1. ASSUME NEW g \in DOMAIN opened'
          PROVE  opened'[g] \in disk' /\ opened'[g][1] = "MOVI"
      <4>1. DOMAIN opened' = DOMAIN opened \cup {h} /\ opened'[h] = n
        BY <2>1, Files
      <4>2. \A k \in DOMAIN opened \ {h} : opened'[k] = opened[k]
        BY <2>1 DEF Opened
      <4>3. CASE g = h
        BY <2>1, <2>3, <4>1, <4>3
      <4>4. CASE g # h
        <5>1. g \in DOMAIN opened /\ opened'[g] = opened[g]
          BY <4>1, <4>2, <4>4
        <5> QED
          BY <1>3, <2>1, <5>1 DEF OpenInv
      <4> QED
        BY <4>3, <4>4
    <3> QED
      BY <3>1 DEF OpenInv
  <2>7. BehindInv'
    <3>1. packer => g_file_path'[2] + 1 < g_file_index'
      <4>1. packer => g_file_path' = g_file_path /\ g_file_path[2] < g_file_index
        BY <1>1, <1>3, RecordedFile
      <4>2. g_file_path[2] \in Nat
        BY FileTypes
      <4> QED
        BY <1>6, <2>2, <4>1, <4>2
    <3> QED
      BY <1>1, <3>1 DEF BehindInv
  <2> QED
    BY <1>4, <2>5, <2>6, <2>7
<1> QED
  BY <1>7, <1>8

\* A number given back, or none found: the search finds one until the numbers
\* wrap around.
LEMMA GivesBackFiles ==
  ASSUME TypeOK, FilesInv, GivesBack \/ FindsNone
  PROVE  FilesInv'
<1>1. PathInv' /\ (NotWrapped' => NotWrapped)
  BY DEF GivesBack, FindsNone, FilesInv, PathInv, NotWrapped
<1> SUFFICES ASSUME NotWrapped'
             PROVE  NumberedInv' /\ OpenInv' /\ BehindInv' /\ PrevInv'
  BY <1>1 DEF FilesInv
<1>2. NotWrapped /\ NumberedInv /\ OpenInv /\ BehindInv /\ PrevInv
  BY <1>1 DEF FilesInv
<1>3. GivesBack
  BY <1>2, FreeIsNext DEF FindsNone
<1>4. g_file_index > 0 /\ \A n \in disk : n[2] # LastIndex
  BY <1>2, <1>3 DEF GivesBack, BehindInv
<1>5. LastIndex = g_file_index - 1 /\ g_file_index \in Nat
  BY <1>4, LastBefore, FileTypes
<1>6. NumberedInv'
  <2>1. /\ UNCHANGED <<disk, jpg_file_table>> /\ g_file_index' = LastIndex
        /\ avi_file_table' = avi_file_table \ {LastIndex}
    BY <1>3 DEF GivesBack
  <2>2. \A i \in avi_file_table' : i < g_file_index'
    <3>1. \A i \in avi_file_table : i \in Nat /\ i < g_file_index
      BY <1>2, FileTypes DEF NumberedInv
    <3> QED
      BY <1>5, <2>1, <3>1
  <2> QED
    BY <1>2, <1>4, <2>1, <2>2 DEF NumberedInv
<1>7. OpenInv'
  BY <1>2, <1>3 DEF GivesBack, OpenInv
<1>8. BehindInv'
  BY <1>3 DEF GivesBack, BehindInv
<1>9. PrevInv'
  BY <1>2, <1>3 DEF GivesBack, PrevInv
<1> QED
  BY <1>6, <1>7, <1>8, <1>9

\* With both files open, the next one is on the card under a number of its own,
\* and a lock of the current one leaves it alone.
LEMMA BothOnCard ==
  ASSUME TypeOK, KeysInv, BothFiles, NumbersInv, NumberedInv, OpenInv, BehindInv
  PROVE  /\ g_file_index > 0 /\ LastIndex \in Idx
         /\ g_file_path = <<"MOVI", g_file_path[2]>> /\ g_file_path \in disk
         /\ g_next_file_path = <<"MOVI", LastIndex>>
         /\ g_next_file_path \in Locked(disk, g_file_path) \cap disk
         /\ g_file_path[2] < LastIndex
<1>1. packer /\ NextHere /\ Shape /\ g_next_file_path \in disk
  BY DEF BothFiles, Recording, NextHere, Shape, OpenInv
<1>2. g_next_file_path = <<"MOVI", LastIndex>>
  BY <1>1 DEF NumbersInv, NextInv, NextHere
<1>3. g_file_path \in disk /\ g_file_path = <<"MOVI", g_file_path[2]>>
  BY <1>1, RecordedFile
<1>4. g_file_path[2] + 1 < g_file_index /\ g_file_path[2] \in Nat /\ g_file_index \in Nat
  BY <1>1, FileTypes DEF BehindInv
<1>5. g_file_index > 0
  BY <1>4
<1>6. g_file_path[2] < LastIndex
  BY <1>4, <1>5, LastBefore
<1>7. g_next_file_path # g_file_path
  <2>1. g_file_path[2] # LastIndex
    BY <1>4, <1>6
  <2> QED
    BY <1>2, <2>1
<1>8. g_next_file_path \in Locked(disk, g_file_path)
  BY <1>1, <1>7 DEF Locked
<1> QED
  BY <1>1, <1>2, <1>3, <1>5, <1>6, <1>8, LastInIdx

\* A stop.
LEMMA StopsFiles ==
  ASSUME TypeOK, KeysInv, NumbersInv, FilesInv, Stops
  PROVE  FilesInv'
<1>1. PathInv' /\ (NotWrapped' => NotWrapped)
  BY DEF Stops, PathInv, NotWrapped
<1> SUFFICES ASSUME NotWrapped'
             PROVE  NumberedInv' /\ OpenInv' /\ BehindInv' /\ PrevInv'
  BY <1>1 DEF FilesInv
<1>2. NotWrapped /\ NumberedInv /\ OpenInv /\ BehindInv /\ PrevInv
  BY <1>1 DEF FilesInv
<1>3. /\ g_file_index > 0 /\ LastIndex \in Idx
      /\ g_file_path = <<"MOVI", g_file_path[2]>> /\ g_file_path \in disk
      /\ g_next_file_path = <<"MOVI", LastIndex>>
      /\ g_next_file_path \in Locked(disk, g_file_path) \cap disk
  BY <1>2, BothOnCard DEF Stops
<1> DEFINE kept == IF lock_flag > 0 /\ has_path THEN Locked(disk, g_file_path) ELSE disk
<1>4. /\ disk' = kept \ {g_next_file_path}
      /\ UNCHANGED <<avi_file_table, jpg_file_table, g_file_index>>
  BY DEF Stops
<1>5. /\ g_next_file_path \in kept
      /\ \A f \in kept : f \in Names /\ f[1] \in {"MOVI", "LOCK"} /\ f[2] \in avi_file_table
      /\ \A i \in Idx : ~(<<"MOVI", i>> \in kept /\ <<"LOCK", i>> \in kept)
  <2>1. CASE kept = disk
    BY <1>2, <1>3, <2>1, FileTypes DEF NumberedInv
  <2>2. CASE kept = Locked(disk, g_file_path)
    <3>1. g_file_path[1] \in {"MOVI", "LOCK"}
      BY <1>3
    <3>2. /\ \A f \in kept : /\ f \in Names /\ f[1] \in {"MOVI", "LOCK"}
                             /\ \E m \in disk : m[2] = f[2]
          /\ \A i \in Idx : ~(<<"MOVI", i>> \in kept /\ <<"LOCK", i>> \in kept)
      BY <1>2, <2>2, <3>1, FileTypes, LockFiles
    <3> QED
      BY <1>2, <1>3, <2>2, <3>2 DEF NumberedInv
  <2> QED
    BY <2>1, <2>2
<1> HIDE DEF kept
<1>6. NumberedInv'
  BY <1>2, <1>4, <1>5 DEF NumberedInv
<1>7. OpenInv' /\ PrevInv'
  BY DEF Stops, OpenInv, PrevInv
<1>8. BehindInv'
  <2>1. ASSUME NEW n \in disk', n[2] = LastIndex
        PROVE  FALSE
    <3>1. n \in kept /\ n # <<"MOVI", LastIndex>> /\ n = <<n[1], n[2]>>
      BY <1>3, <1>4, <1>5, FileTypes
    <3>2. n = <<"LOCK", LastIndex>>
      BY <1>5, <2>1, <3>1
    <3> QED
      BY <1>3, <1>5, <3>1, <3>2
  <2>2. LastIndex' = LastIndex
    BY <1>4 DEF LastIndex
  <2>3. ~packer'
    BY DEF Stops
  <2> QED
    BY <1>3, <1>4, <2>1, <2>2, <2>3 DEF BehindInv
<1> QED
  BY <1>6, <1>7, <1>8

\* The change of files.
LEMMA SwitchesFiles ==
  ASSUME TypeOK, KeysInv, NumbersInv, FilesInv, Switches
  PROVE  FilesInv'
<1>1. /\ UNCHANGED <<packer, has_path, avi_file_table, jpg_file_table, g_file_index,
                     g_avi_index_9999_exist>>
      /\ g_file_path' = g_next_file_path
      /\ prev_path' \in {g_file_path, LockName(g_file_path)}
      /\ disk' \in {disk, Locked(disk, g_file_path)}
      /\ opened' = Closed(opened, {packer_file})
      /\ packer /\ ~NextHere' /\ None(ssq', UndoReqs)
  BY DEF Switches, SwitchFile, serviceVars
<1>2. PathInv'
  BY <1>1 DEF FilesInv, PathInv
<1> SUFFICES ASSUME NotWrapped'
             PROVE  NumberedInv' /\ OpenInv' /\ BehindInv' /\ PrevInv'
  BY <1>2 DEF FilesInv
<1>3. NotWrapped /\ NumberedInv /\ OpenInv /\ BehindInv /\ PrevInv
  BY <1>1 DEF FilesInv, NotWrapped
<1>4. /\ g_file_path = <<"MOVI", g_file_path[2]>> /\ g_file_path \in disk
      /\ g_next_file_path = <<"MOVI", LastIndex>>
      /\ g_next_file_path \in Locked(disk, g_file_path) \cap disk
      /\ g_file_path[2] < LastIndex
  BY <1>3, BothOnCard DEF Switches
<1>5. NumberedInv'
  <2>1. CASE disk' = disk
    BY <1>1, <1>3, <2>1 DEF NumberedInv
  <2>2. CASE disk' = Locked(disk, g_file_path)
    <3>1. g_file_path[1] \in {"MOVI", "LOCK"}
      BY <1>4
    <3>2. /\ \A f \in disk' : f[1] \in {"MOVI", "LOCK"} /\ \E m \in disk : m[2] = f[2]
          /\ \A i \in Idx : ~(<<"MOVI", i>> \in disk' /\ <<"LOCK", i>> \in disk')
      BY <1>3, <2>2, <3>1, FileTypes, LockFiles
    <3> QED
      BY <1>1, <1>3, <3>2 DEF NumberedInv
  <2> QED
    BY <1>1, <2>1, <2>2
<1>6. OpenInv'
  <2>1. DOMAIN opened' = {next} /\ opened'[next] = g_next_file_path
    <3>1. packer_file = curr /\ next # curr /\ DOMAIN opened = {curr, next}
      BY DEF Switches, BothFiles, Recording
    <3>2. DOMAIN opened' = {next}
      BY <1>1, <3>1, Files
    <3>3. next \in DOMAIN opened \ {packer_file}
      BY <3>1
    <3>4. opened'[next] = opened[next]
      BY <1>1, <3>3, Files
    <3> QED
      BY <3>2, <3>4 DEF Switches, BothFiles
  <2>2. g_next_file_path \in disk' /\ g_next_file_path[1] = "MOVI"
    BY <1>1, <1>4
  <2> QED
    BY <2>1, <2>2 DEF OpenInv
<1>7. BehindInv'
  BY <1>1 DEF BehindInv
<1>8. PrevInv'
  <2>1. /\ g_file_path[1] = "MOVI"
        /\ g_next_file_path[2] = LastIndex
    BY <1>4
  <2>2. prev_path'[1] \in {"MOVI", "LOCK"} /\ prev_path'[2] = g_file_path[2]
    BY <1>1, <2>1, LockNameVideo
  <2> QED
    BY <1>1, <1>4, <2>1, <2>2 DEF PrevInv
<1> QED
  BY <1>5, <1>6, <1>7, <1>8

\* FilesInv is inductive.
LEMMA FilesStep ==
  ASSUME KeysOnly, TypeOK, KeysInv, Shape, NumbersInv, FilesInv, [Next]_vars
  PROVE  FilesInv'
BY KindStep, SteadyFiles, OpensFiles, GivesBackFiles, StopsFiles, SwitchesFiles DEF StepKind

\* Every reachable state has files as FilesInv says: whatever the order of keys,
\* replies, switches and deletions.
THEOREM FilesInvCorrect ==
  ASSUME KeysOnly
  PROVE  Spec => [](IndInv /\ NumbersInv /\ FilesInv)
<1>1. Init => FilesInv
  <2> SUFFICES ASSUME Init
               PROVE  FilesInv
    OBVIOUS
  <2>1. /\ ssq = << >> /\ disk = {} /\ DOMAIN opened = {} /\ packer = FALSE
        /\ continuing = FALSE /\ avi_file_table = {} /\ jpg_file_table = {}
    BY DEF Init, CardInit, StorageInit
  <2>2. \A S : None(<< >>, S)
    BY DEF None
  <2> QED
    BY <2>1, <2>2 DEF FilesInv, PathInv, NumberedInv, OpenInv, BehindInv, PrevInv
<1>2. IndInv /\ NumbersInv /\ [Next]_vars => NumbersInv'
  BY NumbersStep DEF IndInv
<1>3. IndInv /\ NumbersInv /\ FilesInv /\ [Next]_vars => FilesInv'
  BY FilesStep DEF IndInv
<1> QED
  BY <1>1, <1>2, <1>3, NumbersInit, IndInvCorrect, PTL DEF Spec

\* No open file is deleted, removed or renamed, until the numbers wrap around:
\* not by the deletion of the oldest videos, by the lock key (which may lock the
\* file recorded before) nor by a stop.
THEOREM OpenFilesExistHolds ==
  ASSUME KeysOnly
  PROVE  Spec => [](NotWrapped => OpenFilesExist)
<1>1. FilesInv => (NotWrapped => OpenFilesExist)
  BY DEF FilesInv, OpenInv, OpenFilesExist
<1> QED
  BY <1>1, FilesInvCorrect, PTL

\* The table of numbers has the number of every video on the card, locked or
\* not, until the numbers wrap around: also after numbers were given back and
\* videos were deleted.
THEOREM FilesIndexedHolds ==
  ASSUME KeysOnly
  PROVE  Spec => [](NotWrapped => FilesIndexed)
<1>1. FilesInv => (NotWrapped => FilesIndexed)
  <2> SUFFICES ASSUME NumberedInv
               PROVE  FilesIndexed
    BY DEF FilesInv
  <2>1. NumbersOn({"MOVI", "LOCK"}) \subseteq avi_file_table
    BY DEF NumberedInv, NumbersOn
  <2>2. NumbersOn({"PICT"}) = {}
    BY DEF NumberedInv, NumbersOn
  <2> QED
    BY <2>1, <2>2 DEF FilesIndexed
<1> QED
  BY <1>1, FilesInvCorrect, PTL

\* A file that is closed is locked if its lock was asked for.
LEMMA LockStep ==
  ASSUME KeysOnly, TypeOK, KeysInv, Shape, NumbersInv, FilesInv, NotWrapped, [Next]_vars,
         NEW h \in Recorded \cap DOMAIN opened, lock_flag > 0, h \notin DOMAIN opened'
  PROVE  LockName(opened[h]) \in disk'
<1>1. StepKind
  BY KindStep
<1>2. ~Steady /\ ~FindsNone /\ ~GivesBack
  BY DEF Steady, FindsNone, GivesBack
<1>3. ~Opens
  BY DEF Opens, Truncate, Opened
<1>4. Stops \/ Switches
  BY <1>1, <1>2, <1>3 DEF StepKind
<1>5. BothFiles /\ packer /\ has_path
  BY <1>4 DEF Stops, Switches, BothFiles, Recording, FilesInv, PathInv
<1>6. opened[h] = g_file_path
  BY <1>5, OpenFiles
<1>7. /\ g_file_path = <<"MOVI", g_file_path[2]>> /\ g_file_path \in disk
      /\ g_next_file_path = <<"MOVI", LastIndex>>
  BY <1>5, BothOnCard DEF FilesInv
<1>8. LockName(g_file_path) \in Locked(disk, g_file_path)
  BY <1>7 DEF Locked, KeysInv
<1>9. CASE Stops
  <2>1. disk' = Locked(disk, g_file_path) \ {g_next_file_path}
    BY <1>5, <1>9 DEF Stops
  <2> QED
    BY <1>6, <1>7, <1>8, <2>1, LockNameOther
<1>10. CASE Switches
  BY <1>6, <1>8, <1>10 DEF Switches, SwitchFile
<1> QED
  BY <1>4, <1>9, <1>10

\* A file whose lock was asked for is on the card under its locked name as soon
\* as it is closed, by a stop or by a change of files, until the numbers wrap
\* around.
THEOREM LockHonouredHolds ==
  ASSUME KeysOnly
  PROVE  Spec /\ []NotWrapped => LockHonoured
<1>1. IndInv /\ NumbersInv /\ FilesInv /\ NotWrapped /\ [Next]_vars =>
        [\A h \in Recorded \cap DOMAIN opened :
           lock_flag > 0 /\ h \notin DOMAIN opened' => LockName(opened[h]) \in disk']_vars
  BY LockStep DEF IndInv
<1> QED
  BY <1>1, FilesInvCorrect, PTL DEF Spec, LockHonoured

=============================================================================

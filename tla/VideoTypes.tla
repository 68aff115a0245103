----------------------------- MODULE VideoTypes -----------------------------
(***************************************************************************)
(* Type correctness of VideoRecord, for every value of its constants: one  *)
(* lemma for each message of the two tasks, and from them the theorem.     *)
(***************************************************************************)
EXTENDS VideoRecord, LeastElements

\* Sending to a queue and taking from it keep it a queue of the same messages.
LEMMA QueueTypes ==
  ASSUME NEW S, NEW q \in Seq(S), NEW r \in Seq(S), NEW x \in S
  PROVE  /\ Append(q, x) \in Seq(S)
         /\ q \o r \in Seq(S)
         /\ << >> \in Seq(S) /\ <<x>> \in Seq(S)
         /\ q # << >> => Head(q) \in S /\ Tail(q) \in Seq(S)
OBVIOUS

\* What Reply and the sends put on the two queues are messages of them.
LEMMA MsgTypes ==
  ASSUME NEW id, NEW h, NEW on
  PROVE  /\ id \in ApIds /\ h \in Handles \cup {NoHandle} => Msg(id, h) \in ApMsg
         /\ id \in SsIds /\ on \in BOOLEAN => Req(id, on) \in SsMsg
BY DEF Msg, Req, ApMsg, SsMsg

\* open() gives a handle of the table that is not in use, or none.
LEMMA OpenHandleType ==
  ASSUME NEW able, TypeOK
  PROVE  /\ OpenHandle(able) \in Handles \cup {NoHandle}
         /\ OpenHandle(able) # NoHandle => OpenHandle(able) \notin DOMAIN opened
<1>1. CASE able /\ FreeHandles # {}
  <2>1. MaxHandle \in Nat /\ FreeHandles \in SUBSET (1 .. MaxHandle)
    BY CardAssumption DEF FreeHandles, Handles
  <2>2. \E h \in FreeHandles : \A g \in FreeHandles : h <= g
    BY <1>1, <2>1, LeastElement
  <2>3. OpenHandle(able) \in FreeHandles
    BY <1>1, <2>2 DEF OpenHandle
  <2> QED
    BY <2>3 DEF FreeHandles
<1>2. CASE ~(able /\ FreeHandles # {})
  BY <1>2 DEF OpenHandle
<1> QED
  BY <1>1, <1>2

\* The search for the next free number of sto_task (it starts at g_file_index
\* and wraps) ends at a number of the table that is free, when there is one.
LEMMA FreeIndexType ==
  ASSUME TypeOK, Used # Idx
  PROVE  FreeIndex \in Idx /\ FreeIndex \notin Used
<1> DEFINE At(d) == (g_file_index + d) % N
           Free == {d \in Idx : At(d) \notin Used}
           After == {d + 1 : d \in Free}
<1>1. N \in Nat /\ N > 0 /\ g_file_index \in 0 .. N - 1 /\ Used \subseteq 0 .. N - 1
  BY CardAssumption DEF TypeOK, StorageTypeOK, TableTypeOK, Idx, Used
<1>2. PICK i \in 0 .. N - 1 : i \notin Used
  BY <1>1 DEF Idx
<1>3. \E d \in Idx : At(d) = i
  <2>1. CASE g_file_index <= i
    <3>1. i - g_file_index \in Idx /\ g_file_index + (i - g_file_index) = i /\ i % N = i
      BY <1>1, <2>1 DEF Idx
    <3> QED
      BY <3>1
  <2>2. CASE i < g_file_index
    <3>1. i + N - g_file_index \in Idx /\ g_file_index + (i + N - g_file_index) = i + N
      BY <1>1, <2>2 DEF Idx
    <3>2. (i + N) % N = i
      BY <1>1
    <3> QED
      BY <3>1, <3>2
  <2> QED
    BY <1>1, <2>1, <2>2
<1>4. After # {} /\ After \in SUBSET (1 .. N)
  BY <1>1, <1>2, <1>3 DEF Idx
<1>5. PICK a \in After : \A b \in After : a <= b
  BY <1>1, <1>4, LeastElement
<1>6. PICK d \in Free : a = d + 1
  BY <1>5
<1>7. \A e \in 0 .. d - 1 : At(e) \in Used
  <2> SUFFICES ASSUME NEW e \in 0 .. d - 1, At(e) \notin Used
               PROVE  FALSE
    OBVIOUS
  <2>1. e \in Free /\ e < d
    BY <1>1, <1>6 DEF Idx
  <2>2. e + 1 \in After /\ a <= e + 1
    BY <1>5, <2>1
  <2> QED
    BY <1>1, <1>6, <2>1, <2>2 DEF Idx
<1>8. \E k \in Idx : At(k) \notin Used /\ \A e \in 0 .. k - 1 : At(e) \in Used
  BY <1>6, <1>7
<1>9. \A k \in Idx : At(k) \in Idx
  BY <1>1 DEF Idx
<1> DEFINE k == CHOOSE x \in Idx : /\ At(x) \notin Used
                                   /\ \A e \in 0 .. x - 1 : At(e) \in Used
<1>10. k \in Idx /\ At(k) \notin Used
  BY <1>8
<1>11. FreeIndex = At(k)
  BY DEF FreeIndex
<1> QED
  <2> HIDE DEF k, At
  <2> QED
    BY <1>9, <1>10, <1>11

\* Opening a file keeps the table of open files well formed.
LEMMA OpenedTypes ==
  ASSUME FileTypeOK, NEW h \in Handles, NEW n \in Names
  PROVE  LET o == Opened(opened, h, n) IN
         DOMAIN o \subseteq Handles /\ \A g \in DOMAIN o : o[g] \in Names
BY DEF FileTypeOK, Opened

\* So does closing files.
LEMMA ClosedTypes ==
  ASSUME FileTypeOK, NEW H
  PROVE  LET o == Closed(opened, H) IN
         DOMAIN o \subseteq Handles /\ \A g \in DOMAIN o : o[g] \in Names
BY DEF FileTypeOK, Closed, Restrict

\* Unlinking a file leaves files.
LEMMA UnlinkedTypes ==
  ASSUME NEW d, d \subseteq Names, NEW n
  PROVE  Unlinked(d, n) \subseteq Names
BY DEF Unlinked

\* Locking renames a video to the locked name of the same number.
LEMMA LockNameTypes ==
  ASSUME NEW n
  PROVE  /\ n \in Names => LockName(n) \in Names
         /\ n \in Names \cup {NoName} => LockName(n) \in Names \cup {NoName}
BY DEF LockName, Names, NoName

\* After a lock the card holds files.
LEMMA LockedTypes ==
  ASSUME NEW d, d \subseteq Names, NEW n
  PROVE  Locked(d, n) \subseteq Names
BY LockNameTypes DEF Locked

\* Opening with O_TRUNC keeps the card and the table of open files well formed.
LEMMA TruncateTypes ==
  ASSUME FileTypeOK, NEW h \in Handles \cup {NoHandle}, NEW n \in Names,
         Truncate(h, n), card' = card
  PROVE  FileTypeOK'
<1>1. CASE h = NoHandle
  BY <1>1 DEF Truncate, FileTypeOK
<1>2. CASE h # NoHandle
  BY <1>2, OpenedTypes DEF Truncate, FileTypeOK
<1> QED
  BY <1>1, <1>2

\* The numbers before and after a number, around the end of the table, are
\* numbers.
LEMMA IdxNext ==
  ASSUME NEW i \in Idx
  PROVE  (i + 1) % N \in Idx /\ (i + N - 1) % N \in Idx
BY CardAssumption DEF Idx

\* The parts of the type invariant that the storage task changes.
LEMMA TypeParts ==
  ASSUME TypeOK
  PROVE  /\ QueueTypeOK /\ FileTypeOK
         /\ TableTypeOK /\ DelTypeOK /\ CardTimerTypeOK
BY DEF TypeOK, CardTypeOK, StorageTypeOK

\* A step that leaves the storage service alone keeps its types.
LEMMA StorageKept ==
  ASSUME StorageTypeOK, UNCHANGED storageVars
  PROVE  StorageTypeOK'
<1>1. TableTypeOK'
  BY DEF StorageTypeOK, storageVars, tableVars, TableTypeOK
<1>2. DelTypeOK'
  BY DEF StorageTypeOK, storageVars, delVars, DelTypeOK
<1>3. CardTimerTypeOK'
  BY DEF StorageTypeOK, storageVars, CardTimerTypeOK
<1> QED
  BY <1>1, <1>2, <1>3 DEF StorageTypeOK

\* A step that leaves the card alone keeps its types.
LEMMA FilesKept ==
  ASSUME FileTypeOK, UNCHANGED cardVars
  PROVE  FileTypeOK'
BY DEF FileTypeOK, cardVars

\* Moving g_file_index on after an open keeps it a number.
LEMMA AdvanceTypes ==
  ASSUME TableTypeOK, NEW h, NEW i \in Idx, Advance(h, i)
  PROVE  g_file_index' \in Idx /\ g_avi_index_9999_exist' \in BOOLEAN
<1>1. g_file_index' \in Idx
  BY IdxNext DEF Advance
<1>2. g_avi_index_9999_exist' \in BOOLEAN
  BY Zenon DEF Advance
<1> QED
  BY <1>1, <1>2

-----------------------------------------------------------------------------
(* The storage task. *)

\* The storage task takes a message of its queue.
LEMMA ServesTypes ==
  ASSUME TypeOK, NEW id, Serve(id)
  PROVE  ssq' \in Seq(SsMsg) /\ Head(ssq) \in SsMsg
BY TypeParts, QueueTypes DEF Serve, Next_, QueueTypeOK

\* A reply goes to the queue of the state task.
LEMMA ReplyTypes ==
  ASSUME TypeOK, NEW id \in ApIds, NEW h \in Handles \cup {NoHandle}, Reply(id, h)
  PROVE  apq' \in Seq(ApMsg)
BY TypeParts, QueueTypes, MsgTypes DEF Reply, QueueTypeOK

\* The timer of the free-space check keeps the types.
LEMMA TickTypes ==
  ASSUME TypeOK, StorageTick
  PROVE  CardTypeOK' /\ StorageTypeOK'
<1>1. QueueTypeOK'
  BY TypeParts, QueueTypes, MsgTypes
  DEF StorageTick, MountTick, FreesizeTick, QueueTypeOK, SsIds
<1> QED
  BY <1>1, TypeParts, StorageKept, FilesKept
  DEF StorageTick, MountTick, FreesizeTick, CardTypeOK, TypeOK

\* So do the requests that switch the timers.
LEMMA SwitchTypes ==
  ASSUME TypeOK, TimerStart \/ FreesizeCheckSwitch
  PROVE  CardTypeOK' /\ StorageTypeOK'
<1>1. QueueTypeOK'
  BY TypeParts, ServesTypes DEF TimerStart, FreesizeCheckSwitch, QueueTypeOK
<1>2. FileTypeOK'
  BY TypeParts, FilesKept DEF TimerStart, FreesizeCheckSwitch
<1>3. TableTypeOK' /\ DelTypeOK'
  BY TypeParts DEF TimerStart, FreesizeCheckSwitch, TableTypeOK, DelTypeOK, tableVars, delVars
<1>4. CardTimerTypeOK'
  BY TypeParts, ServesTypes DEF TimerStart, FreesizeCheckSwitch, CardTimerTypeOK, SsMsg
<1> QED
  BY <1>1, <1>2, <1>3, <1>4 DEF CardTypeOK, StorageTypeOK

\* So do the requests for a file, which find a number, open and reply.
LEMMA FileOpenTypes ==
  ASSUME TypeOK, NEW req, NEW reply \in ApIds, NEW prefix \in {"MOVI", "PICT"},
         FileOpen(req, reply, prefix)
  PROVE  CardTypeOK' /\ StorageTypeOK'
<1> DEFINE h == OpenHandle(card /\ mounted)
           i == IF prefix = "PICT" /\ ~mounted THEN 0 ELSE FreeIndex
           n == <<prefix, i>>
<1>1. h \in Handles \cup {NoHandle} /\ i \in Idx /\ n \in Names
  <2>1. h \in Handles \cup {NoHandle}
    BY OpenHandleType
  <2>2. FreeIndex \in Idx /\ 0 \in Idx
    BY FreeIndexType, CardAssumption DEF FileOpen, Idx
  <2>3. i \in Idx
    BY <2>2
  <2> QED
    BY <2>1, <2>3 DEF Names
<1>2. /\ g_file_path' = n
      /\ Truncate(h, n)
      /\ Advance(h, i)
      /\ avi_file_table' \in {avi_file_table, Take(avi_file_table, h, i)}
      /\ jpg_file_table' \in {jpg_file_table, Take(jpg_file_table, h, i)}
      /\ Reply(reply, h)
      /\ Serve(req)
      /\ mount_timer' = FALSE
      /\ UNCHANGED <<card, delVars, g_next_file_path, freesize_timer, mounted>>
  BY DEF FileOpen
<1> HIDE DEF h, i, n
<1>3. QueueTypeOK'
  BY <1>1, <1>2, ServesTypes, ReplyTypes DEF QueueTypeOK
<1>4. FileTypeOK'
  BY <1>1, <1>2, TypeParts, TruncateTypes
<1>5. TableTypeOK'
  BY <1>1, <1>2, TypeParts, AdvanceTypes DEF TableTypeOK, Take
<1>6. DelTypeOK'
  BY <1>2, TypeParts DEF DelTypeOK, delVars
<1>7. CardTimerTypeOK'
  BY <1>1, <1>2, TypeParts DEF CardTimerTypeOK
<1> QED
  BY <1>3, <1>4, <1>5, <1>6, <1>7 DEF CardTypeOK, StorageTypeOK

\* So does a request that finds every number taken.
LEMMA NoFilenameTypes ==
  ASSUME TypeOK, NoFilename
  PROVE  CardTypeOK' /\ StorageTypeOK'
<1>1. QueueTypeOK'
  BY TypeParts, ServesTypes DEF NoFilename, QueueTypeOK
<1>2. FileTypeOK'
  BY TypeParts, FilesKept DEF NoFilename
<1>3. TableTypeOK'
  BY TypeParts, IdxNext DEF NoFilename, TableTypeOK
<1>4. DelTypeOK' /\ CardTimerTypeOK'
  BY TypeParts DEF NoFilename, DelTypeOK, CardTimerTypeOK, delVars
<1> QED
  BY <1>1, <1>2, <1>3, <1>4 DEF CardTypeOK, StorageTypeOK

\* So does the request for the next file.
LEMMA CyclicOpenTypes ==
  ASSUME TypeOK, CyclicOpen
  PROVE  CardTypeOK' /\ StorageTypeOK'
<1> DEFINE h == OpenHandle(card /\ mounted)
           n == <<"MOVI", FreeIndex>>
<1>1. h \in Handles \cup {NoHandle} /\ FreeIndex \in Idx /\ n \in Names
  BY OpenHandleType, FreeIndexType DEF CyclicOpen, Names
<1>2. /\ g_next_file_path' = n
      /\ Truncate(h, n)
      /\ Advance(h, FreeIndex)
      /\ avi_file_table' = Take(avi_file_table, h, FreeIndex)
      /\ Reply("VID_CYCLIC_REPLY", h)
      /\ Serve("VID_CYCLIC_REQ")
      /\ mount_timer' = FALSE
      /\ UNCHANGED <<card, jpg_file_table, delVars, g_file_path, freesize_timer, mounted>>
  BY DEF CyclicOpen
<1> HIDE DEF h, n
<1>3. QueueTypeOK'
  BY <1>1, <1>2, ServesTypes, ReplyTypes DEF QueueTypeOK, ApIds
<1>4. FileTypeOK'
  BY <1>1, <1>2, TypeParts, TruncateTypes
<1>5. TableTypeOK'
  BY <1>1, <1>2, TypeParts, AdvanceTypes DEF TableTypeOK, Take
<1>6. DelTypeOK'
  BY <1>2, TypeParts DEF DelTypeOK, delVars
<1>7. CardTimerTypeOK'
  BY <1>1, <1>2, TypeParts DEF CardTimerTypeOK
<1> QED
  BY <1>3, <1>4, <1>5, <1>6, <1>7 DEF CardTypeOK, StorageTypeOK

\* So do the search for a next number that never ends, and the undo of a next
\* file.
LEMMA CyclicOtherTypes ==
  ASSUME TypeOK, CyclicHang \/ CyclicUndo
  PROVE  CardTypeOK' /\ StorageTypeOK'
<1>1. QueueTypeOK'
  BY TypeParts, ServesTypes DEF CyclicHang, CyclicUndo, QueueTypeOK
<1>2. FileTypeOK'
  BY TypeParts, FilesKept DEF CyclicHang, CyclicUndo
<1>3. TableTypeOK'
  BY TypeParts, IdxNext DEF CyclicHang, CyclicUndo, TableTypeOK, tableVars
<1>4. DelTypeOK' /\ CardTimerTypeOK'
  BY TypeParts DEF CyclicHang, CyclicUndo, DelTypeOK, CardTimerTypeOK, delVars
<1> QED
  BY <1>1, <1>2, <1>3, <1>4 DEF CardTypeOK, StorageTypeOK

\* So does the mount check, whatever became of the card.
LEMMA StorageCheckTypes ==
  ASSUME TypeOK, StorageCheck
  PROVE  CardTypeOK' /\ StorageTypeOK'
<1>1. apq' \in Seq(ApMsg) /\ TableTypeOK' /\ g_oldest_avi_file_index' \in Idx /\ mounted' \in BOOLEAN
  <2>1. CASE MountCard
    <3>1. apq' \in Seq(ApMsg)
      BY <2>1, ReplyTypes DEF MountCard, ApIds
    <3>2. avi_file_table' \subseteq Idx /\ jpg_file_table' \subseteq Idx /\ mounted' \in BOOLEAN
      BY <2>1 DEF MountCard, NumbersOn
    <3>3. g_avi_index_9999_exist' \in BOOLEAN
      BY <2>1 DEF MountCard
    <3>4. g_file_index' \in Idx /\ g_oldest_avi_file_index' \in Idx
      BY <2>1, TypeParts DEF MountCard, NumbersOn, DelTypeOK
    <3> QED
      BY <3>1, <3>2, <3>3, <3>4 DEF TableTypeOK
  <2>2. CASE LoseCard
    <3>1. apq' \in Seq(ApMsg)
      BY <2>2, ReplyTypes DEF LoseCard, ApIds
    <3>2. TableTypeOK' /\ g_oldest_avi_file_index' \in Idx /\ mounted' \in BOOLEAN
      <4>1. 0 \in Idx
        BY CardAssumption DEF Idx
      <4> QED
        BY <2>2, <4>1, TypeParts DEF LoseCard, TableTypeOK, DelTypeOK
    <3> QED
      BY <3>1, <3>2
  <2>3. CASE UNCHANGED <<apq, tableVars, g_oldest_avi_file_index, mounted>>
    BY <2>3, TypeParts DEF tableVars, TableTypeOK, DelTypeOK, CardTimerTypeOK, QueueTypeOK
  <2> QED
    BY <2>1, <2>2, <2>3 DEF StorageCheck, SameCard
<1>2. QueueTypeOK'
  BY <1>1, ServesTypes DEF StorageCheck, QueueTypeOK
<1>3. FileTypeOK'
  <2>1. disk' \subseteq disk /\ UNCHANGED <<card, opened>>
    BY DEF StorageCheck, MountCard, LoseCard, SameCard
  <2> QED
    BY <2>1, TypeParts DEF FileTypeOK
<1>4. DelTypeOK' /\ CardTimerTypeOK'
  BY <1>1, TypeParts DEF StorageCheck, DelTypeOK, CardTimerTypeOK
<1> QED
  BY <1>1, <1>2, <1>3, <1>4 DEF CardTypeOK, StorageTypeOK

\* A pass of the deletion of old files keeps the types of what it changes.
LEMMA ReDelTypes ==
  ASSUME TypeOK, NEW free \in FreeLevels \cup {0}, NEW rest \in Seq(SsMsg), ReDel(free, rest)
  PROVE  /\ QueueTypeOK' /\ disk' \subseteq Names
         /\ avi_file_table' \subseteq Idx /\ DelTypeOK'
<1>1. CASE DelDisabled(free, rest)
  <2>1. apq' \in Seq(ApMsg) /\ self_stops' \in 0 .. MaxSelfStops
    BY <1>1, ReplyTypes, TypeParts, StorageAssumption
    DEF DelDisabled, SelfStop, ApIds, QueueTypeOK, DelTypeOK
  <2> QED
    BY <1>1, <2>1, TypeParts DEF DelDisabled, QueueTypeOK, FileTypeOK, TableTypeOK, DelTypeOK
<1>2. CASE DelNothing(free, rest)
  <2>1. ssq' \in Seq(SsMsg)
    BY <1>2, QueueTypes, MsgTypes DEF DelNothing, SsIds
  <2>2. g_oldest_avi_file_index' \in Idx
    <3>1. PICK i \in 0 .. N : g_oldest_avi_file_index' = IF i # N /\ g_avi_index_9999_exist THEN (i + 1) % N
                                                          ELSE g_oldest_avi_file_index
      BY <1>2 DEF DelNothing
    <3>2. i # N => i \in Idx
      BY CardAssumption DEF Idx
    <3> QED
      BY <3>1, <3>2, IdxNext, TypeParts DEF DelTypeOK
  <2>3. bkground_del_disble' \in BOOLEAN
    BY <1>2, Zenon DEF DelNothing
  <2> QED
    BY <1>2, <2>1, <2>2, <2>3, TypeParts DEF DelNothing, QueueTypeOK, FileTypeOK, TableTypeOK, DelTypeOK
<1>3. CASE DelVideo(free, rest)
  <2>1. PICK i \in Idx :
       /\ disk' = Unlinked(disk, <<"MOVI", i>>)
       /\ IF disk' # disk
          THEN /\ avi_file_table' = avi_file_table \ {i}
               /\ retry' = 0
               /\ step_work' = (free > 70)
          ELSE /\ avi_file_table' =
                    IF retry = 3 THEN avi_file_table \ {i} ELSE avi_file_table
               /\ retry' = (retry + 1) % 4
               /\ step_work' = FALSE
       /\ g_oldest_avi_file_index' =
            IF disk' # disk \/ g_avi_index_9999_exist THEN (i + 1) % N
            ELSE g_oldest_avi_file_index
    BY <1>3 DEF DelVideo
  <2>2. disk' \subseteq Names
    BY <2>1, UnlinkedTypes, TypeParts DEF FileTypeOK
  <2>3. avi_file_table' \subseteq Idx /\ retry' \in 0 .. 3
    BY <2>1, TypeParts DEF TableTypeOK, DelTypeOK
  <2>4. step_work' \in BOOLEAN
    <3>1. (free > 70) \in BOOLEAN
      OBVIOUS
    <3> QED
      BY <2>1, <3>1
  <2>5. g_oldest_avi_file_index' \in Idx
    BY <2>1, IdxNext, TypeParts DEF DelTypeOK
  <2> QED
    BY <1>3, <2>2, <2>3, <2>4, <2>5, TypeParts DEF DelVideo, QueueTypeOK, DelTypeOK
<1> QED
  BY <1>1, <1>2, <1>3 DEF ReDel

\* So do the two entries to that deletion.
LEMMA FreesizeTypes ==
  ASSUME TypeOK, FreesizeCheck \/ FreesizeCheckAgain
  PROVE  CardTypeOK' /\ StorageTypeOK'
<1>1. QueueTypeOK' /\ disk' \subseteq Names /\ avi_file_table' \subseteq Idx /\ DelTypeOK'
  <2>1. CASE FreesizeCheck
    <3>1. Tail(ssq) \in Seq(SsMsg)
      BY <2>1, TypeParts, QueueTypes DEF FreesizeCheck, Next_, QueueTypeOK
    <3>2. PICK free \in FreeLevels :
            \/ ReDel(free, Tail(ssq))
            \/ ssq' = Tail(ssq) /\ UNCHANGED <<apq, disk, avi_file_table, delVars>>
      BY <2>1 DEF FreesizeCheck
    <3>3. CASE ReDel(free, Tail(ssq))
      BY <3>1, <3>3, ReDelTypes
    <3>4. CASE ssq' = Tail(ssq) /\ UNCHANGED <<apq, disk, avi_file_table, delVars>>
      BY <3>1, <3>4, TypeParts DEF QueueTypeOK, FileTypeOK, TableTypeOK, DelTypeOK, delVars
    <3> QED
      BY <3>2, <3>3, <3>4
  <2>2. CASE FreesizeCheckAgain
    BY <2>2, ReDelTypes, TypeParts DEF FreesizeCheckAgain, DelTypeOK, QueueTypeOK
  <2> QED
    BY <2>1, <2>2
<1>2. DelUnchanged
  BY DEF FreesizeCheck, FreesizeCheckAgain
<1>3. FileTypeOK'
  BY <1>1, <1>2, TypeParts DEF DelUnchanged, FileTypeOK
<1>4. TableTypeOK' /\ CardTimerTypeOK'
  BY <1>1, <1>2, TypeParts DEF DelUnchanged, TableTypeOK, CardTimerTypeOK
<1> QED
  BY <1>1, <1>3, <1>4 DEF CardTypeOK, StorageTypeOK

\* So does a check of the free space that deletes nothing.
LEMMA FreesizeStepTypes ==
  ASSUME TypeOK, FreesizeCheckStep
  PROVE  CardTypeOK' /\ StorageTypeOK'
<1>1. QueueTypeOK'
  BY TypeParts, ServesTypes DEF FreesizeCheckStep, QueueTypeOK
<1>2. FileTypeOK'
  BY TypeParts, FilesKept DEF FreesizeCheckStep
<1>3. TableTypeOK' /\ DelTypeOK' /\ CardTimerTypeOK'
  BY TypeParts DEF FreesizeCheckStep, tableVars, TableTypeOK, DelTypeOK, CardTimerTypeOK
<1> QED
  BY <1>1, <1>2, <1>3 DEF CardTypeOK, StorageTypeOK

\* Every message of the storage task keeps the types.
LEMMA StorageTaskTypes ==
  ASSUME TypeOK, StorageTask
  PROVE  CardTypeOK' /\ StorageTypeOK'
<1>1. VidReq \/ PicReq => CardTypeOK' /\ StorageTypeOK'
  BY FileOpenTypes DEF VidReq, PicReq, ApIds
<1> QED
  BY <1>1, SwitchTypes, NoFilenameTypes, CyclicOpenTypes, CyclicOtherTypes, StorageCheckTypes,
     FreesizeTypes, FreesizeStepTypes DEF StorageTask

-----------------------------------------------------------------------------
(* The recording state. *)

\* The part of the types that one function of the recording state changes.
BodyTypeOK ==
  /\ ssq \in Seq(SsMsg)
  /\ FileTypeOK /\ StorageTypeOK /\ RecordTypeOK /\ EncoderTypeOK
  /\ faults \in 0 .. MaxFaults

\* The conjuncts of the type invariant, one by one.
LEMMA BodyParts ==
  ASSUME TypeOK
  PROVE  /\ BodyTypeOK /\ QueueTypeOK
         /\ FileTypeOK /\ StorageTypeOK /\ RecordTypeOK /\ EncoderTypeOK
         /\ StateTypeOK /\ CountTypeOK
         /\ curr \in Handles \cup {NoHandle} /\ next \in Handles \cup {NoHandle}
         /\ g_file_path \in Names \cup {NoName} /\ g_next_file_path \in Names \cup {NoName}
BY TypeParts DEF TypeOK, BodyTypeOK, CountTypeOK, QueueTypeOK, RecordTypeOK, CardTimerTypeOK

\* A step that leaves all of the body alone keeps its types.
LEMMA BodyKept ==
  ASSUME TypeOK, UNCHANGED <<ssq, cardVars, storageVars, recordVars, encoderVars, faults>>
  PROVE  BodyTypeOK'
<1>1. FileTypeOK' /\ StorageTypeOK'
  BY BodyParts, FilesKept, StorageKept
<1>2. RecordTypeOK' /\ EncoderTypeOK'
  BY BodyParts DEF RecordTypeOK, EncoderTypeOK, recordVars, encoderVars
<1> QED
  BY <1>1, <1>2, BodyParts DEF BodyTypeOK

\* A step of the state task may change three variables of the storage service,
\* and keeps its types.
LEMMA ServiceKept ==
  ASSUME TypeOK, UNCHANGED serviceVars, g_file_path' \in Names \cup {NoName},
         step_work' \in BOOLEAN, bkground_del_disble' \in BOOLEAN
  PROVE  StorageTypeOK'
<1>1. TableTypeOK' /\ DelTypeOK'
  BY TypeParts DEF serviceVars, TableTypeOK, DelTypeOK
<1>2. CardTimerTypeOK'
  BY TypeParts DEF serviceVars, CardTimerTypeOK
<1> QED
  BY <1>1, <1>2 DEF StorageTypeOK

\* Faults are counted up to their bound.
LEMMA FaultTypes ==
  ASSUME TypeOK, Fault \/ UNCHANGED faults
  PROVE  faults' \in 0 .. MaxFaults
BY RecordAssumption DEF TypeOK, CountTypeOK, Fault

\* Every message the recording state sends.
LEMMA SsMsgs ==
  /\ \A on \in BOOLEAN : /\ Req("FREESIZE_CHECK_SWITCH", on) \in SsMsg
                         /\ Req("VID_CYCLIC_REQ", on) \in SsMsg
  /\ \A id \in SsIds : Req(id, FALSE) \in SsMsg
BY MsgTypes DEF SsIds

\* The sequences of messages that a stop puts before and after the queue.
LEMMA SsSends ==
  /\ \A q, r \in Seq(SsMsg) : q \o r \in Seq(SsMsg)
  /\ << >> \in Seq(SsMsg)
  /\ <<Req("FREESIZE_CHECK_SWITCH", FALSE)>> \in Seq(SsMsg)
  /\ <<Req("VID_CYCLIC_REQ", FALSE)>> \in Seq(SsMsg)
  /\ <<Req("TIMER_START", FALSE)>> \in Seq(SsMsg)
  /\ <<Req("VIDEO_FILE_DEL", FALSE)>> \in Seq(SsMsg)
  /\ <<Req("AUTO_DEL_LOCK", FALSE)>> \in Seq(SsMsg)
  /\ <<Req("STORAGE_CHECK", FALSE)>> \in Seq(SsMsg)
  /\ <<Req("VID_CYCLIC_REQ", FALSE), Req("TIMER_START", FALSE)>> \in Seq(SsMsg)
  /\ <<Req("VID_CYCLIC_REQ", TRUE), Req("FREESIZE_CHECK_SWITCH", TRUE)>> \in Seq(SsMsg)
  /\ <<Req("FREESIZE_CHECK_SWITCH", TRUE), Req("VID_CYCLIC_REQ", TRUE)>> \in Seq(SsMsg)
<1>1. \A x, y \in SsMsg : <<x>> \in Seq(SsMsg) /\ <<x, y>> \in Seq(SsMsg)
  OBVIOUS
<1>2. \A id \in {"FREESIZE_CHECK_SWITCH", "VID_CYCLIC_REQ", "TIMER_START", "VIDEO_FILE_DEL",
                  "AUTO_DEL_LOCK", "STORAGE_CHECK"} :
        \A on \in BOOLEAN : Req(id, on) \in SsMsg
  BY MsgTypes DEF SsIds
<1>3. /\ Req("FREESIZE_CHECK_SWITCH", FALSE) \in SsMsg
      /\ Req("FREESIZE_CHECK_SWITCH", TRUE) \in SsMsg
      /\ Req("VID_CYCLIC_REQ", FALSE) \in SsMsg
      /\ Req("VID_CYCLIC_REQ", TRUE) \in SsMsg
      /\ Req("TIMER_START", FALSE) \in SsMsg
      /\ Req("VIDEO_FILE_DEL", FALSE) \in SsMsg
      /\ Req("AUTO_DEL_LOCK", FALSE) \in SsMsg
      /\ Req("STORAGE_CHECK", FALSE) \in SsMsg
  BY <1>2
<1>4. /\ \A q, r \in Seq(SsMsg) : q \o r \in Seq(SsMsg)
      /\ << >> \in Seq(SsMsg)
  OBVIOUS
<1> QED
  BY <1>1, <1>3, <1>4

\* Closing files and changing the names on the card keep the types.
LEMMA FilesClosed ==
  ASSUME TypeOK, NEW H, opened' = Closed(opened, H), UNCHANGED card, disk' \subseteq Names
  PROVE  FileTypeOK'
BY BodyParts, ClosedTypes DEF FileTypeOK

\* What the recording state holds after a stop.
LEMMA RecordTypesReset ==
  ASSUME busy' = FALSE, next' = NoHandle, lock_flag' = 0, continuing' = FALSE,
         curr' \in Handles \cup {NoHandle}, cyclic_timer' \in BOOLEAN,
         has_path' \in BOOLEAN, prev_path' \in Names \cup {NoName}
  PROVE  RecordTypeOK'
<1>1. lock_flag' \in 0 .. 2
  OBVIOUS
<1>2. busy' \in BOOLEAN /\ continuing' \in BOOLEAN /\ next' \in Handles \cup {NoHandle}
  OBVIOUS
<1> QED
  BY <1>1, <1>2 DEF RecordTypeOK

\* A stop (ap_video_record_func_key_active, the branch for a recording under
\* way) keeps the types of the body.
LEMMA FuncKeyStopTypes ==
  ASSUME TypeOK, NEW event, NEW pre \in Seq(SsMsg), NEW post \in Seq(SsMsg),
         FuncKeyStop(event, pre, post)
  PROVE  BodyTypeOK'
<1>1. PICK ok \in BOOLEAN :
       LET lock == ok /\ lock_flag > 0 /\ has_path
           kept == CASE lock -> Locked(disk, g_file_path)
                     [] ~ok -> Unlinked(disk, g_file_path)
                     [] OTHER -> disk IN
       /\ IF packer THEN EncodeStopped(ok)
          ELSE ok /\ UNCHANGED <<encoderVars, faults>>
       /\ curr' = IF ok THEN curr ELSE NoHandle
       /\ g_file_path' = IF lock THEN LockName(g_file_path) ELSE g_file_path
       /\ disk' = IF next # NoHandle THEN Unlinked(kept, g_next_file_path)
                  ELSE kept
       /\ opened' = Closed(opened, StopCloses \cup {next}
                                     \cup (IF ok THEN {} ELSE {curr}))
  BY DEF FuncKeyStop
<1>2. g_file_path' \in Names \cup {NoName}
  BY <1>1, BodyParts, LockNameTypes
<1>3. disk' \subseteq Names
  <2>1. disk \subseteq Names
    BY BodyParts DEF FileTypeOK
  <2>2. Locked(disk, g_file_path) \subseteq Names /\ Unlinked(disk, g_file_path) \subseteq Names
    BY <2>1, LockedTypes, UnlinkedTypes
  <2>3. PICK kept \in SUBSET Names : disk' \in {kept, Unlinked(kept, g_next_file_path)}
    BY <1>1, <2>1, <2>2
  <2> QED
    BY <2>3, UnlinkedTypes
<1>4. FileTypeOK'
  BY <1>1, <1>3, FilesClosed DEF FuncKeyStop
<1>5. StorageTypeOK'
  <2>1. bkground_del_disble' \in BOOLEAN /\ step_work' \in BOOLEAN
    BY TypeParts DEF FuncKeyStop, DelTypeOK
  <2> QED
    BY <1>2, <2>1, ServiceKept DEF FuncKeyStop
<1>6. RecordTypeOK'
  <2>1. curr' \in Handles \cup {NoHandle}
    BY <1>1, BodyParts
  <2>2. /\ busy' = FALSE /\ next' = NoHandle /\ lock_flag' = 0 /\ continuing' = FALSE
        /\ cyclic_timer' = FALSE /\ UNCHANGED <<has_path, prev_path>>
    BY DEF FuncKeyStop
  <2>3. has_path \in BOOLEAN /\ prev_path \in Names \cup {NoName}
    BY BodyParts DEF RecordTypeOK
  <2>4. cyclic_timer' \in BOOLEAN /\ has_path' \in BOOLEAN /\ prev_path' \in Names \cup {NoName}
    BY <2>2, <2>3
  <2> QED
    BY <2>1, <2>2, <2>4, RecordTypesReset
<1>7. EncoderTypeOK' /\ faults' \in 0 .. MaxFaults
  BY <1>1, BodyParts, FaultTypes DEF EncodeStopped, EncoderTypeOK, encoderVars
<1>8. ssq' \in Seq(SsMsg)
  <2> DEFINE back == IF next # NoHandle THEN <<Req("VID_CYCLIC_REQ", FALSE)>> ELSE << >>
  <2>1. /\ <<Req("FREESIZE_CHECK_SWITCH", FALSE)>> \in Seq(SsMsg)
        /\ back \in Seq(SsMsg)
        /\ <<Req("TIMER_START", FALSE)>> \in Seq(SsMsg)
    BY SsSends
  <2>2. ssq' = <<Req("FREESIZE_CHECK_SWITCH", FALSE)>> \o ssq \o pre \o back
               \o <<Req("TIMER_START", FALSE)>> \o post
    BY DEF FuncKeyStop
  <2> HIDE DEF back
  <2> QED
    BY <2>1, <2>2, SsSends, BodyParts DEF QueueTypeOK
<1> QED
  BY <1>4, <1>5, <1>6, <1>7, <1>8 DEF BodyTypeOK

\* So does every branch of that function.
LEMMA FuncKeyTypes ==
  ASSUME TypeOK, NEW event, FuncKey(event)
  PROVE  BodyTypeOK'
<1>1. CASE FuncKeyStop(event, << >>, << >>)
  BY <1>1, FuncKeyStopTypes, SsSends
<1>2. CASE FuncKeyStart
  <2>1. FileTypeOK' /\ StorageTypeOK'
    BY <1>2, BodyParts, FilesKept, StorageKept DEF FuncKeyStart
  <2>2. RecordTypeOK' /\ EncoderTypeOK' /\ faults' = faults
    BY <1>2, BodyParts DEF FuncKeyStart, RecordTypeOK, EncoderTypeOK, encoderVars
  <2>3. ssq' \in Seq(SsMsg)
    BY <1>2, BodyParts, SsMsgs, QueueTypes DEF FuncKeyStart, QueueTypeOK, SsIds
  <2> QED
    BY <2>1, <2>2, <2>3, FaultTypes DEF BodyTypeOK
<1> QED
  BY <1>1, <1>2, BodyKept DEF FuncKey, FuncKeyRefused, FuncKeyNoStart

\* So do the handlers that stop a recording only when there is one.
LEMMA StopIfBusyTypes ==
  ASSUME TypeOK, NEW pre \in Seq(SsMsg), NEW post \in Seq(SsMsg), StopIfBusy(pre, post)
  PROVE  BodyTypeOK'
<1>1. CASE FuncKeyStop("NULL", pre, post)
  BY <1>1, FuncKeyStopTypes
<1>2. CASE /\ ssq' = ssq \o pre \o post
           /\ UNCHANGED <<cardVars, storageVars, recordVars, encoderVars, faults>>
  <2>1. FileTypeOK' /\ StorageTypeOK'
    BY <1>2, BodyParts, FilesKept, StorageKept
  <2>2. RecordTypeOK' /\ EncoderTypeOK'
    BY <1>2, BodyParts DEF RecordTypeOK, EncoderTypeOK, recordVars, encoderVars
  <2>3. ssq' \in Seq(SsMsg)
    BY <1>2, BodyParts DEF QueueTypeOK
  <2> QED
    BY <1>2, <2>1, <2>2, <2>3, FaultTypes DEF BodyTypeOK
<1> QED
  BY <1>1, <1>2 DEF StopIfBusy

\* So does each outcome of a file that arrives.
LEMMA ReplyActionTypes ==
  ASSUME TypeOK, NEW path, apq # << >>,
         LateReply(path) \/ ReplyNoFile \/ ReplyStartFails \/ ReplyStart
  PROVE  BodyTypeOK'
<1>1. Head(apq).h \in Handles \cup {NoHandle} /\ disk \subseteq Names
  <2>1. Head(apq) \in ApMsg
    BY BodyParts, QueueTypes DEF QueueTypeOK
  <2> QED
    BY <2>1, BodyParts DEF FileTypeOK, ApMsg
<1>2. FileTypeOK'
  <2>1. CASE ReplyNoFile \/ ReplyStart
    BY <2>1, BodyParts, FilesKept DEF ReplyNoFile, ReplyStart
  <2>2. CASE LateReply(path) \/ ReplyStartFails
    <3>1. disk' \subseteq Names
      BY <1>1, <2>2, UnlinkedTypes DEF LateReply, ReplyStartFails
    <3> QED
      BY <2>2, <3>1, FilesClosed DEF LateReply, ReplyStartFails
  <2> QED
    BY <2>1, <2>2
<1>3. StorageTypeOK'
  <2>1. CASE LateReply(path)
    BY <2>1, BodyParts, StorageKept DEF LateReply
  <2>2. CASE ReplyNoFile \/ ReplyStartFails \/ ReplyStart
    <3>1. bkground_del_disble' \in BOOLEAN
      BY <2>2, RecordAssumption DEF ReplyNoFile, ReplyStartFails, ReplyStart
    <3>2. g_file_path' \in Names \cup {NoName} /\ step_work' \in BOOLEAN
      BY <2>2, TypeParts DEF ReplyNoFile, ReplyStartFails, ReplyStart, CardTimerTypeOK, DelTypeOK
    <3> QED
      BY <2>2, <3>1, <3>2, ServiceKept DEF ReplyNoFile, ReplyStartFails, ReplyStart
  <2> QED
    BY <2>1, <2>2
<1>4. RecordTypeOK'
  BY <1>1, BodyParts DEF LateReply, ReplyNoFile, ReplyStartFails, ReplyStart, RecordTypeOK, recordVars
<1>5. EncoderTypeOK' /\ faults' \in 0 .. MaxFaults
  BY <1>1, BodyParts, FaultTypes
  DEF LateReply, ReplyNoFile, ReplyStartFails, ReplyStart, EncodeStart, EncoderTypeOK, encoderVars
<1>6. ssq' \in Seq(SsMsg)
  <2>1. ssq \in Seq(SsMsg)
    BY BodyParts DEF QueueTypeOK
  <2>2. CASE ReplyStart
    <3>1. PICK del \in BOOLEAN :
       ssq' = ssq \o <<Req("VID_CYCLIC_REQ", TRUE), Req("FREESIZE_CHECK_SWITCH", TRUE)>>
                  \o (IF del THEN <<Req("VIDEO_FILE_DEL", FALSE)>> ELSE << >>)
      BY <2>2 DEF ReplyStart
    <3>2. (IF del THEN <<Req("VIDEO_FILE_DEL", FALSE)>> ELSE << >>) \in Seq(SsMsg)
      BY SsSends
    <3>3. <<Req("VID_CYCLIC_REQ", TRUE), Req("FREESIZE_CHECK_SWITCH", TRUE)>> \in Seq(SsMsg)
      BY SsSends
    <3> QED
      BY <2>1, <3>1, <3>2, <3>3, SsSends
  <2>3. CASE ReplyStartFails
    <3>1. <<Req("VID_CYCLIC_REQ", FALSE), Req("TIMER_START", FALSE)>> \in Seq(SsMsg)
      BY SsSends
    <3> QED
      BY <2>1, <2>3, <3>1, SsSends DEF ReplyStartFails
  <2>4. CASE LateReply(path) \/ ReplyNoFile
    BY <2>1, <2>4, SsMsgs, QueueTypes DEF LateReply, ReplyNoFile, SsIds
  <2> QED
    BY <2>2, <2>3, <2>4
<1> QED
  BY <1>2, <1>3, <1>4, <1>5, <1>6 DEF BodyTypeOK

\* So does each outcome of a switch to the next file.
LEMMA SwitchFileTypes ==
  ASSUME TypeOK, SwitchFile \/ SwitchFails \/ NoNextFile
  PROVE  BodyTypeOK'
<1>1. CASE SwitchFile
  <2>1. disk' \subseteq Names /\ prev_path' \in Names \cup {NoName}
    BY <1>1, BodyParts, LockedTypes, LockNameTypes DEF SwitchFile, FileTypeOK
  <2>2. FileTypeOK'
    BY <1>1, <2>1, FilesClosed DEF SwitchFile
  <2>3. StorageTypeOK'
    BY <1>1, BodyParts, TypeParts, ServiceKept DEF SwitchFile, DelTypeOK
  <2>4. RecordTypeOK' /\ EncoderTypeOK' /\ faults' \in 0 .. MaxFaults
    BY <1>1, <2>1, BodyParts, FaultTypes DEF SwitchFile, RecordTypeOK, EncoderTypeOK
  <2>5. ssq' \in Seq(SsMsg)
    <3>1. /\ <<Req("FREESIZE_CHECK_SWITCH", FALSE)>> \in Seq(SsMsg)
          /\ <<Req("FREESIZE_CHECK_SWITCH", TRUE), Req("VID_CYCLIC_REQ", TRUE)>> \in Seq(SsMsg)
      BY SsSends
    <3> QED
      BY <1>1, <3>1, SsSends, BodyParts DEF SwitchFile, QueueTypeOK
  <2> QED
    BY <2>2, <2>3, <2>4, <2>5 DEF BodyTypeOK
<1>2. CASE SwitchFails
  <2>1. disk' \subseteq Names
    BY <1>2, BodyParts, UnlinkedTypes DEF SwitchFails, FileTypeOK
  <2>2. FileTypeOK'
    BY <1>2, <2>1, FilesClosed DEF SwitchFails
  <2>3. StorageTypeOK'
    BY <1>2, BodyParts, StorageKept DEF SwitchFails
  <2>4. RecordTypeOK' /\ EncoderTypeOK' /\ faults' \in 0 .. MaxFaults
    <3>1. faults' \in 0 .. MaxFaults
      BY <1>2, FaultTypes DEF SwitchFails
    <3>2. EncoderTypeOK'
      BY <1>2, BodyParts DEF SwitchFails, EncoderTypeOK, encoderVars
    <3> QED
      <4>1. /\ busy' = FALSE /\ next' = NoHandle /\ lock_flag' = 0 /\ continuing' = FALSE
            /\ UNCHANGED <<curr, has_path, prev_path, cyclic_timer>>
        BY <1>2 DEF SwitchFails
      <4>2. RecordTypeOK'
        BY <4>1, BodyParts, RecordTypesReset DEF RecordTypeOK
      <4> QED
        BY <3>1, <3>2, <4>2
  <2>5. ssq' \in Seq(SsMsg)
    <3>1. /\ <<Req("FREESIZE_CHECK_SWITCH", FALSE)>> \in Seq(SsMsg)
          /\ <<Req("TIMER_START", FALSE)>> \in Seq(SsMsg)
      BY SsSends
    <3> QED
      BY <1>2, <3>1, SsSends, BodyParts DEF SwitchFails, QueueTypeOK
  <2> QED
    BY <2>2, <2>3, <2>4, <2>5 DEF BodyTypeOK
<1> QED
  BY <1>1, <1>2, BodyKept DEF NoNextFile

\* With the types of the body, of the state and of the queue, a step of the
\* state task keeps them all.
LEMMA StepTypes ==
  ASSUME TypeOK, BodyTypeOK', StateTypeOK', apq' \in Seq(ApMsg),
         UNCHANGED <<inputs, cycles, moves>>, Finish
  PROVE  TypeOK'
<1>1. done' \subseteq disk'
  BY DEF Finish
<1>2. CountTypeOK'
  BY BodyParts DEF BodyTypeOK, CountTypeOK
<1>3. QueueTypeOK'
  BY DEF BodyTypeOK, QueueTypeOK
<1> QED
  BY <1>1, <1>2, <1>3 DEF TypeOK, BodyTypeOK, CardTypeOK, FileTypeOK

\* What a handler of the state task takes from its queue.
LEMMA HandleTypes ==
  ASSUME TypeOK, NEW id, Handle(id) \/ InPreview(id)
  PROVE  /\ apq # << >> /\ apq' \in Seq(ApMsg)
         /\ Tail(apq) \in Seq(ApMsg)
         /\ Head(apq).h \in Handles \cup {NoHandle}
<1>1. apq # << >> /\ apq' = Tail(apq)
  BY DEF Handle, InPreview, Next_
<1>2. Tail(apq) \in Seq(ApMsg) /\ Head(apq) \in ApMsg
  BY <1>1, BodyParts, QueueTypes DEF QueueTypeOK
<1> QED
  BY <1>1, <1>2 DEF ApMsg

\* The keys, and the stops that come from elsewhere, keep the types.
LEMMA KeysTypes ==
  ASSUME TypeOK, RecordActive \/ VdoRecStop \/ VdoRecRestart \/ FallThrough \/ PrevKey, Finish
  PROVE  TypeOK'
<1>1. BodyTypeOK'
  BY FuncKeyTypes, StopIfBusyTypes, SsSends DEF RecordActive, VdoRecStop, VdoRecRestart, FallThrough, PrevKey
<1>2. apq' \in Seq(ApMsg)
  <2>1. CASE FallThrough
    BY <2>1, BodyParts DEF FallThrough, QueueTypeOK
  <2> QED
    BY <2>1, HandleTypes DEF RecordActive, VdoRecStop, VdoRecRestart, PrevKey
<1>3. StateTypeOK' /\ UNCHANGED <<inputs, cycles, moves>>
  BY BodyParts DEF RecordActive, VdoRecStop, VdoRecRestart, FallThrough, PrevKey, StateTypeOK
<1> QED
  BY <1>1, <1>2, <1>3, StepTypes

\* So does the error of the packer.
LEMMA PackerErrorTypes ==
  ASSUME TypeOK, AviPackerError, Finish
  PROVE  TypeOK'
<1>1. Tail(apq) \in Seq(ApMsg)
  BY BodyParts, QueueTypes DEF AviPackerError, Next_, QueueTypeOK
<1>2. apq' \in Seq(ApMsg)
  BY <1>1, QueueTypes, MsgTypes DEF AviPackerError, ApIds
<1>3. BodyTypeOK'
  BY StopIfBusyTypes, SsSends DEF AviPackerError
<1>4. StateTypeOK' /\ UNCHANGED <<inputs, cycles, moves>>
  BY BodyParts DEF AviPackerError, StateTypeOK
<1> QED
  BY <1>2, <1>3, <1>4, StepTypes

\* So do the card, the lock key, the photo and the missing card.
LEMMA OtherTypes ==
  ASSUME TypeOK, MountMsg \/ SosKey \/ GetJpeg \/ PicReply \/ NoStorage, Finish
  PROVE  TypeOK'
<1>1. apq' \in Seq(ApMsg) /\ Head(apq).h \in Handles \cup {NoHandle}
  BY HandleTypes DEF MountMsg, SosKey, GetJpeg, PicReply, NoStorage
<1>2. StateTypeOK' /\ UNCHANGED <<inputs, cycles, moves>>
  BY BodyParts DEF MountMsg, SosKey, GetJpeg, PicReply, NoStorage, StateTypeOK, countVars
<1>3. CASE MountMsg
  <2>1. UNCHANGED <<ssq, cardVars, storageVars, recordVars, encoderVars, faults>>
    BY <1>3 DEF MountMsg, recordVars, countVars
  <2> QED
    BY <1>1, <1>2, <2>1, BodyKept, StepTypes
<1>4. CASE SosKey
  <2>1. disk' \subseteq Names /\ prev_path' \in Names \cup {NoName} /\ lock_flag' \in 0 .. 2
    BY <1>4, BodyParts, LockedTypes, LockNameTypes DEF SosKey, FileTypeOK, RecordTypeOK
  <2>2. FileTypeOK'
    BY <1>4, <2>1, BodyParts DEF SosKey, FileTypeOK
  <2>3. StorageTypeOK' /\ ssq' \in Seq(SsMsg)
    BY <1>4, BodyParts, StorageKept DEF SosKey, QueueTypeOK
  <2>4. RecordTypeOK'
    BY <1>4, <2>1, BodyParts DEF SosKey, RecordTypeOK
  <2>5. EncoderTypeOK' /\ faults' \in 0 .. MaxFaults
    BY <1>4, BodyParts DEF SosKey, EncoderTypeOK, encoderVars, countVars, BodyTypeOK
  <2>6. BodyTypeOK'
    BY <2>2, <2>3, <2>4, <2>5 DEF BodyTypeOK
  <2> QED
    BY <1>1, <1>2, <2>6, StepTypes
<1>5. CASE GetJpeg \/ PicReply
  <2>1. FileTypeOK'
    <3>1. CASE GetJpeg
      BY <3>1, BodyParts, FilesKept DEF GetJpeg
    <3>2. CASE PicReply
      BY <3>2, BodyParts, FilesClosed DEF PicReply, FileTypeOK
    <3> QED
      BY <1>5, <3>1, <3>2
  <2>2. ssq' \in Seq(SsMsg)
    BY <1>5, BodyParts, QueueTypes, MsgTypes DEF GetJpeg, PicReply, QueueTypeOK, SsIds
  <2>3. StorageTypeOK'
    BY <1>5, BodyParts, StorageKept DEF GetJpeg, PicReply
  <2>4. RecordTypeOK' /\ EncoderTypeOK'
    BY <1>5, BodyParts DEF GetJpeg, PicReply, RecordTypeOK, EncoderTypeOK, recordVars, encoderVars
  <2>5. faults' \in 0 .. MaxFaults
    BY <1>5, BodyParts DEF GetJpeg, PicReply, countVars, BodyTypeOK
  <2>6. BodyTypeOK'
    BY <2>1, <2>2, <2>3, <2>4, <2>5 DEF BodyTypeOK
  <2> QED
    BY <1>1, <1>2, <2>6, StepTypes
<1>6. CASE NoStorage
  <2>1. CASE FuncKeyStop("NULL", <<Req("AUTO_DEL_LOCK", FALSE)>>, << >>)
    BY <1>1, <1>2, <2>1, FuncKeyStopTypes, SsSends, StepTypes
  <2>2. CASE /\ ssq' = Append(ssq, Req("AUTO_DEL_LOCK", FALSE))
             /\ lock_flag' = 0
             /\ continuing' = FALSE
             /\ UNCHANGED <<cardVars, storageVars, busy, curr, next, has_path,
                            prev_path, cyclic_timer, encoderVars, faults>>
    <3>1. FileTypeOK' /\ StorageTypeOK'
      BY <2>2, BodyParts, FilesKept, StorageKept
    <3>2. EncoderTypeOK' /\ faults' \in 0 .. MaxFaults
      BY <2>2, BodyParts DEF EncoderTypeOK, encoderVars, BodyTypeOK
    <3>5. RecordTypeOK'
      <4>1. lock_flag' = 0 /\ continuing' = FALSE
            /\ UNCHANGED <<busy, curr, next, has_path, prev_path, cyclic_timer>>
        BY <2>2
      <4>2. 0 \in 0 .. 2
        OBVIOUS
      <4>3. lock_flag' \in 0 .. 2
        BY <4>1, <4>2, Zenon
      <4>4. continuing' \in BOOLEAN
        BY <4>1
      <4> QED
        BY <4>1, <4>3, <4>4, BodyParts DEF RecordTypeOK
    <3>3. ssq' \in Seq(SsMsg)
      BY <2>2, BodyParts, QueueTypes, MsgTypes DEF QueueTypeOK, SsIds
    <3>4. BodyTypeOK'
      BY <3>1, <3>2, <3>3, <3>5 DEF BodyTypeOK
    <3> QED
      BY <1>1, <1>2, <3>4, StepTypes
  <2> QED
    BY <1>6, <2>1, <2>2 DEF NoStorage
<1> QED
  BY <1>3, <1>4, <1>5, <1>6

\* So do the replies of the storage task and the cyclic timer.
LEMMA RepliesTypes ==
  ASSUME TypeOK, VidReply \/ VidCyclicReply \/ CyclicVideoRecord, Finish
  PROVE  TypeOK'
<1>1. apq # << >> /\ apq' \in Seq(ApMsg) /\ Head(apq).h \in Handles \cup {NoHandle}
  BY HandleTypes DEF VidReply, VidCyclicReply, CyclicVideoRecord
<1>2. StateTypeOK' /\ UNCHANGED <<inputs, cycles, moves>>
  BY BodyParts DEF VidReply, VidCyclicReply, CyclicVideoRecord, StateTypeOK
<1>3. BodyTypeOK'
  <2>1. CASE VidReply
    BY <1>1, <2>1, ReplyActionTypes DEF VidReply
  <2>2. CASE LateReply(g_next_file_path)
    BY <1>1, <2>2, ReplyActionTypes
  <2>3. CASE /\ next' = IF Head(apq).h = NoHandle THEN next ELSE Head(apq).h
             /\ UNCHANGED <<ssq, cardVars, storageVars, busy, curr, has_path,
                            lock_flag, continuing, prev_path, cyclic_timer,
                            encoderVars, faults>>
    <3>1. FileTypeOK' /\ StorageTypeOK'
      BY <2>3, BodyParts, FilesKept, StorageKept
    <3>2. RecordTypeOK' /\ EncoderTypeOK'
      BY <1>1, <2>3, BodyParts DEF RecordTypeOK, EncoderTypeOK, encoderVars
    <3> QED
      BY <2>3, <3>1, <3>2, BodyParts DEF BodyTypeOK
  <2>4. CASE CyclicVideoRecord
    BY <2>4, SwitchFileTypes DEF CyclicVideoRecord
  <2> QED
    BY <2>1, <2>2, <2>3, <2>4 DEF VidCyclicReply
<1> QED
  BY <1>1, <1>2, <1>3, StepTypes

\* So do the mode key and what the preview makes of the messages that reach it.
LEMMA PreviewTypes ==
  ASSUME TypeOK, ModeKey \/ PreviewCard \/ PreviewRecordKey \/ PreviewIgnores, Finish
  PROVE  TypeOK'
<1>1. CASE PreviewRecordKey
  <2>1. apq' \in Seq(ApMsg)
    <3>1. Tail(apq) \in Seq(ApMsg)
      BY <1>1, BodyParts, QueueTypes DEF PreviewRecordKey, Next_, QueueTypeOK
    <3> QED
      BY <1>1, <3>1, QueueTypes, MsgTypes DEF PreviewRecordKey, ApIds
  <2>2. StateTypeOK' /\ UNCHANGED <<ssq, faults, inputs, cycles, moves>>
    BY <1>1, BodyParts DEF PreviewRecordKey, RecordEntered, StateTypeOK, countVars
  <2>3. FileTypeOK' /\ StorageTypeOK' /\ EncoderTypeOK'
    BY <1>1, BodyParts, FilesKept, StorageKept DEF PreviewRecordKey, EncoderTypeOK, encoderVars
  <2>4. RecordTypeOK'
    <3>1. /\ busy' = FALSE /\ next' = NoHandle /\ lock_flag' = 0 /\ continuing' = FALSE
          /\ UNCHANGED <<curr, has_path, prev_path, cyclic_timer>>
      BY <1>1 DEF PreviewRecordKey, RecordEntered
    <3> QED
      BY <3>1, BodyParts, RecordTypesReset DEF RecordTypeOK
  <2>5. BodyTypeOK'
    BY <2>2, <2>3, <2>4, BodyParts DEF BodyTypeOK
  <2> QED
    BY <2>1, <2>2, <2>5, StepTypes
<1>2. CASE ModeKey \/ PreviewCard \/ PreviewIgnores
  <2>1. apq' \in Seq(ApMsg)
    BY <1>2, HandleTypes DEF ModeKey, PreviewCard, PreviewIgnores
  <2>2. StateTypeOK'
    BY <1>2, BodyParts DEF ModeKey, PreviewCard, PreviewIgnores, StateTypeOK
  <2>3. UNCHANGED <<ssq, cardVars, storageVars, recordVars, encoderVars, countVars>>
    BY <1>2 DEF ModeKey, PreviewCard, PreviewIgnores
  <2>4. BodyTypeOK' /\ UNCHANGED <<inputs, cycles, moves>>
    BY <2>3, BodyKept DEF countVars
  <2> QED
    BY <2>1, <2>2, <2>4, StepTypes
<1> QED
  BY <1>1, <1>2

\* Every message of the state task keeps the types.
LEMMA StateTaskTypes ==
  ASSUME TypeOK, StateTask, Finish
  PROVE  TypeOK'
BY KeysTypes, PackerErrorTypes, OtherTypes, RepliesTypes, PreviewTypes DEF StateTask

-----------------------------------------------------------------------------
(* All of it. *)

\* The storage task and its timers keep the types of the whole system.
LEMMA ServiceTypes ==
  ASSUME TypeOK, Service \/ ServiceTick, Finish
  PROVE  TypeOK'
<1>1. CardTypeOK' /\ StorageTypeOK'
  BY StorageTaskTypes, TickTypes DEF Service, ServiceTick
<1>2. UNCHANGED <<recordVars, unmounted, present_state, again, encoderVars, countVars>>
  BY DEF Service, ServiceTick
<1>3. StateTypeOK' /\ RecordTypeOK' /\ EncoderTypeOK' /\ CountTypeOK'
  BY <1>2, BodyParts
  DEF StateTypeOK, RecordTypeOK, EncoderTypeOK, CountTypeOK, recordVars, encoderVars, countVars
<1>4. done' \subseteq disk'
  BY DEF Finish
<1> QED
  BY <1>1, <1>3, <1>4 DEF TypeOK, CardTypeOK, FileTypeOK

\* So do the user, the cyclic timer and the card.
LEMMA SurroundingsTypes ==
  ASSUME TypeOK, Input \/ CyclicTick \/ MoveCard, Finish
  PROVE  TypeOK'
<1>1. CASE Input \/ CyclicTick
  <2>1. QueueTypeOK'
    <3>1. CASE Input
      <4>1. PICK id \in Inputs : apq' = Append(apq, Msg(id, NoHandle))
        BY <3>1 DEF Input
      <4>2. Msg(id, NoHandle) \in ApMsg
        BY RecordAssumption, MsgTypes DEF InputIds, ApIds
      <4> QED
        BY <3>1, <4>1, <4>2, BodyParts, QueueTypes DEF Input, QueueTypeOK
    <3>2. CASE CyclicTick
      BY <3>2, BodyParts, QueueTypes, MsgTypes DEF CyclicTick, QueueTypeOK, ApIds
    <3> QED
      BY <1>1, <3>1, <3>2
  <2>2. UNCHANGED <<ssq, cardVars, storageVars, recordVars, unmounted,
                   present_state, again, encoderVars, faults, moves>>
    BY <1>1 DEF Input, CyclicTick
  <2>3. FileTypeOK' /\ StorageTypeOK'
    BY <2>2, BodyParts, FilesKept, StorageKept
  <2>4. StateTypeOK' /\ RecordTypeOK' /\ EncoderTypeOK'
    BY <2>2, BodyParts DEF StateTypeOK, RecordTypeOK, EncoderTypeOK, recordVars, encoderVars
  <2>5. CountTypeOK'
    BY <1>1, <2>2, BodyParts, RecordAssumption DEF Input, CyclicTick, CountTypeOK
  <2>6. done' \subseteq Names
    BY <2>3 DEF Finish, FileTypeOK
  <2> QED
    BY <2>1, <2>3, <2>4, <2>5, <2>6 DEF TypeOK, CardTypeOK
<1>2. CASE MoveCard
  <2>1. UNCHANGED <<apq, ssq, disk, opened, storageVars, recordVars, unmounted,
                   present_state, again, encoderVars, inputs, cycles, faults>>
    BY <1>2 DEF MoveCard
  <2>2. card' \in BOOLEAN
    BY <1>2, BodyParts DEF MoveCard, FileTypeOK
  <2>3. FileTypeOK' /\ QueueTypeOK'
    BY <2>1, <2>2, BodyParts DEF FileTypeOK, QueueTypeOK
  <2>4. StorageTypeOK'
    BY <2>1, BodyParts, StorageKept
  <2>5. StateTypeOK' /\ RecordTypeOK' /\ EncoderTypeOK'
    BY <2>1, BodyParts DEF StateTypeOK, RecordTypeOK, EncoderTypeOK, recordVars, encoderVars
  <2>6. CountTypeOK'
    BY <1>2, <2>1, BodyParts, RecordAssumption DEF MoveCard, CountTypeOK
  <2>7. done' \subseteq Names
    BY <2>3 DEF Finish, FileTypeOK
  <2> QED
    BY <2>3, <2>4, <2>5, <2>6, <2>7 DEF TypeOK, CardTypeOK
<1> QED
  BY <1>1, <1>2

\* The types hold at the start.
LEMMA InitTypes == Init => TypeOK
<1> SUFFICES ASSUME Init
             PROVE  TypeOK
  OBVIOUS
<1>1. CardTypeOK
  <2>1. QueueTypeOK
    <3>1. apq = << >> /\ ssq = << >>
      BY DEF Init, CardInit
    <3>2. << >> \in Seq(ApMsg) /\ << >> \in Seq(SsMsg)
      OBVIOUS
    <3> QED
      BY <3>1, <3>2 DEF QueueTypeOK
  <2>2. card = TRUE /\ disk = {} /\ opened = << >>
    BY DEF Init, CardInit
  <2>3. DOMAIN << >> = {}
    OBVIOUS
  <2>4. FileTypeOK
    BY <2>2, <2>3 DEF FileTypeOK
  <2> QED
    BY <2>1, <2>4 DEF CardTypeOK
<1>2. TableTypeOK /\ DelTypeOK /\ CardTimerTypeOK
  <2>1. 0 \in Idx
    BY CardAssumption DEF Idx
  <2>2. TableTypeOK
    BY <2>1 DEF Init, StorageInit, TableTypeOK
  <2>3. /\ g_oldest_avi_file_index \in Idx /\ retry \in 0 .. 3
        /\ del_free \in FreeLevels \cup {0}
    BY <2>1 DEF Init, StorageInit
  <2>4. self_stops \in 0 .. MaxSelfStops
    BY StorageAssumption DEF Init, StorageInit
  <2>5. bkground_del_disble = FALSE /\ step_work = FALSE /\ spc = "idle"
    BY DEF Init, StorageInit
  <2>6. DelTypeOK
    BY <2>3, <2>4, <2>5 DEF DelTypeOK
  <2>7. CardTimerTypeOK
    BY DEF Init, StorageInit, CardTimerTypeOK
  <2> QED
    BY <2>2, <2>6, <2>7
<1>3. StateTypeOK /\ RecordTypeOK /\ EncoderTypeOK
  <2>1. StateTypeOK /\ EncoderTypeOK
    BY DEF Init, StateTypeOK, EncoderTypeOK
  <2>2. /\ busy = FALSE /\ curr = NoHandle /\ next = NoHandle /\ has_path = FALSE
        /\ continuing = FALSE /\ cyclic_timer = FALSE /\ prev_path = NoName
    BY DEF Init
  <2>3. lock_flag \in 0 .. 2
    BY DEF Init
  <2> QED
    BY <2>1, <2>2, <2>3 DEF RecordTypeOK
<1>4. CountTypeOK
  BY RecordAssumption DEF Init, CountTypeOK
<1> QED
  BY <1>1, <1>2, <1>3, <1>4 DEF Init, TypeOK, StorageTypeOK

\* They hold after a stutter.
LEMMA TypesKept ==
  ASSUME TypeOK, UNCHANGED vars
  PROVE  TypeOK'
<1>1. UNCHANGED <<apq, ssq, cardVars, storageVars, recordVars, unmounted, present_state,
                 again, encoderVars, done, countVars>>
  BY DEF vars
<1>2. FileTypeOK' /\ StorageTypeOK' /\ QueueTypeOK'
  BY <1>1, BodyParts, FilesKept, StorageKept DEF QueueTypeOK
<1>3. StateTypeOK' /\ RecordTypeOK' /\ EncoderTypeOK' /\ CountTypeOK'
  BY <1>1, BodyParts
  DEF StateTypeOK, RecordTypeOK, EncoderTypeOK, CountTypeOK, recordVars, encoderVars, countVars
<1> QED
  BY <1>1, <1>2, <1>3 DEF TypeOK, CardTypeOK

\* They are inductive.
LEMMA TypeStep == TypeOK /\ [Next]_vars => TypeOK'
BY TypesKept, StateTaskTypes, ServiceTypes, SurroundingsTypes DEF Next

\* TypeOK holds in every reachable state, for every value of the constants.
\* That the search for a free number and open() never leave their tables
\* (FreeIndexType, OpenHandleType) is the part that is not bookkeeping.
THEOREM TypeCorrect == Spec => []TypeOK
BY InitTypes, TypeStep, PTL DEF Spec
=============================================================================

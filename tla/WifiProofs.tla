---- MODULE WifiProofs ----
(* Proofs about WifiDownload, for files and reads of any size, any number of downloads and any     *)
(* number of failed reads.                                                                         *)
EXTENDS WifiDownload, TLAPS

(* The inductive invariant: types, flags, and where the reads start.                               *)
IndInv == TypeOK /\ FlagsInv /\ OffsetInv

LEMMA Constants == FileSizes \subseteq Nat /\ Block \in Nat /\ Block > 0
BY DownloadAssumption

(* A read gives no more than a block, and no more than the file has left.                          *)
LEMMA ReadsGive ==
    ASSUME TypeOK
    PROVE  /\ BytesRead \in 0 .. Block
           /\ job_from <= wanted => /\ job_from + BytesRead <= wanted
                                    /\ BytesRead = LeastOf(Block, wanted - job_from)
BY Constants DEF TypeOK, BytesRead, LeastOf

LEMMA Others == \A x \in Buffers : OtherBuffer(x) \in Buffers /\ OtherBuffer(x) # x
                                   /\ OtherBuffer(OtherBuffer(x)) = x
BY DEF Buffers, OtherBuffer

(* What the end of a read or of an opening does to the flags of the two buffers.                   *)
LEMMA FillEndsSets ==
    ASSUME NEW n \in 0 .. Block \cup {Bad}, TypeOK, FillEnds(n)
    PROVE  /\ buf_dl_flag' \in [Buffers -> {0, 1, Over}]
           /\ buf_dl_size' \in [Buffers -> 0 .. Block \cup {Bad}]
           /\ job_buf \in Buffers
           /\ buf_dl_flag'[job_buf] = 1
           /\ buf_dl_size'[job_buf] = n
           /\ \A y \in Buffers : y # job_buf => /\ buf_dl_flag'[y] = buf_dl_flag[y]
                                                /\ buf_dl_size'[y] = buf_dl_size[y]
           /\ job = "fill" /\ job' = "switch"
           /\ UNCHANGED <<socketVars, wifi_dl_cnt, job_buf, job_dl, job_from, curr_buf>>
BY DEF FillEnds, TypeOK

(* A read, whether it succeeds or fails, and an opening that fails.                                *)
FillStep == EndFill \/ ReadFails \/ OpenFails

LEMMA FillStepEnds ==
    ASSUME TypeOK, FillStep
    PROVE  \E n \in 0 .. Block \cup {Bad} : FillEnds(n)
BY ReadsGive DEF FillStep, EndFill, ReadFails, OpenFails

LEMMA InitInv == Init => IndInv
BY Constants
DEF Init, IndInv, TypeOK, FlagsInv, Ended, NextBuf, OffsetInv, Buffers, Nobody, Freeing, Bad, Over, Unread,
    NoFile, ReadFrom

--------------------------------------------------------------------------------------------------
LEMMA TypeStep == IndInv /\ [Next]_vars => TypeOK'
<1> SUFFICES ASSUME IndInv, [Next]_vars
             PROVE  TypeOK'
  OBVIOUS
<1> USE Constants DEF Bad, Nobody, Freeing, Over, Buffers, Unread, Garbage
<1>0. TypeOK /\ FlagsInv
  BY DEF IndInv
<1>1. ASSUME Start
      PROVE  TypeOK'
  <2>1. clean' \in BOOLEAN
    BY <1>1, Zenon DEF Start
  <2>9. torn' \in BOOLEAN
    <3>1. CASE job \in {"look", "fill", "switch"}
      BY <1>1, <3>1 DEF Start
    <3>2. CASE job \notin {"look", "fill", "switch"}
      BY <1>1, <3>2 DEF Start
    <3> QED
      BY <3>1, <3>2
  <2>2. got' \in Seq(Int)
    BY <1>1 DEF Start
  <2>3. dl' \in Nat /\ wanted' \in Nat
    BY <1>0, <1>1 DEF Start, TypeOK
  <2>4. /\ buf_dl_flag' \in [Buffers -> {0, 1, Over}]
        /\ data' \in [Buffers -> Int]
    BY <1>1 DEF Start, FreshFlags
  <2>5. /\ wifi_dl_state' = "active" /\ wifi_dl_cur_size' = 0 /\ file_size' = 0 /\ file_offset' = 0
        /\ play_index' = NoFile
        /\ curr_wifi' = 0 /\ curr_buf' = 1 /\ cut' = FALSE
        /\ UNCHANGED <<storageVars, buf_dl_size, sending, left>>
    BY <1>1 DEF Start
  <2>6. /\ wifi_dl_state' \in {"idle", "active"} /\ wifi_dl_cur_size' \in Nat
        /\ curr_wifi' \in Buffers /\ curr_buf' \in Buffers
        /\ buf_dl_size' \in [Buffers -> 0 .. Block \cup {Bad}]
        /\ play_index' \in Int /\ file_size' \in Nat /\ file_offset' \in Int /\ wifi_dl_cnt' \in {0, 1}
        /\ sending' \in Buffers \cup {Nobody, Freeing} /\ left' \in 0 .. Block \cup {Bad}
    BY <1>0, <2>5 DEF TypeOK, storageVars, NoFile
  <2>7. /\ job' \in {"none", "compare", "more", "look", "fill", "switch", "over", "say"}
        /\ job_buf' \in Buffers /\ job_dl' \in Nat
        /\ job_from' \in Int /\ faults' \in Nat
    BY <1>0, <2>5 DEF TypeOK, storageVars
  <2>8. cut' \in BOOLEAN
    BY <2>5
  <2> QED
    BY <2>1, <2>2, <2>3, <2>4, <2>6, <2>7, <2>8, <2>9, Zenon DEF TypeOK
<1>2. ASSUME StartRefused
      PROVE  TypeOK'
  BY <1>0, <1>2 DEF StartRefused, TypeOK, storageVars, sharedVars, fileInfo
<1>3. ASSUME NEW early \in BOOLEAN, EndDownload(early)
      PROVE  TypeOK'
  BY <1>0, <1>3 DEF EndDownload, TypeOK, storageVars, sharedVars, fileInfo
<1>4. ASSUME NEW x \in Buffers, BeginSend(x)
      PROVE  TypeOK'
  BY <1>0, <1>4 DEF BeginSend, Sent, TypeOK, storageVars, fileInfo
<1>5. ASSUME SendPacket
      PROVE  TypeOK'
  <2>1. PacketOf(sending) \in Int
    BY <1>0, <1>5 DEF SendPacket, PacketOf, TypeOK
  <2>2. left # 0
    BY <1>0, <1>5 DEF SendPacket, FlagsInv
  <2> QED
    <3>1. left' \in 0 .. Block \cup {Bad} /\ sending' \in Buffers \cup {Nobody}
      BY <1>0, <1>5, <2>2 DEF SendPacket, Sent, TypeOK
    <3>2. curr_wifi' \in Buffers /\ buf_dl_flag' \in [Buffers -> {0, 1, Over}]
      BY <1>0, <1>5 DEF SendPacket, Sent, TypeOK
    <3>3. wifi_dl_cur_size' \in Nat /\ got' \in Seq(Int)
      BY <1>0, <1>5, <2>1 DEF SendPacket, TypeOK
    <3>4. UNCHANGED <<storageVars, wifi_dl_state, wanted, dl, clean, torn, cut,
                      curr_buf, buf_dl_size, fileInfo, data>>
      BY <1>5 DEF SendPacket
    <3> QED
      BY <1>0, <3>1, <3>2, <3>3, <3>4 DEF TypeOK, storageVars, fileInfo
<1>6. ASSUME Freed
      PROVE  TypeOK'
  BY <1>0, <1>6 DEF Freed, TypeOK, storageVars, sharedVars, fileInfo
<1>7. ASSUME MessageIdle \/ MessageActive \/ FindMore \/ FindOver \/ Look \/ NothingEmpty
      PROVE  TypeOK'
  <2>1. /\ UNCHANGED <<socketVars, sharedVars, job_dl, job_from, faults>>
        /\ job_buf' \in Buffers /\ wifi_dl_cnt' \in {0, 1}
        /\ job' \in {"none", "compare", "more", "look", "over", "say"}
    BY <1>0, <1>7
    DEF MessageIdle, MessageActive, FindMore, FindOver, Look, NothingEmpty, TypeOK
  <2> QED
    BY <1>0, <2>1 DEF TypeOK, socketVars, sharedVars, fileInfo
<1>8. ASSUME BeginFill
      PROVE  TypeOK'
  BY <1>0, <1>8 DEF BeginFill, ReadFrom, TypeOK, socketVars, sharedVars, fileInfo
<1>9. ASSUME FillStep
      PROVE  TypeOK'
  <2>1. PICK n \in 0 .. Block \cup {Bad} : FillEnds(n)
    BY <1>0, <1>9, FillStepEnds
  <2>2. /\ play_index' \in Int /\ file_size' \in Nat /\ file_offset' \in Int
    <3>1. ASSUME NEW m \in Int, FileRead(m)
          PROVE  play_index' \in Int /\ file_size' \in Nat /\ file_offset' \in Int
      BY <1>0, <3>1 DEF FileRead, TypeOK
    <3>2. CASE EndFill
      BY <1>0, <3>1, <3>2, ReadsGive DEF EndFill
    <3>3. CASE ReadFails
      BY <3>1, <3>3 DEF ReadFails
    <3>4. CASE OpenFails
      <4>1. file_size' = file_size
        BY <3>4 DEF OpenFails
      <4>2. CASE job_dl = dl
        BY <1>0, <3>4, <4>1, <4>2 DEF OpenFails, TypeOK
      <4>3. CASE job_dl # dl
        <5>1. play_index' \in {play_index} \cup FileSizes /\ file_offset' = file_offset
          BY <3>4, <4>3 DEF OpenFails
        <5> QED
          BY <1>0, <4>1, <5>1 DEF TypeOK
      <4> QED
        BY <4>2, <4>3
    <3> QED
      BY <1>9, <3>2, <3>3, <3>4 DEF FillStep
  <2>3. data' \in [Buffers -> Int] /\ faults' \in Nat
    BY <1>0, <1>9 DEF FillStep, EndFill, ReadFails, OpenFails, Filled, TypeOK
  <2>4. /\ buf_dl_flag' \in [Buffers -> {0, 1, Over}]
        /\ buf_dl_size' \in [Buffers -> 0 .. Block \cup {Bad}]
        /\ job' = "switch"
        /\ UNCHANGED <<socketVars, wifi_dl_cnt, job_buf, job_dl, job_from, curr_buf>>
    BY <1>0, <2>1, FillEndsSets
  <2> QED
    BY <1>0, <2>2, <2>3, <2>4 DEF TypeOK, socketVars
<1>10. ASSUME SwitchBuffer
       PROVE  TypeOK'
  BY <1>0, <1>10, Others DEF SwitchBuffer, Switch, TypeOK, socketVars, fileInfo
<1>11. ASSUME SayOver
       PROVE  TypeOK'
  BY <1>0, <1>11 DEF SayOver, TypeOK, socketVars, fileInfo
<1>12. ASSUME UNCHANGED vars
       PROVE  TypeOK'
  BY <1>0, <1>12 DEF vars, socketVars, storageVars, sharedVars, fileInfo, TypeOK
<1> QED
  BY <1>1, <1>2, <1>3, <1>4, <1>5, <1>6, <1>7, <1>8, <1>9, <1>10, <1>11, <1>12
  DEF Next, SocketStep, StorageStep, FaultStep, Cancel, SendFails, Finish, FillStep

--------------------------------------------------------------------------------------------------
(* A cancelled or finished download leaves the flags alone; one that is finished has been said to  *)
(* be over, and then nothing is being filled.                                                      *)
LEMMA FlagsStep == IndInv /\ [Next]_vars => FlagsInv'
<1> SUFFICES ASSUME IndInv, [Next]_vars
             PROVE  FlagsInv'
  OBVIOUS
<1> USE DEF Nobody, Freeing, Over, Buffers, FlagsInv, Ended, NextBuf, OtherBuffer
<1>0. TypeOK /\ FlagsInv
  BY DEF IndInv
<1>1. ASSUME Start
      PROVE  FlagsInv'
  <2>1. ~clean' \/ job = "none"
    BY <1>1, Zenon DEF Start
  <2>2. \A x \in Buffers : buf_dl_flag'[x] = 0
    BY <1>1 DEF Start, FreshFlags
  <2>3. /\ sending' = sending /\ left' = left /\ job' = job /\ job_dl' = job_dl /\ job_buf' = job_buf
        /\ wifi_dl_cnt' = wifi_dl_cnt /\ dl' = dl + 1 /\ wifi_dl_state' = "active" /\ wifi_dl_state = "idle"
        /\ curr_wifi' = 0 /\ curr_buf' = 1
    BY <1>1 DEF Start, storageVars
  <2> QED
    BY <1>0, <2>1, <2>2, <2>3 DEF TypeOK
<1>2. ASSUME StartRefused
      PROVE  FlagsInv'
  BY <1>0, <1>2 DEF StartRefused, TypeOK, storageVars, sharedVars
<1>3. ASSUME NEW early \in BOOLEAN, EndDownload(early), wifi_dl_state = "active",
             early \/ (buf_dl_flag[NextBuf] = Over /\ job # "fill")
      PROVE  FlagsInv'
  BY <1>0, <1>3 DEF EndDownload, TypeOK, storageVars, sharedVars
<1>4. ASSUME Freed
      PROVE  FlagsInv'
  BY <1>0, <1>4 DEF Freed, TypeOK, storageVars, sharedVars
<1>5. ASSUME NEW x \in Buffers, BeginSend(x)
      PROVE  FlagsInv'
  BY <1>0, <1>5 DEF BeginSend, Ready, Sent, TypeOK, storageVars
<1>6. ASSUME SendPacket
      PROVE  FlagsInv'
  BY <1>0, <1>6 DEF SendPacket, Sent, TypeOK, storageVars, Bad
<1>7. ASSUME MessageIdle \/ MessageActive \/ FindMore \/ FindOver
      PROVE  FlagsInv'
  <2>1. /\ UNCHANGED <<wifi_dl_state, curr_wifi, curr_buf, buf_dl_flag, sending, left, dl, clean, cut,
                        job_buf, job_dl>>
        /\ \/ job = "none" /\ job' = "none"
           \/ job = "none" /\ job' = "compare" /\ wifi_dl_state = "active"
           \/ job = "compare" /\ job' = "more" /\ wifi_dl_cnt' = 1
           \/ job = "compare" /\ job' = "over" /\ wifi_dl_cnt' = 0
    BY <1>7 DEF MessageIdle, MessageActive, FindMore, FindOver, socketVars, sharedVars
  <2> QED
    BY <1>0, <2>1 DEF TypeOK
<1>8. ASSUME Look \/ NothingEmpty
      PROVE  FlagsInv'
  <2>1. /\ UNCHANGED <<wifi_dl_state, curr_wifi, curr_buf, buf_dl_flag, sending, left, dl, clean, cut,
                        job_dl, wifi_dl_cnt>>
        /\ \/ job = "more" /\ job' = "look" /\ job_buf' = curr_buf
           \/ job = "over" /\ job' = "say" /\ job_buf' = curr_buf
           \/ job = "look" /\ job' = "none" /\ job_buf' = job_buf
    BY <1>8 DEF Look, NothingEmpty, socketVars, sharedVars
  <2> QED
    BY <1>0, <2>1 DEF TypeOK
<1>9. ASSUME BeginFill
      PROVE  FlagsInv'
  BY <1>0, <1>9 DEF BeginFill, Empty, TypeOK, socketVars, sharedVars
<1>10. ASSUME FillStep
       PROVE  FlagsInv'
  <2>1. PICK n \in 0 .. Block \cup {Bad} : FillEnds(n)
    BY <1>0, <1>10, FillStepEnds
  <2>2. /\ job_buf \in Buffers /\ buf_dl_flag'[job_buf] = 1
        /\ \A y \in Buffers : y # job_buf => buf_dl_flag'[y] = buf_dl_flag[y]
        /\ job = "fill" /\ job' = "switch"
        /\ UNCHANGED <<socketVars, wifi_dl_cnt, job_buf, job_dl, curr_buf>>
    BY <1>0, <2>1, FillEndsSets
  <2> QED
    BY <1>0, <2>2 DEF TypeOK, socketVars
<1>11. ASSUME SwitchBuffer
       PROVE  FlagsInv'
  BY <1>0, <1>11 DEF SwitchBuffer, Switch, TypeOK, socketVars
<1>12. ASSUME SayOver
       PROVE  FlagsInv'
  BY <1>0, <1>12 DEF SayOver, TypeOK, socketVars
<1>13. ASSUME UNCHANGED vars
       PROVE  FlagsInv'
  BY <1>0, <1>13 DEF vars, socketVars, storageVars, sharedVars, TypeOK
<1>14. Finish => wifi_dl_state = "active" /\ buf_dl_flag[NextBuf] = Over /\ job # "fill"
  BY <1>0 DEF Finish, AllSent, TypeOK
<1>15. Cancel \/ SendFails => wifi_dl_state = "active" /\ EndDownload(TRUE)
  <2>1. SendFails => wifi_dl_state = "active"
    BY <1>0 DEF SendFails
  <2>2. SendFails => EndDownload(TRUE)
    BY Zenon DEF SendFails
  <2>3. Cancel => wifi_dl_state = "active" /\ EndDownload(TRUE)
    BY Zenon DEF Cancel
  <2> QED
    BY <2>1, <2>2, <2>3, Zenon
<1>16. CASE SocketStep
  BY <1>3, <1>4, <1>5, <1>6, <1>14, <1>16 DEF SocketStep, Finish
<1>17. CASE StorageStep
  BY <1>7, <1>8, <1>9, <1>10, <1>11, <1>12, <1>17 DEF StorageStep, FillStep
<1>18. CASE FaultStep
  BY <1>2, <1>3, <1>10, <1>15, <1>18 DEF FaultStep, FillStep
<1> QED
  BY <1>1, <1>13, <1>16, <1>17, <1>18 DEF Next

LEMMA OffsetStep == IndInv /\ [Next]_vars => OffsetInv'
<1> SUFFICES ASSUME IndInv, [Next]_vars
             PROVE  OffsetInv'
  OBVIOUS
<1> USE Constants DEF Bad, OffsetInv, ReadFrom, NoFile
<1>0. TypeOK /\ FlagsInv /\ OffsetInv
  BY DEF IndInv
<1>1. ASSUME Start
      PROVE  OffsetInv'
  <2>1. clean' => job = "none"
    BY <1>1, Zenon DEF Start
  <2>2. /\ play_index' = NoFile /\ file_size' = 0 /\ file_offset' = 0 /\ job' = job /\ wanted' \in FileSizes
    BY <1>1 DEF Start, storageVars
  <2> QED
    BY <2>1, <2>2
<1>2. ASSUME UNCHANGED <<fileInfo, wanted, clean, job_from>>, job' = job \/ job' # "fill"
      PROVE  OffsetInv'
  BY <1>0, <1>2 DEF fileInfo
<1>3. ASSUME BeginFill
      PROVE  OffsetInv'
  BY <1>0, <1>3 DEF BeginFill, TypeOK, socketVars, sharedVars, fileInfo
<1>4. ASSUME FillStep
      PROVE  OffsetInv'
  <2> SUFFICES ASSUME clean
               PROVE  OffsetInv'
    BY <1>4 DEF FillStep, EndFill, ReadFails, OpenFails, FillEnds, socketVars
  <2>1. /\ job' = "switch" /\ job = "fill" /\ wanted' = wanted /\ clean' = clean
    BY <1>4 DEF FillStep, EndFill, ReadFails, OpenFails, FillEnds, socketVars
  <2>2. job_dl = dl /\ job_from = ReadFrom /\ job_from <= wanted /\ wanted \in Nat /\ job_from \in Int
    BY <1>0, <2>1 DEF FlagsInv, TypeOK
  <2>3. CASE EndFill
    <3>1. FileRead(BytesRead)
      BY <2>2, <2>3 DEF EndFill
    <3> QED
      BY <1>0, <2>1, <2>2, <3>1, ReadsGive DEF FileRead
  <2>4. CASE ReadFails
    BY <2>1, <2>2, <2>4 DEF ReadFails, FileRead
  <2>5. CASE OpenFails
    BY <1>0, <2>1, <2>2, <2>5 DEF OpenFails, TypeOK
  <2> QED
    BY <1>4, <2>3, <2>4, <2>5 DEF FillStep
<1>5. ASSUME StartRefused \/ SendPacket \/ (\E x \in Buffers : BeginSend(x)) \/ Freed
             \/ Cancel \/ SendFails \/ Finish \/ UNCHANGED vars
      PROVE  OffsetInv'
  BY <1>2, <1>5, Zenon
  DEF StartRefused, SendPacket, BeginSend, Freed, Cancel, SendFails, Finish,
      EndDownload, vars, socketVars, storageVars, sharedVars
<1>6. ASSUME MessageIdle \/ MessageActive \/ FindMore \/ FindOver \/ Look \/ NothingEmpty \/ SwitchBuffer \/ SayOver
      PROVE  OffsetInv'
  <2>1. UNCHANGED <<fileInfo, wanted, clean, job_from>> /\ (job' = job \/ job' # "fill")
    BY <1>6
    DEF MessageIdle, MessageActive, FindMore, FindOver, Look, NothingEmpty, SwitchBuffer, SayOver,
        socketVars, sharedVars
  <2> QED
    BY <1>2, <2>1
<1> QED
  BY <1>1, <1>3, <1>4, <1>5, <1>6 DEF Next, SocketStep, StorageStep, FaultStep, FillStep

(* The types with the flags and the offsets of the two tasks: what the invariants below stand on.  *)
THEOREM IndInvCorrect == Spec => []IndInv
<1>1. IndInv /\ [Next]_vars => IndInv'
  BY TypeStep, FlagsStep, OffsetStep DEF IndInv
<1> QED
  BY InitInv, <1>1, PTL DEF Spec

(* Every variable keeps its type in every download; the number behind it is that a buffer being    *)
(* sent is never down to zero packets.                                                             *)
THEOREM TypeCorrect == Spec => []TypeOK
BY IndInvCorrect, PTL DEF IndInv

(* The double buffering of the download: the buffer being sent is not the one being read into.     *)
THEOREM ExclusiveHolds == Spec => []Exclusive
<1>1. IndInv => Exclusive
  BY DEF IndInv, FlagsInv, TypeOK, Exclusive, Filling, Buffers, Nobody, Freeing
<1> QED
  BY IndInvCorrect, <1>1, PTL

(* No read goes on into the buffers of a download that ended with everything sent.                 *)
THEOREM NoFillAfterFreeHolds == Spec => []NoFillAfterFree
<1>1. IndInv => NoFillAfterFree
  BY DEF IndInv, FlagsInv, TypeOK, NoFillAfterFree, Ended
<1> QED
  BY IndInvCorrect, <1>1, PTL

--------------------------------------------------------------------------------------------------
(* The order of what is sent.  In a download that started with the storage task at rest the two    *)
(* buffers are empty, or the next one to be sent is filled, or both are, and each step keeps that  *)
(* shape or leads to the next: the lemmas below take one step each.                                *)
Running == IndInv /\ clean /\ ~Ended /\ PlacesInv

LEMMA RunningParts ==
    ASSUME Running
    PROVE  TypeOK /\ FlagsInv /\ OffsetInv /\ BuffersInv /\ TaskInv /\ clean /\ wifi_dl_state = "active"
BY DEF Running, IndInv, PlacesInv, Ended, TypeOK

(* What all of them use: the two buffers, and that the shapes exclude each other.                  *)
LEMMA Shapes ==
    ASSUME TypeOK
    PROVE  /\ Waits \in Buffers /\ Spent \in Buffers /\ Waits # Spent
           /\ Waits # Nobody /\ Spent # Nobody
           /\ OtherBuffer(Waits) = Spent /\ OtherBuffer(Spent) = Waits
           /\ \A x \in Buffers : x = Waits \/ x = Spent
           /\ NextBuf \in Buffers
           /\ ~(BothEmpty /\ OneFilled) /\ ~(BothEmpty /\ TwoFilled) /\ ~(OneFilled /\ TwoFilled)
<1>1. /\ Waits \in Buffers /\ Spent \in Buffers /\ Waits # Spent
      /\ Waits # Nobody /\ Spent # Nobody
      /\ OtherBuffer(Waits) = Spent /\ OtherBuffer(Spent) = Waits
      /\ \A x \in Buffers : x = Waits \/ x = Spent
      /\ NextBuf \in Buffers
  BY DEF Waits, Spent, OtherBuffer, TypeOK, Buffers, Nobody, NextBuf
<1>2. ~(BothEmpty /\ OneFilled) /\ ~(BothEmpty /\ TwoFilled) /\ ~(OneFilled /\ TwoFilled)
  BY <1>1 DEF BothEmpty, OneFilled, TwoFilled
<1> QED
  BY <1>1, <1>2

(* No buffer says that nothing more comes while one is being filled.                               *)
LEMMA NotOver ==
    ASSUME Running, job = "fill"
    PROVE  /\ \A x \in Buffers : buf_dl_flag[x] # Over
           /\ job_buf = NextBuf /\ buf_dl_flag[NextBuf] = 0 /\ job_dl = dl /\ ~TwoFilled
           /\ wifi_dl_cnt = 1
<1>1. TypeOK /\ FlagsInv /\ BuffersInv /\ clean
  BY RunningParts
<1>2. job_buf = NextBuf /\ buf_dl_flag[NextBuf] = 0 /\ job_dl = dl /\ wifi_dl_cnt = 1
  BY <1>1 DEF FlagsInv, NextBuf
<1>3. ~TwoFilled
  BY <1>2 DEF TwoFilled
<1>4. BothEmpty \/ OneFilled
  BY <1>1, <1>3 DEF BuffersInv
<1>5. ASSUME NEW x \in Buffers, buf_dl_flag[x] = Over
      PROVE  FALSE
  <2>1. x = Spent /\ NextBuf = OtherBuffer(x)
    BY <1>1, <1>5 DEF FlagsInv, Spent
  <2>2. NextBuf = Waits
    BY <1>1, <2>1, Shapes
  <2> QED
    BY <1>1, <1>4, <1>5, <2>1, <2>2, Shapes DEF BothEmpty, OneFilled, Over
<1> QED
  BY <1>2, <1>3, <1>5

(* The steps that touch neither the buffers nor the file, only what the storage task is doing.     *)
Frame == <<wifi_dl_cur_size, curr_wifi, sending, left, got, wanted, buf_dl_flag, buf_dl_size, data, fileInfo>>

LEMMA FrameKeeps ==
    ASSUME UNCHANGED Frame, NextBuf' = NextBuf, BuffersInv
    PROVE  /\ BuffersInv'
           /\ (OneFilled' <=> OneFilled) /\ (BothEmpty' <=> BothEmpty) /\ (TwoFilled' <=> TwoFilled)
           /\ Waits' = Waits
<1>1. Waits' = Waits /\ Spent' = Spent
  BY DEF Frame, Waits, Spent
<1> HIDE DEF Waits, Spent
<1>2. /\ (Stuck' <=> Stuck) /\ (OneFilled' <=> OneFilled) /\ (BothEmpty' <=> BothEmpty)
      /\ (TwoFilled' <=> TwoFilled) /\ FirstPlace' = FirstPlace
      /\ ReadFrom' = ReadFrom /\ Behind(Waits)' = Behind(Waits) /\ Behind(Spent)' = Behind(Spent)
  BY <1>1 DEF Frame, fileInfo, Stuck, OneFilled, BothEmpty, TwoFilled, FirstPlace, ReadFrom, Behind
<1>3. /\ (Holds(Waits, FirstPlace)' <=> Holds(Waits, FirstPlace))
      /\ (Holds(Spent, Behind(Waits))' <=> Holds(Spent, Behind(Waits)))
      /\ (Prefix(got)' <=> Prefix(got))
  BY <1>1, <1>2 DEF Frame, fileInfo, Holds, Prefix
<1>4. /\ buf_dl_size' = buf_dl_size /\ sending' = sending /\ left' = left /\ file_size' = file_size
      /\ wifi_dl_cur_size' = wifi_dl_cur_size /\ wanted' = wanted
  BY DEF Frame, fileInfo
<1>5. BuffersInv'
  BY <1>1, <1>2, <1>3, <1>4 DEF BuffersInv
<1> QED
  BY <1>1, <1>2, <1>5

LEMMA PlacesQuiet ==
    ASSUME Running,
           MessageActive \/ FindMore \/ FindOver \/ Look \/ NothingEmpty \/ BeginFill \/ SwitchBuffer
             \/ UNCHANGED vars
    PROVE  PlacesInv'
<1>1. TypeOK /\ FlagsInv /\ OffsetInv /\ BuffersInv /\ TaskInv
  BY RunningParts
<1>2. UNCHANGED Frame
  BY DEF MessageActive, FindMore, FindOver, Look, NothingEmpty, BeginFill, SwitchBuffer, vars,
         socketVars, sharedVars, Frame
<1>3. NextBuf' = NextBuf
  BY DEF MessageActive, FindMore, FindOver, Look, NothingEmpty, BeginFill, SwitchBuffer, vars, Switch,
         storageVars, sharedVars, NextBuf
<1>4. /\ BuffersInv' /\ (OneFilled' <=> OneFilled) /\ (BothEmpty' <=> BothEmpty) /\ Waits' = Waits
      /\ UNCHANGED <<file_size, wanted, buf_dl_flag, wifi_dl_cur_size>>
  BY <1>1, <1>2, <1>3, FrameKeeps DEF Frame, fileInfo
<1>5. \/ job' = job /\ wifi_dl_cnt' = wifi_dl_cnt
      \/ job = "none" /\ job' = "compare" /\ wifi_dl_cnt' = wifi_dl_cnt
      \/ job = "compare" /\ job' = "more" /\ wifi_dl_cnt' = 1 /\ MoreToRead
      \/ job = "compare" /\ job' = "over" /\ wifi_dl_cnt' = 0 /\ ~MoreToRead
      \/ job = "more" /\ job' = "look" /\ wifi_dl_cnt' = wifi_dl_cnt
      \/ job = "over" /\ job' = "say" /\ wifi_dl_cnt' = wifi_dl_cnt
      \/ job = "look" /\ job' = "fill" /\ wifi_dl_cnt' = wifi_dl_cnt
      \/ job = "look" /\ job' = "none" /\ wifi_dl_cnt' = wifi_dl_cnt /\ buf_dl_flag[NextBuf] # 0
      \/ job = "switch" /\ job' = "none" /\ wifi_dl_cnt' = wifi_dl_cnt
  BY <1>1, RunningParts
  DEF MessageActive, FindMore, FindOver, Look, NothingEmpty, BeginFill, SwitchBuffer, vars, storageVars, FlagsInv,
      NextBuf, Empty
<1>6. file_size \in Nat /\ wifi_dl_cur_size \in Nat /\ wifi_dl_cnt \in {0, 1} /\ file_size \in {0, wanted}
  BY <1>1, RunningParts DEF TypeOK, OffsetInv
<1>7. ASSUME BothEmpty, AtStart
      PROVE  AtStart'
  <2>1. job # "look" \/ buf_dl_flag[NextBuf] = 0
    BY <1>7 DEF BothEmpty, AtStart
  <2>2. job # "switch" /\ job \notin {"over", "say"} /\ file_size = 0 /\ wifi_dl_cur_size = 0
    BY <1>7 DEF AtStart
  <2>3. \/ job' \in {"none", "compare"} /\ wifi_dl_cnt' = 0
        \/ job' \in {"more", "look", "fill"}
    BY <1>5, <1>7, <2>1, <2>2 DEF AtStart, MoreToRead
  <2> QED
    BY <1>4, <1>7, <2>2, <2>3 DEF AtStart
<1>8. ASSUME OneFilled, job' \in {"more", "look", "fill"}
      PROVE  file_size = wanted \/ buf_dl_flag[NextBuf] = Over
  <2>1. CASE job = "compare"
    <3>1. file_size # 0 \/ wifi_dl_cnt = 0
      BY <1>5, <1>6, <1>8, <2>1 DEF MoreToRead
    <3> QED
      BY <1>1, <1>6, <1>8, <2>1, <3>1, Shapes DEF TaskInv
  <2>2. CASE job # "compare"
    BY <1>1, <1>5, <1>8, <2>2 DEF TaskInv
  <2> QED
    BY <2>1, <2>2
<1>9. ASSUME wifi_dl_cnt' = 0, job' \in {"none", "compare"}
      PROVE  buf_dl_flag[NextBuf] = Over \/ (BothEmpty /\ AtStart)
  <2>1. wifi_dl_cnt = 0 /\ job \in {"none", "compare"}
    BY <1>1, <1>5, <1>9 DEF FlagsInv
  <2> QED
    BY <1>1, <2>1 DEF TaskInv
<1>10. ASSUME job' \in {"over", "say"} \/ \E x \in Buffers : buf_dl_flag[x] = Over
       PROVE  file_size <= wifi_dl_cur_size
  <2>1. CASE job = "compare" /\ job' = "over"
    BY <1>5, <1>6, <2>1 DEF MoreToRead
  <2>2. CASE ~(job = "compare" /\ job' = "over")
    BY <1>1, <1>5, <1>10, <2>2 DEF TaskInv
  <2> QED
    BY <2>1, <2>2
<1>11. TaskInv'
  BY <1>1, <1>3, <1>4, <1>7, <1>8, <1>9, <1>10 DEF TaskInv
<1> QED
  BY <1>4, <1>11 DEF PlacesInv

(* The end is said: at a buffer that is empty, or behind one that is sent for ever, or at one with *)
(* nothing in it.                                                                                  *)
LEMMA PlacesSayOver ==
    ASSUME Running, SayOver
    PROVE  PlacesInv'
<1>1. TypeOK /\ FlagsInv /\ OffsetInv /\ BuffersInv /\ TaskInv /\ clean
  BY RunningParts
<1>2. /\ job = "say" /\ job' = "none" /\ job_buf = NextBuf /\ NextBuf' = NextBuf
      /\ UNCHANGED <<wifi_dl_cur_size, curr_wifi, sending, left, got, wanted, buf_dl_size, data, fileInfo>>
  BY <1>1 DEF SayOver, FlagsInv, NextBuf, socketVars
<1>3. /\ buf_dl_flag'[NextBuf] = Over
      /\ \A y \in Buffers : y # NextBuf => buf_dl_flag'[y] = buf_dl_flag[y]
  BY <1>1, <1>2, Shapes DEF SayOver, TypeOK
<1>4. Waits' = Waits /\ Spent' = Spent
  BY <1>2 DEF Waits, Spent
<1>5. Waits \in Buffers /\ Spent \in Buffers /\ Waits # Spent
  BY <1>1, Shapes
<1> HIDE DEF Waits, Spent
<1>6. /\ (OneFilled => OneFilled') /\ (BothEmpty => BothEmpty') /\ (TwoFilled => TwoFilled')
      /\ ~(BothEmpty' /\ OneFilled') /\ ~(BothEmpty' /\ TwoFilled') /\ ~(OneFilled' /\ TwoFilled')
  BY <1>2, <1>3, <1>4, <1>5 DEF OneFilled, BothEmpty, TwoFilled, Over
<1>7. /\ (OneFilled <=> OneFilled') /\ (BothEmpty <=> BothEmpty') /\ (TwoFilled <=> TwoFilled')
  BY <1>1, <1>6 DEF BuffersInv
<1>8. /\ (Stuck' <=> Stuck) /\ FirstPlace' = FirstPlace
      /\ ReadFrom' = ReadFrom /\ Behind(Waits)' = Behind(Waits) /\ Behind(Spent)' = Behind(Spent)
  BY <1>2, <1>4 DEF fileInfo, Stuck, FirstPlace, ReadFrom, Behind
<1>9. /\ (Holds(Waits, FirstPlace)' <=> Holds(Waits, FirstPlace))
      /\ (Holds(Spent, Behind(Waits))' <=> Holds(Spent, Behind(Waits)))
      /\ (Prefix(got)' <=> Prefix(got))
  BY <1>2, <1>4, <1>8 DEF fileInfo, Holds, Prefix
<1>10. file_size' = file_size
  BY <1>2 DEF fileInfo
<1>11. BuffersInv'
  BY <1>1, <1>2, <1>4, <1>7, <1>8, <1>9, <1>10 DEF BuffersInv
<1>12. file_size <= wifi_dl_cur_size /\ (BothEmpty => file_size = wanted)
  BY <1>1, <1>2 DEF TaskInv, AtStart
<1>13. TaskInv'
  BY <1>2, <1>3, <1>7, <1>10, <1>12 DEF TaskInv
<1> QED
  BY <1>11, <1>13 DEF PlacesInv

(* What a read of this download leaves: n, Bad after a read or an opening that failed, and the     *)
(* bytes of a good read are those of the place where the earlier buffer's end.                     *)
LEMMA ReadLeaves ==
    ASSUME Running, FillStep
    PROVE  \E n \in 0 .. Block \cup {Bad} :
              /\ FillEnds(n)
              /\ \A y \in Buffers : y # job_buf => data'[y] = data[y]
              /\ file_size' \in {file_size, wanted}
              /\ n # Bad /\ 0 <= ReadFrom =>
                    /\ data'[job_buf] = ReadFrom /\ ReadFrom <= wanted
                    /\ n = LeastOf(Block, wanted - ReadFrom) /\ file_size' = wanted
                    /\ ReadFrom' = ReadFrom + n
<1>1. TypeOK /\ FlagsInv /\ OffsetInv /\ clean
  BY RunningParts
<1>2. job = "fill"
  BY DEF FillStep, EndFill, ReadFails, OpenFails, FillEnds
<1>3. job_dl = dl /\ job_buf \in Buffers /\ wanted \in Nat /\ job_from \in Int
  BY <1>1, <1>2, NotOver DEF TypeOK
<1>4. job_from = ReadFrom /\ job_from <= wanted
  BY <1>1, <1>2, <1>3 DEF OffsetInv, ReadFrom
<1>5. \A y \in Buffers : y # job_buf => data'[y] = data[y]
  BY <1>1 DEF FillStep, EndFill, ReadFails, OpenFails, Filled, TypeOK
<1>6. CASE EndFill
  <2>1. FillEnds(BytesRead) /\ FileRead(BytesRead)
    BY <1>3, <1>6 DEF EndFill
  <2>2. BytesRead \in 0 .. Block /\ BytesRead = LeastOf(Block, wanted - job_from)
    BY <1>1, <1>4, ReadsGive
  <2>3. data'[job_buf] = job_from
    BY <1>1, <1>3, <1>6 DEF EndFill, Filled, TypeOK
  <2>4. play_index' = wanted /\ file_size' = wanted /\ file_offset' = job_from + BytesRead
    BY <1>3, <2>1 DEF FileRead
  <2>5. wanted' = wanted
    BY <1>6 DEF EndFill, FillEnds, socketVars
  <2>6. 0 <= ReadFrom => ReadFrom' = ReadFrom + BytesRead
    <3>1. CASE wanted # 0
      BY <1>4, <2>4, <2>5, <3>1 DEF ReadFrom
    <3>2. CASE wanted = 0
      BY <1>3, <1>4, <2>2, <2>4, <2>5, <3>2, Constants DEF ReadFrom, LeastOf
    <3> QED
      BY <3>1, <3>2
  <2> QED
    BY <1>4, <1>5, <2>1, <2>2, <2>3, <2>4, <2>6
<1>7. CASE ReadFails \/ OpenFails
  <2>1. FillEnds(Bad) /\ file_size' \in {file_size, wanted}
    BY <1>3, <1>7 DEF ReadFails, OpenFails, FileRead
  <2> QED
    BY <1>5, <2>1
<1> QED
  BY <1>6, <1>7 DEF FillStep

(* The next buffer is filled: both empty becomes one filled, one filled becomes two.               *)
LEMMA PlacesFilled ==
    ASSUME Running, FillStep
    PROVE  PlacesInv'
<1>1. TypeOK /\ FlagsInv /\ OffsetInv /\ BuffersInv /\ TaskInv
  BY RunningParts
<1> DEFINE x == job_buf
<1>2. PICK n \in 0 .. Block \cup {Bad} :
              /\ FillEnds(n)
              /\ \A y \in Buffers : y # x => data'[y] = data[y]
              /\ file_size' \in {file_size, wanted}
              /\ n # Bad /\ 0 <= ReadFrom =>
                    /\ data'[x] = ReadFrom /\ ReadFrom <= wanted
                    /\ n = LeastOf(Block, wanted - ReadFrom) /\ file_size' = wanted
                    /\ ReadFrom' = ReadFrom + n
  BY ReadLeaves
<1>3. /\ buf_dl_flag'[x] = 1 /\ buf_dl_size'[x] = n
      /\ \A y \in Buffers : y # x => /\ buf_dl_flag'[y] = buf_dl_flag[y]
                                     /\ buf_dl_size'[y] = buf_dl_size[y]
      /\ job = "fill" /\ job' = "switch" /\ x' = x /\ x \in Buffers
      /\ UNCHANGED <<wifi_dl_cur_size, curr_wifi, sending, left, got, wanted, wifi_dl_cnt>>
  BY <1>1, <1>2, FillEndsSets DEF socketVars
<1>4. /\ Waits' = Waits /\ Spent' = Spent /\ Waits \in Buffers /\ Spent \in Buffers /\ Waits # Spent
      /\ \A y \in Buffers : y = Waits \/ y = Spent
      /\ OtherBuffer(Waits) = Spent /\ OtherBuffer(Spent) = Waits /\ Waits # Nobody
  BY <1>1, <1>3, Shapes DEF Waits, Spent
<1>5. /\ x = NextBuf /\ buf_dl_flag[x] = 0 /\ ~TwoFilled /\ wifi_dl_cnt' = 1
      /\ \A y \in Buffers : buf_dl_flag[y] # Over
  BY <1>3, NotOver
<1>6. NextBuf' = OtherBuffer(x)
  BY <1>3 DEF NextBuf
<1>7. \A y \in Buffers : buf_dl_flag'[y] # Over
  BY <1>3, <1>5 DEF Over
<1> HIDE DEF Waits, Spent, x
<1>8. CASE BothEmpty
  <2>1. x = Waits /\ sending = Nobody /\ buf_dl_flag[Spent] = 0 /\ ReadFrom = wifi_dl_cur_size
    BY <1>1, <1>5, <1>8 DEF BothEmpty, BuffersInv
  <2>2. OneFilled' /\ ~BothEmpty' /\ ~TwoFilled'
    BY <1>3, <1>4, <1>6, <2>1 DEF OneFilled, BothEmpty, TwoFilled
  <2>3. FirstPlace' = wifi_dl_cur_size /\ ~Stuck /\ ~Stuck' /\ sending' = Nobody
    BY <1>3, <1>4, <2>1 DEF FirstPlace, Stuck
  <2>4. n # Bad => Holds(Waits, FirstPlace)' /\ ReadFrom' = Behind(Waits)'
    BY <1>1, <1>2, <1>3, <1>4, <2>1, <2>3 DEF Holds, Behind, TypeOK
  <2>5. Prefix(got)' /\ wifi_dl_cur_size' <= wanted'
    BY <1>1, <1>3, <2>3 DEF BuffersInv, Prefix
  <2>6. BuffersInv'
    BY <1>3, <1>4, <2>1, <2>2, <2>3, <2>4, <2>5 DEF BuffersInv
  <2>7. TaskInv'
    BY <1>3, <1>5, <1>7, <2>2 DEF TaskInv
  <2> QED
    BY <2>6, <2>7 DEF PlacesInv
<1>9. CASE OneFilled
  <2>1. x = Spent /\ buf_dl_flag[Waits] = 1 /\ buf_dl_size'[Waits] = buf_dl_size[Waits]
        /\ data'[Waits] = data[Waits]
    BY <1>2, <1>3, <1>4, <1>5, <1>9 DEF OneFilled
  <2>2. TwoFilled' /\ ~BothEmpty' /\ ~OneFilled'
    BY <1>3, <1>4, <1>6, <2>1 DEF OneFilled, BothEmpty, TwoFilled
  <2>3. FirstPlace' = FirstPlace /\ (Stuck' <=> Stuck)
    BY <1>3, <1>4, <2>1 DEF FirstPlace, Stuck
  <2>4. file_size = wanted /\ file_size' = wanted
    BY <1>1, <1>2, <1>3, <1>5, <1>9 DEF TaskInv, Over
  <2>5. ASSUME buf_dl_size[Waits] # Bad
        PROVE  /\ ReadFrom = Behind(Waits) /\ Holds(Waits, FirstPlace) /\ Holds(Waits, FirstPlace)'
               /\ Behind(Waits)' = Behind(Waits) /\ Behind(Waits) \in Int /\ 0 <= Behind(Waits)
    <3>1. Holds(Waits, FirstPlace) /\ ReadFrom = Behind(Waits)
      BY <1>1, <1>9, <2>5, Shapes DEF BuffersInv
    <3>2. Behind(Waits)' = Behind(Waits) /\ Holds(Waits, FirstPlace)'
      BY <1>3, <1>4, <2>1, <2>3, <2>4, <3>1 DEF Behind, Holds
    <3>3. data[Waits] \in Int /\ 0 <= data[Waits] /\ buf_dl_size[Waits] \in 0 .. Block
      BY <1>1, <1>4, <2>5, <3>1 DEF TypeOK, Holds
    <3> QED
      BY <3>1, <3>2, <3>3, Constants DEF Behind
  <2>6. n # Bad /\ buf_dl_size[Waits] # Bad =>
          Holds(Spent, Behind(Waits))' /\ ReadFrom' = Behind(Spent)'
    BY <1>2, <1>3, <1>4, <2>1, <2>4, <2>5 DEF Holds, Behind
  <2>7. ~Stuck' => Prefix(got)' /\ wifi_dl_cur_size' <= wanted'
    BY <1>1, <1>3, <2>3 DEF BuffersInv, Prefix
  <2>8. sending' \in {Nobody, Waits'}
        /\ (sending' = Waits' => IF buf_dl_size'[Waits'] = Bad THEN left' = Bad ELSE left' \in 1 .. buf_dl_size'[Waits'])
    BY <1>1, <1>3, <1>4, <2>1 DEF BuffersInv
  <2>9. BuffersInv'
    BY <1>3, <1>4, <2>1, <2>2, <2>4, <2>5, <2>6, <2>7, <2>8 DEF BuffersInv
  <2>10. TaskInv'
    BY <1>3, <1>5, <1>7, <2>2 DEF TaskInv
  <2> QED
    BY <2>9, <2>10 DEF PlacesInv
<1> QED
  BY <1>1, <1>5, <1>8, <1>9 DEF BuffersInv


(* What the buffer that is sent next, or just now, holds reaches to the end of the file at most.   *)
LEMMA HeldPlaces ==
    ASSUME Running, ~BothEmpty, buf_dl_size[Waits] # Bad
    PROVE  /\ Holds(Waits, FirstPlace) /\ file_size = wanted /\ data[Waits] = FirstPlace
           /\ buf_dl_size[Waits] \in 0 .. Block /\ FirstPlace \in Int
           /\ FirstPlace + buf_dl_size[Waits] <= wanted /\ Behind(Waits) = FirstPlace + buf_dl_size[Waits]
<1>1. TypeOK /\ BuffersInv
  BY RunningParts
<1>2. Holds(Waits, FirstPlace) /\ Waits \in Buffers
  BY <1>1, Shapes DEF BuffersInv
<1>3. data[Waits] = FirstPlace /\ file_size = wanted /\ buf_dl_size[Waits] = LeastOf(Block, wanted - FirstPlace)
  BY <1>2 DEF Holds
<1>4. data[Waits] \in Int /\ buf_dl_size[Waits] \in 0 .. Block /\ wanted \in Int
  BY <1>1, <1>2 DEF TypeOK
<1> QED
  BY <1>2, <1>3, <1>4, Constants DEF LeastOf, Behind

(* A buffer has been sent: one filled becomes both empty, two filled become one.                   *)
LEMMA PlacesSent ==
    ASSUME Running, Sent(Waits), buf_dl_size[Waits] # Bad, ~BothEmpty, buf_dl_flag[Waits] = 1,
           wifi_dl_cur_size' = Behind(Waits),
           wifi_dl_cur_size' >= wifi_dl_cur_size,
           Prefix(got'),
           UNCHANGED <<storageVars, wanted, curr_buf, buf_dl_size, fileInfo, data>>
    PROVE  PlacesInv'
<1>0. ~BothEmpty
  OBVIOUS
<1>1. TypeOK /\ FlagsInv /\ OffsetInv /\ BuffersInv /\ TaskInv
  BY RunningParts
<1>2. /\ Waits' = Spent /\ Spent' = Waits /\ Waits \in Buffers /\ Spent \in Buffers /\ Waits # Spent
      /\ \A y \in Buffers : y = Waits \/ y = Spent
  BY <1>1, Shapes DEF Sent, Waits, Spent, OtherBuffer, TypeOK, Buffers
<1>3. /\ buf_dl_flag'[Waits] = 0 /\ buf_dl_flag'[Spent] = buf_dl_flag[Spent] /\ sending' = Nobody
      /\ sending' # Waits /\ sending' # Spent
  BY <1>1, <1>2 DEF Sent, TypeOK, Buffers, Nobody
<1>4. /\ job' = job /\ job_buf' = job_buf /\ wifi_dl_cnt' = wifi_dl_cnt /\ ReadFrom' = ReadFrom
      /\ file_size' = file_size /\ NextBuf' = NextBuf
  BY DEF storageVars, ReadFrom, fileInfo, NextBuf
<1>5. /\ Holds(Waits, FirstPlace) /\ file_size = wanted /\ wifi_dl_cur_size' <= wanted
  BY HeldPlaces
<1> HIDE DEF Waits, Spent
<1>6. ~Stuck' /\ FirstPlace' = wifi_dl_cur_size'
  BY <1>2, <1>3 DEF Stuck, FirstPlace
<1>7. job \in {"over", "say"} \/ (\E y \in Buffers : buf_dl_flag'[y] = Over) => file_size <= wifi_dl_cur_size'
  <2>1. (\E y \in Buffers : buf_dl_flag'[y] = Over) => \E y \in Buffers : buf_dl_flag[y] = Over
    BY <1>2, <1>3 DEF Over
  <2>2. /\ file_size \in Int /\ wifi_dl_cur_size \in Int
    BY <1>1 DEF TypeOK
  <2>3. wifi_dl_cur_size' \in Int
    BY HeldPlaces
  <2> QED
    BY <1>1, <2>1, <2>2, <2>3 DEF TaskInv
<1>8. CASE OneFilled
  <2>1. BothEmpty' /\ ~OneFilled' /\ ~TwoFilled' /\ NextBuf = Spent
    BY <1>2, <1>3, <1>4, <1>8 DEF OneFilled, BothEmpty, TwoFilled
  <2>2. ReadFrom' = wifi_dl_cur_size' /\ file_size' = wanted'
    BY <1>1, <1>4, <1>5, <1>8 DEF BuffersInv
  <2>3. wifi_dl_cnt = 0 /\ job \in {"none", "compare"} => buf_dl_flag'[NextBuf'] = Over
    BY <1>1, <1>3, <1>4, <2>1 DEF TaskInv
  <2>4. BuffersInv'
    BY <1>2, <1>3, <1>5, <1>6, <2>1, <2>2 DEF BuffersInv
  <2>5. TaskInv'
    BY <1>4, <1>7, <2>1, <2>2, <2>3 DEF TaskInv
  <2> QED
    BY <2>4, <2>5 DEF PlacesInv
<1>9. CASE TwoFilled
  <2>1. NextBuf = Waits /\ buf_dl_flag[Spent] = 1
    BY <1>9 DEF TwoFilled
  <2>2. OneFilled' /\ ~BothEmpty' /\ ~TwoFilled'
    BY <1>2, <1>3, <1>4, <2>1 DEF OneFilled, BothEmpty, TwoFilled
  <2>3. buf_dl_size[Spent] # Bad =>
          Holds(Spent, Behind(Waits)) /\ ReadFrom = Behind(Spent)
    BY <1>1, <1>9 DEF BuffersInv
  <2>4. buf_dl_size'[Waits'] # Bad =>
          Holds(Waits, FirstPlace)' /\ ReadFrom' = Behind(Waits)'
    BY <1>2, <1>4, <1>6, <2>3 DEF Holds, Behind
  <2>5. ~(wifi_dl_cnt = 0 /\ job \in {"none", "compare"})
    BY <1>1, <2>1, <1>0 DEF TaskInv, Over
  <2>6. BuffersInv'
    BY <1>2, <1>3, <1>5, <1>6, <2>2, <2>4 DEF BuffersInv
  <2>7. TaskInv'
    BY <1>4, <1>5, <1>7, <2>2, <2>5 DEF TaskInv
  <2> QED
    BY <2>6, <2>7 DEF PlacesInv
<1> QED
  BY <1>1, <1>8, <1>9 DEF BuffersInv

LEMMA PlacesBeginSend ==
    ASSUME Running, NEW x \in Buffers, BeginSend(x)
    PROVE  PlacesInv'
<1>1. TypeOK /\ FlagsInv /\ OffsetInv /\ BuffersInv /\ TaskInv
  BY RunningParts
<1>2. /\ x = Waits /\ buf_dl_flag[Waits] = 1 /\ sending = Nobody /\ sending # Waits
      /\ UNCHANGED <<storageVars, wifi_dl_cur_size, got, wanted, curr_buf, buf_dl_size, fileInfo, data>>
  BY <1>1, Shapes DEF BeginSend, Ready, Waits
<1>3. ~BothEmpty /\ ~Stuck /\ FirstPlace = wifi_dl_cur_size /\ Prefix(got) /\ wifi_dl_cur_size <= wanted
  BY <1>1, <1>2 DEF BothEmpty, Stuck, FirstPlace, BuffersInv
<1>4. CASE buf_dl_size[x] = 0
  <2>1. Sent(Waits) /\ buf_dl_size[Waits] # Bad
    BY <1>2, <1>4 DEF BeginSend, Bad
  <2>2. wifi_dl_cur_size' = Behind(Waits)
    BY <1>2, <1>3, <1>4, <2>1, HeldPlaces
  <2>3. Prefix(got')
    BY <1>2, <1>3 DEF Prefix
  <2>4. wifi_dl_cur_size' >= wifi_dl_cur_size
    BY <1>1, <1>2 DEF TypeOK
  <2> QED
    BY <1>2, <1>3, <2>1, <2>2, <2>3, <2>4, PlacesSent, Zenon
<1>5. CASE buf_dl_size[x] # 0
  <2>1. sending' = Waits /\ left' = buf_dl_size[Waits] /\ curr_wifi' = curr_wifi /\ buf_dl_flag' = buf_dl_flag
    BY <1>2, <1>5 DEF BeginSend
  <2>2. Waits' = Waits /\ Spent' = Spent /\ Waits \in Buffers /\ NextBuf' = NextBuf
    BY <1>1, <1>2, <2>1, Shapes DEF Waits, Spent, NextBuf, storageVars
  <2> HIDE DEF Waits, Spent
  <2>3. /\ ~BothEmpty' /\ (OneFilled' <=> OneFilled) /\ (TwoFilled' <=> TwoFilled)
        /\ (Stuck' <=> buf_dl_size[Waits] = Bad)
    BY <1>1, <1>2, <2>1, <2>2 DEF BothEmpty, OneFilled, TwoFilled, Stuck
  <2>4. FirstPlace' = FirstPlace
    BY <1>1, <1>2, <1>3, <2>1, <2>2, Constants DEF FirstPlace, TypeOK, Bad
  <2>5. /\ ReadFrom' = ReadFrom /\ Behind(Waits)' = Behind(Waits) /\ Behind(Spent)' = Behind(Spent)
        /\ (Holds(Waits, FirstPlace)' <=> Holds(Waits, FirstPlace))
        /\ (Holds(Spent, Behind(Waits))' <=> Holds(Spent, Behind(Waits)))
        /\ (Prefix(got)' <=> Prefix(got))
    BY <1>2, <2>2, <2>4 DEF ReadFrom, Behind, Holds, Prefix, fileInfo
  <2>6. IF buf_dl_size'[Waits'] = Bad THEN left' = Bad ELSE left' \in 1 .. buf_dl_size'[Waits']
    BY <1>1, <1>2, <1>5, <2>1, <2>2, Constants DEF TypeOK
  <2>7. job' = job /\ wifi_dl_cnt' = wifi_dl_cnt /\ file_size' = file_size
    BY <1>2 DEF storageVars, fileInfo
  <2>8. BuffersInv'
    BY <1>1, <1>2, <1>3, <2>1, <2>2, <2>3, <2>4, <2>5, <2>6, <2>7 DEF BuffersInv
  <2>9. TaskInv'
    BY <1>1, <1>2, <1>3, <2>1, <2>2, <2>3, <2>7 DEF TaskInv
  <2> QED
    BY <2>8, <2>9 DEF PlacesInv
<1> QED
  BY <1>4, <1>5

LEMMA PrefixGrows ==
    ASSUME NEW g \in Seq(Int), Prefix(g)
    PROVE  Prefix(Append(g, Len(g)))
BY DEF Prefix

LEMMA PlacesSendPacket ==
    ASSUME Running, SendPacket, Len(got) = wifi_dl_cur_size
    PROVE  PlacesInv'
<1>1. TypeOK /\ FlagsInv /\ OffsetInv /\ BuffersInv /\ TaskInv
  BY RunningParts
<1>2. /\ sending = Waits /\ Waits \in Buffers
      /\ wifi_dl_cur_size' = wifi_dl_cur_size + 1
      /\ got' = Append(got, PacketOf(Waits))
      /\ UNCHANGED <<storageVars, wanted, curr_buf, buf_dl_size, fileInfo, data>>
  BY <1>1 DEF SendPacket, BuffersInv, Buffers, Nobody
<1>3. /\ ~BothEmpty /\ IF buf_dl_size[Waits] = Bad THEN left = Bad ELSE left \in 1 .. buf_dl_size[Waits]
      /\ wifi_dl_cur_size \in Nat /\ wanted \in Nat /\ file_size \in Nat
  BY <1>1, <1>2 DEF BothEmpty, BuffersInv, TypeOK, Buffers, Nobody
<1>4. ASSUME buf_dl_size[Waits] # Bad
      PROVE  /\ ~Stuck /\ Holds(Waits, FirstPlace) /\ file_size = wanted
             /\ Prefix(got') /\ wifi_dl_cur_size + left <= wanted
             /\ FirstPlace = wifi_dl_cur_size - (buf_dl_size[Waits] - left)
             /\ buf_dl_size[Waits] \in 0 .. Block /\ left \in 1 .. buf_dl_size[Waits]
  <2>1. ~Stuck /\ Holds(Waits, FirstPlace) /\ file_size = wanted /\ data[Waits] = FirstPlace
        /\ FirstPlace + buf_dl_size[Waits] <= wanted
        /\ buf_dl_size[Waits] \in 0 .. Block /\ FirstPlace \in Int
    BY <1>3, <1>4, HeldPlaces DEF Stuck
  <2>2. FirstPlace = wifi_dl_cur_size - (buf_dl_size[Waits] - left)
    BY <1>2 DEF FirstPlace
  <2>3. PacketOf(Waits) = Len(got)
    BY <1>3, <1>4, <2>1, <2>2 DEF PacketOf, Holds, Unread, Bad
  <2>4. Prefix(got')
    BY <1>1, <1>2, <2>1, <2>3, PrefixGrows DEF BuffersInv, TypeOK
  <2> QED
    BY <1>3, <1>4, <2>1, <2>2, <2>4
<1>5. CASE left = 1
  <2>1. Sent(Waits) /\ buf_dl_size[Waits] # Bad
    BY <1>2, <1>3, <1>5 DEF SendPacket, Bad
  <2>2. wifi_dl_cur_size' = Behind(Waits)
    BY <1>2, <1>3, <1>4, <1>5, <2>1, HeldPlaces
  <2>3. buf_dl_flag[Waits] # Over
    BY <1>1, <1>2, <1>3, <1>4, <1>5, <2>1 DEF TaskInv
  <2>4. buf_dl_flag[Waits] = 1
    BY <1>1, <1>2, <2>3 DEF FlagsInv, TypeOK
  <2>5. wifi_dl_cur_size' >= wifi_dl_cur_size
    BY <1>2, <1>3
  <2> QED
    BY <1>2, <1>3, <1>4, <2>1, <2>2, <2>4, <2>5, PlacesSent, Zenon
<1>6. CASE left # 1
  <2>1. sending' = Waits /\ left' = (IF left = Bad THEN Bad ELSE left - 1)
        /\ curr_wifi' = curr_wifi /\ buf_dl_flag' = buf_dl_flag
    BY <1>2, <1>6 DEF SendPacket
  <2>2. Waits' = Waits /\ Spent' = Spent /\ NextBuf' = NextBuf
    BY <1>2, <2>1 DEF Waits, Spent, NextBuf, storageVars
  <2>3. Waits # Nobody
    BY <1>1, Shapes
  <2> HIDE DEF Waits, Spent
  <2>4. /\ ~BothEmpty' /\ (OneFilled' <=> OneFilled) /\ (Stuck' <=> Stuck) /\ (TwoFilled' <=> TwoFilled)
        /\ (Stuck' <=> buf_dl_size[Waits] = Bad)
    BY <1>2, <2>1, <2>2, <2>3 DEF BothEmpty, OneFilled, TwoFilled, Stuck
  <2>5. ASSUME buf_dl_size[Waits] # Bad
        PROVE  FirstPlace' = FirstPlace
    <3>1. left # Bad /\ left \in Int /\ buf_dl_size[Waits] \in Int
      BY <1>4, <2>5 DEF Bad
    <3>2. FirstPlace = wifi_dl_cur_size - (buf_dl_size[Waits] - left)
      BY <1>4, <2>5
    <3>3. FirstPlace' = wifi_dl_cur_size' - (buf_dl_size[Waits] - left')
      BY <1>2, <2>1, <2>2 DEF FirstPlace
    <3> QED
      BY <1>2, <1>3, <2>1, <3>1, <3>2, <3>3
  <2>6. /\ ReadFrom' = ReadFrom /\ Behind(Waits)' = Behind(Waits) /\ Behind(Spent)' = Behind(Spent)
        /\ FirstPlace' = FirstPlace => (Holds(Waits, FirstPlace) => Holds(Waits, FirstPlace)')
        /\ (Holds(Spent, Behind(Waits))' <=> Holds(Spent, Behind(Waits)))
    BY <1>2, <2>2 DEF ReadFrom, Behind, Holds, fileInfo
  <2>7. IF buf_dl_size'[Waits'] = Bad THEN left' = Bad ELSE left' \in 1 .. buf_dl_size'[Waits']
    BY <1>2, <1>3, <1>4, <1>6, <2>1, <2>2 DEF Bad
  <2>8. job' = job /\ wifi_dl_cnt' = wifi_dl_cnt /\ file_size' = file_size
    BY <1>2 DEF storageVars, fileInfo
  <2>9. buf_dl_size[Waits] # Bad => wifi_dl_cur_size' <= wanted'
    BY <1>2, <1>3, <1>4
  <2>10. BuffersInv'
    BY <1>1, <1>2, <1>3, <1>4, <2>1, <2>2, <2>4, <2>5, <2>6, <2>7, <2>8, <2>9 DEF BuffersInv
  <2>11. TaskInv'
    BY <1>1, <1>2, <1>3, <2>1, <2>2, <2>4, <2>8 DEF TaskInv
  <2> QED
    BY <2>10, <2>11 DEF PlacesInv
<1> QED
  BY <1>5, <1>6

--------------------------------------------------------------------------------------------------
LEMMA PlacesStart ==
    ASSUME IndInv, Start, clean', ~Ended'
    PROVE  PlacesInv'
<1>1. TypeOK /\ FlagsInv
  BY DEF IndInv
<1>2. /\ job = "none" /\ wifi_dl_cnt = 0
  BY Zenon DEF Start
<1>3. /\ sending' = 2 /\ job' = "none" /\ wifi_dl_cnt' = 0 /\ file_size' = 0 /\ wifi_dl_cur_size' = 0
      /\ curr_wifi' = 0 /\ curr_buf' = 1 /\ got' = <<>>
      /\ buf_dl_flag'[0] = 0 /\ buf_dl_flag'[1] = 0 /\ wanted' \in Nat
  BY <1>1, <1>2, Constants DEF Start, FreshFlags, storageVars, FlagsInv, Buffers, Nobody
<1>4. Waits' = 1 /\ Spent' = 0 /\ NextBuf' = 1
  BY <1>3 DEF Waits, Spent, OtherBuffer, NextBuf
<1>5. BothEmpty' /\ ~OneFilled' /\ ~TwoFilled' /\ AtStart' /\ ReadFrom' = 0 /\ ~Stuck'
  BY <1>3, <1>4 DEF BothEmpty, OneFilled, TwoFilled, AtStart, ReadFrom, Stuck, Nobody
<1>6. Prefix(got')
  BY <1>3 DEF Prefix
<1>7. BuffersInv'
  BY <1>3, <1>4, <1>5, <1>6 DEF BuffersInv, Nobody
<1>8. TaskInv'
  BY <1>3, <1>4, <1>5 DEF TaskInv, Over, Buffers
<1> QED
  BY <1>7, <1>8 DEF PlacesInv

(* Every step of a download that started at rest.                                                  *)
LEMMA PlacesStep ==
    ASSUME IndInv, OrderInv, [Next]_vars, clean', ~Ended'
    PROVE  PlacesInv'
<1>1. CASE Start
  BY <1>1, PlacesStart
<1>2. ~(Cancel \/ SendFails \/ Finish \/ Freed)
  BY DEF Cancel, SendFails, Finish, EndDownload, Freed, Ended
<1>3. ASSUME StartRefused \/ MessageIdle
      PROVE  FALSE
  <2>1. wifi_dl_state = "idle" /\ wifi_dl_state' = wifi_dl_state
    BY <1>3 DEF StartRefused, MessageIdle, socketVars
  <2> QED
    BY <2>1 DEF Ended
<1>4. ASSUME SendPacket \/ (\E x \in Buffers : BeginSend(x)) \/ MessageActive \/ FindMore \/ FindOver \/ Look
             \/ BeginFill \/ NothingEmpty \/ SwitchBuffer \/ SayOver \/ FillStep \/ UNCHANGED vars
      PROVE  PlacesInv'
  <2>1. clean' = clean /\ wifi_dl_state' = wifi_dl_state
    BY <1>4, Zenon
    DEF SendPacket, BeginSend, MessageActive, FindMore, FindOver, Look, BeginFill, NothingEmpty, SwitchBuffer,
        SayOver, FillStep, EndFill, OpenFails, ReadFails, FillEnds, vars, socketVars
  <2>2. sending # Freeing
    <3>1. CASE SendPacket \/ \E x \in Buffers : BeginSend(x)
      <4>1. sending \in Buffers \/ sending = Nobody
        BY <3>1, Zenon DEF SendPacket, BeginSend
      <4> QED
        BY <4>1 DEF Buffers, Nobody, Freeing
    <3>2. CASE ~(SendPacket \/ \E x \in Buffers : BeginSend(x))
      <4>1. sending' = sending
        BY <1>4, <3>2, Zenon
        DEF MessageActive, FindMore, FindOver, Look, BeginFill, NothingEmpty, SwitchBuffer,
            SayOver, FillStep, EndFill, OpenFails, ReadFails, FillEnds, vars, socketVars
      <4> QED
        BY <4>1 DEF Ended
    <3> QED
      BY <3>1, <3>2
  <2>3. Running /\ Len(got) = wifi_dl_cur_size
    BY <2>1, <2>2 DEF OrderInv, Running, Ended
  <2> QED
    BY <1>4, <2>3, PlacesSendPacket, PlacesBeginSend, PlacesQuiet, PlacesFilled, PlacesSayOver
<1> QED
  BY <1>1, <1>2, <1>3, <1>4 DEF Next, SocketStep, StorageStep, FaultStep, FillStep

(* Every step leaves what was received alone, adds one packet, or is the start of a download.      *)
LEMMA GotSteps ==
    ASSUME IndInv, [Next]_vars
    PROVE  \/ SendPacket
           \/ Start
           \/ StartRefused
           \/ /\ UNCHANGED <<got, wifi_dl_cur_size, clean, wanted, dl>>
              /\ \/ Ended' <=> Ended
                 \/ Finish
                 \/ cut'
              /\ cut' = cut \/ cut' \/ Finish
<1>1. TypeOK /\ FlagsInv
  BY DEF IndInv
<1>2. CASE Cancel \/ SendFails
  BY <1>2 DEF Cancel, SendFails, EndDownload
<1>3. CASE Finish
  BY <1>3 DEF Finish, EndDownload
<1>4. CASE Freed
  BY <1>4 DEF Freed, Ended
<1>5. CASE \E x \in Buffers : BeginSend(x)
  <2>1. ~Ended /\ ~Ended' /\ UNCHANGED <<got, wifi_dl_cur_size, clean, wanted, dl, cut>>
    BY <1>5 DEF BeginSend, Sent, Ended, Buffers, Nobody, Freeing
  <2> QED
    BY <2>1
<1>6. CASE StorageStep \/ OpenFails \/ ReadFails \/ UNCHANGED vars
  <2>1. UNCHANGED socketVars
    BY <1>6, Zenon
    DEF StorageStep, MessageIdle, MessageActive, FindMore, FindOver, Look, BeginFill, NothingEmpty, SwitchBuffer,
        SayOver, EndFill, OpenFails, ReadFails, FillEnds, vars
  <2> QED
    BY <2>1 DEF socketVars, Ended
<1> QED
  BY <1>2, <1>3, <1>4, <1>5, <1>6 DEF Next, SocketStep, FaultStep

(* What is received after the end was told: the file, when everything was sent.                    *)
LEMMA FinishHasAll ==
    ASSUME IndInv, OrderInv, Finish, clean
    PROVE  got = [i \in 1 .. wanted |-> i - 1]
<1>1. sending = Nobody /\ buf_dl_flag[Waits] = Over /\ wifi_dl_state = "active"
  BY DEF Finish, AllSent, Waits
<1>2. Running
  BY <1>1 DEF Running, OrderInv, Ended, Nobody, Freeing
<1>3. TypeOK /\ FlagsInv /\ OffsetInv /\ BuffersInv /\ TaskInv
  BY <1>2, RunningParts
<1>4. Waits \in Buffers /\ Waits # Nobody
  BY <1>3, Shapes
<1>5. ~OneFilled /\ ~Stuck
  BY <1>1, <1>4 DEF OneFilled, Stuck, Over
<1>6. file_size <= wifi_dl_cur_size /\ wifi_dl_cur_size <= wanted /\ Prefix(got)
  BY <1>1, <1>3, <1>4, <1>5 DEF BuffersInv, TaskInv
<1>7. file_size = wanted
  BY <1>1, <1>3, <1>5 DEF BuffersInv, TaskInv, AtStart, Over
<1>8. Len(got) = wanted /\ got \in Seq(Int)
  BY <1>3, <1>6, <1>7 DEF OrderInv, TypeOK
<1>9. wanted \in Nat /\ DOMAIN got = 1 .. wanted
  BY <1>3, <1>8 DEF TypeOK
<1> QED
  BY <1>6, <1>8, <1>9 DEF Prefix

LEMMA OrderStep == IndInv /\ OrderInv /\ [Next]_vars => OrderInv'
<1> SUFFICES ASSUME IndInv, OrderInv, [Next]_vars
             PROVE  OrderInv'
  OBVIOUS
<1>1. TypeOK /\ FlagsInv /\ OffsetInv
  BY DEF IndInv
<1>2. FillStep \/ UNCHANGED <<buf_dl_size, faults>>
  BY Zenon
  DEF Next, SocketStep, StorageStep, FaultStep, FillStep, Start, StartRefused, Cancel, SendFails, Finish,
      EndDownload, Freed, BeginSend, SendPacket, MessageIdle, MessageActive, FindMore, FindOver, Look, BeginFill,
      NothingEmpty, SwitchBuffer, SayOver, vars, storageVars, sharedVars
<1>3. faults' \in Nat /\ (faults > 0 => faults' > 0)
  BY <1>1, <1>2 DEF FillStep, EndFill, ReadFails, OpenFails, TypeOK
<1>4. \A x \in Buffers : buf_dl_size'[x] = Bad => faults' > 0
  <2>1. CASE EndFill
    <3>1. PICK n \in 0 .. Block : FillEnds(n)
      BY <1>1, <2>1, ReadsGive DEF EndFill
    <3>2. /\ buf_dl_size'[job_buf] = n
          /\ \A y \in Buffers : y # job_buf => buf_dl_size'[y] = buf_dl_size[y]
      BY <1>1, <3>1, FillEndsSets
    <3>3. n # Bad
      BY Constants DEF Bad
    <3> QED
      BY <1>3, <3>2, <3>3 DEF OrderInv
  <2>2. CASE ReadFails \/ OpenFails
    BY <1>1, <2>2 DEF ReadFails, OpenFails, TypeOK
  <2>3. CASE UNCHANGED <<buf_dl_size, faults>>
    BY <2>3 DEF OrderInv
  <2> QED
    BY <1>2, <2>1, <2>2, <2>3 DEF FillStep
<1>5. CASE SendPacket
  <2>1. /\ sending \in Buffers /\ wifi_dl_state = "active" /\ sending # Nobody /\ sending # Freeing
        /\ got' = Append(got, PacketOf(sending)) /\ wifi_dl_cur_size' = wifi_dl_cur_size + 1
        /\ UNCHANGED <<clean, wanted, wifi_dl_state, faults, dl>>
        /\ sending' = sending \/ sending' = Nobody
    BY <1>1, <1>5 DEF SendPacket, FlagsInv, Buffers, Nobody, Freeing, Sent, storageVars
  <2>2. Len(got') = wifi_dl_cur_size' /\ got \in Seq(Int)
    BY <1>1, <2>1 DEF OrderInv, TypeOK
  <2>3. WholeFile'
    BY <2>1 DEF WholeFile, Ended, Nobody, Freeing
  <2>4. clean => PacketOf(sending) = Len(got) \/ (PacketOf(sending) = Garbage /\ faults > 0)
    <3> SUFFICES ASSUME clean
                 PROVE  PacketOf(sending) = Len(got) \/ (PacketOf(sending) = Garbage /\ faults > 0)
      OBVIOUS
    <3>1. Running
      BY <2>1 DEF Running, OrderInv, Ended
    <3>2. sending = Waits
      BY <2>1, <3>1, RunningParts DEF BuffersInv
    <3>3. CASE buf_dl_size[sending] = Bad
      BY <2>1, <3>3 DEF OrderInv, PacketOf
    <3>4. CASE buf_dl_size[sending] # Bad
      <4>1. ~BothEmpty
        BY <2>1 DEF BothEmpty
      <4>2. /\ Holds(Waits, FirstPlace) /\ data[Waits] = FirstPlace /\ FirstPlace \in Int
            /\ buf_dl_size[Waits] \in 0 .. Block /\ 0 <= data[Waits]
        BY <3>1, <3>2, <3>4, <4>1, HeldPlaces DEF Holds
      <4>3. FirstPlace = wifi_dl_cur_size - (buf_dl_size[Waits] - left)
        BY <3>2 DEF FirstPlace
      <4>4. PacketOf(sending) = data[Waits] + buf_dl_size[Waits] - left
        BY <3>2, <3>4, <4>2 DEF PacketOf, Unread
      <4>5. left \in Int /\ wifi_dl_cur_size \in Int /\ Len(got) = wifi_dl_cur_size
        BY <1>1 DEF OrderInv, TypeOK, Bad
      <4> QED
        BY <4>2, <4>3, <4>4, <4>5
    <3> QED
      BY <3>3, <3>4
  <2>5. InOrder'
    BY <2>1, <2>2, <2>4 DEF OrderInv, InOrder
  <2> QED
    BY <1>4, <2>2, <2>3, <2>5, PlacesStep DEF OrderInv
<1>6. CASE Start \/ StartRefused
  <2>1. got' = <<>> /\ wifi_dl_cur_size' = 0
    BY <1>6 DEF Start, StartRefused
  <2>2. Len(got') = wifi_dl_cur_size' /\ InOrder'
    BY <2>1 DEF InOrder
  <2>3. cut' \/ ~Ended'
    <3>1. CASE Start
      BY <1>1, <3>1 DEF Start, Ended, FlagsInv, Nobody, Freeing
    <3>2. CASE StartRefused
      BY <3>2 DEF StartRefused
    <3> QED
      BY <1>6, <3>1, <3>2
  <2>4. WholeFile'
    BY <2>3 DEF WholeFile
  <2> QED
    BY <1>4, <2>2, <2>4, PlacesStep DEF OrderInv
<1>7. CASE /\ UNCHANGED <<got, wifi_dl_cur_size, clean, wanted, dl>>
           /\ \/ Ended' <=> Ended
              \/ Finish
              \/ cut'
           /\ cut' = cut \/ cut' \/ Finish
  <2>1. Len(got') = wifi_dl_cur_size'
    BY <1>7 DEF OrderInv
  <2>2. InOrder'
    BY <1>3, <1>7 DEF OrderInv, InOrder
  <2>3. WholeFile'
    <3>1. CASE Finish
      BY <1>7, <3>1, FinishHasAll DEF WholeFile
    <3>2. CASE ~Finish
      BY <1>7, <3>2 DEF OrderInv, WholeFile
    <3> QED
      BY <3>1, <3>2
  <2> QED
    BY <1>4, <2>1, <2>2, <2>3, PlacesStep DEF OrderInv
<1> QED
  BY <1>5, <1>6, <1>7, GotSteps

(* In a download that started at rest the two buffers hold the next one or two reads of the file,  *)
(* in the order in which the socket task will send them.                                           *)
THEOREM OrderInvCorrect == Spec => []OrderInv
<1>1. Init => OrderInv
  BY DEF Init, OrderInv, InOrder, WholeFile, Ended, Buffers, Bad
<1> QED
  BY <1>1, OrderStep, IndInvCorrect, PTL DEF Spec

(* What the client receives is the file from its beginning, but for a buffer whose read failed:    *)
(* whatever the sizes of the file and of the reads, and however the two tasks interleave.          *)
THEOREM InOrderHolds == Spec => []InOrder
BY OrderInvCorrect, PTL DEF OrderInv

(* A download that ends as done has sent all of the file.                                          *)
THEOREM WholeFileHolds == Spec => []WholeFile
BY OrderInvCorrect, PTL DEF OrderInv
====

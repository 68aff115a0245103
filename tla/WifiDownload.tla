---- MODULE WifiDownload ----
(* The download of a file over WiFi: the socket task sends one of two buffers while the storage   *)
(* task fills the other from the card (GPSOCK_Playback_GetRawData_Decode and Playback_GetRawData  *)
(* in socket_cmd.c; the head of the loop in task_storage_service.c; and                            *)
(* ap_storage_service_download_file_req).  The two tasks share global variables and no lock.       *)
(*                                                                                                 *)
(* The socket task has the higher priority (application.h: 33 against 36): what it does between    *)
(* two blocking calls is one step here.  The storage task can be preempted anywhere: each of its   *)
(* steps reads or writes one variable that the socket task changes, and what only the start of a   *)
(* download changes besides (the address of a buffer, the file's size and offset) is read with it; *)
(* what such a start in the middle of a read leaves is a choice at the end of the read.            *)
(* Buffer 0 is wifi_dl_buf_A, buffer 1 wifi_dl_buf_B; sizes count packets; a file is known by its  *)
(* size.                                                                                           *)
EXTENDS Integers, Sequences

CONSTANTS FileSizes,     \* the sizes of the files asked for, in packets
          Block,         \* what one read of the card gives at most (g_sd_read_size), in packets
          MaxDownloads,  \* bound: downloads started
          MaxFaults,     \* bound: reads of the card that fail
          MaxOverrun     \* bound: packets sent of a buffer whose read has failed

ASSUME DownloadAssumption ==
    /\ FileSizes \subseteq Nat
    /\ Block \in Nat \ {0}
    /\ MaxDownloads \in Nat /\ MaxFaults \in Nat /\ MaxOverrun \in Nat

VARIABLES wifi_dl_state,      \* "idle" or "active"
          wifi_dl_cur_size,   \* packets sent in this download
          curr_wifi,          \* the buffer sent last: the other one is sent next
          curr_buf,           \* the buffer the storage task fills next
          buf_dl_flag,        \* 0 empty, 1 filled, 255 nothing more comes
          buf_dl_size,        \* what the buffer holds
          play_index, file_size, file_offset,   \* download_file_info: the file, its size, the place
          wifi_dl_cnt,        \* the storage task's count of a download's messages: 0, or 1 for more
          sending, left,      \* the buffer being sent (or Nobody, or Freeing), what is left of it
          job, job_buf, job_dl, job_from,   \* the storage task: what it does next, with which
                              \* buffer of which download, from which place of the file
          wanted,             \* the size of the file asked for
          dl,                 \* the number of the download: its two buffers are its own
          data,               \* the place in the file each buffer's bytes were read from
          got,                \* what the client has received in this download
          clean, torn, cut, faults  \* history: see Start, EndDownload, ReadFails

fileInfo    == <<play_index, file_size, file_offset>>
socketVars  == <<wifi_dl_state, wifi_dl_cur_size, curr_wifi, sending, left, got, wanted, dl, clean, torn, cut>>
storageVars == <<wifi_dl_cnt, job, job_buf, job_dl, job_from, faults>>
sharedVars  == <<curr_buf, buf_dl_flag, buf_dl_size, fileInfo, data>>
vars == <<socketVars, storageVars, sharedVars>>

Buffers == {0, 1}
Nobody  == 2
Freeing == 3           \* the end of a download, when its buffers are given back
Bad     == -1          \* 0xFFFFFFFF, the size of a buffer whose read has failed
Unread  == -1          \* no bytes of this download's file in the buffer
Garbage == -1
Over    == 255
NoFile  == -1
OtherBuffer(x) == 1 - x
LeastOf(a, b)  == IF a <= b THEN a ELSE b

Init ==
    /\ wifi_dl_state = "idle" /\ wifi_dl_cur_size = 0
    /\ curr_wifi = 0 /\ curr_buf = 0
    /\ buf_dl_flag = [x \in Buffers |-> 0] /\ buf_dl_size = [x \in Buffers |-> 0]
    /\ play_index = NoFile /\ file_size = 0 /\ file_offset = 0 /\ wifi_dl_cnt = 0
    /\ sending = Nobody /\ left = 0
    /\ job = "none" /\ job_buf = 0 /\ job_dl = 0 /\ job_from = 0
    /\ wanted = 0 /\ dl = 0 /\ data = [x \in Buffers |-> Unread] /\ got = <<>>
    /\ clean = TRUE /\ torn = FALSE /\ cut = FALSE /\ faults = 0

--------------------------------------------------------------------------------------------------
(* The socket task.                                                                               *)

FreshFlags == [x \in Buffers |-> 0]

(* GPSOCK_Playback_GetRawData_Decode up to its loop.  A download is clean when the storage task   *)
(* is not still busy with an earlier one and has seen a message since that ended; it is torn when  *)
(* the storage task has chosen a buffer in an earlier one and not gone on to the other.           *)
Start ==
    /\ wifi_dl_state = "idle" /\ dl < MaxDownloads
    /\ wifi_dl_state' = "active" /\ wifi_dl_cur_size' = 0
    /\ play_index' = NoFile /\ file_size' = 0 /\ file_offset' = 0
    /\ curr_wifi' = 0 /\ curr_buf' = 1
    /\ buf_dl_flag' = FreshFlags
    /\ wanted' \in FileSizes
    /\ dl' = dl + 1 /\ data' = [x \in Buffers |-> Unread] /\ got' = <<>>
    /\ clean' = (job = "none" /\ wifi_dl_cnt = 0)
    /\ torn' = (job \in {"look", "fill", "switch"})
    /\ cut' = FALSE
    /\ UNCHANGED <<storageVars, buf_dl_size, sending, left>>

(* No memory for a buffer: what was allocated is freed, the request answered with an error.  Also  *)
(* what the storage task sees of a start whose allocation waits: the size sent is 0 already.       *)
StartRefused ==
    /\ wifi_dl_state = "idle"
    /\ wifi_dl_cur_size' = 0 /\ got' = <<>> /\ cut' = TRUE
    /\ UNCHANGED <<storageVars, sharedVars, wifi_dl_state, curr_wifi, sending, left, wanted, dl, clean, torn>>

(* The end of the function, from wherever it is reached: both buffers are freed, which may wait,   *)
(* and then the state is set.                                                                     *)
EndDownload(early) ==
    /\ sending' = Freeing /\ left' = 0 /\ cut' = early
    /\ UNCHANGED <<storageVars, sharedVars, wifi_dl_state, wifi_dl_cur_size, curr_wifi, got, wanted, dl, clean, torn>>

Freed ==
    /\ sending = Freeing
    /\ sending' = Nobody /\ wifi_dl_state' = "idle"
    /\ UNCHANGED <<storageVars, sharedVars, wifi_dl_cur_size, curr_wifi, left, got, wanted, dl, clean, torn, cut>>

(* Data from the client during a download cancels it (socket_cmd_wifi_check_new_data).            *)
Cancel ==
    /\ wifi_dl_state = "active" /\ sending = Nobody
    /\ EndDownload(TRUE)

(* The buffer x has been sent: it is free again.                                                  *)
Sent(x) ==
    /\ curr_wifi' = x /\ buf_dl_flag' = [buf_dl_flag EXCEPT ![x] = 0]
    /\ sending' = Nobody /\ left' = 0

(* Mutant: a buffer is sent without looking whether it is filled.                                 *)
ReadyUnchecked(x) == x = OtherBuffer(curr_wifi) /\ buf_dl_flag[x] # Over

Ready(x) == x = OtherBuffer(curr_wifi) /\ buf_dl_flag[x] = 1

BeginSend(x) ==
    /\ wifi_dl_state = "active" /\ sending = Nobody
    /\ Ready(x)
    /\ IF buf_dl_size[x] = 0
       THEN Sent(x)
       ELSE /\ sending' = x /\ left' = buf_dl_size[x]
            /\ UNCHANGED <<curr_wifi, buf_dl_flag>>
    /\ UNCHANGED <<storageVars, wifi_dl_state, wifi_dl_cur_size, got, wanted, dl, clean, torn, cut,
                   curr_buf, buf_dl_size, fileInfo, data>>

(* The next packet of the buffer being sent, as the client sees it.                               *)
PacketOf(x) == IF data[x] = Unread \/ buf_dl_size[x] = Bad THEN Garbage
               ELSE data[x] + buf_dl_size[x] - left

(* One packet of Playback_GetRawData; after the last, the loop's code behind the call.  A size    *)
(* of 0xFFFFFFFF is never used up.                                                                *)
SendPacket ==
    /\ sending \in Buffers
    /\ left = Bad => wifi_dl_cur_size < wanted + MaxOverrun
    /\ wifi_dl_cur_size' = wifi_dl_cur_size + 1
    /\ got' = Append(got, PacketOf(sending))
    /\ IF left = 1
       THEN Sent(sending)
       ELSE /\ left' = IF left = Bad THEN Bad ELSE left - 1
            /\ UNCHANGED <<sending, curr_wifi, buf_dl_flag>>
    /\ UNCHANGED <<storageVars, wifi_dl_state, wanted, dl, clean, torn, cut,
                   curr_buf, buf_dl_size, fileInfo, data>>

(* The client is gone, or takes nothing for a second: NAK_Write_Fail.                             *)
SendFails == sending \in Buffers /\ EndDownload(TRUE)

(* Mutant: any of the two flags ends the download.                                                *)
AllSentAny == \E x \in Buffers : buf_dl_flag[x] # 1

AllSent == buf_dl_flag[OtherBuffer(curr_wifi)] = Over

Finish ==
    /\ wifi_dl_state = "active" /\ sending = Nobody
    /\ AllSent
    /\ EndDownload(FALSE)

--------------------------------------------------------------------------------------------------
(* The storage task: the block in front of the switch over the messages.                          *)

(* Any message while no download is active.                                                       *)
MessageIdle ==
    /\ job = "none" /\ wifi_dl_state = "idle"
    /\ wifi_dl_cnt' = 0
    /\ UNCHANGED <<socketVars, sharedVars, job, job_buf, job_dl, job_from, faults>>

(* A message while a download is active.                                                          *)
MessageActive ==
    /\ job = "none" /\ wifi_dl_state = "active"
    /\ job' = "compare"
    /\ UNCHANGED <<socketVars, sharedVars, wifi_dl_cnt, job_buf, job_dl, job_from, faults>>

(* Mutant: the size the read has reached is compared, not the size sent.                          *)
MoreToReadByOffset == file_size > file_offset \/ wifi_dl_cnt = 0

(* file_size = 0 is a download whose file has not been opened.                                    *)
MoreToRead == file_size > wifi_dl_cur_size \/ wifi_dl_cnt = 0

FindMore ==
    /\ job = "compare" /\ MoreToRead
    /\ wifi_dl_cnt' = 1 /\ job' = "more"
    /\ UNCHANGED <<socketVars, sharedVars, job_buf, job_dl, job_from, faults>>

FindOver ==
    /\ job = "compare" /\ ~MoreToRead
    /\ wifi_dl_cnt' = 0 /\ job' = "over"
    /\ UNCHANGED <<socketVars, sharedVars, job_buf, job_dl, job_from, faults>>

(* curr_buf is read: the buffer to fill, or the one whose flag says that nothing more comes.       *)
Look ==
    /\ \/ job = "more" /\ job' = "look"
       \/ job = "over" /\ job' = "say"
    /\ job_buf' = curr_buf
    /\ UNCHANGED <<socketVars, sharedVars, wifi_dl_cnt, job_dl, job_from, faults>>

(* Mutant: the buffer is filled again before it has been sent.                                    *)
EmptyIgnored(x) == x \in Buffers

Empty(x) == buf_dl_flag[x] = 0

(* Where the read starts: that of a file not read before opens it and takes its size.             *)
ReadFrom == IF play_index = wanted /\ file_size # 0 THEN file_offset ELSE 0

BeginFill ==
    /\ job = "look" /\ Empty(job_buf)
    /\ job' = "fill" /\ job_dl' = dl /\ job_from' = ReadFrom
    /\ UNCHANGED <<socketVars, sharedVars, wifi_dl_cnt, job_buf, faults>>

(* The buffer has not been sent yet; or curr_buf was not 1, and a new download has made it 1       *)
(* before it was compared with 0.                                                                 *)
NothingEmpty ==
    /\ job = "look" /\ (~Empty(job_buf) \/ curr_buf # job_buf)
    /\ job' = "none"
    /\ UNCHANGED <<socketVars, sharedVars, wifi_dl_cnt, job_buf, job_dl, job_from, faults>>

(* Mutant: the rest of the file is read, whatever the buffer holds.                               *)
BytesReadUnlimited == wanted - job_from

(* What a read at job_from gives: nothing behind the end of the file.                             *)
BytesRead == IF job_from >= wanted THEN 0 ELSE LeastOf(Block, wanted - job_from)

(* The bytes go to the buffer whose address was passed: that of an earlier download is not one of *)
(* today's buffers.                                                                               *)
Filled == IF job_dl = dl THEN [data EXCEPT ![job_buf] = job_from] ELSE data

(* What a read of n bytes leaves in download_file_info.  If a new download has cleared it in the   *)
(* meantime, each assignment of the read came before that or after it, in their order.            *)
FileRead(n) ==
    IF job_dl = dl
    THEN play_index' = wanted /\ file_size' = wanted /\ file_offset' = job_from + n
    ELSE /\ file_offset' \in {file_offset, file_offset + n, job_from + n}
         /\ \/ UNCHANGED <<play_index, file_size>>
            \/ \E s \in FileSizes : play_index' \in {play_index, s} /\ file_size' = s

(* Size and flag are set, whatever download is active by now.                                     *)
FillEnds(n) ==
    /\ job = "fill" /\ job' = "switch"
    /\ buf_dl_size' = [buf_dl_size EXCEPT ![job_buf] = n]
    /\ buf_dl_flag' = [buf_dl_flag EXCEPT ![job_buf] = 1]
    /\ UNCHANGED <<socketVars, wifi_dl_cnt, job_buf, job_dl, job_from, curr_buf>>

EndFill ==
    /\ \E n \in IF job_dl = dl THEN {BytesRead} ELSE 0 .. Block : FillEnds(n) /\ FileRead(n)
    /\ data' = Filled
    /\ UNCHANGED faults

(* The file does not open: -1, and the caller gives the buffer the size 0xFFFFFFFF.               *)
OpenFails ==
    /\ faults < MaxFaults /\ faults' = faults + 1
    /\ FillEnds(Bad)
    /\ IF job_dl = dl THEN play_index' = wanted /\ file_offset' = job_from
       ELSE play_index' \in {play_index} \cup FileSizes /\ UNCHANGED file_offset
    /\ UNCHANGED <<file_size, data>>

(* The read fails: its -1 is taken for the number of bytes.                                       *)
ReadFails ==
    /\ faults < MaxFaults /\ faults' = faults + 1
    /\ FillEnds(Bad) /\ FileRead(-1)
    /\ data' = Filled

(* Mutant: the task goes on with the same buffer.                                                 *)
SwitchNot(x) == x

Switch(x) == OtherBuffer(x)

SwitchBuffer ==
    /\ job = "switch" /\ job' = "none"
    /\ curr_buf' = Switch(job_buf)
    /\ UNCHANGED <<socketVars, wifi_dl_cnt, job_buf, job_dl, job_from, faults,
                   buf_dl_flag, buf_dl_size, fileInfo, data>>

SayOver ==
    /\ job = "say" /\ job' = "none"
    /\ buf_dl_flag' = [buf_dl_flag EXCEPT ![job_buf] = Over]
    /\ UNCHANGED <<socketVars, wifi_dl_cnt, job_buf, job_dl, job_from, faults,
                   curr_buf, buf_dl_size, fileInfo, data>>

--------------------------------------------------------------------------------------------------
SocketStep == SendPacket \/ Finish \/ Freed \/ \E x \in Buffers : BeginSend(x)
StorageStep ==
    \/ MessageIdle \/ MessageActive \/ FindMore \/ FindOver \/ Look
    \/ BeginFill \/ NothingEmpty \/ EndFill \/ SwitchBuffer \/ SayOver
FaultStep == Cancel \/ SendFails \/ OpenFails \/ ReadFails \/ StartRefused

Next == Start \/ SocketStep \/ StorageStep \/ FaultStep

(* The storage timer keeps ticking and the storage task reads its queue; the socket task polls.   *)
Spec == Init /\ [][Next]_vars /\ WF_vars(SocketStep) /\ WF_vars(StorageStep)

--------------------------------------------------------------------------------------------------
TypeOK ==
    /\ wifi_dl_state \in {"idle", "active"} /\ wifi_dl_cur_size \in Nat
    /\ curr_wifi \in Buffers /\ curr_buf \in Buffers
    /\ buf_dl_flag \in [Buffers -> {0, 1, Over}] /\ buf_dl_size \in [Buffers -> 0 .. Block \cup {Bad}]
    /\ play_index \in Int /\ file_size \in Nat /\ file_offset \in Int /\ wifi_dl_cnt \in {0, 1}
    /\ sending \in Buffers \cup {Nobody, Freeing} /\ left \in 0 .. Block \cup {Bad}
    /\ job \in {"none", "compare", "more", "look", "fill", "switch", "over", "say"}
    /\ job_buf \in Buffers /\ job_dl \in Nat /\ job_from \in Int
    /\ wanted \in Nat /\ dl \in Nat /\ data \in [Buffers -> Int] /\ got \in Seq(Int)
    /\ clean \in BOOLEAN /\ torn \in BOOLEAN /\ cut \in BOOLEAN /\ faults \in Nat

Filling(x) == job = "fill" /\ job_dl = dl /\ job_buf = x

(* The loop of the socket task has ended: its buffers are being freed, or are free.               *)
Ended == wifi_dl_state = "idle" \/ sending = Freeing

(* Double buffering: in a download that started with the storage task at rest, the buffer whose   *)
(* packets are being sent is never the one being read into.                                       *)
Exclusive == clean /\ ~Ended => \A x \in Buffers : sending = x => ~Filling(x)

(* What the client has received of such a download is the beginning of the file, each packet in   *)
(* its place, but for the packets of a buffer whose read has failed.                              *)
InOrder ==
    clean => \A i \in 1 .. Len(got) : got[i] = i - 1 \/ (got[i] = Garbage /\ faults > 0)

(* A download that ends as done, and started with the storage task at rest, has sent all of the   *)
(* file.                                                                                          *)
WholeFile == clean /\ Ended /\ dl > 0 /\ ~cut => got = [i \in 1 .. wanted |-> i - 1]

(* The buffers are freed at the end of the function whatever the storage task is doing; only one  *)
(* that is cut short by the client leaves a read that goes on writing into a freed buffer.        *)
NoFillAfterFree == job = "fill" /\ job_dl = dl /\ Ended => cut

(* The buffer the storage task goes on to, also when it has not written curr_buf yet.             *)
NextBuf == IF job = "switch" THEN OtherBuffer(job_buf) ELSE curr_buf

(* The inductive invariant of the last and of Exclusive.                                          *)
FlagsInv ==
    /\ \A x \in Buffers : buf_dl_flag[x] = Over =>
          \/ NextBuf = x /\ job # "fill"
          \/ /\ x = curr_wifi /\ NextBuf = OtherBuffer(x)
             /\ buf_dl_flag[OtherBuffer(x)] # 1 /\ sending \notin Buffers
    /\ job \in {"look", "say", "fill"} /\ job_buf # curr_buf =>
          curr_wifi = job_buf /\ \A x \in Buffers : buf_dl_flag[x] = 0
    /\ job \in {"more", "look", "fill", "switch"} => wifi_dl_cnt = 1
    /\ job \in {"over", "say"} => wifi_dl_cnt = 0
    /\ job = "fill" => job_dl <= dl
    /\ dl = 0 => job = "none" /\ wifi_dl_state = "idle"
    /\ Ended /\ ~cut /\ dl > 0 => buf_dl_flag[NextBuf] = Over /\ job # "fill"
    /\ clean /\ job \in {"look", "say", "fill"} => job_buf = curr_buf
    /\ clean /\ job = "fill" => job_dl = dl /\ buf_dl_flag[job_buf] = 0
    /\ \A x \in Buffers : sending = x => buf_dl_flag[x] # 0
    /\ sending \in Buffers => left # 0
    /\ sending # Nobody => wifi_dl_state = "active"

(* Where a read under way, or the next one, starts: never behind the end of the file.             *)
OffsetInv ==
    clean =>
    /\ \/ play_index = NoFile /\ file_size = 0 /\ file_offset = 0
       \/ play_index = wanted /\ file_size \in {0, wanted}
    /\ file_offset <= wanted
    /\ job = "fill" => job_from = ReadFrom

(* The inductive invariant of InOrder and WholeFile, for a download that started at rest.         *)
(* Waits: the buffer the socket task sends next, Spent the other.  In between downloads of bytes  *)
(* the buffers are both empty, or Waits is filled, or both are.                                   *)
Waits == OtherBuffer(curr_wifi)
Spent == curr_wifi
Stuck == sending = Waits /\ buf_dl_size[Waits] = Bad
BothEmpty == NextBuf = Waits /\ buf_dl_flag[Spent] = 0 /\ buf_dl_flag[Waits] # 1 /\ sending = Nobody
OneFilled == NextBuf = Spent /\ buf_dl_flag[Waits] = 1 /\ buf_dl_flag[Spent] # 1
TwoFilled == NextBuf = Waits /\ buf_dl_flag[Spent] = 1 /\ buf_dl_flag[Waits] # 0

(* The buffer x holds the bytes of the file from place p on.                                      *)
Holds(x, p) == /\ data[x] = p /\ 0 <= p /\ p <= wanted
               /\ buf_dl_size[x] = LeastOf(Block, wanted - p)
               /\ file_size = wanted
Behind(x) == data[x] + buf_dl_size[x]
FirstPlace == IF sending = Waits THEN wifi_dl_cur_size - (buf_dl_size[Waits] - left) ELSE wifi_dl_cur_size

AtStart ==
    /\ file_size = 0 /\ wifi_dl_cur_size = 0 /\ buf_dl_flag[Waits] = 0
    /\ \/ job \in {"none", "compare"} /\ wifi_dl_cnt = 0
       \/ job \in {"more", "look", "fill"}
Prefix(g) == \A i \in 1 .. Len(g) : g[i] = i - 1

(* The buffers, and the bytes in them.                                                            *)
BuffersInv ==
    /\ BothEmpty \/ OneFilled \/ TwoFilled
    /\ sending \in {Nobody, Waits}
    /\ sending = Waits => IF buf_dl_size[Waits] = Bad THEN left = Bad ELSE left \in 1 .. buf_dl_size[Waits]
    /\ BothEmpty => ReadFrom = wifi_dl_cur_size
    /\ ~BothEmpty /\ buf_dl_size[Waits] # Bad => Holds(Waits, FirstPlace)
    /\ OneFilled /\ buf_dl_size[Waits] # Bad => ReadFrom = Behind(Waits)
    /\ TwoFilled => file_size = wanted
    /\ TwoFilled /\ buf_dl_size[Waits] # Bad /\ buf_dl_size[Spent] # Bad =>
         Holds(Spent, Behind(Waits)) /\ ReadFrom = Behind(Spent)
    /\ ~Stuck => Prefix(got) /\ wifi_dl_cur_size <= wanted

(* What the storage task knows of them.                                                           *)
TaskInv ==
    /\ BothEmpty => file_size = wanted \/ AtStart
    /\ OneFilled /\ job \in {"more", "look", "fill"} => file_size = wanted \/ buf_dl_flag[NextBuf] = Over
    /\ wifi_dl_cnt = 0 /\ job \in {"none", "compare"} => buf_dl_flag[NextBuf] = Over \/ (BothEmpty /\ AtStart)
    /\ job \in {"over", "say"} \/ (\E x \in Buffers : buf_dl_flag[x] = Over) => file_size <= wifi_dl_cur_size

PlacesInv == BuffersInv /\ TaskInv
OrderInv ==
    /\ \A x \in Buffers : buf_dl_size[x] = Bad => faults > 0
    /\ Len(got) = wifi_dl_cur_size
    /\ InOrder /\ WholeFile
    /\ clean /\ ~Ended => PlacesInv

(* Every download comes to an end, unless a read fails, or the download is torn: a started        *)
(* download ends at the latest when everything has been sent.                                     *)
Ends == wifi_dl_state = "active" /\ ~torn ~> wifi_dl_state = "idle" \/ faults > 0
====

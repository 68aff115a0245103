--------------------------- MODULE StorageService ---------------------------
(***************************************************************************)
(* The storage service task (application/task_storage_service): one        *)
(* message of StorageServiceQ is one action.                               *)
(*                                                                         *)
(* It finds numbers for new files in three tables of used numbers, opens   *)
(* the files of a recording and of a picture, watches the free space and   *)
(* deletes the oldest videos in the background, and polls the card while   *)
(* its mount timer runs.  Free space and the length of the current video   *)
(* are inputs.  The audio recorder is not built, so the table of wav files *)
(* is empty here; browsing is left out.                                    *)
(***************************************************************************)
EXTENDS CardFiles

CONSTANTS
  FreeLevels,     (* Values of the free space in MB.                        *)
  BkDelThreadMB,  (* Free space below which a video is deleted.             *)
  MaxSelfStops    (* Bound: messages by which it stops a recording itself.   *)

CARD_FULL_SIZE_RECORD == 15

ASSUME StorageAssumption ==
  /\ FreeLevels \subseteq Nat
  /\ BkDelThreadMB \in Nat
  /\ BkDelThreadMB >= 100
  /\ MaxSelfStops \in Nat

VARIABLES
  avi_file_table, jpg_file_table,  (* The numbers in use.                   *)
  g_file_index,                    (* Where the search for a number starts. *)
  g_avi_index_9999_exist,          (* Have the numbers wrapped around?      *)
  g_oldest_avi_file_index,         (* Then, where the deletion starts.      *)
  g_file_path, g_next_file_path,   (* The file being made, and the next one.*)
  mount_timer, freesize_timer,     (* Are the two timers set?               *)
  bkground_del_disble,             (* Is background deletion off?           *)
  step_work,                       (* Is a deletion in progress?            *)
  retry,                           (* Failures of the deletion, up to 3.    *)
  mounted,                         (* curr_storage_id: is the card mounted? *)
  spc,                             (* The task: idle, in the RE_DEL loop of *)
                                   (* a check, or in a loop without end.    *)
  del_free,                        (* disk_free_size of that check.         *)
  self_stops                       (* Count of those messages, for bounds.  *)

tableVars == <<avi_file_table, jpg_file_table, g_file_index,
               g_avi_index_9999_exist>>
delVars == <<g_oldest_avi_file_index, bkground_del_disble, step_work, retry,
             spc, del_free, self_stops>>
storageVars == <<tableVars, delVars, g_file_path, g_next_file_path,
                 mount_timer, freesize_timer, mounted>>

Used == avi_file_table \cup jpg_file_table

TableTypeOK ==
  /\ avi_file_table \subseteq Idx
  /\ jpg_file_table \subseteq Idx
  /\ g_file_index \in Idx
  /\ g_avi_index_9999_exist \in BOOLEAN
DelTypeOK ==
  /\ g_oldest_avi_file_index \in Idx
  /\ bkground_del_disble \in BOOLEAN
  /\ step_work \in BOOLEAN
  /\ retry \in 0 .. 3
  /\ spc \in {"idle", "re_del", "hung"}
  /\ del_free \in FreeLevels \cup {0}
  /\ self_stops \in 0 .. MaxSelfStops
CardTimerTypeOK ==
  /\ g_file_path \in Names \cup {NoName}
  /\ g_next_file_path \in Names \cup {NoName}
  /\ mount_timer \in BOOLEAN
  /\ freesize_timer \in BOOLEAN
  /\ mounted \in BOOLEAN
StorageTypeOK == TableTypeOK /\ DelTypeOK /\ CardTimerTypeOK

\* The state after start-up has mounted a card without videos.
StorageInit ==
  /\ avi_file_table = {}
  /\ jpg_file_table = {}
  /\ g_file_index = 0
  /\ g_avi_index_9999_exist = FALSE
  /\ g_oldest_avi_file_index = 0
  /\ g_file_path = NoName
  /\ g_next_file_path = NoName
  /\ mount_timer = TRUE
  /\ freesize_timer = FALSE
  /\ bkground_del_disble = FALSE
  /\ step_work = FALSE
  /\ retry = 0
  /\ mounted = TRUE
  /\ spc = "idle"
  /\ del_free = 0
  /\ self_stops = 0

\* The task takes a message id of its queue and posts nothing to itself.
Serve(id) ==
  /\ spc = "idle"
  /\ Next_(ssq, id)
  /\ ssq' = Tail(ssq)

Reply(id, h) == apq' = Append(apq, Msg(id, h))

-----------------------------------------------------------------------------
(* Timers.                                                                  *)

\* The software timer posts the message of a set timer.  Bound: a message
\* is posted only when the last one has been served.
MountTick ==
  /\ mount_timer
  /\ ~Has(ssq, "STORAGE_CHECK")
  /\ ssq' = Append(ssq, Req("STORAGE_CHECK", FALSE))
  /\ UNCHANGED <<apq, cardVars, storageVars>>

FreesizeTick ==
  /\ freesize_timer
  /\ ~Has(ssq, "FREESIZE_CHECK")
  /\ ssq' = Append(ssq, Req("FREESIZE_CHECK", FALSE))
  /\ UNCHANGED <<apq, cardVars, storageVars>>

\* Mutant: the card is not polled while the free space is checked.
TimerStartUnlessChecking ==
  /\ Serve("TIMER_START")
  /\ mount_timer' = ~freesize_timer
  /\ UNCHANGED <<apq, cardVars, tableVars, delVars, g_file_path,
                 g_next_file_path, freesize_timer, mounted>>

TimerStart ==
  /\ Serve("TIMER_START")
  /\ mount_timer' = TRUE
  /\ UNCHANGED <<apq, cardVars, tableVars, delVars, g_file_path,
                 g_next_file_path, freesize_timer, mounted>>

FreesizeCheckSwitch ==
  /\ \/ Serve("FREESIZE_CHECK_SWITCH") /\ freesize_timer' = Head(ssq).on
     \/ Serve("AUTO_DEL_LOCK") /\ freesize_timer' = FALSE
  /\ UNCHANGED <<apq, cardVars, tableVars, delVars, g_file_path,
                 g_next_file_path, mount_timer, mounted>>

-----------------------------------------------------------------------------
(* New files.                                                               *)

\* The first number from g_file_index on, around the end, that no table has.
FreeIndex ==
  LET At(d) == (g_file_index + d) % N
      d == CHOOSE d \in Idx : /\ At(d) \notin Used
                              /\ \A e \in 0 .. d - 1 : At(e) \in Used
  IN  At(d)

\* The number i is taken for the file n, opened as h: the tables and the
\* search start are left alone when the file could not be opened.
Take(table, h, i) == IF h = NoHandle THEN table ELSE table \cup {i}
Advance(h, i) ==
  /\ g_file_index' = IF h = NoHandle THEN i ELSE (i + 1) % N
  /\ g_avi_index_9999_exist' =
       (g_avi_index_9999_exist \/ (h # NoHandle /\ i = N - 1))
Truncate(h, n) ==
  IF h = NoHandle
  THEN UNCHANGED <<disk, opened>>
  ELSE disk' = disk \cup {n} /\ opened' = Opened(opened, h, n)

\* ap_storage_service_file_open_handle, for a video or a picture.
FileOpen(req, reply, prefix) ==
  /\ Serve(req)
  /\ Used # Idx
  /\ mount_timer' = FALSE
  /\ \E h \in {OpenHandle(card /\ mounted)} :
       LET i == IF prefix = "PICT" /\ ~mounted THEN 0 ELSE FreeIndex IN
       /\ g_file_path' = <<prefix, i>>
       /\ Truncate(h, <<prefix, i>>)
       /\ Advance(h, i)
       /\ IF prefix = "MOVI"
          THEN /\ avi_file_table' = Take(avi_file_table, h, i)
               /\ UNCHANGED jpg_file_table
          ELSE /\ jpg_file_table' = Take(jpg_file_table, h, i)
               /\ UNCHANGED avi_file_table
       /\ Reply(reply, h)
  /\ UNCHANGED <<card, delVars, g_next_file_path, freesize_timer, mounted>>

VidReq == FileOpen("VID_REQ", "VID_REPLY", "MOVI")
PicReq == FileOpen("PIC_REQ", "PIC_REPLY", "PICT")

\* "No filename can use": the handler returns without a reply, after going
\* once around the numbers and one further.
NoFilename ==
  /\ Used = Idx
  /\ \/ Serve("VID_REQ")
     \/ Serve("PIC_REQ")
  /\ mount_timer' = FALSE
  /\ g_file_index' = (g_file_index + 1) % N
  /\ UNCHANGED <<apq, cardVars, delVars, avi_file_table, jpg_file_table,
                 g_avi_index_9999_exist, g_file_path, g_next_file_path,
                 freesize_timer, mounted>>

\* ap_storage_service_cyclic_record_file_open_handle(TRUE).
CyclicOpen ==
  /\ Serve("VID_CYCLIC_REQ")
  /\ Head(ssq).on
  /\ Used # Idx
  /\ mount_timer' = FALSE
  /\ \E h \in {OpenHandle(card /\ mounted)} :
       /\ g_next_file_path' = <<"MOVI", FreeIndex>>
       /\ Truncate(h, <<"MOVI", FreeIndex>>)
       /\ Advance(h, FreeIndex)
       /\ avi_file_table' = Take(avi_file_table, h, FreeIndex)
       /\ Reply("VID_CYCLIC_REPLY", h)
  /\ UNCHANGED <<card, jpg_file_table, delVars, g_file_path, freesize_timer,
                 mounted>>

\* The search of that function has no count of its steps: it never ends
\* when every number is used.
CyclicHang ==
  /\ Serve("VID_CYCLIC_REQ")
  /\ Head(ssq).on
  /\ Used = Idx
  /\ mount_timer' = FALSE
  /\ spc' = "hung"
  /\ UNCHANGED <<apq, cardVars, tableVars, g_oldest_avi_file_index,
                 bkground_del_disble, step_work, retry, del_free, self_stops,
                 g_file_path, g_next_file_path, freesize_timer, mounted>>

\* Mutant: the request is served twice.
CyclicUndoTwice ==
  /\ Serve("VID_CYCLIC_REQ")
  /\ ~Head(ssq).on
  /\ g_file_index' = (g_file_index + 2 * (N - 1)) % N
  /\ avi_file_table' =
       avi_file_table \ {g_file_index', (g_file_index' + 1) % N}
  /\ UNCHANGED <<apq, cardVars, jpg_file_table, g_avi_index_9999_exist,
                 delVars, g_file_path, g_next_file_path, mount_timer,
                 freesize_timer, mounted>>

\* ...(FALSE): the last number handed out is taken back.
CyclicUndo ==
  /\ Serve("VID_CYCLIC_REQ")
  /\ ~Head(ssq).on
  /\ g_file_index' = (g_file_index + N - 1) % N
  /\ avi_file_table' = avi_file_table \ {g_file_index'}
  /\ UNCHANGED <<apq, cardVars, jpg_file_table, g_avi_index_9999_exist,
                 delVars, g_file_path, g_next_file_path, mount_timer,
                 freesize_timer, mounted>>

-----------------------------------------------------------------------------
(* The card.                                                                *)

NumbersOn(prefixes) == {i \in Idx : \E p \in prefixes : <<p, i>> \in disk}

\* ap_storage_service_storage_mount finds a card that was not mounted: files
\* with next to nothing in them (any can be one) are removed, and the tables
\* are built from the names of the others.  Once the last number exists, the
\* search starts after the newest file, which can be any.
MountCard ==
  /\ card
  /\ ~mounted
  /\ mounted' = TRUE
  /\ disk' \in SUBSET disk
  /\ avi_file_table' = NumbersOn({"MOVI", "LOCK"})'
  /\ jpg_file_table' = NumbersOn({"PICT"})'
  /\ LET used == avi_file_table' \cup jpg_file_table'
         wrapped == N - 1 \in used IN
     /\ g_avi_index_9999_exist' = wrapped
     /\ \E i \in Idx :
          /\ g_file_index' = i
          /\ ~wrapped => (i = 0 \/ i - 1 \in used) /\ \A j \in used : j < i
     /\ \E i \in IF NumbersOn({"MOVI"})' = {} THEN {g_oldest_avi_file_index}
                 ELSE NumbersOn({"MOVI"})' : g_oldest_avi_file_index' = i
  /\ Reply("MOUNT", NoHandle)

LoseCard ==
  /\ ~card
  /\ mounted
  /\ mounted' = FALSE
  /\ avi_file_table' = {}
  /\ jpg_file_table' = {}
  /\ g_file_index' = 0
  /\ UNCHANGED <<disk, g_avi_index_9999_exist, g_oldest_avi_file_index>>
  /\ Reply("NO_STORAGE", NoHandle)

SameCard ==
  /\ card = mounted
  /\ UNCHANGED <<apq, disk, tableVars, g_oldest_avi_file_index, mounted>>

\* A check that finds the mount timer stopped does nothing; any other leaves
\* it running.
StorageCheck ==
  /\ Serve("STORAGE_CHECK")
  /\ IF mount_timer
     THEN MountCard \/ LoseCard \/ SameCard
     ELSE UNCHANGED <<apq, disk, tableVars, g_oldest_avi_file_index, mounted>>
  /\ UNCHANGED <<card, opened, bkground_del_disble, step_work, retry, spc,
                 del_free, self_stops, g_file_path, g_next_file_path,
                 mount_timer, freesize_timer>>

-----------------------------------------------------------------------------
(* Background deletion.                                                     *)

\* The first number of S, counting up from `from` and around, or N for none.
FirstOf(S, from) ==
  IF S = {} THEN N
  ELSE CHOOSE i \in S :
         \A j \in S : (i + N - from) % N <= (j + N - from) % N

\* The number of the video to delete, or N for none.  Until the numbers wrap
\* it is the least whose video exists and is not locked.  After that, it is
\* the first from g_oldest_avi_file_index on, and the result of stat is not
\* looked at: for a number whose video is locked or gone the attributes are
\* left over from an earlier call (or from the stack), and either all of those
\* before the first video count as videos to delete or none does.
DelIndex(i) ==
  LET videos == {j \in avi_file_table : card /\ <<"MOVI", j>> \in disk} IN
  IF g_avi_index_9999_exist
  THEN i \in {FirstOf(videos, g_oldest_avi_file_index),
              FirstOf(avi_file_table, g_oldest_avi_file_index)}
  ELSE i = FirstOf(videos, 0)

\* The video being recorded is not deleted.
SparedNone(i) == FALSE          (* Mutant: it is.                           *)
Spared(i) == <<"MOVI", i>> = g_file_path

\* No video to delete, or only the one being recorded.
DelNothing(free, rest) ==
  /\ \E i \in 0 .. N :
       /\ DelIndex(i)
       /\ i = N \/ Spared(i)
       /\ g_oldest_avi_file_index' =
            IF i # N /\ g_avi_index_9999_exist THEN (i + 1) % N
            ELSE g_oldest_avi_file_index
  /\ bkground_del_disble' = (bkground_del_disble \/ free <= 50)
  /\ ssq' = IF free <= 50
            THEN Append(rest, Req("FREESIZE_CHECK", FALSE))
            ELSE rest
  /\ spc' = "idle"
  /\ del_free' = 0
  /\ UNCHANGED <<apq, disk, avi_file_table, step_work, retry, self_stops>>

\* unlink starts; when space is short it is finished at once, and while it
\* stays short the handler goes round again with the same disk_free_size.
DelVideo(free, rest) ==
  /\ \E i \in Idx :
       /\ DelIndex(i)
       /\ ~Spared(i)
       /\ disk' = Unlinked(disk, <<"MOVI", i>>)
       /\ IF disk' # disk
          THEN /\ avi_file_table' = avi_file_table \ {i}
               /\ retry' = 0
               /\ step_work' = (free > 70)
          ELSE /\ avi_file_table' =
                    IF retry = 3 THEN avi_file_table \ {i} ELSE avi_file_table
               /\ retry' = (retry + 1) % 4
               /\ step_work' = FALSE
       /\ g_oldest_avi_file_index' =
            IF disk' # disk \/ g_avi_index_9999_exist THEN (i + 1) % N
            ELSE g_oldest_avi_file_index
  /\ ssq' = rest
  /\ \/ spc' = "idle" /\ del_free' = 0
     \/ free <= 70 /\ spc' = "re_del" /\ del_free' = free
  /\ UNCHANGED <<apq, bkground_del_disble, self_stops>>

\* A message that stops the recording, or stops and starts it.
SelfStop(id) ==
  /\ self_stops < MaxSelfStops
  /\ self_stops' = self_stops + 1
  /\ Reply(id, NoHandle)

\* Deletion is off: recording stops when the card is full, and starts a new
\* file when the current one reaches the greatest size.
DelDisabled(free, rest) ==
  /\ \/ /\ free < CARD_FULL_SIZE_RECORD
        /\ SelfStop("VDO_REC_STOP")
     \/ /\ free > 50
        /\ SelfStop("VDO_REC_RESTART")
     \/ /\ free >= CARD_FULL_SIZE_RECORD \/ self_stops = MaxSelfStops
        /\ UNCHANGED <<apq, self_stops>>
  /\ ssq' = rest
  /\ spc' = "idle"
  /\ del_free' = 0
  /\ UNCHANGED <<disk, avi_file_table, g_oldest_avi_file_index,
                 bkground_del_disble, step_work, retry>>

\* From the label RE_DEL on; rest are the messages still to be served.
ReDel(free, rest) ==
  \/ bkground_del_disble /\ DelDisabled(free, rest)
  \/ ~bkground_del_disble /\ (DelNothing(free, rest) \/ DelVideo(free, rest))

DelUnchanged ==
  UNCHANGED <<card, opened, jpg_file_table, g_file_index,
              g_avi_index_9999_exist, g_file_path, g_next_file_path,
              mount_timer, freesize_timer, mounted>>

\* ap_storage_service_freesize_check_and_del, from the timer or, with the
\* number 0xFFFFFFFF, as a VIDEO_FILE_DEL request.
FreesizeCheck ==
  /\ spc = "idle"
  /\ Next_(ssq, "FREESIZE_CHECK") \/ Next_(ssq, "VIDEO_FILE_DEL")
  /\ freesize_timer /\ ~step_work
  /\ \E free \in FreeLevels :
       IF bkground_del_disble \/ free <= BkDelThreadMB
       THEN ReDel(free, Tail(ssq))
       ELSE /\ ssq' = Tail(ssq)
            /\ UNCHANGED <<apq, disk, avi_file_table, delVars>>
  /\ DelUnchanged

FreesizeCheckAgain ==
  /\ spc = "re_del"
  /\ ReDel(del_free, ssq)
  /\ DelUnchanged

\* The timer was stopped meanwhile, or a deletion in progress goes on.
FreesizeCheckStep ==
  /\ Serve("FREESIZE_CHECK") \/ Serve("VIDEO_FILE_DEL")
  /\ ~freesize_timer \/ step_work
  /\ \/ UNCHANGED step_work
     \/ freesize_timer /\ step_work' = FALSE
  /\ UNCHANGED <<apq, cardVars, tableVars, g_oldest_avi_file_index,
                 bkground_del_disble, retry, spc, del_free, self_stops,
                 g_file_path, g_next_file_path, mount_timer, freesize_timer,
                 mounted>>

StorageTick == MountTick \/ FreesizeTick

StorageTask ==
  \/ TimerStart \/ FreesizeCheckSwitch
  \/ VidReq \/ PicReq \/ NoFilename
  \/ CyclicOpen \/ CyclicHang \/ CyclicUndo
  \/ StorageCheck
  \/ FreesizeCheck \/ FreesizeCheckAgain \/ FreesizeCheckStep

=============================================================================

---------------------------- MODULE VideoRecord ----------------------------
(***************************************************************************)
(* Video recording: the state task in its recording state, the encoder it  *)
(* calls, and the storage service, over their two queues.                  *)
(*                                                                         *)
(* The state task asks the storage service for the file to record and,     *)
(* while it records, for the next one of the loop; the replies carry file  *)
(* handles, which the state task hands to the AVI packer, or closes.  The  *)
(* path that goes with a handle is never copied: every reply points to the *)
(* storage service's g_file_path or g_next_file_path.                      *)
(*                                                                         *)
(* One message of ApQ is one action, except VDO_REC_RESTART, which calls   *)
(* ap_video_record_func_key_active twice: again holds the second call.     *)
(* The mode key leaves the recording state for the preview, whose handling *)
(* of the messages that come meanwhile is here too; WiFi is off.           *)
(***************************************************************************)
EXTENDS StorageService

CONSTANTS
  RecordTimeOff,  (* Is the loop recording time set to "off" (0)?           *)
  Inputs,         (* The messages other parts of the system send here.      *)
  MaxInputs,      (* Bound: such messages.                                  *)
  MaxCycles,      (* Bound: expiries of the loop recording timer.           *)
  MaxFaults,      (* Bound: failures of the encoder.                        *)
  MaxCardMoves    (* Bound: times the card is taken out or put in.          *)

\* The keys after which a recording may only stop between two files.
UserKeysAndFull == {"VIDEO_RECORD_ACTIVE", "VDO_REC_STOP"}     (* Mutant. *)
UserKeys == {"VIDEO_RECORD_ACTIVE"}

\* PREV_KEY stands for every message that stops a recording, if there is
\* one, by a call of func_key_active with an event that is not a user key:
\* the WiFi key, the charger, the television plug, a low battery, the PC.
InputIds == {"VIDEO_RECORD_ACTIVE", "PREV_KEY", "SOS_KEY", "GET_JPEG",
             "VDO_REC_STOP", "AVI_PACKER_ERROR", "MODE"}

ASSUME RecordAssumption ==
  /\ RecordTimeOff \in BOOLEAN
  /\ Inputs \subseteq InputIds
  /\ {MaxInputs, MaxCycles, MaxFaults, MaxCardMoves} \subseteq Nat

VARIABLES
  present_state,         (* The state whose loop reads ApQ.                 *)
  busy, unmounted,       (* VIDEO_RECORD_BUSY and _UNMOUNT; in the preview, *)
                         (* whether storage_id is NO_STORAGE.               *)
  curr, next,            (* Handles of curr_file_info and next_file_info.   *)
  has_path,              (* Does curr_file_info.file_path_addr point to     *)
                         (* g_file_path?  Not before the first reply, nor   *)
                         (* after one without a file, which leaves it unset.*)
  lock_flag,             (* g_lock_current_file_flag.                       *)
  continuing,            (* g_cycle_record_continuing_flag.                 *)
  prev_path,             (* g_cycle_prev_file_path.                         *)
  cyclic_timer,          (* Is the loop recording timer set?                *)
  again,                 (* An event still to be handled by func_key_active.*)
  packer,                (* Is the AVI packer open (AVI_ENCODER_STATE_...)? *)
  packer_file,           (* Its file_handle.                                *)
  done,                  (* History: the finished videos on the card.       *)
  inputs, cycles, faults, moves   (* Counts, for the bounds.                *)

recordVars == <<busy, curr, next, has_path, lock_flag, continuing, prev_path,
                cyclic_timer>>
encoderVars == <<packer, packer_file>>
countVars == <<inputs, cycles, faults, moves>>
vars == <<apq, ssq, cardVars, storageVars, recordVars, unmounted,
          present_state, again, encoderVars, done, countVars>>

StateTypeOK ==
  /\ present_state \in {"VIDEO_RECORD", "VIDEO_PREVIEW"}
  /\ unmounted \in BOOLEAN
  /\ again \in {"none", "VDO_REC_RESTART"}
RecordTypeOK ==
  /\ busy \in BOOLEAN
  /\ curr \in Handles \cup {NoHandle}
  /\ next \in Handles \cup {NoHandle}
  /\ has_path \in BOOLEAN
  /\ continuing \in BOOLEAN
  /\ cyclic_timer \in BOOLEAN
  /\ lock_flag \in 0 .. 2
  /\ prev_path \in Names \cup {NoName}
EncoderTypeOK == packer \in BOOLEAN /\ packer_file \in Handles \cup {NoHandle}
CountTypeOK ==
  /\ inputs \in 0 .. MaxInputs
  /\ cycles \in 0 .. MaxCycles
  /\ faults \in 0 .. MaxFaults
  /\ moves \in 0 .. MaxCardMoves
TypeOK ==
  /\ CardTypeOK /\ StorageTypeOK
  /\ StateTypeOK /\ RecordTypeOK /\ EncoderTypeOK /\ CountTypeOK
  /\ done \subseteq Names

Init ==
  /\ CardInit
  /\ StorageInit
  /\ present_state = "VIDEO_RECORD"
  /\ busy = FALSE
  /\ unmounted = FALSE
  /\ curr = NoHandle
  /\ next = NoHandle
  /\ has_path = FALSE
  /\ lock_flag = 0
  /\ continuing = FALSE
  /\ prev_path = NoName
  /\ cyclic_timer = FALSE
  /\ again = "none"
  /\ packer = FALSE
  /\ packer_file = NoHandle
  /\ done = {}
  /\ inputs = 0
  /\ cycles = 0
  /\ faults = 0
  /\ moves = 0

\* The recording state takes a message id, in the middle of no other.
Handle(id) ==
  /\ present_state = "VIDEO_RECORD"
  /\ again = "none"
  /\ Next_(apq, id)
  /\ apq' = Tail(apq)

Fault == faults < MaxFaults /\ faults' = faults + 1

\* What the storage task alone changes.
serviceVars == <<mount_timer, freesize_timer, mounted, avi_file_table,
                 jpg_file_table, g_file_index, g_avi_index_9999_exist,
                 g_oldest_avi_file_index, retry, spc, del_free, self_stops,
                 g_next_file_path>>

-----------------------------------------------------------------------------
(* The encoder.                                                             *)

\* video_encode_stop when the packer is open: it closes the file it was
\* given.  It reports a failure when the encoder or the audio task does not
\* answer; when the packer fails to finish its file it also stays open.
EncodeStopped(ok) ==
  /\ packer_file' = NoHandle
  /\ \/ ok /\ packer' = FALSE /\ UNCHANGED faults
     \/ ~ok /\ Fault /\ packer' \in BOOLEAN

\* The handles video_encode_stop closes.
StopCloses == IF packer THEN {packer_file} ELSE {}

\* video_encode_start on h: the packer is given h even when it is open
\* already, and then refuses.  It fails without the index file, and, open by
\* then, when the encoder does not answer.
EncodeStart(h, ok) ==
  /\ packer_file' = h
  /\ \/ ok /\ ~packer /\ packer' = TRUE /\ UNCHANGED faults
     \/ ~ok /\ packer /\ UNCHANGED <<packer, faults>>
     \/ ~ok /\ ~packer /\ Fault /\ packer' \in BOOLEAN

-----------------------------------------------------------------------------
(* ap_video_record_func_key_active.                                         *)

\* While recording: a user key is refused until both files are there.
CurrReady == curr # NoHandle            (* Mutant: the next one is forgotten. *)
FilesReady == NoHandle \notin {curr, next}

FuncKeyRefused(event) ==
  /\ busy
  /\ event \in UserKeys
  /\ ~FilesReady
  /\ UNCHANGED <<ssq, cardVars, storageVars, recordVars, encoderVars, faults>>

\* The events of handlers that stop a recording only if there is one post
\* pre before, and post after, what the stop itself posts.
\*
\* While recording: the encoder is stopped, the file kept (and locked, when
\* that was asked for) or, if that failed, removed; the next file, opened
\* but not used, is removed too and its number given back.
FuncKeyStop(event, pre, post) ==
  /\ busy
  /\ event \in UserKeys => FilesReady
  /\ \E ok \in BOOLEAN :
       LET lock == ok /\ lock_flag > 0 /\ has_path
           kept == CASE lock -> Locked(disk, g_file_path)
                     [] ~ok -> Unlinked(disk, g_file_path)
                     [] OTHER -> disk IN
       /\ IF packer THEN EncodeStopped(ok)
          ELSE ok /\ UNCHANGED <<encoderVars, faults>>
       /\ curr' = IF ok THEN curr ELSE NoHandle
       /\ g_file_path' = IF lock THEN LockName(g_file_path) ELSE g_file_path
       /\ disk' = IF next # NoHandle THEN Unlinked(kept, g_next_file_path)
                  ELSE kept
       /\ opened' = Closed(opened, StopCloses \cup {next}
                                     \cup (IF ok THEN {} ELSE {curr}))
  /\ step_work' = FALSE
  /\ cyclic_timer' = FALSE
  /\ next' = NoHandle
  /\ lock_flag' = 0
  /\ continuing' = FALSE
  /\ busy' = FALSE
  /\ ssq' = <<Req("FREESIZE_CHECK_SWITCH", FALSE)>> \o ssq \o pre
            \o (IF next # NoHandle THEN <<Req("VID_CYCLIC_REQ", FALSE)>>
                ELSE << >>)
            \o <<Req("TIMER_START", FALSE)>> \o post
  /\ UNCHANGED <<card, serviceVars, bkground_del_disble, has_path, prev_path>>

\* Not recording: a file is asked for, unless no card is mounted or, when
\* old videos are not deleted, it is full.
FuncKeyStart ==
  /\ ~busy
  /\ ~unmounted
  /\ RecordTimeOff => \E free \in FreeLevels : free >= CARD_FULL_SIZE_RECORD
  /\ busy' = TRUE
  /\ curr' = NoHandle
  /\ ssq' = Append(ssq, Req("VID_REQ", FALSE))
  /\ UNCHANGED <<cardVars, storageVars, next, has_path, lock_flag, continuing,
                 prev_path, cyclic_timer, encoderVars, faults>>

FuncKeyNoStart ==
  /\ ~busy
  /\ \/ unmounted
     \/ RecordTimeOff /\ \E free \in FreeLevels : free < CARD_FULL_SIZE_RECORD
  /\ UNCHANGED <<ssq, cardVars, storageVars, recordVars, encoderVars, faults>>

FuncKey(event) ==
  \/ FuncKeyRefused(event) \/ FuncKeyStop(event, << >>, << >>)
  \/ FuncKeyStart \/ FuncKeyNoStart

\* ap_video_record_error_handle, and the handlers that stop if it is busy.
StopIfBusy(pre, post) ==
  \/ busy /\ FuncKeyStop("NULL", pre, post)
  \/ /\ ~busy
     /\ ssq' = ssq \o pre \o post
     /\ UNCHANGED <<cardVars, storageVars, recordVars, encoderVars, faults>>

-----------------------------------------------------------------------------
(* Messages of the recording state.                                         *)

RecordActive ==
  /\ Handle("VIDEO_RECORD_ACTIVE")
  /\ FuncKey("VIDEO_RECORD_ACTIVE")
  /\ UNCHANGED <<unmounted, present_state, again, inputs, cycles, moves>>

VdoRecStop ==
  /\ Handle("VDO_REC_STOP")
  /\ FuncKey("VDO_REC_STOP")
  /\ UNCHANGED <<unmounted, present_state, again, inputs, cycles, moves>>

\* One call of func_key_active here, and another one by falling through to
\* the case of VDO_REC_STOP.
VdoRecRestart ==
  /\ Handle("VDO_REC_RESTART")
  /\ FuncKey("VDO_REC_RESTART")
  /\ again' = "VDO_REC_RESTART"
  /\ UNCHANGED <<unmounted, present_state, inputs, cycles, moves>>

FallThrough ==
  /\ again # "none"
  /\ FuncKey(again)
  /\ again' = "none"
  /\ UNCHANGED <<apq, unmounted, present_state, inputs, cycles, moves>>

PrevKey ==
  /\ Handle("PREV_KEY")
  /\ StopIfBusy(<< >>, << >>)
  /\ UNCHANGED <<unmounted, present_state, again, inputs, cycles, moves>>

\* The packer could not write.  With the card still there, recording starts
\* again, unless the card is full; without it, the card is checked.
AviPackerError ==
  /\ present_state = "VIDEO_RECORD"
  /\ again = "none"
  /\ Next_(apq, "AVI_PACKER_ERROR")
  /\ \/ /\ card
        /\ \E free \in FreeLevels : free >= CARD_FULL_SIZE_RECORD
        /\ StopIfBusy(<< >>, << >>)
        /\ apq' = Append(Tail(apq), Msg("VIDEO_RECORD_ACTIVE", NoHandle))
     \/ /\ card
        /\ \E free \in FreeLevels : free < CARD_FULL_SIZE_RECORD
        /\ StopIfBusy(<< >>, <<Req("TIMER_START", FALSE)>>)
        /\ apq' = Tail(apq)
     \/ /\ ~card
        /\ StopIfBusy(<< >>, <<Req("STORAGE_CHECK", FALSE)>>)
        /\ apq' = Tail(apq)
  /\ UNCHANGED <<unmounted, present_state, again, inputs, cycles, moves>>

MountMsgIgnored ==              (* Mutant: the mount is not noted.          *)
  /\ Handle("MOUNT")
  /\ UNCHANGED <<ssq, cardVars, storageVars, recordVars, unmounted,
                 present_state, again, encoderVars, countVars>>

MountMsg ==
  /\ Handle("MOUNT")
  /\ unmounted' = FALSE
  /\ UNCHANGED <<ssq, cardVars, storageVars, busy, curr, next, has_path,
                 lock_flag, continuing, prev_path, cyclic_timer,
                 present_state, again, encoderVars, countVars>>

SosKeyCounts ==                 (* Mutant: every press locks one file more. *)
  /\ Handle("SOS_KEY")
  /\ lock_flag' = IF busy THEN lock_flag + 1 ELSE lock_flag
  /\ UNCHANGED <<ssq, cardVars, storageVars, busy, unmounted, curr, next,
                 has_path, continuing, prev_path, cyclic_timer, present_state,
                 again, encoderVars, countVars>>

SosKey ==
  /\ Handle("SOS_KEY")
  /\ IF busy
     THEN /\ \/ lock_flag' = 1
             \/ ~RecordTimeOff /\ lock_flag' = 2
          /\ \/ UNCHANGED <<disk, prev_path>>
             \/ /\ continuing
                /\ disk' = Locked(disk, prev_path)
                /\ prev_path' = LockName(prev_path)
     ELSE UNCHANGED <<disk, prev_path, lock_flag>>
  /\ UNCHANGED <<ssq, card, opened, storageVars, busy, unmounted, curr, next,
                 has_path, continuing, cyclic_timer, present_state, again,
                 encoderVars, countVars>>

GetJpeg ==
  /\ Handle("GET_JPEG")
  /\ \/ busy /\ ssq' = Append(ssq, Req("PIC_REQ", FALSE))
     \/ UNCHANGED ssq
  /\ UNCHANGED <<cardVars, storageVars, recordVars, unmounted, present_state,
                 again, encoderVars, countVars>>

PicReply ==
  /\ Next_(apq, "PIC_REPLY")
  /\ Handle("PIC_REPLY")
  /\ opened' = Closed(opened, {Head(apq).h})
  /\ UNCHANGED <<ssq, card, disk, storageVars, recordVars, unmounted,
                 present_state, again, encoderVars, countVars>>

\* The card is gone: a recording stops, and its lock is forgotten.
NoStorage ==
  /\ Handle("NO_STORAGE")
  /\ unmounted' = TRUE
  /\ \/ FuncKeyStop("NULL", <<Req("AUTO_DEL_LOCK", FALSE)>>, << >>)
     \/ /\ ~busy
        /\ ssq' = Append(ssq, Req("AUTO_DEL_LOCK", FALSE))
        /\ lock_flag' = 0
        /\ continuing' = FALSE
        /\ UNCHANGED <<cardVars, storageVars, busy, curr, next, has_path,
                       prev_path, cyclic_timer, encoderVars, faults>>
  /\ UNCHANGED <<present_state, again, inputs, cycles, moves>>

-----------------------------------------------------------------------------
(* Replies of the storage service.                                          *)

\* A reply that comes when nothing is recorded any more: its file is removed
\* and its number given back.
LateReplyAlways(path) ==        (* Mutant: whether recording or not.        *)
  /\ ssq' = Append(ssq, Req("VID_CYCLIC_REQ", FALSE))
  /\ opened' = Closed(opened, {Head(apq).h})
  /\ disk' = IF Head(apq).h = NoHandle THEN disk ELSE Unlinked(disk, path)
  /\ UNCHANGED <<card, storageVars, recordVars, encoderVars, faults>>

LateReply(path) ==
  /\ ~busy
  /\ ssq' = Append(ssq, Req("VID_CYCLIC_REQ", FALSE))
  /\ opened' = Closed(opened, {Head(apq).h})
  /\ disk' = IF Head(apq).h = NoHandle THEN disk ELSE Unlinked(disk, path)
  /\ UNCHANGED <<card, storageVars, recordVars, encoderVars, faults>>

\* ap_video_record_reply_action without a file, with one the encoder refuses,
\* and with one it records.
ReplyNoFile ==
  /\ busy
  /\ Head(apq).h = NoHandle
  /\ curr' = NoHandle
  /\ has_path' = FALSE
  /\ busy' = FALSE
  /\ bkground_del_disble' = RecordTimeOff
  /\ ssq' = Append(ssq, Req("TIMER_START", FALSE))
  /\ UNCHANGED <<cardVars, serviceVars, g_file_path, step_work, next,
                 lock_flag, continuing, prev_path, cyclic_timer, encoderVars,
                 faults>>

ReplyStartFails ==
  /\ busy
  /\ Head(apq).h # NoHandle
  /\ EncodeStart(Head(apq).h, FALSE)
  /\ opened' = Closed(opened, {Head(apq).h})
  /\ disk' = Unlinked(disk, g_file_path)
  /\ curr' = NoHandle
  /\ has_path' = TRUE
  /\ busy' = FALSE
  /\ bkground_del_disble' = RecordTimeOff
  /\ ssq' = ssq \o <<Req("VID_CYCLIC_REQ", FALSE), Req("TIMER_START", FALSE)>>
  /\ UNCHANGED <<card, serviceVars, g_file_path, step_work, next, lock_flag,
                 continuing, prev_path, cyclic_timer>>

ReplyStart ==
  /\ busy
  /\ Head(apq).h # NoHandle
  /\ EncodeStart(Head(apq).h, TRUE)
  /\ curr' = Head(apq).h
  /\ has_path' = TRUE
  /\ cyclic_timer' = TRUE
  /\ bkground_del_disble' = RecordTimeOff
  /\ \E del \in BOOLEAN :
       /\ del => ~RecordTimeOff /\ \E free \in FreeLevels : free < BkDelThreadMB
       /\ ssq' = ssq \o <<Req("VID_CYCLIC_REQ", TRUE),
                          Req("FREESIZE_CHECK_SWITCH", TRUE)>>
                     \o (IF del THEN <<Req("VIDEO_FILE_DEL", FALSE)>> ELSE << >>)
  /\ UNCHANGED <<cardVars, serviceVars, g_file_path, step_work, busy, next,
                 lock_flag, continuing, prev_path>>

VidReply ==
  /\ Handle("VID_REPLY")
  /\ LateReply(g_file_path) \/ ReplyNoFile \/ ReplyStartFails \/ ReplyStart
  /\ UNCHANGED <<unmounted, present_state, again, inputs, cycles, moves>>

\* The next file is remembered, in place of one that may be open already.
VidCyclicReply ==
  /\ Handle("VID_CYCLIC_REPLY")
  /\ \/ LateReply(g_next_file_path)
     \/ /\ busy
        /\ next' = IF Head(apq).h = NoHandle THEN next ELSE Head(apq).h
        /\ UNCHANGED <<ssq, cardVars, storageVars, busy, curr, has_path,
                       lock_flag, continuing, prev_path, cyclic_timer,
                       encoderVars, faults>>
  /\ UNCHANGED <<unmounted, present_state, again, inputs, cycles, moves>>

-----------------------------------------------------------------------------
(* The loop recording timer: ap_video_record_cycle_reply_action.            *)

\* Mutant: the path is not overwritten.
SwitchFileKeepsPath ==
  /\ next # NoHandle
  /\ packer
  /\ packer_file' = next
  /\ opened' = Closed(opened, {packer_file})
  /\ disk' = IF lock_flag > 0 THEN Locked(disk, g_file_path) ELSE disk
  /\ prev_path' = IF lock_flag > 0 THEN LockName(g_file_path) ELSE g_file_path
  /\ UNCHANGED g_file_path
  /\ lock_flag' = IF lock_flag = 2 THEN 1 ELSE 0
  /\ curr' = next
  /\ next' = NoHandle
  /\ continuing' = TRUE
  /\ ssq' = <<Req("FREESIZE_CHECK_SWITCH", FALSE)>> \o ssq
            \o <<Req("FREESIZE_CHECK_SWITCH", TRUE), Req("VID_CYCLIC_REQ", TRUE)>>
  /\ UNCHANGED <<card, serviceVars, bkground_del_disble, step_work, busy,
                 has_path, cyclic_timer, packer, faults>>

\* The packer goes over to the next file and a new next one is asked for.
\* The path of the current file is overwritten in place with the next one's.
SwitchFile ==
  /\ next # NoHandle
  /\ packer
  /\ packer_file' = next
  /\ opened' = Closed(opened, {packer_file})
  /\ disk' = IF lock_flag > 0 THEN Locked(disk, g_file_path) ELSE disk
  /\ prev_path' = IF lock_flag > 0 THEN LockName(g_file_path) ELSE g_file_path
  /\ g_file_path' = g_next_file_path
  /\ lock_flag' = IF lock_flag = 2 THEN 1 ELSE 0
  /\ curr' = next
  /\ next' = NoHandle
  /\ continuing' = TRUE
  /\ ssq' = <<Req("FREESIZE_CHECK_SWITCH", FALSE)>> \o ssq
            \o <<Req("FREESIZE_CHECK_SWITCH", TRUE), Req("VID_CYCLIC_REQ", TRUE)>>
  /\ UNCHANGED <<card, serviceVars, bkground_del_disble, step_work, busy,
                 has_path, cyclic_timer, packer, faults>>

\* It does not: recording is given up, but the encoder is not stopped.
SwitchFails ==
  /\ next # NoHandle
  /\ IF packer THEN Fault ELSE UNCHANGED faults
  /\ opened' = Closed(opened, {next})
  /\ disk' = Unlinked(disk, g_next_file_path)
  /\ next' = NoHandle
  /\ lock_flag' = 0
  /\ continuing' = FALSE
  /\ busy' = FALSE
  /\ ssq' = <<Req("FREESIZE_CHECK_SWITCH", FALSE)>> \o ssq
            \o <<Req("TIMER_START", FALSE)>>
  /\ UNCHANGED <<card, storageVars, curr, has_path, prev_path, cyclic_timer,
                 encoderVars>>

NoNextFile ==
  /\ next = NoHandle
  /\ UNCHANGED <<ssq, cardVars, storageVars, recordVars, encoderVars, faults>>

CyclicVideoRecord ==
  /\ Handle("CYCLIC_VIDEO_RECORD")
  /\ SwitchFile \/ SwitchFails \/ NoNextFile
  /\ UNCHANGED <<unmounted, present_state, again, inputs, cycles, moves>>

-----------------------------------------------------------------------------
(* Leaving the recording state, and the preview (state_video_preview.c).    *)

\* Mutant: the state is left in the middle of a recording.
ModeKeyAnyTime ==
  /\ Handle("MODE")
  /\ present_state' = "VIDEO_PREVIEW"
  /\ UNCHANGED <<ssq, cardVars, storageVars, recordVars, unmounted, again,
                 encoderVars, countVars>>

\* Refused while recording.
ModeKey ==
  /\ Handle("MODE")
  /\ present_state' = IF busy THEN "VIDEO_RECORD" ELSE "VIDEO_PREVIEW"
  /\ UNCHANGED <<ssq, cardVars, storageVars, recordVars, unmounted, again,
                 encoderVars, countVars>>

InPreview(id) ==
  /\ present_state = "VIDEO_PREVIEW"
  /\ Next_(apq, id)
  /\ apq' = Tail(apq)

\* The card messages, by which the entry of the recording state goes.
PreviewCard ==
  /\ \/ InPreview("MOUNT") /\ unmounted' = FALSE
     \/ InPreview("NO_STORAGE") /\ unmounted' = TRUE
  /\ UNCHANGED <<ssq, cardVars, storageVars, recordVars, present_state, again,
                 encoderVars, countVars>>

\* The recording state is entered: the next file and the number of the loop
\* timer are forgotten (a timer that runs goes on).
RecordEntered ==
  /\ present_state' = "VIDEO_RECORD"
  /\ busy' = FALSE
  /\ next' = NoHandle
  /\ lock_flag' = 0
  /\ continuing' = FALSE

\* The record key: the recording state is entered, and told to record.
PreviewRecordKey ==
  /\ present_state = "VIDEO_PREVIEW"
  /\ Next_(apq, "VIDEO_RECORD_ACTIVE")
  /\ apq' = Append(Tail(apq), Msg("VIDEO_RECORD_ACTIVE", NoHandle))
  /\ RecordEntered
  /\ UNCHANGED <<ssq, cardVars, storageVars, unmounted, curr, has_path,
                 prev_path, cyclic_timer, again, encoderVars, countVars>>

\* Everything else falls through: a reply is dropped with its handle.  (A
\* PIC_REPLY is taken for a photo's; no run has MODE and GET_JPEG together.)
PreviewIgnores ==
  /\ \E id \in {"VID_REPLY", "VID_CYCLIC_REPLY", "CYCLIC_VIDEO_RECORD", "PREV_KEY",
                "SOS_KEY", "GET_JPEG", "VDO_REC_STOP", "VDO_REC_RESTART",
                "AVI_PACKER_ERROR"} : InPreview(id)
  /\ UNCHANGED <<ssq, cardVars, storageVars, recordVars, unmounted,
                 present_state, again, encoderVars, countVars>>

-----------------------------------------------------------------------------
(* The surroundings.                                                        *)

\* A key, or an error of the packer while it is open.  The mode key is pressed
\* in the recording state, once: in the preview it leads to the browser.
Input ==
  /\ inputs < MaxInputs
  /\ inputs' = inputs + 1
  /\ \E id \in Inputs :
       /\ id = "AVI_PACKER_ERROR" => packer
       /\ id = "MODE" => present_state = "VIDEO_RECORD" /\ ~Has(apq, "MODE")
       /\ apq' = Append(apq, Msg(id, NoHandle))
  /\ UNCHANGED <<ssq, cardVars, storageVars, recordVars, unmounted,
                 present_state, again, encoderVars, cycles, faults, moves>>

CyclicTick ==
  /\ cyclic_timer
  /\ cycles < MaxCycles
  /\ cycles' = cycles + 1
  /\ apq' = Append(apq, Msg("CYCLIC_VIDEO_RECORD", NoHandle))
  /\ UNCHANGED <<ssq, cardVars, storageVars, recordVars, unmounted,
                 present_state, again, encoderVars, inputs, faults, moves>>

MoveCard ==
  /\ moves < MaxCardMoves
  /\ moves' = moves + 1
  /\ card' = ~card
  /\ UNCHANGED <<apq, ssq, disk, opened, storageVars, recordVars, unmounted,
                 present_state, again, encoderVars, inputs, cycles, faults>>

StateTask ==
  \/ RecordActive \/ VdoRecStop \/ VdoRecRestart \/ FallThrough
  \/ PrevKey \/ SosKey \/ AviPackerError
  \/ MountMsg \/ NoStorage
  \/ GetJpeg \/ PicReply
  \/ VidReply \/ VidCyclicReply \/ CyclicVideoRecord
  \/ ModeKey \/ PreviewCard \/ PreviewRecordKey \/ PreviewIgnores

Service ==
  /\ StorageTask
  /\ UNCHANGED <<recordVars, unmounted, present_state, again, encoderVars,
                 countVars>>

ServiceTick ==
  /\ StorageTick
  /\ UNCHANGED <<recordVars, unmounted, present_state, again, encoderVars,
                 countVars>>

Recorded == IF packer THEN {packer_file} ELSE {}

\* A video is finished when the packer's file is closed, and no longer one
\* when its file is opened again, which empties it; a lock renames it.
Finish ==
  LET closed == {opened[h] : h \in Recorded \cap (DOMAIN opened \ DOMAIN opened')}
      emptied == {opened'[h] : h \in DOMAIN opened' \ DOMAIN opened}
      videos == done \cup closed
  IN  done' = ((videos \cup {LockName(n) : n \in videos}) \cap disk') \ emptied

Next ==
  /\ StateTask \/ Service \/ ServiceTick \/ Input \/ CyclicTick \/ MoveCard
  /\ Finish

\* The two tasks run whenever they have a message; nothing else has to happen.
Spec == Init /\ [][Next]_vars
FairSpec == Spec /\ WF_vars(StateTask /\ Finish) /\ WF_vars(Service /\ Finish)

-----------------------------------------------------------------------------
(* Properties.                                                              *)

Replies == {"VID_REPLY", "VID_CYCLIC_REPLY", "PIC_REPLY"}
InFlight == {k \in 1 .. Len(apq) : apq[k].id \in Replies /\ apq[k].h # NoHandle}
NextHeld == {next} \ {NoHandle}

\* Every open handle has exactly one holder that will close it: a reply that
\* is on its way, the packer, or next_file_info; and none of them holds a
\* handle that is closed already.
OneHolder ==
  /\ \A j, k \in InFlight : apq[j].h = apq[k].h => j = k
  /\ \A k \in InFlight : apq[k].h \notin Recorded \cup NextHeld
  /\ Recorded \cap NextHeld = {}
  /\ DOMAIN opened = {apq[k].h : k \in InFlight} \cup Recorded \cup NextHeld

\* The path that goes with the current recording is the one of the file it
\* writes, and the path of the next file that of the handle kept for it: these
\* are the names a stop locks or removes, and the background deletion spares.
PathNamesRecording ==
  /\ \A h \in Recorded : opened[h] = g_file_path
  /\ \A h \in NextHeld : opened[h] = g_next_file_path

\* No file is removed from the card while a handle of it is open.
OpenFilesExist == \A h \in DOMAIN opened : opened[h] \in disk

\* Opening a new file, with O_TRUNC, never empties a file that is there.
NeverTruncates ==
  [][\A h \in DOMAIN opened' \ DOMAIN opened : opened'[h] \notin disk]_vars

\* While the card is mounted every video and picture on it has its number in
\* the table, which is what keeps the number from being given out again.
FilesIndexed ==
  mounted => /\ NumbersOn({"MOVI", "LOCK"}) \subseteq avi_file_table
             /\ NumbersOn({"PICT"}) \subseteq jpg_file_table

\* A file whose lock was asked for while it was recorded is locked when it is
\* closed.
LockHonoured ==
  [][\A h \in Recorded \cap DOMAIN opened :
       lock_flag > 0 /\ h \notin DOMAIN opened' => LockName(opened[h]) \in disk']_vars

\* A finished video, locked or not, stays: it is not emptied by a new file that
\* gets its number and not removed in place of another file.  Only one that is
\* not locked may go, by the background deletion.
VideosKept ==
  [][\A n \in done :
       \/ {n, LockName(n)} \cap done' # {}
       \/ n[1] = "MOVI" /\ (FreesizeCheck \/ FreesizeCheckAgain)]_vars

AtRest == ~busy /\ again = "none" /\ apq = << >> /\ ssq = << >> /\ spc = "idle"

\* At rest the card is polled: every request for a file stops the mount timer,
\* and whatever becomes of the recording starts it again.
RestPolls == AtRest => mount_timer

\* The lock of a video is made (read-only, renamed) only once it is closed.
\* The code breaks it when a stop comes while the first file of a second
\* recording is on its way (README, section 5): no run has it.
LockAfterClose ==
  [][\A h \in DOMAIN opened \cap DOMAIN opened' :
       LockName(opened[h]) \in disk' => LockName(opened[h]) \in disk]_vars

Handled(id) == Next_(apq, id) /\ apq' = Tail(apq)

\* VDO_REC_STOP, which the storage service posts when the card is full to stop
\* the recording, never starts one.
StopNeverStarts == [][Handled("VDO_REC_STOP") => (busy' => busy)]_vars

\* A file that is being recorded when the recording state is told that the card
\* is gone is recorded no longer: the encoder is stopped.
NoStorageStops ==
  [][Handled("NO_STORAGE") /\ Recorded \cap DOMAIN opened # {} => ~packer']_vars

\* The recording state knows whether a card is mounted once it has served its
\* messages.
CardKnown == apq = << >> => unmounted = ~mounted

\* The messages that stop a recording, or start one, by themselves.
Toggles == {"VIDEO_RECORD_ACTIVE", "PREV_KEY", "VDO_REC_RESTART",
            "AVI_PACKER_ERROR", "NO_STORAGE", "VDO_REC_STOP", "MODE"}

\* VDO_REC_STOP is waiting, and no other message stops the recording first.
FullPending ==
  /\ busy
  /\ packer
  /\ again = "none"
  /\ \E k \in 1 .. Len(apq) : /\ apq[k].id = "VDO_REC_STOP"
                              /\ \A j \in 1 .. k - 1 : apq[j].id \notin Toggles

\* A full card stops the recording, whatever replies and changes of files come
\* before VDO_REC_STOP, and though the next file may not be there yet: behind
\* that message nothing is recorded, unless the encoder fails meanwhile.
FullStops ==
  \A f \in 0 .. MaxFaults :
    FullPending /\ faults = f
      ~> (~busy /\ ~Has(apq, "VDO_REC_STOP")) \/ faults > f

\* Whenever a recording was asked for and has no file yet, the answer of the
\* storage service comes: it starts, or is given up.
Answered == busy /\ curr = NoHandle ~> ~busy \/ curr # NoHandle

\* While recording, a next file comes after every change of files, so that the
\* loop goes on and user keys are not refused for ever (ap_video_record.c:408).
NextFileComes == busy /\ next = NoHandle ~> ~busy \/ next # NoHandle

=============================================================================

----------------------------- MODULE CardFiles -----------------------------
(***************************************************************************)
(* What the recording state and the storage service share: the two message *)
(* queues between their tasks, the files of the memory card, and the file  *)
(* handles of the file system, which both tasks open, hand over and close. *)
(*                                                                         *)
(* The file system (gplib/fs, a library whose source is not in the         *)
(* repository) is modelled by what its callers rely on: open with          *)
(* O_CREAT|O_TRUNC makes or empties the file and gives the least handle    *)
(* that is not open, close and unlink of what is not there do nothing, and *)
(* nothing can be opened while no card is mounted.                         *)
(*                                                                         *)
(* A file is its prefix and its number: <<"MOVI", 7>> is MOVI0007.avi.     *)
(* Only locked videos are read-only, and they are renamed from MOVI to     *)
(* LOCK, so the prefix says it.                                            *)
(***************************************************************************)
EXTENDS Naturals, Sequences, FiniteSets, Functions

CONSTANTS
  N,          (* File numbers go from 0 to N - 1 (10000 in the code).       *)
  MaxHandle   (* Bound: file handles of the file system.                    *)

ASSUME CardAssumption == N \in Nat \ {0} /\ MaxHandle \in Nat

VARIABLES
  apq,        (* ApQ: messages to the state task.                           *)
  ssq,        (* StorageServiceQ: messages to the storage task.             *)
  card,       (* Is a card in the slot?                                     *)
  disk,       (* The files on the card.                                     *)
  opened      (* The open handles, each with the file it was opened for.    *)

cardVars == <<card, disk, opened>>

Idx == 0 .. N - 1
Names == {"MOVI", "LOCK", "PICT", "LOCKPIC"} \X Idx
NoName == <<"none", 0>>

Handles == 1 .. MaxHandle
NoHandle == 0                   (* -1 in the code.                          *)
FreeHandles == Handles \ DOMAIN opened

\* A message of ApQ carries a handle (of the replies, NoHandle otherwise),
\* one of StorageServiceQ a switch (of the two that take TRUE or FALSE).
Msg(id, h) == [id |-> id, h |-> h]
Req(id, on) == [id |-> id, on |-> on]

ApIds == {"MOUNT", "NO_STORAGE", "VID_REPLY", "VID_CYCLIC_REPLY", "PIC_REPLY",
          "VIDEO_RECORD_ACTIVE", "PREV_KEY", "SOS_KEY", "GET_JPEG",
          "CYCLIC_VIDEO_RECORD", "VDO_REC_STOP", "VDO_REC_RESTART",
          "AVI_PACKER_ERROR", "MODE"}
SsIds == {"STORAGE_CHECK", "TIMER_START", "FREESIZE_CHECK_SWITCH",
          "FREESIZE_CHECK", "VIDEO_FILE_DEL", "AUTO_DEL_LOCK", "VID_REQ",
          "VID_CYCLIC_REQ", "PIC_REQ"}

Has(q, id) == \E k \in 1 .. Len(q) : q[k].id = id
Next_(q, id) == q # << >> /\ Head(q).id = id

\* The handle open gives for name n: the least free one, or none.
OpenHandle(able) ==
  IF able /\ FreeHandles # {}
  THEN CHOOSE h \in FreeHandles : \A g \in FreeHandles : h <= g
  ELSE NoHandle

\* The open handles once h is opened for n, and once those of H are closed.
Opened(o, h, n) == [g \in DOMAIN o \cup {h} |-> IF g = h THEN n ELSE o[g]]
Closed(o, H) == Restrict(o, DOMAIN o \ H)

\* The files left once n is unlinked: none goes while the card is out.
Unlinked(d, n) == IF card THEN d \ {n} ELSE d

\* ap_video_record's lock: D_RDONLY is set and the prefix becomes LOCK.
LockName(n) ==
  CASE n[1] = "MOVI" -> <<"LOCK", n[2]>>
    [] n[1] = "PICT" -> <<"LOCKPIC", n[2]>>
    [] OTHER -> n
Locked(d, n) == IF card /\ n \in d THEN (d \ {n}) \cup {LockName(n)} ELSE d

ApMsg == [id : ApIds, h : Handles \cup {NoHandle}]
SsMsg == [id : SsIds, on : BOOLEAN]

QueueTypeOK == apq \in Seq(ApMsg) /\ ssq \in Seq(SsMsg)
FileTypeOK ==
  /\ card \in BOOLEAN
  /\ disk \subseteq Names
  /\ DOMAIN opened \subseteq Handles
  /\ \A h \in DOMAIN opened : opened[h] \in Names
CardTypeOK == QueueTypeOK /\ FileTypeOK

CardInit ==
  /\ apq = << >>
  /\ ssq = << >>
  /\ card = TRUE
  /\ disk = {}
  /\ opened = << >>

=============================================================================

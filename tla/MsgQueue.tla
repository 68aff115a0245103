------------------------------ MODULE MsgQueue ------------------------------
(***************************************************************************)
(* A message queue of application/msg_manager: a pool of MaxMsgs message   *)
(* slots and a uC/OS-II queue of at most MaxQSize pointers to them.  A     *)
(* slot whose id word is 0 is free.                                        *)
(*                                                                         *)
(* msgQSend runs under OSSchedLock, so no other task runs inside it: one   *)
(* action.  msgQReceive (and msgQAccept, which differs only in not waiting)*)
(* takes the pointer from the OS queue first, and only then, under a       *)
(* semaphore that senders never take, copies the message out and clears    *)
(* the id word: three actions, between which senders run.  msgQFlush       *)
(* empties the OS queue and then clears the pool under that same           *)
(* semaphore: two actions.  Each queue of the program has one receiving    *)
(* task, and it is that task which flushes the queue, so the semaphore is  *)
(* never contended and is left out.  Only ApQ is ever flushed (by the      *)
(* setting and thumbnail states): Flushed says whether this queue is.      *)
(*                                                                         *)
(* A message is the number of the msgQSend call that made it, so that two  *)
(* messages are never confused; every msg_id of the program is nonzero.    *)
(* Every receiver passes the length the queue was created with, so the     *)
(* "message size is too large" returns of the receive side are never taken.*)
(***************************************************************************)
EXTENDS Naturals, Sequences, FiniteSets

CONSTANTS
  MaxQSize,  (* Pointers the OS queue can hold (maxQSize of msgQCreate).    *)
  MaxMsgs,   (* Slots of the pool (maxMsgs of msgQCreate).                  *)
  Flushed,   (* Does the owner of this queue call msgQFlush?                *)
  MaxSends   (* Bound: calls of msgQSend.                                   *)

ASSUME QueueAssumption ==
  /\ MaxQSize \in Nat \ {0}
  /\ MaxMsgs \in Nat \ {0}
  /\ Flushed \in BOOLEAN
  /\ MaxSends \in Nat

VARIABLES
  pool,      (* The id word of each slot: 0 when free.                      *)
  osq,       (* The pointers in the OS queue, next to be received first.    *)
  pc,        (* Where the owner is in its calls.                            *)
  pMsg,      (* The slot msgQReceive works on, 0 outside it.                *)
  msg_id,    (* What msgQReceive last copied out.                           *)
  calls,     (* History: calls of msgQSend so far.                          *)
  failed,    (* History: messages whose msgQSend returned an error.         *)
  urgent,    (* History: messages sent with MSG_PRI_URGENT.                 *)
  delivered  (* History: what msgQReceive returned, in order.               *)

qvars == <<pool, osq, pc, pMsg, msg_id, calls, failed, urgent, delivered>>

Slots == 1 .. MaxMsgs
Messages == 1 .. MaxSends
OwnerPC == {"idle", "pended", "copied", "flushing"}

FreeSlots == {i \in Slots : pool[i] = 0}
\* Mutant of FirstFree: slots are taken in turn, whether read or not.
SlotInTurn == (calls % MaxMsgs) + 1
FirstFree == CHOOSE i \in FreeSlots : \A j \in FreeSlots : i <= j

TypeOK ==
  /\ pool \in [Slots -> Nat]
  /\ osq \in Seq(Slots)
  /\ Len(osq) <= MaxQSize
  /\ pc \in OwnerPC
  /\ pMsg \in Slots \cup {0}
  /\ (pMsg # 0) <=> (pc \in {"pended", "copied"})
  /\ msg_id \in Nat
  /\ calls \in 0 .. MaxSends
  /\ failed \subseteq Messages
  /\ urgent \subseteq Messages
  /\ delivered \in Seq(Nat)

Init ==
  /\ pool = [i \in Slots |-> 0]
  /\ osq = << >>
  /\ pc = "idle"
  /\ pMsg = 0
  /\ msg_id = 0
  /\ calls = 0
  /\ failed = {}
  /\ urgent = {}
  /\ delivered = << >>

-----------------------------------------------------------------------------
(* Senders: any task but the owner, or the owner between its own calls.     *)

MsgQSendNoSlot ==
  /\ calls < MaxSends
  /\ FreeSlots = {}
  /\ calls' = calls + 1
  /\ failed' = failed \cup {calls'}
  /\ UNCHANGED <<pool, osq, pc, pMsg, msg_id, urgent, delivered>>

\* Mutant of Post: the priorities are swapped.
PostSwapped(q, p, isUrgent) == IF isUrgent THEN Append(q, p) ELSE <<p>> \o q

\* OSQPostFront for MSG_PRI_URGENT, OSQPost otherwise.
Post(q, p, isUrgent) == IF isUrgent THEN <<p>> \o q ELSE Append(q, p)

\* Mutant of MsgQSend: the OS queue has one place fewer than the pool.
MsgQSendShortQueue(isUrgent) ==
  /\ calls < MaxSends
  /\ FreeSlots # {}
  /\ calls' = calls + 1
  /\ pool' = [pool EXCEPT ![FirstFree] = calls']
  /\ urgent' = IF isUrgent THEN urgent \cup {calls'} ELSE urgent
  /\ IF Len(osq) + 1 < MaxQSize
     THEN /\ osq' = Post(osq, FirstFree, isUrgent)
          /\ failed' = failed
     ELSE /\ osq' = osq
          /\ failed' = failed \cup {calls'}
  /\ UNCHANGED <<pc, pMsg, msg_id, delivered>>

\* OSQPost and OSQPostFront refuse a pointer when the OS queue is full;
\* msgQSend returns their error but does not free the slot it filled.
MsgQSend(isUrgent) ==
  /\ calls < MaxSends
  /\ FreeSlots # {}
  /\ calls' = calls + 1
  /\ pool' = [pool EXCEPT ![FirstFree] = calls']
  /\ urgent' = IF isUrgent THEN urgent \cup {calls'} ELSE urgent
  /\ IF Len(osq) < MaxQSize
     THEN /\ osq' = Post(osq, FirstFree, isUrgent)
          /\ failed' = failed
     ELSE /\ osq' = osq
          /\ failed' = failed \cup {calls'}
  /\ UNCHANGED <<pc, pMsg, msg_id, delivered>>

-----------------------------------------------------------------------------
(* The owner.                                                               *)

\* Mutant of Pend: the slot is freed as its pointer leaves the OS queue.
PendFrees ==
  /\ pc = "idle"
  /\ osq # << >>
  /\ pMsg' = Head(osq)
  /\ osq' = Tail(osq)
  /\ pool' = [pool EXCEPT ![Head(osq)] = 0]
  /\ pc' = "pended"
  /\ UNCHANGED <<msg_id, calls, failed, urgent, delivered>>

\* OSQPend (or OSQAccept): the pointer leaves the OS queue, no lock yet.
Pend ==
  /\ pc = "idle"
  /\ osq # << >>
  /\ pMsg' = Head(osq)
  /\ osq' = Tail(osq)
  /\ pc' = "pended"
  /\ UNCHANGED <<pool, msg_id, calls, failed, urgent, delivered>>

\* Mutant of CopyOut: the id word is cleared as it is copied.
CopyOutClears ==
  /\ pc = "pended"
  /\ msg_id' = pool[pMsg]
  /\ pool' = [pool EXCEPT ![pMsg] = 0]
  /\ pc' = "copied"
  /\ UNCHANGED <<osq, pMsg, calls, failed, urgent, delivered>>

\* The id word and the parameters are copied to the caller.
CopyOut ==
  /\ pc = "pended"
  /\ msg_id' = pool[pMsg]
  /\ pc' = "copied"
  /\ UNCHANGED <<pool, osq, pMsg, calls, failed, urgent, delivered>>

\* Mutants of FreeMessage: the pointer is kept; the id word is not cleared.
FreeMessageKeepsPointer ==
  /\ pc = "copied"
  /\ pool' = [pool EXCEPT ![pMsg] = 0]
  /\ pc' = "idle"
  /\ delivered' = Append(delivered, msg_id)
  /\ UNCHANGED <<osq, pMsg, msg_id, calls, failed, urgent>>

FreeMessageNoClear ==
  /\ pc = "copied"
  /\ pMsg' = 0
  /\ pc' = "idle"
  /\ delivered' = Append(delivered, msg_id)
  /\ UNCHANGED <<pool, osq, msg_id, calls, failed, urgent>>

\* The id word is cleared and msgQReceive returns.
FreeMessage ==
  /\ pc = "copied"
  /\ pool' = [pool EXCEPT ![pMsg] = 0]
  /\ pMsg' = 0
  /\ pc' = "idle"
  /\ delivered' = Append(delivered, msg_id)
  /\ UNCHANGED <<osq, msg_id, calls, failed, urgent>>

MsgQFlushQueue ==
  /\ Flushed
  /\ pc = "idle"
  /\ osq' = << >>
  /\ pc' = "flushing"
  /\ UNCHANGED <<pool, pMsg, msg_id, calls, failed, urgent, delivered>>

MsgQFlushPool ==
  /\ pc = "flushing"
  /\ pool' = [i \in Slots |-> 0]
  /\ pc' = "idle"
  /\ UNCHANGED <<osq, pMsg, msg_id, calls, failed, urgent, delivered>>

Receive == Pend \/ CopyOut \/ FreeMessage
Flush == MsgQFlushQueue \/ MsgQFlushPool
Send == MsgQSendNoSlot \/ \E u \in BOOLEAN : MsgQSend(u)

Next == Send \/ Receive \/ Flush

Spec == Init /\ [][Next]_qvars

-----------------------------------------------------------------------------
(* Properties.                                                              *)

SlotsOf(q) == {q[k] : k \in 1 .. Len(q)}
Distinct(q) == \A j, k \in 1 .. Len(q) : q[j] = q[k] => j = k

Queued == SlotsOf(osq)
Held == IF pMsg = 0 THEN {} ELSE {pMsg}
Busy == Slots \ FreeSlots

\* Slot discipline: the OS queue never holds one slot twice, nor the slot
\* the receiver is reading; and the slots in use are exactly those two
\* kinds.  It is what stops msgQSend from overwriting a message nobody has
\* read, and msgQReceive from clearing one that is still queued.
SlotDiscipline ==
  /\ Distinct(osq)
  /\ Queued \cap Held = {}
  /\ Busy = Queued \cup Held

\* A slot is never leaked: while the pool has no more slots than the OS
\* queue has places (every msgQCreate call passes equal numbers), OSQPost
\* never fails after msgQSend has filled a slot, so that a refused message
\* never leaves its slot occupied for good.
NoSlotLeaked ==
  \A i \in Slots : pool[i] \notin failed

\* The inductive invariant of a queue that is not flushed.  The messages in
\* the pool, and those refused, are numbers already used, so a new message
\* is none of them; and between the copy and the clearing of its id word the
\* slot being read still holds the message copied.
Numbering ==
  /\ \A i \in Slots : pool[i] <= calls
  /\ \A m \in failed : m <= calls
  /\ pc = "copied" => msg_id = pool[pMsg]
IInv ==
  /\ TypeOK
  /\ pc # "flushing"
  /\ SlotDiscipline
  /\ NoSlotLeaked
  /\ Numbering

\* No message is lost, and none is received twice: each message msgQSend
\* accepted is in exactly one of the pool (waiting or being read) and the
\* messages received.
NoMessageLost ==
  \A m \in 1 .. calls :
    \/ m \in failed
    \/ Cardinality({i \in Slots : pool[i] = m})
         + Cardinality({k \in 1 .. Len(delivered) : delivered[k] = m}) = 1

\* No message is received twice, whatever flushes race with the senders.
NoDuplicate ==
  \A j, k \in 1 .. Len(delivered) :
    (j # k /\ delivered[j] # 0) => delivered[j] # delivered[k]

\* msgQReceive returns success only with a message some sender sent: its
\* header says "Return: 0: success" for "message and type received".  The code
\* breaks it where a flush meets a sender (README, section 5): no run has it.
ReceivedWasSent ==
  \A k \in 1 .. Len(delivered) : delivered[k] \in 1 .. calls

\* What the queue promises: see BoundedFifo.  Only the order of the slots is
\* in the OS queue; the messages are in the pool.
BufOf(q, p) == [k \in 1 .. Len(q) |-> p[q[k]]]
Hand == IF pMsg = 0 THEN 0 ELSE pool[pMsg]

Fifo == INSTANCE BoundedFifo WITH
          Cap <- MaxMsgs,
          buf <- BufOf(osq, pool),
          hand <- Hand,
          got <- msg_id

\* Without flushes the queue implements the bounded FIFO.
ImplementsFifo == Fifo!FifoSpec

=============================================================================

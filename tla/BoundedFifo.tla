----------------------------- MODULE BoundedFifo -----------------------------
(***************************************************************************)
(* What a message queue of application/msg_manager promises its users: a   *)
(* buffer of at most Cap messages, counting the one its receiver is        *)
(* reading.  A send is accepted while there is room; a normal message goes *)
(* to the back and an urgent one to the front; the receiver takes the      *)
(* message at the front, reads it, and gives its place back.               *)
(*                                                                         *)
(* A message is the number of the call of msgQSend that made it; 0 is no   *)
(* message.                                                                *)
(***************************************************************************)
EXTENDS Naturals, Sequences

CONSTANTS
  Cap,       (* Messages the queue can hold.                                *)
  MaxSends   (* Bound: calls of send.                                       *)

VARIABLES
  buf,       (* The messages waiting, first to be received first.           *)
  hand,      (* The message being read by the receiver, 0 if none.          *)
  got,       (* The last message handed to the receiver's caller.           *)
  calls,     (* Calls of send so far.                                       *)
  urgent     (* Messages accepted as urgent.                                *)

fifoVars == <<buf, hand, got, calls, urgent>>

Occupancy == Len(buf) + (IF hand = 0 THEN 0 ELSE 1)

FifoInit ==
  /\ buf = << >>
  /\ hand = 0
  /\ got = 0
  /\ calls = 0
  /\ urgent = {}

Accept(isUrgent) ==
  /\ calls < MaxSends
  /\ Occupancy < Cap
  /\ calls' = calls + 1
  /\ urgent' = IF isUrgent THEN urgent \cup {calls'} ELSE urgent
  /\ buf' = IF isUrgent THEN <<calls'>> \o buf ELSE Append(buf, calls')
  /\ UNCHANGED <<hand, got>>

Refuse ==
  /\ calls < MaxSends
  /\ Occupancy = Cap
  /\ calls' = calls + 1
  /\ UNCHANGED <<buf, hand, got, urgent>>

Take ==
  /\ hand = 0
  /\ buf # << >>
  /\ hand' = Head(buf)
  /\ buf' = Tail(buf)
  /\ UNCHANGED <<got, calls, urgent>>

Deliver ==
  /\ hand # 0
  /\ got' = hand
  /\ UNCHANGED <<buf, hand, calls, urgent>>

Release ==
  /\ hand # 0
  /\ got = hand
  /\ hand' = 0
  /\ UNCHANGED <<buf, got, calls, urgent>>

FifoNext ==
  \/ \E isUrgent \in BOOLEAN : Accept(isUrgent)
  \/ Refuse
  \/ Take
  \/ Deliver
  \/ Release

FifoSpec == FifoInit /\ [][FifoNext]_fifoVars

=============================================================================

---- MODULE FramePipeline ----
(* A recording's frames on their way from the sensor to the AVI packer, without WiFi: the          *)
(* interrupt conv422_isr_func (my_video_codec_callback.c) fills line buffers, the encoder task     *)
(* my_avi_encode_state_task_entry (my_avi_encoder_state.c) compresses each group of lines into one *)
(* of the JPEG output buffers and hands a finished frame to the packer, at once or after a wait.   *)
(*                                                                                                 *)
(* A frame is LinesPerFrame groups of lines ("lines" below).  Sizes are left out: whether a frame  *)
(* outgrows its buffer, and which waiting frame is given up for a new one (the code takes the one  *)
(* nearest in time to its neighbours), are choices.  The two threads of control share the queues   *)
(* under OS_ENTER_CRITICAL; the interrupt can come between any two steps of the task.              *)
EXTENDS Integers, Sequences, FiniteSets, FiniteSetsExt

CONSTANTS LinesPerFrame,     \* conv422_isr_count_max, jpeg_input_empty_count_max
          FifoCount,         \* FIFO_Q_MAX_CNT
          OutCount,          \* JPEG_OUT_BUFFER_CNT
          JpegQMax,          \* JPEG_Q_MAX_CNT
          PackerThreshold,   \* AVI_PACKER_TH
          MaxFrames,         \* bound: frames the sensor gives
          MaxFaults          \* bound: lines that outgrow the output buffer, and interrupts that
                             \* find another buffer than the one they set

ASSUME PipelineAssumption ==
    /\ LinesPerFrame \in Nat \ {0} /\ FifoCount \in Nat /\ FifoCount >= 2
    /\ OutCount \in Nat \ {0} /\ JpegQMax \in Nat \ {0} /\ PackerThreshold \in Nat
    /\ MaxFrames \in Nat /\ MaxFaults \in Nat

Dummy == 0                   \* DUMMY_BUFFER_ADDRS
None  == 0                   \* no address
Fifos == 1 .. FifoCount
Outs  == 1 .. OutCount

VARIABLES
    \* the interrupt
    videoRecordFlag,         \* "NOTHING", "RECING", "STOP"
    isr_count, bak0, bak1,   \* lines of this frame so far; the buffers being filled, and next
    frame,                   \* the number of the frame the sensor is giving
    \* the queues
    fifoQ,                   \* free line buffers
    jpegQ,                   \* filled ones: [addr, frame, line]
    msgs,                    \* my_AVIEncodeApQ: <<message, buffer>>
    \* the encoder task
    pc,                      \* "pend", "take" at GOTO_MSG_JPEG_QUEUE_NOTIFY, "get"
    engine, hw,              \* jpeg_engine_status; the engine itself: "off", "on", "full"
    input, skip,             \* jpeg_input_addrs, jpeg_skip_this_one_flag
    empty_count, newbuf,     \* jpeg_input_empty_count, jpeg_video_new_jpeg_buffer
    out, used,               \* the buffer being written (None: dummy); is_used
    freeSize, waiting,       \* free_JPEG_buffer_size, time_stamp_buffer
    lines,                   \* the lines compressed into the frame being written
    \* the packer, and the task that starts and stops the recording
    packer,                  \* buffers handed to the packer, in order
    caller,                  \* "off", "on", "stopping"
    ack,                     \* my_avi_encode_ack_m
    \* history
    content,                 \* the lines of the finished frame in each buffer
    lastPut,                 \* the last frame handed to the packer
    overrun, starved,        \* a line of this recording was refused by jpegQ; had no buffer
    faults

isrVars   == <<videoRecordFlag, isr_count, bak0, bak1, frame, overrun, starved>>
queueVars == <<fifoQ, jpegQ, msgs>>
frameVars == <<empty_count, newbuf, out, used, freeSize, waiting, lines, content>>
taskVars  == <<pc, engine, hw, input, skip>>
restVars  == <<packer, caller, ack, lastPut>>
vars == <<isrVars, queueVars, frameVars, taskVars, restVars, faults>>

Msg(m) == <<m, None>>

(* A bounded number of faults.                                                                    *)
Fault == faults < MaxFaults /\ faults' = faults + 1

(* video_recording_stop_get: the interrupt has given the last line of the recording.              *)
StopGet == videoRecordFlag = "NOTHING"

Init ==
    /\ videoRecordFlag = "NOTHING" /\ isr_count = 0 /\ bak0 = None /\ bak1 = None /\ frame = 0
    /\ fifoQ = {} /\ jpegQ = <<>> /\ msgs = <<>>
    /\ pc = "pend" /\ engine = "IDLE" /\ hw = "off" /\ input = None /\ skip = FALSE
    /\ empty_count = 0 /\ newbuf = FALSE /\ out = None /\ used = [b \in Outs |-> FALSE]
    /\ freeSize = 0 /\ waiting = <<>> /\ lines = <<>>
    /\ packer = <<>> /\ caller = "off" /\ ack = FALSE
    /\ content = [b \in Outs |-> <<>>] /\ lastPut = 0
    /\ overrun = FALSE /\ starved = FALSE /\ faults = 0

--------------------------------------------------------------------------------------------------
(* Starting and stopping.                                                                         *)

(* avi_encode_start and video_recording_start.  jpeg_skip_this_one_flag and the output buffer of  *)
(* the last recording are left as they were.                                                      *)
Start ==
    /\ caller = "off" /\ frame < MaxFrames /\ msgs = <<>> /\ pc = "pend"
    /\ caller' = "on" /\ videoRecordFlag' = "RECING" /\ ack' = FALSE
    /\ isr_count' = 0 /\ bak0' = 1 /\ bak1' = 2 /\ frame' = frame + 1
    /\ fifoQ' = Fifos \ {1, 2} /\ jpegQ' = <<>>
    /\ engine' = "IDLE" /\ hw' = "off" /\ input' = None
    /\ empty_count' = 0 /\ newbuf' = FALSE /\ waiting' = <<>>
    /\ used' = [b \in Outs |-> FALSE]
    /\ overrun' = FALSE /\ starved' = FALSE
    /\ UNCHANGED <<msgs, pc, skip, out, freeSize, lines, packer, content, lastPut, faults>>

(* MSG_AVI_STOP_ENCODE: video_recording_stop.  The answer comes when the frame has ended.         *)
Stop ==
    /\ caller = "on" /\ pc = "pend"
    /\ caller' = "stopping" /\ videoRecordFlag' = "STOP" /\ ack' = FALSE
    /\ UNCHANGED <<isr_count, bak0, bak1, frame, overrun, starved,
                   queueVars, frameVars, taskVars, packer, lastPut, faults>>

(* The caller goes on, after the answer or after five seconds without one: the engine, the queues *)
(* and the interrupt are stopped, the packer closed (it gives back all it has), the buffers freed. *)
Stopped ==
    /\ caller = "stopping" /\ msgs = <<>> /\ pc = "pend" /\ packer = <<>>
    /\ ack \/ (StopGet /\ hw = "off")
    /\ caller' = "off" /\ videoRecordFlag' = "NOTHING"
    /\ jpegQ' = <<>> /\ fifoQ' = {} /\ waiting' = <<>> /\ hw' = "off"
    /\ bak0' = None /\ bak1' = None
    /\ UNCHANGED <<isr_count, frame, overrun, starved, msgs, pc, engine, input, skip,
                   faults, empty_count, newbuf, out, used, freeSize, lines, content, packer, ack, lastPut>>

--------------------------------------------------------------------------------------------------
(* conv422_isr_func: a line is complete.                                                          *)

(* Mutant: a refused line keeps its buffer.                                                       *)
RefusedKept(addr) == fifoQ

(* fifo_ready_notify_encode_callback puts the buffer of a refused line back.                      *)
Refused(addr) == IF addr = Dummy THEN fifoQ ELSE fifoQ \cup {addr}

(* The hardware shows another buffer than the one being filled: that one is put back.             *)
GlitchBack == IF bak0 = Dummy THEN fifoQ ELSE fifoQ \cup {bak0}

(* The next buffer (fifo_Q_get), out of what is free now: one is as good as another.              *)
NextBuffer(free) == IF free = {} THEN Dummy ELSE Min(free)

(* Mutant: one entry more than the array has.                                                     *)
QueueFullLate == Len(jpegQ) > JpegQMax

(* jpeg_Q_put finds no empty entry.                                                               *)
QueueFull == Len(jpegQ) = JpegQMax

FrameEnds == isr_count + 1 = LinesPerFrame

(* The last line: a stop asked for takes effect.                                                  *)
StopsHere == FrameEnds /\ videoRecordFlag = "STOP"

Line(glitch) ==
    LET addr == IF glitch THEN Dummy ELSE bak0
        free == IF glitch THEN GlitchBack ELSE fifoQ
        left == IF QueueFull /\ ~glitch THEN Refused(addr) ELSE free
    IN  /\ videoRecordFlag # "NOTHING"
        /\ FrameEnds => frame < MaxFrames \/ videoRecordFlag = "STOP"
        /\ IF QueueFull
           THEN overrun' = TRUE /\ UNCHANGED <<jpegQ, msgs>>
           ELSE /\ jpegQ' = Append(jpegQ, [addr |-> addr, frame |-> frame, line |-> isr_count + 1])
                /\ msgs' = Append(msgs, Msg("NOTIFY"))
                /\ UNCHANGED overrun
        /\ fifoQ' = left \ {NextBuffer(left)}
        /\ IF StopsHere
           THEN bak0' = None /\ bak1' = None /\ videoRecordFlag' = "NOTHING"
           ELSE bak0' = bak1 /\ bak1' = NextBuffer(left) /\ UNCHANGED videoRecordFlag
        /\ isr_count' = (isr_count + 1) % LinesPerFrame
        /\ frame' = IF FrameEnds /\ ~StopsHere THEN frame + 1 ELSE frame
        /\ starved' = (starved \/ addr = Dummy)
        /\ UNCHANGED <<frameVars, taskVars, restVars>>

LineReady == Line(FALSE) /\ UNCHANGED faults

LineGlitch == Line(TRUE) /\ Fault

(* jpeg_status_notify: the engine has compressed its lines, or its buffer is full.                *)
EngineDone ==
    /\ hw = "on" /\ hw' = "off" /\ msgs' = Append(msgs, Msg("DONE"))
    /\ UNCHANGED <<isrVars, fifoQ, jpegQ, frameVars, pc, engine, input, skip, faults, restVars>>

EngineFull ==
    /\ hw = "on" /\ ~skip /\ hw' = "full" /\ msgs' = Append(msgs, Msg("FULL"))
    /\ Fault
    /\ UNCHANGED <<isrVars, fifoQ, jpegQ, frameVars, pc, engine, input, skip, restVars>>

--------------------------------------------------------------------------------------------------
(* The encoder task.                                                                              *)

Received(m) == pc = "pend" /\ msgs # <<>> /\ Head(msgs)[1] = m

(* MSG_JPEG_QUEUE_NOTIFY.                                                                         *)
Notify ==
    /\ Received("NOTIFY") /\ msgs' = Tail(msgs) /\ pc' = "take"
    /\ UNCHANGED <<isrVars, fifoQ, jpegQ, frameVars, engine, hw, input, skip, faults, restVars>>

(* MSG_JPG_ISR_OUTPUT_FULL: the rest of the lines goes to the dummy buffer.                       *)
Full ==
    /\ Received("FULL") /\ msgs' = Tail(msgs)
    /\ skip' = TRUE /\ hw' = "on"
    /\ UNCHANGED <<isrVars, fifoQ, jpegQ, frameVars, pc, engine, input, faults, restVars>>

(* MSG_JPG_ISR_OUTPUT_FULL_SW: the frame is given up.                                             *)
FullSw ==
    /\ Received("FULL_SW") /\ msgs' = Tail(msgs)
    /\ skip' = TRUE /\ engine' = "IDLE" /\ pc' = "take"
    /\ UNCHANGED <<isrVars, fifoQ, jpegQ, frameVars, hw, input, faults, restVars>>

(* pfn_avi_encode_put_data.                                                                       *)
Put(bs) ==
    /\ packer' = packer \o bs
    /\ lastPut' = content'[bs[Len(bs)]][1][1]

(* Mutant: frames wait unless every buffer was free.                                              *)
PackerIdleOnly == freeSize = OutCount

(* Fewer than AVI_PACKER_TH buffers were in use when the frame's buffer was taken.                *)
PackerHungry == freeSize > OutCount - PackerThreshold

(* Mutant: the new frame is put past those that wait.                                             *)
HandOverAlone ==
    IF PackerHungry
    THEN Put(<<out>>) /\ UNCHANGED waiting
    ELSE waiting' = Append(waiting, out) /\ UNCHANGED <<packer, lastPut>>

(* The frame is done: to the packer behind those that wait, or to those that wait.                *)
HandOver ==
    IF PackerHungry
    THEN Put(Append(waiting, out)) /\ waiting' = <<>>
    ELSE waiting' = Append(waiting, out) /\ UNCHANGED <<packer, lastPut>>

LastLine == empty_count + 1 >= LinesPerFrame \/ skip

(* The last line of a frame, or of one that is skipped: a skipped one gives its buffer back.      *)
FrameDone ==
    /\ LastLine
    /\ newbuf' = FALSE /\ empty_count' = 0 /\ out' = None
    /\ IF out = None
       THEN UNCHANGED <<used, content, waiting, packer, lastPut>>
       ELSE IF skip
       THEN used' = [used EXCEPT ![out] = FALSE] /\ UNCHANGED <<content, waiting, packer, lastPut>>
       ELSE content' = [content EXCEPT ![out] = lines] /\ HandOver /\ UNCHANGED used

(* Mutant: the answer to a stop is left to the lines that are skipped.                            *)
AfterLineNext == engine' = "IDLE" /\ pc' = "take" /\ UNCHANGED ack

(* Behind the lines of a frame: the answer to a stop, or the next line.                           *)
AfterLine ==
    IF StopGet
    THEN ack' = TRUE /\ pc' = "pend" /\ UNCHANGED engine
    ELSE engine' = "IDLE" /\ pc' = "take" /\ UNCHANGED ack

(* MSG_JPG_ISR_ENCODE_DONE at the end of a frame.                                                 *)
DoneFrame ==
    /\ Received("DONE") /\ msgs' = Tail(msgs)
    /\ FrameDone /\ AfterLine
    /\ UNCHANGED <<isrVars, fifoQ, jpegQ, hw, input, skip, faults, freeSize, lines, caller>>

(* ... within a frame, where the next lines go behind these.                                      *)
DoneLine ==
    /\ Received("DONE") /\ msgs' = Tail(msgs)
    /\ ~LastLine /\ out # None
    /\ empty_count' = empty_count + 1
    /\ AfterLine
    /\ UNCHANGED <<isrVars, fifoQ, jpegQ, hw, input, skip, faults, newbuf, out, used, freeSize,
                   waiting, lines, content, packer, caller, lastPut>>

(* ... where the buffer is the dummy one, or too small by now.                                    *)
DoneTooLong ==
    /\ Received("DONE") /\ ~LastLine
    /\ msgs' = Append(Tail(msgs), Msg("FULL_SW"))
    /\ empty_count' = empty_count + 1
    /\ \/ out = None /\ UNCHANGED faults
       \/ out # None /\ Fault
    /\ UNCHANGED <<isrVars, fifoQ, jpegQ, pc, engine, hw, input, skip, newbuf, out, used, freeSize,
                   waiting, lines, content, restVars>>

(* AVIPACKER_MSG_VIDEO_WRITE_DONE: the buffer is free, the next that waits goes to the packer.    *)
WriteDone ==
    /\ Received("WRITE_DONE") /\ msgs' = Tail(msgs)
    /\ used' = [used EXCEPT ![Head(msgs)[2]] = FALSE]
    /\ IF waiting = <<>>
       THEN UNCHANGED <<waiting, packer, lastPut>>
       ELSE /\ packer' = Append(packer, Head(waiting)) /\ waiting' = Tail(waiting)
            /\ lastPut' = content[Head(waiting)][1][1]
    /\ UNCHANGED <<isrVars, fifoQ, jpegQ, taskVars, faults, empty_count, newbuf, out, freeSize, lines,
                   content, caller, ack>>

(* The packer has written its oldest frame.                                                       *)
PackerWrites ==
    /\ packer # <<>>
    /\ packer' = Tail(packer) /\ msgs' = Append(msgs, <<"WRITE_DONE", Head(packer)>>)
    /\ UNCHANGED <<isrVars, fifoQ, jpegQ, frameVars, taskVars, caller, ack, lastPut, faults>>

--------------------------------------------------------------------------------------------------
(* GOTO_MSG_JPEG_QUEUE_NOTIFY: the next line from jpegQ.                                          *)

TakeBusy ==
    /\ pc = "take" /\ engine = "BUSY" /\ pc' = "pend"
    /\ UNCHANGED <<isrVars, queueVars, frameVars, engine, hw, input, skip, faults, restVars>>

(* The buffer of the line before is free again.                                                   *)
InputBack == IF input = None THEN fifoQ ELSE fifoQ \cup {input}

GiveBack ==
    /\ pc = "take" /\ engine = "IDLE" /\ pc' = "get"
    /\ fifoQ' = InputBack /\ input' = None
    /\ UNCHANGED <<isrVars, jpegQ, msgs, frameVars, engine, hw, skip, faults, restVars>>

TakeNothing ==
    /\ pc = "get" /\ jpegQ = <<>> /\ pc' = "pend"
    /\ UNCHANGED <<isrVars, queueVars, frameVars, engine, hw, input, skip, faults, restVars>>

(* The next line from the interrupt (jpeg_Q_get).                                                 *)
Get == pc = "get" /\ jpegQ # <<>> /\ pc' = "pend" /\ jpegQ' = Tail(jpegQ)

(* Mutant: the line is dropped and its frame goes on.                                             *)
TakeDummyGoesOn ==
    /\ Get /\ Head(jpegQ).addr = Dummy
    /\ UNCHANGED <<isrVars, fifoQ, msgs, frameVars, engine, hw, input, skip, faults, restVars>>

(* A line the sensor had no buffer for: its frame is skipped.                                     *)
TakeDummy ==
    /\ Get /\ Head(jpegQ).addr = Dummy /\ skip' = TRUE
    /\ UNCHANGED <<isrVars, fifoQ, msgs, frameVars, engine, hw, input, faults, restVars>>

(* A line of a frame that is skipped goes back; it also answers a stop.                           *)
TakeSkipped ==
    /\ Get /\ Head(jpegQ).addr # Dummy /\ skip /\ Head(jpegQ).line # 1
    /\ fifoQ' = fifoQ \cup {Head(jpegQ).addr}
    /\ ack' = (ack \/ StopGet)
    /\ UNCHANGED <<isrVars, msgs, frameVars, engine, hw, input, skip, faults, packer, caller, lastPut>>

(* Mutant: the first line of a frame ends the skipping and leaves the buffer in use.              *)
SkipEndsKept == used

(* The first line of a frame ends the skipping: the skipped frame's buffer is free.               *)
SkipEnds == IF skip /\ out # None THEN [used EXCEPT ![out] = FALSE] ELSE used

Without(s, i) == SubSeq(s, 1, i - 1) \o SubSeq(s, i + 1, Len(s))

(* jpeg_compress_free_addrs_get, with u the buffers in use: a free buffer, or that of a frame     *)
(* which waits, or none.                                                                          *)
Allocate(u) ==
    LET free == {b \in Outs : ~u[b]}
    IN  IF free # {}
        THEN /\ out' = Max(free) /\ freeSize' = Cardinality(free)
             /\ used' = [u EXCEPT ![Max(free)] = TRUE] /\ UNCHANGED waiting
        ELSE \/ /\ out' = None /\ freeSize' = 0 /\ used' = u /\ UNCHANGED waiting
             \/ \E i \in 1 .. Len(waiting) :
                   /\ out' = waiting[i] /\ freeSize' = 1 /\ used' = u
                   /\ waiting' = Without(waiting, i)

(* A line for the engine: the first of a frame takes an output buffer.                            *)
TakeLine ==
    /\ Get /\ Head(jpegQ).addr # Dummy /\ (skip => Head(jpegQ).line = 1)
    /\ input' = Head(jpegQ).addr
    /\ skip' = FALSE
    /\ empty_count' = IF skip THEN 0 ELSE empty_count
    /\ newbuf' = TRUE
    /\ LET l == <<Head(jpegQ).frame, Head(jpegQ).line>>
       IN  IF skip \/ ~newbuf
           THEN Allocate(SkipEnds) /\ lines' = <<l>>
           ELSE lines' = Append(lines, l) /\ UNCHANGED <<out, freeSize, used, waiting>>
    /\ engine' = "BUSY" /\ hw' = "on"
    /\ UNCHANGED <<isrVars, fifoQ, msgs, content, faults, restVars>>

--------------------------------------------------------------------------------------------------
InterruptStep == LineReady \/ LineGlitch \/ EngineDone \/ EngineFull
TakeStep    == TakeBusy \/ GiveBack \/ TakeNothing \/ TakeDummy \/ TakeSkipped \/ TakeLine
EncoderStep == Notify \/ Full \/ FullSw \/ DoneFrame \/ DoneLine \/ DoneTooLong \/ WriteDone \/ TakeStep
CallerStep  == Start \/ Stop \/ Stopped

Next == InterruptStep \/ EncoderStep \/ PackerWrites \/ CallerStep

(* The sensor gives lines and the engine ends as long as they run; the encoder task and the       *)
(* packer run when they have something to do.                                                     *)
Fairness ==
    /\ WF_vars(LineReady) /\ WF_vars(EngineDone)
    /\ WF_vars(EncoderStep) /\ WF_vars(PackerWrites)

Spec == Init /\ [][Next]_vars /\ Fairness

--------------------------------------------------------------------------------------------------
Entry == [addr : Fifos \cup {Dummy}, frame : Nat, line : 1 .. LinesPerFrame]

(* The types: of the line buffers and who has them, and of the rest.                              *)
LineTypeOK ==
    /\ videoRecordFlag \in {"NOTHING", "RECING", "STOP"} /\ isr_count \in 0 .. LinesPerFrame - 1
    /\ bak0 \in Fifos \cup {Dummy} /\ bak1 \in Fifos \cup {Dummy} /\ frame \in Nat
    /\ fifoQ \subseteq Fifos /\ jpegQ \in Seq(Entry) /\ Len(jpegQ) <= JpegQMax
    /\ pc \in {"pend", "take", "get"} /\ input \in Fifos \cup {None}

TypeOK ==
    /\ LineTypeOK
    /\ msgs \in Seq({"NOTIFY", "DONE", "FULL", "FULL_SW", "WRITE_DONE"} \X (Outs \cup {None}))
    /\ engine \in {"IDLE", "BUSY"} /\ hw \in {"off", "on", "full"} /\ skip \in BOOLEAN
    /\ empty_count \in 0 .. LinesPerFrame - 1 /\ newbuf \in BOOLEAN
    /\ out \in Outs \cup {None} /\ used \in [Outs -> BOOLEAN]
    /\ freeSize \in 0 .. OutCount /\ waiting \in Seq(Outs) /\ packer \in Seq(Outs)
    /\ caller \in {"off", "on", "stopping"} /\ ack \in BOOLEAN

(* The buffers of the frames in s, and those of messages that the packer is done with.            *)
In(s)    == {s[i] : i \in DOMAIN s}
Released == {msgs[i][2] : i \in {j \in DOMAIN msgs : msgs[j][1] = "WRITE_DONE"}}

(* The buffer of the frame the engine is at: behind a restart the last recording's is still named. *)
Compressing == IF newbuf THEN {out} ELSE {}

(* While a recording runs an output buffer is marked in use exactly while one party has it: the   *)
(* engine, the frames that wait, the packer, or a message of the packer's; and never two of them. *)
(* A buffer with two parties is overwritten before it is in the file, one with none is lost.      *)
OutsInOnePlace ==
    caller # "off" =>
        \A b \in Outs :
            Cardinality({p \in 1 .. 4 : b \in CASE p = 1 -> Compressing [] p = 2 -> In(waiting)
                                               [] p = 3 -> In(packer) [] p = 4 -> Released})
            = IF used[b] THEN 1 ELSE 0

(* Where a line buffer can be.                                                                    *)
Places == {"free", "filling", "next", "filled", "compressing"}
Queued == {jpegQ[i].addr : i \in DOMAIN jpegQ}
FifosAt(p) ==
    CASE p = "free" -> fifoQ [] p = "filling" -> {bak0} [] p = "next" -> {bak1}
      [] p = "filled" -> Queued [] p = "compressing" -> {input}

(* While the sensor gives lines every line buffer is free, with the interrupt, queued, or with    *)
(* the engine, and in one of these only: none leaks on any way a frame is skipped or refused.     *)
FifosInOnePlace ==
    videoRecordFlag # "NOTHING" =>
        \A f \in Fifos : \E p \in Places : \A q \in Places : f \in FifosAt(q) <=> q = p

(* Its inductive invariant: nor is one queued twice, and the buffer of the line before is given   *)
(* back before the next line is taken; and only a stop ends the interrupt's part.                  *)
QueuedOnce ==
    videoRecordFlag # "NOTHING" =>
        \A i, j \in DOMAIN jpegQ : jpegQ[i].addr = jpegQ[j].addr => i = j \/ jpegQ[i].addr = Dummy
LineInv ==
    /\ LineTypeOK /\ FifosInOnePlace /\ QueuedOnce
    /\ pc = "get" => input = None
    /\ caller = "on" => videoRecordFlag = "RECING"

(* The frames go to the packer in the order the sensor gave them, over any mixture of frames      *)
(* that wait, are given up and are put at once: the index of the AVI file is written in put order. *)
InOrder == [][lastPut' # lastPut => lastPut' > lastPut]_vars

(* A frame that is kept is whole: all its lines, in order, of one frame of the sensor, though the *)
(* lines queue while the engine is busy and frames with a lost line or too many bytes are skipped. *)
(* A line refused by a full jpegQ is outside this: the code does not note it.                     *)
WholeFrames ==
    ~overrun =>
        \A b \in In(waiting) \cup In(packer) :
            content[b] = [l \in 1 .. LinesPerFrame |-> <<content[b][1][1], l>>]

(* Frames that wait are put when the packer is done with a buffer.  More than one never waits     *)
(* with nothing at the packer: what AVI_PACKER_TH of two is for.                                  *)
WaitingHasRelease == Len(waiting) > 1 => packer # <<>> \/ Released # {}

(* A stop is answered, unless a line of the recording had no buffer or was refused: the caller    *)
(* does not sit out its five seconds.                                                             *)
StopAnswered == caller = "stopping" ~> ack \/ starved \/ overrun
====

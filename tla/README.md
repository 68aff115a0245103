# A TLA+ model of the 7801 dash-camera firmware

The repository is the firmware of a driving recorder with WiFi (GeneralPlus
GPCV4247/4248, uC/OS-II). Its own core is the application: tasks that exchange
messages, a storage service that names, opens and deletes files on a memory
card, a recording state that strings those files into a loop recording, an
encoder task that turns lines of the sensor into frames of those files, and the
download of a file over WiFi. The modules here model these, with the message
queues and the memory manager that they all use. TLC checks them on small
instances; TLAPS proves the results of section 4 for every size.

Paths below are relative to `src/application` unless they say otherwise; line
numbers are those of the modelled commit.

## 1. Inventory of the system

| Component | State | Operations | Interacts by | Hard behaviour |
|---|---|---|---|---|
| Message queues (`msg_manager`) | a pool of slots, an OS queue of pointers | create, send, receive, accept, flush, delete | every task | senders lock the scheduler, receivers a semaphore: they do not exclude each other |
| Storage service (`task_storage_service`) | tables of used file numbers, where the search starts, two path buffers, two timers, deletion in progress | open the files of a recording, picture, or loop; give a number back; check free space and delete; mount; browse, delete, lock | StorageServiceQ in, ApQ out | files are opened by this task and closed by another; numbers wrap around |
| Recording state (`task_state_handling/state_video_record`) | busy, unmounted, handles of the current and the next file, lock flag, loop timer | start, stop, change files, lock, snapshot, replies, card messages | ApQ in, StorageServiceQ out, calls the encoder | replies that come late; paths passed by pointer |
| AVI encoder interface (`mini_dvr_api/src/video_encoder.c`, `task_avi_encoder/src/avi_encoder_app.c`) | which packer is open, its file handles | start, stop, change files | called by the state task; waits for the encoder task | failure half-way |
| Encoder and audio tasks (`my_avi_encoder_state.c`, `my_video_codec_callback.c`, audio) | line buffers and output buffers, frames that wait for the packer, the line interrupt's place in the frame, acknowledgements | give a line, compress it, skip a frame, hand a frame over, stop | their queues, the line interrupt, the JPEG engine, the packer | an interrupt between any two steps; every queue at its limit; timeouts of acknowledgements |
| Mode switching (`task_state_handling.c`, `ap_state_handling.c`) | the present state | enter and leave a state | StateHandlingQ, ApQ | messages for a state that was left |
| Preview, browse, thumbnail, setting states | what is shown | pictures, browsing, deleting, locking, formatting | ApQ, StorageServiceQ | requests answered after the state changed |
| Software timers (`src/driver_l2/system/src/system_timer.c`) | up to 7 timers | set, kill, interrupt, timer task | an OS queue of ids, the senders given | a killed timer that still sends |
| Memory manager (`src/gplib/mm`) | a list of headers in the memory itself, sorted by address; pools of fixed blocks | allocate, allocate aligned, free | every task, under one semaphore | fragmentation, alignment, what is read after the semaphore is given back |
| MJPEG streamer, socket commands, WiFi download | two download buffers with their flags and sizes, the offset in the file; the last frame | stream, download, remote control | sockets, flags shared with the storage task | flags without locks |
| File service (`task_filesrv`) | a request being read | read, load | its queue, acknowledgement queues | out of order acknowledgements |
| Peripherals (`task_peripheral_handling`) | keys, battery, charger, G-sensor | poll, debounce | sends to ApQ | it makes the inputs of the recording state |
| Display, decoders, USB | pictures, playback pipelines | draw, play, mass storage | queues | hardware buffers |
| Kernel, file system, drivers, WiFi host stack | | | | third-party or binary |

The directories `code` (editor backups), `host`, `liba`, `Tools`, the sensor
tables and the resource arrays are not part of the firmware's own logic.

### What makes each of the modelled parts correct

* *Queues.* A message is received once, in order, and its slot is used by one
  side at a time; no send loses a slot for good.
* *Storage service.* A new file never empties or shares the number of one that is
  on the card; the deletion never removes a file in use or a locked one; a
  number comes back when its file was not used.
* *Memory manager.* Two blocks in use never overlap; a request is refused only
  when nothing fits; every call comes back.
* *Encoder task.* A line buffer and an output buffer is with one party at a
  time; a frame in the file is whole, and the frames are in order; a stop is
  answered.
* *WiFi download.* A buffer is not sent while it is filled; the client gets the
  file in order, once and whole.
* *Recording state.* Each handle it is given is recorded to or closed, exactly
  once; what it locks or removes is the file it means; it never waits for ever
  for a file; a full card or a missing one stops it.

Everything in this code that a test would hardly reach is listed with its line
under `hazards` in `PROJECT.json`, with the properties that watch it.

## 2. The modules

| Module | Models | Uses |
|---|---|---|
| `MsgQueue` | `msg_manager/src/msg_manager.c` | `BoundedFifo` (refined) |
| `BoundedFifo` | what a queue promises its users | |
| `MsgQueueProofs` | the theorems about `MsgQueue` | TLAPS |
| `CardFiles` | what the two tasks share: queues, card, files, handles | |
| `StorageService` | the storage task, for recording | extends `CardFiles` |
| `VideoRecord` | the recording state, the preview it is left for, the encoder it calls, and the two tasks composed | extends `StorageService` |
| `VideoTypes` | type correctness of `VideoRecord` | TLAPS |
| `VideoShapes` | where the open files are: the inductive invariant, `OneHolder`, `PathNamesRecording` | extends `VideoTypes` |
| `VideoProofs` | the numbers of the files, the files on the card, finished videos and locks, the card, the polling | extends `VideoShapes` |
| `Heap`, `MCHeap` | `src/gplib/mm/src/gplib_mm_gplus.c`, and an instance | `BlockHeap` (refined) |
| `BlockHeap` | what a heap promises its users | |
| `HeapProofs` | the theorems about `Heap` | TLAPS |
| `FramePipeline` | the encoder task, the line interrupt, the engine and the packer | |
| `FrameProofs` | the theorems about `FramePipeline` | TLAPS |
| `WifiDownload` | the socket task and the storage task during a download | |
| `WifiProofs` | the theorems about `WifiDownload` | TLAPS |
| `LeastElements` | a fact about linear searches that several proofs use | TLAPS |

### Message queues

One slot is one id word: 0 is free. `msgQSend` runs under `OSSchedLock` and is
one action (`MsgQSend`, or `MsgQSendNoSlot` when the pool is full).
`msgQReceive` is three: `Pend` takes the pointer from the OS queue, `CopyOut`
copies the message, `FreeMessage` clears the id word and returns; senders run
in between. `msgQFlush` is two (`MsgQFlushQueue`, `MsgQFlushPool`). A message is
the number of the call that sent it. Each queue has one receiving task, which
is also the one that flushes it, so the semaphore is never contended.
`BoundedFifo` is the abstract queue: accepted messages wait in order, normal ones
at the back and urgent ones at the front, and the one being read still counts
against the capacity. The refinement mapping reads the messages through the
pointers: `buf <- BufOf(osq, pool)`. `msgQDelete` has no caller.

### Recording

A file is a prefix and a number, `<<"MOVI", 7>>`; `N` numbers stand for 10000. A
locked video is the same number under the prefix LOCK. The file system is
external: open gives the least free handle and creates or empties the file,
close and unlink of what is not there do nothing, and all fail without a card.

Each message is one action. `StorageService` has one action per message of
`task_storage_service.c` that recording needs: `VidReq`, `PicReq` and
`NoFilename` (`ap_storage_service_file_open_handle`), `CyclicOpen`,
`CyclicHang` and `CyclicUndo` (`..._cyclic_record_file_open_handle`),
`StorageCheck` (`..._storage_mount`, with the removal of nearly empty files as the
tables are built), `FreesizeCheck`, `FreesizeCheckAgain` and
`FreesizeCheckStep` (`..._freesize_check_and_del`), `TimerStart`,
`FreesizeCheckSwitch`. The jump back to the label RE_DEL, which does not read the
free space again, is an action of its own (`spc = "re_del"`). `VideoRecord` has
one action per message of `state_video_record_entry`; `FuncKey...` are the
branches of `ap_video_record_func_key_active`, `Reply...` those of
`ap_video_record_reply_action`, `Switch...` those of
`ap_video_record_cycle_reply_action`. MSG_APQ_VDO_REC_RESTART calls the first
function twice, by falling through to the next case: `again` holds the second
call, and nothing of the state task runs in between. `Input`, `CyclicTick`,
`MountTick`, `FreesizeTick` and `MoveCard` are keys, timers and the user's hand.

The state task has priority 34 and the storage task 36, so the state task is
never interrupted by the storage task, except while it waits for the encoder in
a start or a stop. Serving a storage message during that wait is the same as
serving it before the whole handler began: before it waits, the handler posts
only to the front of the queue (FREESIZE_CHECK_SWITCH, FALSE), and a check
served in between is one served before. In the other direction, the handlers of
the storage service read and write their own tables and send their reply last;
what they share with the state task (`g_file_path`, `g_next_file_path`, the
card) they use in the order of one action, apart from a deletion during which a
key is pressed, where the file is chosen and removed without a wait.

The queues are plain sequences here, with urgent messages put in front: this is
what `MsgQueue` is proved to implement. Their capacity (128 and 64) is not
reached: keys are debounced, and each timer has one message waiting.

`done` is a history variable: the videos that were finished, as long as they are
on the card. `Finish`, a conjunct of `Next`, keeps it.

Configuration as built: C_AUTO_DEL_FILE, C_CYCLIC_VIDEO_RECORD and
SUPORT_GET_JPG_BUF on, RENAME_LOCK_FILE 1, LOCK_FILE_NAME 0; C_MOTION_DETECTION
and GPS_TXT off; no audio recorder, so the table of wav numbers is empty.

### Leaving the recording state

The mode key leaves the recording state for the preview unless a recording is
under way (`ModeKey`); `present_state` says which of the two reads ApQ. The
preview takes the card messages as the recording state does (`PreviewCard`) and
drops everything else, replies with their handles included (`PreviewIgnores`).
The record key leads back: `PreviewRecordKey` enters the recording state, which
forgets what it knew of a next file and of the loop timer (`RecordEntered`; a
timer that runs goes on), and repeats the key. The mode key is pressed in
the recording state, since in the preview it leads on to the browser. The photos
of the preview are not modelled: they share PIC_REPLY with the snapshots of a
recording, so no run has the mode key together with snapshots.

### Memory manager

The memory is two functions, `next` and `end`: the two words that make a header,
at each address in words. A call begins with `GpMalloc`, `GpMallocAlign` or
`GpFree`; the pools come first (`GpFixedSizeMalloc`, `GpFixedSizeFree`). Then `Lock`
takes the semaphore and the walk goes along the list, one action for each header
(`Advance`), until the gap behind it fits (`MallocInserts`, `MallocAlignInserts`),
the block is found (`Unlink`) or the list ends (`NotFound`). `gp_malloc` gives the
semaphore back before it reads the address that it returns: `MallocReturns` is an
action of its own, with other tasks in between. `hdrs`, `live`, `made` and
`strayed` are history variables. `BlockHeap` is the abstract heap: a set of
intervals that never overlap; a block of the list is one, its header included.

### Frames

`FramePipeline` follows a frame from the sensor to the packer. `Line` is
`conv422_isr_func`: a group of lines is complete, its buffer goes to `jpegQ` with a
NOTIFY, or is refused when the queue is full; the next free buffer is taken from
`fifoQ`, and at the last line of a frame a stop takes effect. `EngineDone` and
`EngineFull` are the JPEG engine's interrupt. The encoder task takes one message
at a time: `Notify`, `Full`, `FullSw`, `DoneFrame`, `DoneLine`, `DoneTooLong` and
`WriteDone`; behind a NOTIFY and behind a line it goes to
GOTO_MSG_JPEG_QUEUE_NOTIFY, the `Take...` actions, where the next line is compressed
(`TakeLine`), skipped (`TakeSkipped`) or stands for one the sensor had no buffer for
(`TakeDummy`). A finished frame goes to the packer behind those that wait, or
waits (`HandOver`); with all output buffers in use a new frame takes the buffer of
one that waits (`Allocate`). `PackerWrites` is external. `Start`, `Stop` and
`Stopped` are the calls of the recording state, the last one also what it does
after five seconds without an answer.

### WiFi download

The socket task sends one buffer while the storage task fills the other.
`Start`, `BeginSend`, `SendPacket`, `Finish`, `Freed` and what can cut a download short
(`Cancel`, `SendFails`, `StartRefused`) are the socket task's. The block in front of
the switch over the messages in `task_storage_service.c`, with the function it
calls, is split into the steps of `job`: none, compare (`MessageActive`), more or
over (`FindMore`, `FindOver`), look or say (`Look`), fill (`BeginFill`), switch
(`EndFill`, `OpenFails`, `ReadFails`) and none again (`SwitchBuffer`, `SayOver`,
`NothingEmpty`).

The socket task has the higher priority, so that what it does between two calls
that block is one action. It can preempt the storage task anywhere: each of the
latter's actions reads or writes one variable that the socket task changes while a
download runs. What only a start changes (the file's size and place, the
addresses of the buffers) is read with it; when a download starts in the middle of
a read, `FileRead` chooses what of `download_file_info` the read leaves. The frees at
the end come before the state is set (`EndDownload`, `Freed`), and may wait for the
heap.

A buffer holds packets; `data` is the place in the file where each buffer's bytes
were read, and `got` what the client received, so that `InOrder` is about the
contents. `clean` says that a download began with the storage task at rest, `torn`
that it began between the choice of a buffer and the change of `curr_buf`: see
section 5, items 14 and 15.

## 3. What the runs check

| Run | Question | States | Result |
|---|---|---|---|
| `queue` | one queue, 3 slots, 6 sends, normal and urgent | 56 k | holds |
| `queue_flush` | the same queue when its owner flushes it | 221 k | holds |
| `record_keys` | record key, mode key, locks, loop, deletion | 527 k | holds |
| `record_wrap` | the numbers wrap around (`N = 4`, three changes of files) | 693 k | holds |
| `record_jpeg` | snapshots while recording, until all numbers are used | 653 k | holds |
| `record_card` | the card is taken out and put in, the encoder fails, packer errors, stops at any moment, mode key | 432 k | holds |
| `record_full` | old videos are kept, the card gets full; restarts, an encoder failure | 195 k | holds |
| `record_sdfull` | does a stop for a full card only stop? | | no: 5.2 |
| `record_cardlost` | does the removal of the card stop what records? | | no: 5.3 |
| `heap` | two tasks on a heap with a pool | 109 k | holds |
| `wifi` | three downloads, cancelled or failing | 1.8 M | holds |
| `frames` | four frames in up to four recordings, one fault | 967 k | holds |

The properties, by what they say of the code:

* `OneHolder`: every open handle is in a reply under way, in the packer or in
  `next_file_info`, and in one of them only. It needs the refusal of user keys
  (`ap_video_record.c:408`) while a reply is due.
* `PathNamesRecording`: handles travel by value and paths by pointer to two
  buffers of the storage service; at each moment the buffer names the file of
  the handle.
* `OpenFilesExist`: the background deletion never removes an open file.
* `FilesIndexed`, `NeverTruncates`, `VideosKept`: the numbering. A file on the card
  has its number in the table; a file that exists is never opened anew; a
  finished video is lost only to the deletion, and only when it is not locked.
* `LockHonoured`: a file whose lock was asked for while it was recorded is
  locked as it is closed, in a stop and in a change of files.
* `RestPolls`, `CardKnown`: the polling of the card is resumed; the recording
  state ends up knowing whether there is a card.
* `FullStops`: when a recording has the stop for a full card ahead, and no message
  before it that stops or starts one (`FullPending`), then nothing is recorded
  once that stop is handled: no reply, change of files or missing next file keeps
  it from being taken. The condition is needed: behind such a message the stop is
  a toggle (5.2). A failure of the encoder on the way is left out.
* `Answered`, `NextFileComes`: a recording gets its first file, and the next one
  after each change, or is given up.
* `SlotDiscipline`, `NoSlotLeaked`, `NoMessageLost`, `NoDuplicate`, `ImplementsFifo`:
  a queue keeps its pool and its OS queue in step, and is a bounded FIFO.
* `OwnedOnce`, `ImplementsBlocks`: what is given out is in use and given out once,
  and blocks do not overlap. `WalkMissesNothing`: a request is refused only when no
  place in the heap would do, and a release is given up only when there is no
  such block. `CallsReturn`: no walk leaves with the semaphore held.
* `FifosInOnePlace`, `OutsInOnePlace`: each line buffer and each output buffer is with
  one party, whatever is refused, skipped, given up or given back. `WholeFrames`:
  a frame that is kept has all its lines, of one frame of the sensor. `InOrder`:
  the packer gets the frames in the order of the sensor. `WaitingHasRelease`: more
  than one frame never waits with nothing at the packer that would release
  them. `StopAnswered`: a stop is answered.
* `Exclusive`: no buffer is sent while it is filled. `InOrder`, `WholeFile`: the client
  gets the beginning of the file, and all of it when the download is reported as
  done. `NoFillAfterFree`: only a download cut short leaves the storage task with a
  buffer that was freed. `Ends`: a download ends, unless a read fails or it is `torn`.
* One type invariant in each module.

### Bounds

`N` numbers, `MaxHandle` handles, `MaxInputs` keys, `MaxCycles` expiries of the
loop timer, `MaxFaults` encoder failures, `MaxCardMoves` card moves,
`MaxSelfStops` stops by the storage service, `MaxSends` sends. A timer posts its
message only when the last one was served (their periods are long against the
service of a message). Two recordings with two changes of files, a lock, a visit
to the preview and deletions fit into the five keys of `record_keys`;
`record_wrap` passes through all four numbers more than once, and also holds with
one more key (3.2 million states). `record_card` and `record_full` carry one
encoder failure and a stop that is not a user key. `FreeLevels` has one value for
each branch the code takes on the free space: below 15 MB, below 70 and 100 MB,
and above.

`N` is greater than the files of the run everywhere but in `record_wrap` and
`record_jpeg`, where the searches that find no number (`CyclicHang`,
`NoFilename`) are taken: what this does to the other properties is in section 5,
items 6 and 8. `record_jpeg` also holds with six keys and two changes of files
(16.7 million states).

`heap`: nine free words, two sizes and two alignments (2 counts as 4 bytes; 8
needs padding) hold up to two blocks with a gap that fits exactly, one that is too
small by its padding, and a release before, between and behind the walk of the
other task. `wifi`: files of 0, 3 and 4 packets, read two at a time, end inside
a read, on its end and before the first one; with three downloads one can follow
a cancelled one. `frames`: frames of two lines, three line buffers, three entries
of the queue, three output buffers and a threshold of two: an empty and a full
queue, a frame that waits, one given up for a newer one, a stop within a frame
and a restart are all reached. `MaxFaults` counts lines that outgrow their buffer
and interrupts that find another buffer than the one they set.

### Fairness

`FairSpec` of `VideoRecord` assumes that each of the two tasks runs when it has a
message: both block only on their queues, and all tasks of higher priority block
too. Nothing is assumed of keys, timers, the card or the encoder. A deadlock is
allowed (`CHECK_DEADLOCK FALSE`) because the bounded inputs run out, after which
both tasks wait; likewise in `queue`, `wifi` and `frames`. `heap` does not stop.

`Heap` assumes strong fairness of each task's steps within a call: uC/OS-II gives
the semaphore to a task that waits for it whenever it is released, to the highest
priority first, and tasks of higher priority sleep between their calls.
`WifiDownload` assumes that the socket task runs while it has something to send (it
polls, and gets the heap's semaphore at the end) and that the storage task reads a
message now and then and goes on with it (its timer is started again behind each read,
and reads return). `FramePipeline` assumes that the sensor gives lines and
the engine finishes while they run, and that the encoder task and the packer
take their messages. Nothing is assumed of the user, the client or the
faults.

## 4. What is proved

Nothing is assumed but the assumptions on the constants that the modules name
(`QueueAssumption` and the like) and, where it says so, `KeysOnly`.

### The queues (`MsgQueueProofs`)

For every number of slots, size of the OS queue and number of sends:

* `TypeCorrect`: `Spec => []TypeOK`, flushed or not.
* `InvCorrect`: the inductive invariant `IInv`, for a queue that is not flushed
  and whose OS queue has a place for each slot (`MaxMsgs <= MaxQSize`; every
  call of `msgQCreate` passes equal numbers).
* `SlotDisciplineHolds`, `NoSlotLeakedHolds`: its two parts that matter.
* `ImplementsFifoHolds`: the queue implements `BoundedFifo`.
* `OnceCorrect`, `NoDuplicateHolds`: no message is received twice, flushed or not and
  for all constants. `Once` is inductive: the numbers in the pool and those
  received are distinct and were sent, and what is copied is still in its slot,
  or is the empty id.
* `NoMessageLostHolds`, for a queue that is not flushed with `MaxMsgs <= MaxQSize`:
  every message sent was refused, is in a slot or was received (`Accounted`), and
  what is in a slot is not yet received (`Once`); the rest is counting.

*The argument.* Slots in use are exactly those queued and the one being read,
and no slot is queued twice (`SlotDiscipline`). With the pool no larger than the
OS queue this bounds the length of the latter by the slots in use (`BusyCount`),
so there is room whenever a slot is free (`PostSucceeds`), so that no send leaks a
slot (`NoSlotLeaked`). This is why the two have to be proved together.
`Numbering` is needed for two steps: a new message is not one that was refused,
and while a slot is being read its word still is the one copied. For the
refinement, `Post` on pointers maps to the same end of `buf` because the slot
filled is not among those queued (`SlotDiscipline` again), and the test "is
there a free slot" is the test "is the buffer not full" (`BusyCount`).

### The heap (`HeapProofs`)

`HeapInvCorrect`, with `TypeOKHolds`, `ListSoundHolds` and `OwnedOnceHolds`, for every number of
tasks, every pool, every size of the heap and every size and alignment asked for. `HeapInv` is
inductive as a whole: that the list is sound is kept by an insertion because the
gap behind the header where the walk stands is free, which needs that the walking
task holds the semaphore and stands on a header of the list (`Walkers`), which a
release by another task could break, but for the semaphore. A block is owned once
because an insertion takes an address that is not in the list. The search of the
pools finds the least free block, if there is one (`LeastElements`).

* `ImplementsBlocksHolds`: the heap implements `BlockHeap`. An insertion reserves
  words of the gap behind a header, which reaches into no block; a release gives
  one block back; every other step is a stutter.
* `WalkMissesNothingHolds`: first fit is complete. A walk at the last header has
  found nothing at any header before (`Walkers`). Below every place that would do
  is a header with its gap around that place: the gap fits, as rounding up gives
  the least aligned address (`AlignUpLeast`) and no request is for 0 bytes
  (`Asked`); and the header before a block is the one whose release stops there.

### The frames (`FrameProofs`)

For every number of lines, of buffers of both kinds, of entries of the queues and
of faults. `FrameInvCorrect` proves one invariant, in layers, each of which needs
those before it:

* `LineInv`, for `FifosInOnePlaceHolds`, which is not inductive alone: a buffer
  queued twice would come free while it is still queued (`QueuedOnce`), the buffer
  of the line before must be given back before the next line is taken, and the
  interrupt's part ends only at a stop.
* `OffInv` and `EngineInv`, for `TypeOKHolds`: between recordings nothing is left
  behind, and the engine is at a line, or exactly one message of its own is on the
  way, or it rests with neither. A second message would start a second line in
  the middle of the first.
* `OutsInv`, for `OutsInOnePlaceHolds`: while a recording runs each output buffer in use
  has one holder (the engine, a waiting frame, the packer or a message of it) and
  one only (`HeldOnce`).
* `OrderInv`, for `InOrderHolds`: what the packer was given is older than what waits,
  that is older than the frame in the engine, and that is not newer than the lines
  in the queue and the one the sensor is at (`ToCome`).
* `LinesInv`, for `WholeFramesHold`: the lines that are compressed, those in the queue
  and the one to come follow one another (`Chain`) unless a full queue refused one,
  and a frame that is kept has all of them.
* `HungryInv`, for `WaitingHasReleaseHolds`, with `PackerThreshold >= 2` (`AVI_PACKER_TH`
  is 2): the packer or a message of it has a frame whenever the threshold keeps one
  waiting.

### The download (`WifiProofs`)

For every set of file sizes and every size of a buffer: `TypeCorrect`,
`ExclusiveHolds` and `NoFillAfterFreeHolds` from `FlagsInv`; `InOrderHolds` and
`WholeFileHolds` from `OrderInvCorrect`. The last says what is in the two buffers, in
each of the shapes a download can have: both are empty and the next read starts
where the client is (`BothEmpty`); the one to be sent next holds what the client gets
next, and the next read starts behind it (`OneFilled`); or the other one holds what
comes behind that (`TwoFilled`). `BuffersInv` says this, `TaskInv` what the storage task may
conclude from it: that all has been sent, or that nothing has been read yet. Both
speak of the buffer it goes on to (`NextBuf`), as it may have filled one and not
have written `curr_buf` yet. `OffsetInv` keeps a read under way inside the
file. A failed read (`Bad`) leaves the shape and loses the contents, which
`InOrder` allows for.

### The recording (`VideoTypes`, `VideoShapes`, `VideoProofs`)

For every value of the constants, all inputs, faults and card moves included:

* `TypeCorrect`: `Spec => []TypeOK`. The part of it that is not bookkeeping is that the
  search for a number ends at a free one (`FreeIndexType`) and `open` gives a handle
  that is not in use (`OpenHandleType`).
* `CardKnownHolds`: by `CardInv`, the last of the messages about the card that are
  on their way says what the storage task knows, and with none on its way the
  state task knows it too.

Under `KeysOnly`, that is for the inputs of `record_keys` and `record_wrap` (record
key, lock key, mode key, without encoder failures, with the card in, and no stop
from elsewhere), with any number of presses, files, numbers, handles and changes of
files:

* `IndInvCorrect`: every state has one of six shapes. *Idle*: nothing is open,
  nothing on its way. *FileAsked* and *FileGiven*: a recording waits for its file,
  whose request, or whose reply with the only open handle, is the only one in
  the queues. *NextAsked* and *NextGiven*: the packer writes the current file, and
  the same holds for the next one. *BothFiles*: both are there and nothing is on
  its way. The refusal of user keys while a reply is due
  (`ap_video_record.c:408`) is what keeps a stop from leaving *FileAsked* and
  *NextAsked* with a reply that has no one to hold it: section 5, item 5 is what
  happens with stops that are not refused.
* `OneHolderHolds`, `PathNamesRecordingHolds`: read off the shapes.
* `NeverTruncatesHolds`: by `NumbersInv`. Every video on the card has its number in the
  table (`MoviIn`). What could break it is the undo of a next file, which frees the
  number before `g_file_index`, whatever file has it by then: so a request to undo
  waits only between recordings, before any request for a file, and the file of
  that number is not on the card (`UndoInv`); and a next file that was opened is
  the newest (`NextInv`). With *Shape* this is inductive, wrapping numbers included.
* `RestPollsHolds`: by `Polls`, nothing is recorded only while the mount timer runs or
  the request that starts it is in the queue.
* `VideosKeptHolds`, wrapping numbers included: by `DoneInv`, the finished videos are
  on the card and none of them is the next file, which a stop removes. A new file
  is not one of them by the argument of `NeverTruncatesHolds`, and a lock only
  changes a name.
* `OpenFilesExistHolds`, `FilesIndexedHolds` and `LockHonouredHolds`, until the numbers
  have wrapped around (`NotWrapped`: `g_avi_index_9999_exist` is not set, that is
  until the file with the last number is opened, 9999 in the code). Until then `FilesInv` holds
  (`FilesInvCorrect`): the numbers order the files by age. All files are below the
  next number (`NumberedInv`), the next file is newer than the one that is recorded
  (`BehindInv`), and the one recorded before, which the lock key may still lock, is
  older than both (`PrevInv`). The deletion takes the least number of a video that is
  not locked, and leaves the current file alone, so what is open stays; what is
  open has its unlocked name (`OpenInv`), so that the lock made when it is
  closed finds it. The bound is not for convenience: after the wrap the next
  number is no longer the greatest, and with the bounds of `record_wrap` TLC shows
  each of the three to fail (section 5, item 7).

For the files, each step of the system is first said to be of one of nine kinds
(`KindStep`): it leaves open files and numbers alone (and then leaves the card alone,
locks the file before, or deletes one), opens a file, finds no number, gives one
back, stops, or changes files. The invariants are then preserved kind by kind,
rather than action by action.

### Only model-checked

Each invariant and action property of a passing run is stated by a theorem.
Where a theorem has a hypothesis the rest is checked by the runs only: recordings
with snapshots, encoder failures, card moves and stops that are not user keys, for
all but `TypeOK` and `CardKnown`.

*Out of the prover's reach:* liveness under fairness and ENABLED, so `Answered`,
`NextFileComes`, `FullStops`, `CallsReturn`, `Ends` and `StopAnswered`; induction over
data; anything in a module with a RECURSIVE operator (there is none here).

## 5. Where the code does not do what it says, and known weaknesses

Items 2 and 3 have runs, as findings. The others contradict no statement of the
repository that a run could quote, or are covered by a property that excludes them;
each was found by checking the property that it names.

1. `msg_manager.c:334-335`. A message posted between the two steps of a flush is
   received with success and id 0 (`ReceivedWasSent`).
2. `state_video_record.c:841`. "if sdc redundant size less than
   CARD_FULL_SIZE_RECORD, STOP recording now." (`ap_storage_service.c:216`): the
   message for that is handled as a toggle, and starts a recording when the
   user's stop was served first (`StopNeverStarts`). It does so too when the
   recording was given up at a loop message that an earlier recording left behind,
   served when a next file is there and the packer has no file yet.
3. `state_video_record.c:312`. "if it is recording, stop it": after a failed change
   of files (`ap_video_record.c:704-731`) busy is cleared while the packer goes on
   with its open file, and the card's removal does not stop it (`NoStorageStops`,
   which speaks of a packer whose file is open and not of a start that failed).
4. `ap_video_record.c:1040`. "set file attribute only after close file": a stop by
   an event that is not a user key, before the VID_REPLY of a second recording,
   locks and renames the file that is on its way, and open (`LockAfterClose`).
5. Stops that are not user keys (`ap_video_record.c:408` lists those that are): a
   stop while a request for the next file is waiting ends with two next files
   when a new recording is started: `OneHolder`, `PathNamesRecording` and, as
   numbers are given back twice, `VideosKept` fail. With the mode key behind such a
   stop, the preview drops the reply: its handle and its number are lost. The runs
   with such events therefore check only the properties that survive.
6. When all numbers are used, `ap_storage_service.c:1351-1359` never ends
   (`CyclicHang`) and 1226-1230 returns without a reply (`NoFilename`): `Answered`
   fails.
7. Once the numbers have wrapped, the deletion starts past the current file and can
   remove the open next file (`ap_storage_service.c:230-253`, 276), and a result
   of `stat` that is not looked at (244-247) can make a locked or missing video the
   victim; after four failures its number is freed (305-306), though a locked file
   still has it. `OpenFilesExist`, `FilesIndexed` and `LockHonoured` (the file to be
   locked is gone) fail with the bounds of `record_wrap`, which therefore does not
   check them.
8. A snapshot while recording overwrites `g_file_path`: `PathNamesRecording`,
   `OpenFilesExist` and `NextFileComes` fail in `record_jpeg`.
   When it finds every number used it still moves `g_file_index` (1226-1230), so
   the number the stop then gives back (1387-1393) can be that of a finished
   video, and the next recording empties it: `VideosKept` fails with six keys.
9. The switch-off of the free-space check is urgent (`ap_video_record.c:424`) and
   overtakes a switch-on (941) that is still queued: checks and deletions go on
   with nothing recorded, after a quick start and stop.
10. A late VID_REPLY does not start the polling of the card again
    (`state_video_record.c:538-566`): `RestPolls` fails when a recording is stopped
    by an event that is not a user key before its first file comes.
11. After an encoder stop that timed out the file just finished is removed
    (`ap_video_record.c:435-438`): `LockHonoured` fails under faults.

12. `gplib_mm_gplus.c:686`. `gp_malloc` reads the address of its block from
    `pmm->next` after it has given the semaphore back: another task's call in
    between makes it return another block, or a free one (`ReturnsItsBlock`).
    `gp_malloc_align` takes the address before.
13. `socket_cmd.c:1555`. A download that is cancelled, or whose client is gone, frees
    both buffers while the storage task may be reading the card into one of them;
    `NoFillAfterFree` has the condition `cut` for it. The read then marks a buffer of
    the next download as filled, and leaves its file open.
14. `task_storage_service.c:49`. `wifi_dl_cnt` ("first time") is reset when the storage
    task takes a message between two downloads. When a download follows a cancelled one
    at once, it is taken for one under way, nothing is read, and it is reported as
    done with 0 bytes: `WholeFile` has the condition `clean` for it.
15. `task_storage_service.c:62-63`. When a download is cancelled and the next one starts
    while the storage task is between the choice of a buffer and the change of
    `curr_buf`, the old choice is finished in the new download: `curr_buf` becomes 0,
    and the socket task waits for buffer 1. With `wifi_dl_cnt` still set the storage
    task takes the file, whose size is 0, for sent and says so at `curr_buf`, where
    nobody looks (79-87): the download never ends, until it is cancelled. `Ends` has
    the condition `~torn` for it.
16. `ap_storage_service.c:2075`. A failed read returns -1, which is taken for a size of
    0xFFFFFFFF bytes: the socket task sends on past the end of the buffer. The test
    for it at `socket_cmd.c:1541` is never reached.
17. `my_avi_encoder_state.c:1180` compares with the second waiting frame when there
    may be only one.
18. When the last line of a recording had no buffer and the engine is idle, no line
    ends any more and the stop is not answered: the caller waits five seconds and
    takes it for failed. A NOTIFY that comes while the engine is busy is used up, so a
    line can be left behind; the last frame can be lost at a stop.
    `StopAnswered` excludes `starved` and `overrun` for the first.
19. `my_avi_encoder_state.c:1001-1014`. A line refused by a full queue is not noted: the
    lines behind it move up, into the frame before. `WholeFrames` excludes `overrun`.
20. A failed allocation of the line buffers leaves their addresses at
    DUMMY_BUFFER_ADDRS, which `avi_enc_buffer_free` then frees. The skip flag and
    the output buffer survive a restart, which `SkipEnds` makes harmless.
21. `state_video_preview.c:356`. The record key in the preview does not look at the
    flag of a photo under way, as the mode and menu keys do.

## 6. Not modelled yet, and the plan

Most of the repository's lines are not the firmware's own logic: the WiFi host
stack, lwIP, sensor tables, pictures as arrays, drivers and demos. What is
modelled is the logic that several tasks share; the share of all lines that it
makes up is therefore small, and will stay so.

Not modelled: browsing, playback, deletion and locking from the browser;
settings and the PC; photos of the preview; streaming; audio; the choice of indices
at mount from the newest and oldest file (it is a nondeterministic choice here);
what a frame weighs and which of the waiting ones is given up (a choice); line
interrupts of the sensor that are lost or come once too often (`Line` ends a frame by
counting them); hardware.

1. `SystemTimer`: set, kill, the 128 Hz interrupt and the timer task. Setting and
   killing change `gstSysTimerEnable` without a lock, so that most of what one would
   state of it (a timer that is set runs, a killed one sends once more at most)
   holds only for callers that do not preempt each other. The timers of
   `StorageService` are each set and killed by one task; flags stand for them.
2. The browsing half of the storage service: delete one or all, lock, unlock, the
   play index, against the tables of numbers.
3. `EncoderAck`: POST_MESSAGE and its acknowledgement with a timeout, and the late
   acknowledgement.
4. The streamer's hand-over of the last frame, and the photos of the preview,
   which share PIC_REQ with the recording.
5. Proofs: the shapes with snapshots, whose replies share the path with those of
   videos; the invariants of `VideoRecord` that survive faults, card moves and a full
   card, for stops that are not user keys, where a reply can be left without a
   holder, so that the six shapes become more.

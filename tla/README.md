# Virtual camera: a TLA+ model of the driver

`VirtualCamD` is a Windows kernel driver (KMDF with the UDE class extension) that
emulates a USB video camera. A user-mode application pushes frames into it; a
host video stack reads them from an isochronous endpoint as it would from a real
camera, and can move the camera (pan, tilt, zoom, focus) with UVC class requests
that the application fetches as commands.

This directory holds TLA+ modules for the parts of the driver that keep state,
TLC configurations that check them on small instances, and proofs, checked by
TLAPS, of every safety property the passing runs check and of both refinements.

    tlc -config stream_overlap.cfg MCVideoStream     # any .cfg with its module
    tlapm VideoStreamProofs.tla

`PROJECT.json` names the module of each `.cfg`, the source lines behind each
definition, the hazards with the properties that guard against them, and for
each property a small change of one definition that makes TLC find it violated.

## Inventory

| component | source | state | operations | modules |
|---|---|---|---|---|
| streaming path | `io.cpp` 879-1267, `controller.cpp` 580-600 and 780-830, `usbdevice.cpp` 40-120 and 330-420 | `VideoQueue`, `IsoVideoInQueue`, `currentVideoRequest`, `currentRequest`, `frameData` (buf, pos, length, flip), the static `timeout` | IOCTL_VIDEO_DATA_PUSH, IOCTL_SET_VIDEO_PROP, `processVideo` from the isochronous timer, `DpcCompleteVidoeIsoUrb` | VideoStream, FrameDelivery, VideoStreamInv, VideoStreamProofs, FrameDeliveryProofs; StreamPower, StreamPowerProofs under power changes |
| counter of several cameras | `io.cpp` 1076-1152, `controller.cpp` 250-357 | the static `timeout` of all devices of the driver | the ticks of each camera | SharedCounter, SharedCounterProofs |
| camera controls | `io.cpp` 20-760 | `ptzData` per control, `ptzListHdr` | GET/SET requests of `ptzControl`, IOCTL_GET_UVC_CMD | CameraControl, CameraControlProofs, UvcDescriptors |
| command list | `io.cpp` 140-170, `controller.cpp` 745-778 | the links of `ptzListHdr`, the pool | InsertHeadList, IsListEmpty, RemoveTailList, ExFreePool | CommandList, CommandListProofs, CommandQueue |
| stream negotiation and timer interval | `io.cpp` 745-845 and 1251, `controller.cpp` 781-831 | `width`, `height`, `frame_rate`, `bFrameIndex`, `frame_length`, `iso_timer_interval`, `needChangeFormat` | `videoControl` (probe, commit), IOCTL_SET_VIDEO_PROP, the start of the timer | StreamNegotiation, StreamNegotiationProofs |
| controller and camera lifecycle | `controller.cpp`, `usbdevice.cpp` 280-480 | `UdecxCamInit`, `VCamDevice`, timer, DPC and queue handles | DeviceAdd, D0Entry, D0Exit, cleanup callback, endpoint callbacks | CameraLifecycle, CameraLifecycleProofs |
| USB descriptors | `usbdevice.cpp` 545-1000, `uvc_struct.h` | constant data | none | UvcDescriptors |
| endpoint reset, configuration and link power callbacks, driver entry, audio (`#if 0`), tracing, build files | | none that changes | | not modelled |

How they interact. The framework calls everything. The default queue of the
device is parallel and takes the application's IOCTLs: push forwards to
`VideoQueue` (manual), SET_VIDEO_PROP writes `frameData` and the negotiated
properties, GET_UVC_CMD takes from `ptzListHdr`. The control endpoint's queue is
sequential and runs `IoEvtControlUrb`, which calls `ptzControl` (writes
`ptzListHdr`) and `videoControl` (reads the properties). The isochronous
endpoint's queue is manual; the timer callback takes one frame and one URB and
enqueues a DPC that fills the URB. Nothing takes a lock.

Where it is hard. Timer callback, DPC (also two runs of it on two processors),
IOCTL dispatch and control endpoint run concurrently on the same context; queues
are looked at by one call and read by the next; the DPC reads `currentRequest`
and `frame_buf` when it runs and not when it was queued; a request in hand can be
completed by one path and kept by another; the only frame boundaries the host
sees are EOF and the frame id; each of some twenty calls of the start-up can
fail, and one cleanup callback undoes them all.

What makes each part correct.

- Streaming: every frame and URB is completed exactly once and none forgotten,
  also when the device sleeps or goes; no camera disturbs another one;
  the copy stays inside the pushed buffer; the host gets frames in order, once
  and whole.
- Controls: the application is told, in order and in range, what the host set, and
  the host reads back what it set.
- Command list: a queue, whatever the interleaving; each command taken once.
- Negotiation: a commit that was accepted is for the format in use, and an answer
  to a probe describes one format; the timer polls.
- Descriptors: lengths, frames, endpoints and controls are those the code works with.
- Lifecycle: no callback uses a handle that was not created; what was created is
  undone once; an added device gets its camera.

## Modules

### VideoStream

The core. One action is one window of access to shared state, in the order of
the code:

| code | actions |
|---|---|
| IOCTL_VIDEO_DATA_PUSH, forwarded or not; its cancellation | `Push`, `PushRefused`, `CancelPush` |
| IOCTL_SET_VIDEO_PROP, store by store, in several threads | `SetVideoProp`: `SetPropFlip`, `SetPropLength`, `SetPropPos` |
| the endpoint is added; the host submits and cancels URBs | `EndpointAdd`, `SubmitUrb`, `CancelUrb` |
| `processVideo`: release of the frame in hand, or go on with it | `TickRelease`, `TickContinue` |
| look at VideoQueue, retrieve, take the buffer, start | `TickGetState`, `RetrieveFrame`, `RetrieveNothing`, `TakeFrame`, `StartFrame`, `RejectFrame` |
| take an URB, enqueue the DPC | `NoUrb`, `RetrieveUrb`, `EnqueueDpc` |
| `DpcCompleteVidoeIsoUrb` | `DpcBegin`, `DpcReturnEmpty`, `DpcNoRequest`, `DpcCopy`, `DpcBadCopy`, `DpcAdvance`, `DpcStore`, `DpcEof`, `DpcFlip`, `DpcNext`, `DpcComplete` |

`timer` is the program counter of the timer callback ("armed" between ticks),
`dpc[c]` that of a run of the DPC on processor `c`, and `setProp` that of the
IOCTL. `TickRelease` leaves `timer` at "armed": the code returns from
`processVideo` after it has completed a frame. A request is a model value with a
state and a buffer length, a frame is its length, a packet is a number of bytes.
`asm` and `picture` are observers: what a UVC host makes of the packets by their
EOF and frame id bits. The host is external.

After the copy, the DPC goes on access by access, because a second run of it, a tick or
IOCTL_SET_VIDEO_PROP may come in between: `frame_pos += len` is a read and a store, so is
the change of the frame id, and the end of the frame is tested twice (`io.cpp` 1052 and
1062), for EOF and for leaving the loop. A copy of no bytes through a NULL
`frame_buf` does no harm, and the run goes on to EOF.

Two conventions run through the project.

- *Bugchecks.* A call the kernel or the framework stops the system for (a request
  completed twice, a NULL handle, a copy through NULL or of a negative length, a
  list entry whose neighbours disagree) sets `bugcheck`, and nothing happens any
  more.
- *Faults.* The environment is free, and `faults` remembers the departures from
  the use the code was written for: `short_frame` (a buffer shorter than the
  geometry), `resize_in_flight` (the geometry changed with frames outstanding),
  `cancel_window` (a cancellation between WdfIoQueueGetState and the retrieve),
  `dpc_overlap` (a tick finds a DPC queued or running). The properties say what
  each of them can break: `BugcheckExplained` fails if one more, or another one,
  becomes able to stop the system. "Calm" use has no fault at all.

The device and queue attributes set AutomaticSerialization for the timer and the
DPC (`usbdevice.cpp` 353 and 376) and give no synchronization scope. What KMDF
then serializes is a matter of the parent object's execution and scope settings;
the model assumes the least, no serialization at all, so that every serialized
behaviour is one of the model's. `OneAtATime` (no `dpc_overlap`) is the part of
it in which the callbacks are serialized; what the properties say under
that condition is what holds if the framework does serialize.

### FrameDelivery

What the streaming path promises: a queue of accepted frames; the first one is
sent and then shown; a frame may be dropped, and one abandoned half way spoils
the next one, because nothing tells the host that it will not be finished. Property
`Delivers` of VideoStream is this specification under the mapping `Pending`,
`Sending`, `Spoiled`.

### StreamPower

VideoStream EXTENDed by the PnP and power manager. `power` is the state of the device
and `pipe` that of the streaming interface. What the code leaves to the framework
shapes the actions: the D0 exit does nothing (`Suspend`), so that timer and DPC run
in low power too; VideoQueue and the default queue are not power managed
(`controller.cpp` 178-196), IsoVideoInQueue is, by default, and hands out nothing
meanwhile (`NoUrbPaused`); the framework waits for the requests the driver holds
before it goes on (`Suspended`, `Removed`). `OpenPipe` is DEVICE_DATA_ENDPOINT_ADD,
each time with a new queue. `AddAgain` is the next device: a zeroed context and
`init_cam_prop`, but the same static counter.

### SharedCounter

Several cameras. The driver looks for a free device name, so that it can serve
several controllers, and `static int timeout` is one variable for all. The module
keeps each access of the counter by each camera's timer callback (`TickLook` and
`TickCount` are the two halves of `++timeout`, `TickReset` the store of 0) and reduces
the rest of a camera to what the counter depends on: how many frames wait, and
what became of the one in hand.

### CameraControl

The seven controls as records (command code, the answers to
GET_MIN/MAX/RES/DEF, the initial data, which fields SET_CUR stores, which are
told to the application and which are limited). `PtzSet` and `PtzGet` are
`ptzControl`; `Ignored`, `Refused`, `NotControl` are the other paths of
`IoEvtControlUrb`; `ReadCommand` is IOCTL_GET_UVC_CMD. The list of commands is a
queue here. `PtzSet` without a command is the pool allocation that fails. `sent` is how
many fields a SET_CUR brings: the handlers copy the size of the control and never look at
wLength, so that the fields behind a short transfer are any data, and two controls that
read the transfer twice may even store one value and tell another (`ReadAgain`). That the
copy itself leaves the buffer, and that an answer to a GET may, is not modelled: what it
meets there, a page that is not mapped for example, depends on the memory. `Receivers`
are the units that have a control with the selector, by the descriptor: the code
looks at the selector only. `asked` is an observer, the fields of the last SET_CUR to the
camera terminal. `ToldInRange` is about the fields the code limits: the limits of
absolute pan and tilt are commented out (`io.cpp` 370-388), and the automatic focus has none.

### CommandList

The same list link by link: `InsertRead`, `InsertLink`, `InsertPublish` for
`ptzNotifyApp`; `ReadEmpty` and `ReadCheck` (IsListEmpty), `ReadRefused` (a buffer that is
not the size of a command: the list keeps it), `ReadTail`, `ReadPrev`, `ReadUnlink`,
`ReadClose` (RemoveTailList), `ReadCopy`, `ReadFree` for each thread in
IOCTL_GET_UVC_CMD. Blocks are reused after they are freed. The list functions
are those of the kernel's headers, with their check of the neighbours, and are
external.

`ListIntact` says what the list holds at every moment without a fault: commands are
numbered, `Removed` of them were unlinked and `Published` made visible, and a walk from
the header meets the blocks of `Published` down to `Removed + 1`, each allocated
and with its command. Forward links have this in the middle of any list function
(the store of the forward link publishes or removes); back links when nobody is inside.

### CommandQueue

What the list promises: `Notify` adds a command, `Fetch` takes the oldest one,
`Refuse` answers that there is none when there is none. Property `IsAQueue` of
CommandList is this specification, where the queue is the numbers from
`Removed + 1` to `Published`, `fetched` what was handed out with the command a reader
is copying, and `broken` the first departure
(`faults`) from what the list can bear. `refusals` counts modulo 2, so that an
answer is a step.

### StreamNegotiation

`videoControl` is split where it reads or writes the properties twice
(`VideoAccept`/`VideoClear` for a commit, `VideoProbe`/`VideoAnswer` for the
other requests). IOCTL_SET_VIDEO_PROP is split into its stores, `SetWidth` to
`SetNegate`; the default queue is parallel, so several run at once, each `Setter` once.
`TimerStart` is the end of EvtIsochTimer, where the interval is read. Products are
ints: `Wrap` keeps them modulo `Word`, `Over` is the division that truncates.

`DueTime` says what the framework makes of the argument of WdfTimerStart: relative
when it is negative. The code makes the interval negative for that, and
WDF_REL_TIMEOUT_IN_MS negates it again: the time is "past", and the timer polls
as fast as it can. The faults say when it sleeps instead: `torn_interval` (between the
two stores of the interval), `overflow`, `negative`.

### UvcDescriptors

The configuration and device descriptors as records with the fields the code has
to agree with. Its ASSUMEs are checked whenever TLC runs a module that extends it:
the totals are the sums of the lengths, but for the total of the control interface,
which is one byte short (`ControlTotalIsShort`); each unit takes its input from an earlier one; the frames are
numbered as GET_MIN and GET_MAX answer and hold the pixels of the format; the endpoints are those
DEVICE_DATA_ENDPOINT_ADD knows and carry the payload an answer promises; the strings
exist; the camera terminal has exactly the controls of `ptzControl`.
MCStreamNegotiation takes its modes from the frames, CameraControl its `Receivers`
from the controls. The other details (endpoints, strings, the order of units and frames)
are looked at by the ASSUMEs only, and by no property of a run.

### CameraLifecycle

`step` is the call to make next; each call succeeds or fails, and a failure leads
where the code and the framework go: back to no device before WdfDeviceCreate
has succeeded, to the cleanup callback after it. The PnP manager suspends, resumes,
stops, restarts and removes the device; the host adds endpoints and the timer
ticks meanwhile.

## Runs

| run | instance | distinct states | shows |
|---|---|---|---|
| `stream_overlap` | 2 requests, 2 URBs, 2 processors, a frame of 3 bytes in 2-byte packets, 2 threads in SET_VIDEO_PROP | 1 288 108 | `BugcheckExplained`, `CopyWithinBuffer`, `NothingLost` with DPCs that outlive their tick |
| `stream_geometry` | 2 requests, 1 URB, 1 processor, 2 threads, lengths -1, 1, 2, buffers 1, 2 | 1 382 101 | `TypeOK`, the same two properties and `DiscardUnreachable` when the geometry changes at any moment |
| `stream_calm` | 3 requests, 2 URBs, 2 threads, lengths 0, 2, 3, timeout of 2 ticks | 655 122 | `KeptUntilSent`, and `Delivers`: refinement of FrameDelivery |
| `stream_power` | 2 requests, 1 URB, 1 processor, 1 thread that sends frames back to their start; sleep, wake, removal, new device | 212 604 | `FrameReturned`, `UrbReturned`, `StopsComplete`: nothing stays behind in any power state; `CounterFresh`, `BugcheckExplained` |
| `cameras` | 2 cameras, 1 frame waiting each, limits 2 and 1 | 281 792 | `CounterHeld`, `DiscardNeedsNeighbour`, `ShortenedByNeighbour`, `StarvedByNeighbour`, `TypeOK` |
| `camera_commands` | 7 controls, values -1, 0, 10, 11, 2 SET_CURs of any length to 2 units | 183 402 | `TypeOK`, `ToldInRange`, `AppFollowsHost`, `TerminalReadsBack` |
| `command_list` | 3 blocks, 2 readers, 4 commands | 477 640 | `BreaksOnlyByOverlap`, `HeaderNeverFreed`, `ListIntact`, `TypeOK`, and `IsAQueue`: refinement of CommandQueue |
| `negotiation` | 2 concurrent SET_VIDEO_PROPs, 3 modes: a frame of the descriptor, one beyond `int`, a negative width | 2 925 198 | `CommitIsCurrent`, `ProbeIsOneMode`, `SleepsOnlyWhenTorn`, `TypeOK` |
| `lifecycle` | complete | 116 | `BugcheckExplained`, `DpcExistsWhenEnqueued`, `UnplugUnreachable`, `TimerStoppedByCleanup`, `CameraAppears`, `TypeOK` |
| `camera_info` | as `camera_commands` | | finding: `InfoSaysGetAndSet` is violated |
| `lifecycle_init` | complete | | finding: `InitFreed` is violated |
| `timer_comment` | as `negotiation` | | finding: `NegativeIsRelative` is violated |

Why the bounds are enough. Two requests make a frame in hand and one that waits;
the third in `stream_calm` tells order from mere arrival. Two URBs and two
processors are needed, and enough, for a DPC to find the URB of another tick
and for two runs of the DPC to meet. Lengths of one and a half or two packets
make a frame that ends inside and at the end of a packet; -1 stands for every
negative length, 0 for the empty one. The limits 3000 and 30 of the code are the
constants TimeoutTicks and DiscardTicks: small values reach both sides of the
comparisons, and the theorems cover the real ones. One value below, at
and above each limit is what the controls tell apart. A list of at most three
blocks has an empty, a one-element and a longer case, and the fourth command
makes a freed block come back. A short buffer is left out of
`stream_power`: it is completed at once and stops the system in the next tick, which
`stream_geometry` and `PowerSafe` cover. Two threads in IOCTL_SET_VIDEO_PROP order
their stores in every way two can; the length a thread stores is any of
FrameLengths, because it multiplies sizes that may come from both. Each push request is used once, which bounds the
behaviours of VideoStream (`AddAgain` does not renew them); MaxTransfers, MaxInserts and
the Setters of StreamNegotiation are the other bounds of this kind. Two cameras are enough for every
disturbance one can suffer: a third one could only do what the second does. The shared
counter stops at CounterTop, above both limits it is compared with, so
that the two cameras can run for ever. In `negotiation` widths count 128 pixels and heights
8 lines, so that `Word` and `Divisor` divided by 1024 give the real intervals; two
requests interleave in every way two can, and the three modes reach a product that
fits, one that does not, and a negative one.

`VideoStream`, `CommandList` and `StreamNegotiation` use symmetry where the model values are
interchangeable and no liveness is checked. The view `DriverState` leaves out
the observers `asm` and `picture`, which no guard and no other variable's next
value reads; it is used only in runs whose properties do not mention them. States that
differ in the observers have the same steps, so that `stream_power` may use it with
liveness as well. `WithoutReply` leaves out `reply` in the same way: no action of
CameraControl reads the last answer, and no property of `camera_commands` mentions it;
`camera_info`, whose property does, has no view.

## Fairness

- `StreamPower` (`PowerFair`): the timer callback starts the timer again at its end
  (`io.cpp` 1251) on every path and nothing but the cleanup stops it, so the next
  tick comes and runs to its end, in low power too; a queued DPC runs and returns; a
  thread in IOCTL_SET_VIDEO_PROP goes on. The framework cancels what it drains and
  goes on when what it waits for has happened. `Removed` has strong fairness:
  WdfTimerStop waits for the callback and cancels the timer, so that ticks
  cannot put it off for ever.
- `SharedCounter` (`FairSpec`): the callback of each camera takes its next step.
  Nothing makes the DPC send a frame: the host may take no URBs.
- `CameraLifecycle`: a routine that was called runs to its end, and the PnP
  manager starts a device that was added unless it removes it.

Nothing is assumed of the application, the host and, but for the start of a device, the PnP
manager. `UrbReturned` and `StopsComplete` exclude behaviours in which a DPC
outlived its tick (an URB may be lost then) by what they say, not by the specification.

## What is proved

`VideoStreamProofs` proves, for any number of requests, URBs, processors and threads, any
lengths (negative ones too), any payload per packet and packets per URB, and any
values of the two limits:

| theorem | property |
|---|---|
| `Typed` | `TypeOK` |
| `NoUnexplainedBugcheck` | `BugcheckExplained` |
| `CopiesWithinBuffer` | `CopyWithinBuffer` |
| `NothingIsLost` | `NothingLost` |
| `DiscardIsDead` | `DiscardUnreachable` |
| `Invariant` | the inductive invariant `IInv` of VideoStreamInv |

The assumptions are those on the constants: NULL is no request and no URB, Torn
no request (`Naming`); frame lengths are integers and buffer lengths naturals
(`Lengths`); a packet has at least one payload byte and an URB one packet
(`Payload`); the limits are naturals (`Ticks`).

None of the properties is inductive. `IInv` adds what they rest on:

- `VideoQueueInv`, `IsoQueueInv`: a queue holds exactly requests in state
  "queued", each once. Without it a request taken from the queue might already
  be completed, and completing it would be the unexplained `double_push`.
- `HandInv`: the frame in hand is the only held one, `frame_buf` points at it,
  the counter is 0 when there is none. It gives `NothingLost` for frames and
  `DiscardUnreachable`, and says that a frame completed but still in hand was
  too short.
- `GeometryInv`: a buffer shorter than the geometry has `short_frame` or
  `resize_in_flight` behind it, and in calm use position, frame length and buffer
  length are in order from the timer's check on.
- `RunInv`, `DpcInv`: as long as no DPC outlives its tick, one URB is under way at
  most, it is `currentRequest`, and the frame stays in hand during the run.
- `CopyInv`: what a packet adds stays inside the frame.

The proof has one lemma per action and part of the invariant that the action can
disturb; the lemmas about queues (append, remove, tail keep them injective and
their members queued) are stated once for both queues. The temporal step is PTL
on `Init => IInv`, `IInv /\ [Next]_vars => IInv'` and `IInv => property`.

`CameraLifecycleProofs` proves all safety properties of CameraLifecycle (`Typed`,
`EnqueuesARealDpc`, `NeverUnplugged`, `TimerEndsInCleanup`,
`NoUnexplainedBugcheck`). The module has no constants, so that TLC's run is
complete; the proof adds the argument. `LInv` says which handles exist at each
call (`HandleInv`), that a start finds either a fresh init structure or the old
camera (`StartInv`), that a cleanup without a timer has a cause (`CleanupInv`),
and that nothing sees an endpoint before the DPC exists (`DpcInv`). A failing
call is one lemma, `FailNext`, used by every action.

`StreamPowerProofs` proves over the actions of VideoStream and those of the power
manager `PowerSafe` (`BugcheckExplained`), `PowerLosesNothing` (`NothingLost`) and
`CounterStartsFresh` (`CounterFresh`) and `PowerCopiesWithinBuffer` (`CopyWithinBuffer`), with
the assumptions of VideoStream. A step of the power manager leaves the variables of
VideoStream alone or, for a new device, sets those of the device to their initial
values; the lemmas of VideoStreamProofs do the rest. The new device is the case with content:
`IInv` holds again because the framework drained the old one.

`SharedCounterProofs` proves `CounterIsHeld`, `DiscardIsANeighbours` and `TimeoutIsOwn`
for any number of cameras and any limits. A counter that is
not 0 must have a camera that will reset it (`CounterHeld`); a lost
update is no exception, because the camera that writes an old value still has
its frame in hand. That a frame is given up early only on account of another camera
rests on the values a callback may hold between its two accesses.

`StreamNegotiationProofs` proves `Typed`, `CommitsAreCurrent`, `ProbesAreOneMode` and
`TimerPolls` for any number of concurrent requests, any modes, any indices the host
asks for and any `Word`. Its invariant says how far the stores of each request
have come and, while handlers do not overlap, whose values the variables hold;
that a video request between its two halves has seen no store, or the handlers
overlapped; and that the interval is not positive unless a product left the range of int, a size is
negative, or a request is between the two stores. Assumed are that indices are
positive (0 stands for "nothing committed"), that the initial mode fits, and that
the largest int divided by `Divisor` is below 10 000, which holds for the real
values (8 224).

`CommandListProofs` proves, for any number of blocks, readers and commands, `Typed`,
`BreaksByOverlap` (`BreaksOnlyByOverlap`), `HoldsTheCommands` (`ListIntact`),
`NeverFreesHeader` (`HeaderNeverFreed`) and `ImplementsQueue` (`IsAQueue`). It assumes that
header and NULL are no blocks (`Distinct`) and that the blocks are finitely many (`Bound`).
The invariant `IInv` is `TypeOK` and, while `faults` is empty, `InStep`: there is
a sequence `block` of allocated blocks, numbered by their commands, with

- `Stages`: one reader at a time is inside, and holds the command removed last; the
  writer holds a block that is not in the list yet.
- `Forward`: the forward links of the header and of the blocks make up the chain, always.
- `Backward`: so do the back links, but for the two that InsertHeadList and RemoveTailList
  have stored ahead of the forward link that goes with them.
- `Hands`: what reader and writer read earlier is still so: the writer inserts
  before the newest block, and that is not the block a reader removes. This is the
  part that needs `faults = {}`: a `last_entry` is exactly its violation.

There is one lemma per access window. An insertion extends `block` by one, a removal
drops its first; that the blocks are distinct comes from their numbers
(`NodeOf`), so that a store to one node leaves the links of the others alone. In the
refinement `InsertPublish` is Notify, `ReadClose` Fetch, `ReadEmpty` Refuse, the first
fault Break, and every other window a stutter. `HeaderNeverFreed` does not follow
from `IInv`, because it holds after a `last_entry` as well; its own invariant
`OneReader` says that a reader who found the list not empty finds it so until it has
unlinked an entry, whatever the writer does, and has a block in hand from then on.

`FrameDeliveryProofs` proves `KeepsUntilSent` (`KeptUntilSent`) and `ImplementsDelivery`
(`Delivers`) for calm use (`CalmSpec`), with the assumptions of `VideoStreamProofs`. To `IInv` the
invariant `CalmInv` of VideoStreamInv adds

- `HostInv`: the host's assembler and the driver agree on whose bytes arrive and on the
  frame id, unless a new geometry has set the driver's back;
- `ProgressInv`: the frame in hand is not begun (position 0, nothing at the host), begun
  (the bytes the host has are those before the position) or sent (position at the end),
  and no DPC is queued for a frame that is sent. A release before the end thus
  means that the count exceeded the limit.

Under the mapping, `Push` is Accept, a cancellation and a release before the first byte are
Drop, the copy of the first packet (`DpcCopy`) is Begin, the `DpcEof` that sets EOF is Show,
a release half way is Abandon, and a new geometry may be Reformat; each action has a lemma saying which step of
FrameDelivery, or which stutter, it is. The lemmas `InFront...` are about the one
sequence operation this needs: the frame in hand is in front of the queue.

`StreamPowerProofs` carries both over to the power manager (`CalmPowerSpec`):
`PowerKeepsUntilSent`, and `PowerDelivers` for `DeliversPerDevice`. It says that each device,
from its addition to its removal, implements FrameDelivery, and that every frame of the old
one was given back when the next one starts. Suspend, resume, removal and the closing of the
interface are stutters; so is the tick that finds the queue paused (`NoUrbPaused`), but it
has counted. A frame that a sleep interrupts is therefore neither lost nor repeated; it
may be abandoned after its ticks and then spoils the next one, as under a host that
takes no URBs. No run has this property, because `stream_power` leaves out the observers
it is about; what it rests on step by step, `CalmInv`, is that of `stream_calm`.

`CameraControlProofs` proves `Typed`, `LimitsHold` (`ToldInRange`), `FollowsHost`
(`AppFollowsHost`) and `ReadsBack` (`TerminalReadsBack`) for any controls, any integers
the host sets and any number of transfers. `Table` states once what the proofs need of
the table of controls, and is checked row by row. `AppFollowsHost` speaks about the
moment the list is empty; its invariant `FollowsInv` is about any list: of each
unambiguous control the application was told of, the last waiting command of its code, or,
if none waits, what the application read last, is what GET_CUR tells. `ReadsBack`
uses the ASSUME `ControlsAgree` of UvcDescriptors (the bits of the camera terminal
are the selectors of `ptzControl`), a fact about the descriptor's constants that TLC evaluates.

Only model-checked, because it is liveness and out of this prover's reach: `FrameReturned`,
`UrbReturned` and `StopsComplete` of StreamPower, `StarvedByNeighbour` of SharedCounter and
`CameraAppears` of CameraLifecycle. The three violated properties are TLC's by nature,
and so are the ASSUMEs of UvcDescriptors, which are about constants. What the proofs
rest on of the models is what the runs rest on; the bounds (`MaxInserts`, `MaxTransfers`,
each push request once) are parameters there.

## What the checks say about the code

Three runs contradict a comment or a definition of the repository:

1. GET_INFO of every control answers 0x02 with the comment "GET / SET"
   (`io.cpp` 205); by `uvc_struct.h` 188-189 this is SET without GET.
2. `usbdevice.cpp` 299-301 says that `UdecxCamInit` is freed by `Usb_Destroy` when
   initialization fails. The cleanup callback that would call it first stops a
   timer that does not exist yet, with a NULL handle (`controller.cpp` 519).
3. `controller.cpp` 816-817 says that a negative `iso_timer_interval` is relative to the
   current time and in units of 100 ns. It goes through WDF_REL_TIMEOUT_IN_MS
   (`io.cpp` 1251), which negates it: the timer is started with a time long past.

The other properties hold with the conditions they state, and the conditions are
themselves results: a too short frame is completed twice; a cancellation between
two calls of `processVideo` makes it complete a NULL request; SET_VIDEO_PROP
under a frame lets the copy run past the buffer; a DPC that outlives its tick
loses one URB and completes another twice; the list breaks at its last entry;
`Usb_Disconnect` never unplugs the camera; the discard branch runs only when another
camera is counting; a camera whose neighbour's frames come and go may hold a frame for ever;
the timer sleeps in some large or negative geometries only; saturation, sharpness and
automatic white balance move focus and zoom.

What the conditions mean for these hazards should be clear: where a property names a
cause (`dpc_overlap`, `resize_in_flight`, `last_entry`, `two_readers`, `raced`,
`two_setters`, a command without memory, a failed call, a shared selector), it does not
catch that cause, which the code has; it locates the failure, in that nothing else leads
to it, and says what holds as long as, and often after, the cause occurs. The hazards
in `PROJECT.json` that are covered in this way only say so in a note.

Noticed on the way, and not the subject of a run:

- The VideoControl header's wTotalLength is 79 and its part has 80 bytes
  (`ControlTotalIsShort`).
- The camera is a full speed device (`usbdevice.cpp` 247), and endpoint 0x82 declares
  two transactions of 1024 bytes, which is a high speed endpoint.
- `init_cam_prop` sets 1920 x 1080 with bFrameIndex 1; frame 1 of the descriptor is
  4096 x 2160 (`BootIsFrameTwo` in MCStreamNegotiation). Answers to GET_MIN and GET_MAX
  have the index of another frame with the current length.
- Requests with the selector of a processing unit's control, see above.
- The handlers of the controls never compare wLength with the size of the control.
- Commands that nobody read are not freed with the device; each selection of the
  streaming interface leaves a queue behind until the device goes.
- Packets after the end of a frame keep the Length they came with; the distance of
  packets is read from IsoPacket[1], also of an URB with one packet.

## Not modelled

- Endpoint reset, configuration and link power callbacks, driver entry: no state
  of the driver changes. Audio: compiled out. Tracing and logging: no behaviour.
- What UDE does with the URBs of an endpoint that goes away, beyond draining it: not
  visible in this code.
- Time: ticks are untimed; of the interval only the sign matters to the models.
- The content of frames and headers, bit rates and capability fields of the
  descriptors, and the wording of names.
- The search for a free device name is one call of `CreateDevice`. The queue of the
  interrupt endpoint (0x83) is created and never read; no model has it.
- IOCTL_DEVICE_PLUGIN and its neighbours are compiled out (`controller.cpp` 624-753).

## Plan

Written so far, in this order: VideoStream with its invariant and proofs,
FrameDelivery, CommandList, CameraControl, StreamNegotiation and CameraLifecycle;
then StreamPower and SharedCounter, CommandQueue, the arithmetic and the concurrent
requests of StreamNegotiation, and UvcDescriptors; then the proofs of CameraControl,
of CommandList with its refinement, and of the refinement of FrameDelivery, without and
with the power manager.

Next:

1. CameraControl over CommandList: that its `commands` is the abstract queue, so that
   `AppFollowsHost` holds for an application that reads the linked list.
2. The race of several DeviceAdds for a name in CameraLifecycle.

# TLA+ models of AndroidUSBCamera

These modules specify the parts of AndroidUSBCamera in which threads, messages and
USB transfers meet: the native preview pipeline, libuvc's video stream, the opening and
closing of the USB device over libusb's event handling, the recording of a file, and the
opening and closing of cameras by the application. TLC checks each on small instances.
TLAPS proves every safety invariant and every refinement that the passing runs check, for
instances of any size and under the conditions section 6 states; liveness is left to TLC.

Paths below are relative to `src/libuvccamera/src/main/`; `jnibak/` is the native code,
`java/com/dreamguard/` the Java library.

## 1. The system

A camera frame takes this way, and every arrow changes the thread:

    USB --> libuvc event thread --> _uvc_user_caller --> UVCPreview preview thread
        --> UVCPreview capture thread --> onFrame --> MediaCodec --> MediaEncoder.run --> file

The calls of the application go the other way: UI thread -> `CameraHandler`'s queue ->
`CameraThread` -> JNI -> `UVCPreview` -> `uvc_start_streaming` / `uvc_stop_streaming`.

| Component | State | Operations | Hard behaviour | Correct when |
|---|---|---|---|---|
| `UVCPreview` (`jnibak/UVCCamera/UVCPreview.cpp`) | two flags, a frame pool, a preview queue, `captureQueu`, two windows, a callback, two conditions, two threads | setPreviewDisplay, setFrameCallback, setCaptureDisplay, startPreview, stopPreview, the USB callback, both threads | four threads, three mutexes, flags read outside them, waits that are not loops, signals without the mutex | each buffer has one owner; frames keep their order; stop leaves nothing behind and returns; a running preview goes on |
| libuvc stream (`jnibak/libuvc/src/stream.c`) | transfers in flight, `outbuf`/`holdbuf`, sequence numbers, `running`, `cb_cond` | start, stop, close, transfer callback, user caller | damaged packets, cancelled and resubmitted transfers, unplugging | no frame is a mixture; the handle is freed only when nothing uses it; stop returns |
| Recording (`encoder/`, `CameraHandler`) | request flags of the encoder, codec buffers, muxer counters, `mMuxer`, `mIsRecording` | handleStartRecording, handleStopRecording, onFrame, MediaEncoder.run, drain, release | three threads, late frames, lost notifications, weak references | a finished file is whole; the muxer's protocol is kept; a stop ends the recording |
| Camera session (`USBMonitor`, `USBCamera`, `CameraHandler`, `UVCCamera`) | control blocks, connections, the two message queues, the current camera | open, permission, connect, close, destroy, unplug | two threads waiting for each other, events out of order, failing opens | no camera or connection is lost; an unplugged camera is closed; calls return |
| Device (`jnibak/UVCCamera/UVCCamera.cpp`, libuvc `device.c`, `init.c`, libusb `core.c`) | context, device and its references, handle, descriptor, interface claim, handler thread and its exit flag | connect, release, destroy; uvc_open, uvc_close; libusb_open, libusb_close | half-done opens, closing under a thread that handles events, the exit flag, status transfers | what was acquired is released once; the handle outlives its users; close returns |
| libusb events (`jnibak/libusb/libusb/io.c`, `sync.c`, `os/android_usbfs.c`) | `events_lock`, `event_waiters`, `pollfd_modify`, the control and hotplug pipes, `flying_transfers` | synchronous control transfers, handle_events, reaping, disconnection | no thread of its own: whoever waits handles events for all; two locks, a pipe and a flag decide who does | every transfer returns; a caller's stack outlives its transfer |
| Renderer (`renderer/`) | message queue, preview surface, EGL context | getPreviewTexture, release, onDrawFrame | - (its calls come from the UI thread) | calls return |
| `ObjectArray` (`objectarray.h`) | an array and its length | put, remove, last, clear, size | - | sequence operations |
| Controls, supported sizes, pixel formats, JNI glue, files, device filter, sample app | none that several threads share | - | - | not modelled, see section 7 |

`PROJECT.json` lists every component with its status, and under `hazards` the places
where the code is hard to test, each with the properties that watch it.

## 2. Plan

The order follows the frame: what is closest to it was modelled first.

1. `UVCPreview`, with the abstract `FrameChannel` it refines - done; its invariants are
   proved in `UVCPreviewProofs` and `UVCPreviewStopProofs`, its refinement in
   `UVCPreviewChannelProofs`.
2. `UVCStream`, which refines the same `FrameChannel` - done; safety and refinement are
   proved in `UVCStreamProofs`.
3. `Recording`, with the abstract `MuxerContract` it refines - done; safety and refinement
   are proved in `RecordingProofs`.
4. `CameraSession` - done; its safety is proved in `CameraSessionProofs`.
5. `UVCDevice` over `LibusbEvents`: connect and release, references, the event lock, the
   handler thread across a reconnect, the status transfer, with the abstract `SyncTransfers`
   it refines - done; proved in `UVCDeviceProofs` and `UVCDeviceCallsProofs`.
6. `FramePath`: `UVCStream` composed with `UVCPreview`, so that the stop of one waits for
   the threads of the other; `ObjectArray` as operators against sequences. Open.

Proofs, in this order: buffer ownership of `UVCPreview` (done), the safety invariants of
`UVCDevice` (done), the invariants of `UVCStream` and its refinement of `FrameChannel`
(done), the invariants of `Recording` and its refinement of `MuxerContract` (done), the
invariants of `CameraSession` (done), what a stop of `UVCPreview` leaves and the memory it
loses (done), the refinement of `FrameChannel` by `UVCPreview` (done), that no wakeup of libusb is
lost and that its synchronous calls keep the promise of `SyncTransfers` (done), that a camera
ends with its connection (done), the memory `UVCPreview` loses when it is stopped too early
(done), that nobody sleeps for what is already there in a preview, a stream and the
`stopPreview` of a session, which is as far as their liveness is safety (done).

## 3. The modules

All modules follow one rule of atomicity: a critical section (a pthread mutex or a Java
`synchronized` block) is one step, and so is every access to shared state outside one;
work on a thread's own variables is joined to a neighbouring step. Fields that
are read and written without synchronization (`volatile` flags, `mIsCapturing` of
`MediaEncoder`, `running`) are nondeterministic only in their interleaving: the models
are sequentially consistent. Comments give the lines of the source.

### UVCPreview
`control` is `CameraThread`, the only caller of the API; `usb` is libuvc's caller thread;
`preview` and each member of `CaptureThreads` run the thread functions. `pc` says where
each thread is; the names of its values follow the code. Buffers are members of `Frames`.
`local` maps the pointer variables of the threads (`Slots`) to buffers, `allocated` is the
heap, `content` the number of the camera frame a buffer holds. `mFramePool` and
`previewFrames` are the two `ObjectArray`s as sequences; a condition is the set of threads
that sleep on it. Each step of a function is an action of its own (`CopyFrame`,
`AddPreviewFrame`, `WaitPreviewFrame`, `DecodeFrame`, ...), with the failures the code
handles: broken frames, failing conversions, no memory, `pthread_create` and
`uvc_start_streaming` failing. The control thread follows `UVCCamera.java`: `stopPreview`
is `setFrameCallback(null)` and then the native stop; `release` is a stop and a delete.

An allocation may fail at any time (`OutOfMemory`). Every caller of `get_frame` tests for
that but one: the MJPEG loop hands the NULL to `uvc_mjpeg2yuyv`, whose first statement writes
through it. `DecodeFrame` then goes to `"crashed"`, where the run ends as the process does.

Abstractions: pixels and window contents are left out; a conversion works or fails. The
threads of a stopped session that were never joined keep their identity in `CaptureThreads`.
Not followed:

* what such a thread does to a `UVCPreview` that is deleted while it runs: the destructor
  (70-88) destroys the mutexes and frees the members that the thread goes on to use (733).
  The model lets it go on as if they were there, so `NoUseAfterFree` speaks of frames only;
* the moment in which `callbackPixelFormatChanged` has cleared `mFrameCallbackFunc` (239) and
  not set it again: a frame that is converted then goes out as it is;
* a failing `pthread_create` of the capture thread (517), which the code does not test;
* `setPreviewSize`, which stores the size the next start will ask for.

### FrameChannel
The promise of both halves of the frame path: a lossy channel that hands over newer and
newer frames, one at a time. Its variables are `sent`, `delivered` and `busy`; `UVCPreview`
and `UVCStream` give the mapping in their INSTANCE.

### UVCStream
`owner` is the thread in `uvc_start_streaming`/`uvc_stop_streaming` (the preview thread),
`event` libusb's event thread in `_uvc_stream_callback`, `caller` is `_uvc_user_caller`.
`transfers` gives each transfer's state in libusb and in `strmh->transfers`. `outbuf` and
`hold` are the double buffer as sequences of packets `<<frame, part>>`, so that a mixture
can be told from a whole frame; `seq` and `last_seq` are counted modulo `SeqSize` as
`uint32_t`s are modulo 2^32. A camera sends `Parts` packets for each frame with the frame
id bit and EOF. Packets arrive intact, with a bad status, with the error bit, or not at
all; transfers end completed, timed out, in error, cancelled or without a device.

Abstractions: a transfer carries one packet (the code's loop over the packets of one
transfer does the same steps in the same thread without the mutex in between); only the
isochronous path with a user callback, which is the only one UVCPreview uses. A header with
the error bit makes the callback call `libusb_clear_halt` and `uvc_vs_get_error_code`
(835-841), a synchronous control transfer without a timeout on the event thread itself, so
that it handles events again inside the callback and stands still until the camera answers;
`SkipPacket` is the skipped packet without these requests, and `StopReturns` of a stream
therefore assumes that the camera answers them. A bogus packet (874-878), which sets the mark
and adds nothing, is one with a bad status. Once a
stream is freed, what its threads would still do to freed memory is not modelled:
`ClosedIsQuiet` is stated so that such a state is already wrong. `NextPacket` keeps the
caller within `SeqSize` frames of the event thread (`Timely`): it is not 2^32 frames late.

### LibusbEvents
The event handling of the bundled libusb for one context with one device. A member of
`Clients` is a thread that makes synchronous control transfers (`ControlTransfer`,
`WaitForCompletion`); together with `"event"`, libuvc's handler thread, they are the
`Handlers`, who compete for `events_lock`. `pc` is the place of each thread, the steps
follow `libusb_try_lock_events`, `handle_events` and `libusb_wait_for_event`:
`TryLockEvents`, `TrylockMutex`, `Recheck`, the poll and its three ends, reaping one URB,
the disconnection of the device, the completion of a transfer (callback, broadcast, drop
of the reference), `UnlockEvents`, and the sleep of the others on
`event_waiters_cond`. `urbs` is what the kernel holds of the open file, with the connection
each URB was submitted by; `flying_transfers`, `refcnt`, `ctrl_pipe`, `pollfd_modify` are
those of the code, `plugged` is the cable.

Abstractions: all control transfers pass timeout 0 and nobody cancels one, as in libuvc, so
transfer timeouts and cancellation are left out; of time only the 60 seconds of a poll and
of a wait remain, as `PollTimesOut` and `TimesOut`. Isochronous transfers are those of
`UVCStream`. What a transfer carries is left out.

### UVCDevice
Extends `LibusbEvents` by thread `"camera"`, which runs `UVCCamera::connect` (`InitContext`
or `ConnectAgain`, `FindDevice`, `Open`, `Claim`, `SubmitStatus`, `StartHandlerThread`),
`release` (`Release` to `Released`, one step for each lock, flag, byte and reference that
`uvc_close` and `libusb_close` touch), and the destructor (`Destroy`). Connections are
numbered and the number is the handle. Every step of an open may fail, and the failed open
closes what it has opened, by the same steps. `open_devices`, `kill_handler_thread`,
`dev_ref`, `fds` are the code's; `finds` and `abandoned` count references that the code
takes and never gives back, so that `RefsAccounted` can state all others exactly. `Reuse`
tells whether an application connects a released `UVCCamera` again, and whether the next
one is given the same open `UsbDeviceConnection`.

Abstractions: enumeration of the bus is one step (no other thread has the context yet);
descriptors and their parsing; a control pipe that cannot be written to (core.c 1376-1385,
the close then goes on without the lock); the status transfer is one that the camera fills at
most `MaxInterrupts` times for each connection. An URB of a closed handle that is reaped by the
next connection on the same file points to freed memory: `stale`, where the model ends.

### SyncTransfers
What libusb promises to threads that make synchronous transfers: a call is pending until its
transfer has been completed, which happens once and on the open handle, and returns only
then; the handle is neither opened nor closed under a call. Who handles the events is not
said. `UVCDevice` maps `call` to the place of each client and its `completed` flag, and
`open` to the handle.

### Recording
`camera` is `CameraThread`, `callback` the capture thread inside `onFrame`, and a number
the thread of that recording's encoder. The codec is a queue: `input` is what was queued,
`encoded` how much of it the codec has finished, `drained` how much `drain` has taken.
`messages` is the handler's queue. The application asks `isRecording()` before it starts
or stops, as README.md of the repository shows; it may call `stopPreview` at any time,
which waits. `Collect` is the garbage collector taking a muxer that only the encoder's
`mWeakMuxer` still names; since only the next read of that reference matters, it happens
where such a read is next. `SpuriousWakeup` is that of `Object.wait`.

Abstractions: frames that arrive while nothing is recorded; time stamps; the colour
conversion; a device without an AVC encoder, where `prepare` returns without a codec and
`startRecording` goes on (a stop then ends in a NullPointerException, MediaEncoder 258); a
change of the output format right before an end of stream without data; the audio encoder,
which is commented out.

### MuxerContract
What `android.media.MediaMuxer` requires of its caller: tracks, start, samples, stop.

### CameraSession
`ui` is the UI thread with its queue `posted` (broadcasts and the runnables of
`USBMonitor`), `thread` is `CameraThread` with its queue `messages`. A control block is
a number, `device` says whose, `mConnection` the set with an open connection, `closing`
the one whose monitor the UI thread holds. `camera` is the life of each `UVCCamera`:
created, connected, previewing, destroyed. A device that is plugged in again is a new
`UsbDevice`, hence another member of `Devices`. A second request for permission while a
dialog is open joins that dialog. `patient`, chosen once, tells whether the application
waits for one `open` to finish before the next. The repository's README and
`USBCameraActivity` (64-75) do not: they ask `isCameraOpened()`, which is false until
`CameraThread` has handled the first open. `handleOpen` does not close the camera it replaces
(its call of `handleClose` is commented out), so such an application can lose one. The
properties about cameras hold for every application, with one exception that they name:
`Replaced`, a camera of an impatient application that was followed by another.

An exception on the UI thread (onConnect after `destroy()`, where `mHandler` is null) ends
the application: `crashed`. A device two cameras use at once may disturb either
(`Disturbed`). Left out: still images, `handleUpdateMedia`, the poll for devices, spurious
wakeups of the single wait in `stopPreview`, under which it promises nothing, and two
exceptions: that of `UsbManager.openDevice`, which is taken for its null, and the one of
`mCtrlBlocks.remove(getDevice())` when the weak reference to the device has been cleared.

## 4. What the runs check

| Run | Checks | Shows |
|---|---|---|
| `preview_faults` | TypeOK, OneOwner, NoUseAfterFree, NoNullFrame, LeakBounded, ImplementsChannel | buffers are safe and frames in order under every modelled fault, memory that runs out at any allocation included, with spurious wakeups and a stop at any time, up to the crash of the MJPEG loop (section 5) |
| `preview_sessions` | StoppedIsQuiet, OneOwner, ImplementsChannel | a second session, and capture to a window, after a first; with a queue of two, the callback gets no frame twice, none that was not sent, and none after a newer one; a stop leaves no thread and no frame, and as part of release no window |
| `preview_live` | KeepsDelivering, SetterReturns | in a first and a second session a running preview never stalls, and setFrameCallback returns although the first may leave `mIsCapturing` set |
| `preview_stop_hangs` | StopReturns, *violated* | stopPreview may join for ever |
| `stream_stop` | TypeOK, ClosedIsQuiet, ImplementsChannel, StopReturns, GivesLatest | a stream is stopped and started again: the stop returns and leaves nothing behind; the latest frame reaches the callback, also when its number wraps to 0 |
| `stream_damage` | NoMixture | damage is never delivered as a frame |
| `stream_unplug` | ClosedIsQuiet, *violated* | after an unplugging the handle is freed while in use |
| `device` | TypeOK, NoUseAfterClose, CallerWaits, NothingLeft, RefsAccounted, HandledWhileOpen, NoLostWakeup, ImplementsSyncTransfers, TransferReturns, CloseReturns | connect, query, unplug, release, reconnect and destroy in any order: nothing is freed in use or left behind, no sleeper is forgotten, transfers are completed once and return, releases return |
| `recording` | TypeOK, NothingLost, FlagFollows, ImplementsMuxer, FinishesOnceSeen | files are whole, also when recordings overlap; a stop the thread has seen ends the recording if no more frames are queued |
| `recording_stop_lost` | StopFinishes, *violated* | a stop may be missed for ever |
| `session` | TypeOK, PreviewStopped, NoneLeaked, OpenedIsConnected, EachConnectionFiled, NoneOutlivesConnection, StopReturns, ClosedWhenUnplugged | every connection stays filed and none outlives `destroy()`; the only cameras that are lost, preview after a stop, or stay when their device is pulled are those a later open has replaced; stopPreview returns unless it waits as in `session_deadlock` |
| `session_deadlock` | StopAlwaysReturns, *violated* | UI thread and CameraThread wait for each other |

### Bounds
* `preview_*`: one session, two in `preview_sessions` and `preview_live`, whose capture
  thread takes the name of the one that was joined; `MaxFrame` 1, and 2 in `preview_sessions` (the code's
  `MAX_FRAME` only scales the queue: with 1 it is full after one frame, with 2 it has a
  head and a tail); up to three numbered frames; five buffers in `preview_faults` are more
  than the pool holds, so that it overflows, three suffice in `preview_sessions`, and with
  the two of `preview_live` it runs empty. The proofs have none of these bounds.
* `stream_*`: two transfers (one can be in flight while the other is in the callback,
  which is where the stop races the resubmission), two packets for each frame, so that
  there is a first and a last (one in `stream_stop`), four frames, two streams. `stream_stop`
  has five frames and `SeqSize` 3: the fourth publication of a stream wraps its number to 0,
  with `last_seq` at 2 or 1, and the fifth follows it, so that a comparison by size instead of
  equality is found out. Elsewhere the wrap is out of reach.
* `recording`: two recordings, two frames, two input buffers (the codec can be full), a
  queue of three messages, and the first recording's muxer collectable. The frames are few, so
  `FinishesOnceSeen` states as its own condition that `encodeFrame` comes to an end; no bound
  grants it.
* `device`: one client, libuvc's handler thread and the camera thread are three contenders
  for the event lock and two sleepers on its condition; two connections, so that the second
  meets what the first has left (flag, context, URBs, references), two control transfers of
  each, so that one follows an interrupted one, and one status interrupt. With two clients
  the safety invariants were checked once (3.2 million states) and hold; the proofs have
  none of these bounds.
* `session`: two devices, three openings (a device opened again with its block still
  filed, and another device in between).

Deadlock is not checked: the applications of all models may stop calling, and the
counters end; `UVCDevice` also ends where a stale URB has been reaped. Whether a thread
hangs is what the liveness properties say.

### Fairness
* `UVCPreview`: each thread, and the control thread inside a call; the application need
  not call anything. The scheduler of the phone gives this. `preview_live` also lets the
  camera deliver for ever (`Endless`).
* `UVCStream`: event thread and caller while the stream exists, and the owner inside a
  call. A cancelled transfer comes back, as libusb guarantees.
* `UVCDevice`: each thread that handles events, and the camera thread inside a release; a
  client need not ask and nobody need release. A broadcast gets `event_waiters_lock` (strong
  fairness: the lock is free again and again, as whoever holds it goes to sleep or leaves).
  The 60 seconds of the handler thread's poll pass; those of a waiter need not. The kernel
  ends a control transfer, as usbfs does on an answer, an error or an unplugging.
* `Recording`: the encoder threads unless they sleep, and the codec. Nothing else: the
  application, the callback and CameraThread may stop at any point.
* `CameraSession`: both loopers. User, permission dialog and cable are free.

## 5. Findings

Four violations are listed in `PROJECT.json` with their counterexamples' runs:

1. `stopPreview` (UVCPreview.cpp 354) signals without the mutex after clearing the flag;
   both threads test only the queue before they wait. The signal is lost, the join and
   with it the UI thread hang.
2. `uvc_stream_close` (stream.c 1806) does not stop a stream that an unplugging has marked
   as not running, and frees it with transfers in flight and its thread alive.
3. `MediaEncoder.run` (159) waits in another synchronized block than it tests in: the
   notification of a stop is lost and the file is never completed.
4. `UsbControlBlock.close` (USBMonitor.java 489) calls out to `stopPreview` with its
   monitor held, which waits for a thread that may need the monitor.

Seen while modelling and without a run of their own:

* The MJPEG loop does not test `get_frame` (UVCPreview.cpp 527-528): without memory
  `uvc_mjpeg2yuyv` writes through NULL (frame-mjpeg.c 248). In the model as `"crashed"`.
* A camera can be lost. An application that asks only `isCameraOpened()` before `open`, as the
  repository's README (17-18) and `USBCameraActivity` (65-66) do, may open twice before the first
  open is handled; `handleOpen` (CameraHandler.java 248-251, `handleClose()` commented out)
  then forgets the first camera, which may go on previewing behind every later stop, although
  `stopPreview` says it waits "for actually preview stopped to avoid releasing
  Surface/SurfaceTexture while preview is still running" (128-129). In the model as `Replaced`;
  without that exception TLC refutes `NoneLeaked`, `PreviewStopped`,
  `NoneOutlivesConnection` and `ClosedWhenUnplugged` for impatient applications.
* A stop of a recording that the encoder thread has seen need not finish while the preview
  goes on. `mRequestStop` is set "for rejecting newer frame" (MediaEncoder.java 197), but
  `onFrame` (CameraHandler.java 438) and `encodeFrame` (MediaVideoEncoder.java 114-141) do not
  look at it, `isRecording()` is true until `onStopped`, and `drain` counts its timeouts anew
  with each output (306-308, 359): when frames come faster than the codec falls silent, the
  first drain after the stop does not end. `FinishesOnceSeen` has the opposite as its condition.

Further, in the models: the first frame of a stream is
never handed over (`seq` and `last_seq` both start at 0); a caller that reads
`hold_bfh_err` twice may hand over an old frame again; the error flag of a frame is taken
up by its predecessor when EOF is lost, so that a frame without its beginning may be
delivered; a failed resubmission (stream.c 958) leaves a transfer nobody waits for;
`setFrameCallback` and `setCaptureDisplay` wait once, so the callback may be replaced while
`onFrame` runs; libusb's handler thread may be past its tests of `kill_handler_thread` and
`pollfd_modify` when `libusb_close` sets them: it takes the event lock after the close has
released it and polls with nothing left to interrupt it, so that the join lasts up to the
60 seconds of that poll, although device.c (1505-1508) says that the close wakes it;
`kill_handler_thread` is never cleared, so the handler thread of a context that is used
again ends at once (control transfers still return, as the clients handle events
themselves); `libusb_find_device` keeps one device reference for every connection and a
close one for every transfer in flight; a URB that the kernel keeps because the file is not
closed is reaped by the next connection of that file; a stop before streaming has begun
joins no capture thread, and the one created afterwards outlives it - if the next preview is
started before that thread has seen the stop, two capture threads take frames from one queue
and may call `onFrame` at the same time and out of order, so that several sessions with such
stops do not refine `FrameChannel`; unplugging a device closes whatever camera is open.

## 6. What is proved

`UVCPreviewProofs` proves for any number of buffers and capture threads, any `MaxFrame`,
any callbacks and windows, with faults, spurious wakeups and early stops:

* `TypeCorrect`: `Spec => []TypeOK`
* `BufferOwnership`: `Spec => []OneOwner`
* `NoFreedBuffer`: `Spec => []NoUseAfterFree`
* `NoNullPointer`: `Spec => []NoNullFrame`

The only assumption is `PreviewAssumption`, the types of the constants. All four follow
from one inductive invariant, `IInv`:

* `FrameInv`: types of the containers, `OneOwner` and `NoUseAfterFree`. These three need
  each other: recycling a buffer keeps it unique only if it was in no container before,
  and freeing it is safe only if nobody else owns it.
* `PcTypes`, `RestTypes`: the remaining types.
* `NoNullFrame`: needed because a NULL recycled would enter the pool; it says at which
  points of a thread a pointer is set, which is the part the code relies on silently.
* `RequestTyped`: the argument of a setter that sleeps in between is still of its type
  when it wakes, although two setters share the variable.

The argument has two layers. Lemmas about the operations on buffers (`GetFrameInv`,
`RecycleInv`, `QueueFrameInv`, `DequeueFrameInv`, `AddCaptureFrameInv`, ...) show that each
keeps `FrameInv` and which pointers it leaves alone; they rest on facts about sequences
without repetition (`AppendMembers`, `TailMembers`, `PopMembers`, ...). Then one lemma for
each thread (`UsbStep`, `PreviewStep`, ...) goes through its actions, and the theorems
combine them. `NoNullPointer` claims every use of a pointer except that of the MJPEG loop's
untested target: there the run has ended.

`UVCPreviewStopProofs` proves for any number of buffers, capture threads and sessions, with
faults and spurious wakeups:

* `LeakOncePerStart`: `Spec => []LeakBounded`
* `EarlyStopLeavesCapture`: `Spec => []OnlyCaptureLeft`, what a stop leaves wherever it meets
  the start of a preview: a capture thread at most
* `StopLeavesNothing`: `Spec => []StoppedIsQuiet`, for an application that lets a preview
  begin to stream before it stops it (`~EarlyStop`); windows are part of it for a stop that
  belongs to `release` only, for after another the application may set new ones
* `FramesAreNotSleptThrough`: `Spec => []NoFrameSleptThrough`, the safety under
  `KeepsDelivering`: a thread sleeps on a condition only while its queue is empty

A stop that comes earlier joins no capture thread, and the one created afterwards outlives
it (section 5), so `StopLeavesNothing` needs its condition. All rest on `IInv` and on `Life`, which is
inductive with it for every application:

* `Session`: where the control thread is fixes whether the preview thread runs.
* `Stream`: the USB thread works only while the stream is open, and the stream is closed
  before the preview thread ends.
* `QueuesEmpty`: outside a session the queues are empty, since they are cleared after the
  joins and nobody is left to fill them.
* `SlotsFit`: at which points at most a thread holds a buffer. It is the converse of
  `NoNullFrame`, and what is left over when a thread ends is exactly what would leak.

`StopLeavesNothing` adds `WindowsLetGo`, that a `release` past the two steps that release
them holds no window, which is inductive for every application, and `Handles`, inductive under
`~EarlyStop`:

* `Joined`: a stop never meets a preview thread that has not created its capture thread yet,
  and has joined it before anything is cleared.
* `OneCapture`: a capture thread that is not `none` is the one whose handle is kept; so the
  join of the stop meets every thread of the session.

The bound on the leak counts the buffers no place names (`Lost`) together with the one the
session may still lose (`MayLose`: the preview runs, or its thread still holds a frame it
will bring to `addCaptureFrame`) against the starts; `addCaptureFrame` of a stopped preview
(698) turns the second into the first, and each other step loses nothing (`GetLosesNone`,
`RecycleLosesNone`, ...).

`NoFrameSleptThrough` is inductive over `Life`: a thread tests its queue and goes to sleep in
one critical section, each frame is queued and announced in one, and `Session` shows that no
thread is created or joined that sleeps. It says nothing of `mIsRunning`, and must not: the
flag is cleared outside the mutex, so a stop can be slept through (`preview_stop_hangs`).

`UVCPreviewChannelProofs` proves for queues of any length and any number of buffers, frames
and sessions, with faults and spurious wakeups:

* `PreviewIsChannel`: `Spec => ImplementsChannel`, under `~EarlyStop` or for one session, and
  under `~Endless`

`Endless` is the camera of `preview_live`, whose numbers stand still at the bound so that
the run is finite: its last frames all have the same number, so their order says nothing. With
early stops and a second session the refinement fails (section 5). The proof puts the
buffers aside first: `Number`, `Latest` and `Queue` give the number of the camera frame at
each place, and `OneOwner` makes every operation on buffers a change at one place of them.
Then `Order` is inductive: six stages lie between the callback and the camera (what was
delivered, the capture thread's frame, `captureQueu`, the preview thread's frame,
`previewFrames`, the copy of the USB thread), each number in one is less than all in the
next, and the queue increases. `SlotsFit` is needed because a stage with two buffers - a
frame and its converted copy - must pass on or drop both, and `OneRuns` because a second
capture thread could overtake the first: it follows from `OneCapture`, and in a first session
from `FirstSession`, there being no capture thread before the one that session creates. A
step is then a `Send`, a `Deliver`, a `Return` or nothing.

`UVCDeviceProofs` proves for any clients, any number of connections, transfers and
interrupts, and either kind of reuse:

* `TypeCorrect`: `Spec => []TypeOK`
* `HandleOutlivesUse`: `Spec => []NoUseAfterClose`
* `StackOutlivesTransfer`: `Spec => []CallerWaits`
* `ReleaseIsComplete`: `Spec => []NothingLeft`
* `ReferencesAccounted`: `Spec => []RefsAccounted`
* `HandlerThreadRuns`: `Spec => []HandledWhileOpen`

The assumptions are `ClientsAssumption` (the threads and `NULL` are different) and
`DeviceAssumption` (the types of the bounds). None of the six is inductive; all follow from
one invariant, `InvariantHolds`, whose parts are:

* `PcTypes`, `DataTypes`: the types.
* `Locks`: who holds `events_lock` is where the code holds it, and the flag, the byte and
  `pollfd_modify` say where the camera thread is in its close.
* `Life`: at each point of connect and release, what has been acquired: handle, descriptor,
  references, the polled descriptor, the handler thread.
* `Quiet`, `Killed`: outside a connection nobody handles events, and the exit flag is set
  only once the close of a listed device has begun.
* `Flights`, `Waits`: a transfer in flight is one of the open handle; a client whose
  transfer is in flight, held by the kernel or being completed is inside its call; a
  transfer is completed by one thread only.
* `RefsAccounted` itself, which needs `Locks` to know that no two threads complete the same
  transfer.

One lemma for each action and part; the thread that holds the lock is the only one that can
disturb `Flights`, which is why `NoUseAfterClose` follows from `Locks` and `Life`.

`UVCDeviceCallsProofs` proves, from the same assumptions and over the same invariant:

* `WakeupsAreNotLost`: `Spec => []NoLostWakeup`
* `CallsAreSynchronous`: `Spec => ImplementsSyncTransfers`

The flag of a call, the role of the handler and the list of sleepers belong to different
locks, so that no lock alone excludes a lost wakeup. Two facts, inductive with `IInv`, do:

* `Guarded`: while anybody sleeps there is a handler, a close under way or a broadcast to
  come. A thread goes to sleep only after it has found a handler or a pending change while it
  holds `event_waiters_lock`, and whoever ends either broadcasts under that lock afterwards.
* `Announced`: it is not enough to look at those who sleep. A client that has read its flag
  and not gone to sleep yet (`Sleepy`) counts as well: the flag is set before the broadcast,
  and the broadcast needs the lock that the client keeps until it sleeps.

For the refinement each action is shown to be one step of `SyncTransfers` or none: the submission
is `Begin`, the callback that sets the flag `Complete`, the return `Return`. `Flights` and
`Waits` show that a completion meets a call that is pending, hence happens once; `Life` and
`Quiet` show that the handle is open then, and that `Open` and `FreeHandle` find all calls at
rest.

`UVCStreamProofs` proves for any number of transfers, packets in a frame, frames and
streams, and any width of the sequence numbers:

* `TypeCorrect`: `Spec => []TypeOK`
* `FreedWhenQuiet`: `Spec => []ClosedIsQuiet`, if no cable is pulled and no submission fails
* `FrameIsWhole`: `Spec => []NoMixture`, if every loss comes with a bad status
* `StreamIsChannel`: `Spec => ImplementsChannel`, if no packet has a bad status
* `WakeupsComeInTime`: `Spec => []NoneSleepsInVain`, the safety under `StopReturns` and
  `GivesLatest`

The conditions are those of the properties: `stream_unplug` shows that `ClosedIsQuiet` cannot
do without its own, a packet whose header has the error bit is skipped without a mark, and
the second reading of a mark may hand over an old frame (section 5). All but
`FreedWhenQuiet`, whose condition implies it, assume `Reliable`: a library in which
submissions fail opens one stream only, since what a stream that was freed in use does to the
next is not modelled. The invariant `IInv` (theorem `InvariantHolds`) has these parts:

* `PcTypes`, `DataTypes`: the types.
* `Life`: a transfer is in the callback exactly while the event thread is; while the cable is
  in, the owner finds `running` set up to its stop and every transfer deleted after its wait.
* `Order`: what is held is older than what is gathered, and that is older than the next
  packet; each publication can be charged to a frame the camera has sent, which bounds
  `published`; the frame id bit is that of the last packet gathered.
* `Numbers`: given, taken and published frames are in order, and a frame with the number of
  the one that was taken has its `seq`: this, and not the guard `Timely`, is why the test
  for equality of `seq` and `last_seq` never repeats a frame.

`FrameIsWhole` adds `Damage`: what is gathered without a mark runs without a gap up to the
packet that comes next, so that a frame id bit can change only under a mark. `StreamIsChannel`
adds `Undamaged`: no mark is ever set, and a frame that has been taken is newer than the last
one given; each step is then a `Send`, `Deliver` or `Return` of the channel or none.

`NoneSleepsInVain` is inductive with `IInv` and `Submitted`, whatever the bus does: the
caller sleeps when it has seen what is held, in a stream that runs or whose end is still to be
broadcast - by the event thread that lost the device and has a transfer to delete, or by the
owner after its wait - and the owner sleeps while a transfer is left. `Submitted` says which
one: the transfers of a stream that is stopped were all submitted, so what is left is in
flight, cancelled or in the callback and comes back. Two exceptions are stated in it: a start
that failed leaves the caller asleep, and a transfer that could not be submitted again after
the cable was pulled (`dead`) keeps the owner waiting.

`RecordingProofs` proves for any number of recordings, waiting messages, frames and input
buffers, with faults, spurious wakeups and a collector that takes any muxer:

* `TypeCorrect`: `Spec => []TypeOK`
* `FileIsWhole`: `Spec => []NothingLost`
* `FlagTruth`: `Spec => []FlagFollows`
* `MuxerUsedAsAsked`: `Spec => ImplementsMuxer`

The only assumption is `RecordingAssumption`, the types of the constants. The invariant
`IInv` (theorem `InvariantHolds`) has these parts:

* `HandlerTypes`, `RunTypes`: the types; the starts that wait and the recordings made are
  together no more than there are recordings.
* `Calls`: `onFrame` has an encoder, and asks for no more drains than it was called.
* `Life`: where a recording's thread is, against its codec and its flags. A recording that
  was told to stop is not the handler's any more, which is why `startRecording` cannot take
  back the stop of the encoder it starts.
* `Muxing`: a track that was added but not started keeps the thread in `drain`; so the stop
  never meets a muxer between `addTrack` and `start`.
* `Writing`: the file is the prefix of the codec's input that was drained; the end of the
  stream is queued once, and the last drain is left by it alone, or by a collected muxer.
* `OneLive`, `Queue`: one recording is live at a time, and `isRecording()` is true of it. A
  start is sent only while the flag is false and a stop only while it is true, but both are
  handled later: `Queue` says in which orders they can wait (no start behind a stop
  while there is a muxer, no start behind a stop behind a start, nothing behind
  `stopPreview`), and without it a late `onStopped` could not be excluded.

`CameraSessionProofs` proves for any devices and any number of openings, with or without
faults:

* `TypeCorrect`: `Spec => []TypeOK`
* `ConnectionsFiled`: `Spec => []EachConnectionFiled`
* `OpenedWhenDone`: `Spec => []OpenedIsConnected`
* `NoCameraLeaked`: `Spec => []NoneLeaked`, for patient and impatient applications
* `StopStops`: `Spec => []PreviewStopped`, likewise
* `CameraEndsWithConnection`: `Spec => []NoneOutlivesConnection`
* `StopIsOnItsWay`: `Spec => []StopQueued /\ [][QueueDrains]_vars`, the safety under
  `StopReturns`

The only assumption is `SessionAssumption`, the types of the constants. The parts of the
invariant `IInv` (`InvariantHolds`) besides the types and the four properties after the first:

* `Charged`: every control block, every `UVCCamera`, and every opening on its way - as a
  question, a broadcast, a runnable or a message - can be charged to a call of `open`. This
  bounds the cameras, and it takes counting the entries of two queues (`CountAppended`,
  `CountTaken`).
* `OneAtATime`: a patient application has at most one opening on its way, and none while
  there is a camera; so `handleOpen` finds no camera to replace. For the others
  `NoneLeaked` says that what is lost was replaced: cameras are numbered in the order of
  their opening, and once a later one exists the earlier is `Replaced` for good
  (`ReplacedStays`).
* `Queued`: an open is followed by its start; a stop is the last message, sent by a UI
  thread that waits for it, and when that thread is woken the queue is empty. This is why
  one `wait` without a loop is enough for `stopPreview`, spurious wakeups apart.
* `StartAhead`: a camera that is not connected has a start before it, which will give it up.

`CameraEndsWithConnection` adds `CloseAhead`, that a camera without its connection has a
`MSG_CLOSE` in the queue or a UI thread that is about to post it - only `CameraThread` takes a
close from the queue, and then the camera is gone - and `NoneConnected`, that `destroy()`, which
goes over the filed control blocks, has met every connection (`EachConnectionFiled`).

`StopIsOnItsWay` follows from `Queued`: while `stopPreview` waits, its message is the last in
the queue, nobody sends another, and `CameraThread` takes one after the other until it wakes
the UI thread with an empty queue. So a `stopPreview` that does not return is one whose
`CameraThread` has come to a halt, which `session_deadlock` shows it can.

Only model-checked: liveness, since fairness and ENABLED are beyond the prover
(`KeepsDelivering`, `SetterReturns`, `StopReturns` and the other properties about returning
and closing).
Induction over data and RECURSIVE operators are out of the prover's reach as well; none of
the modules needs them.

## 7. What is not modelled

* The parsing of descriptors in `device.c`, and its search by vendor and serial number:
  sequential work on data of one thread.
* The renderer: its calls come from the UI thread alone, which also releases it, so that the
  answer `getPreviewTexture` waits for does come; drawing is the render thread's own.
* Camera controls (`ctrl.c`, the setters and getters of `UVCCamera.cpp`): requests without
  shared state. `Parameters.cpp`, `frame*.c`, `diag.c`, `ImageProc`, `FileUtils`,
  `FileSwapHelper`, `DeviceFilter`: sequential conversions and input/output.
* JNI glue: passes calls on. `MediaAudioEncoder`, `VideoEncoderFromBuffer`: never created.
* `libjpeg`, `rapidjson`: third-party. Of the bundled `libusb` the event handling, opening
  and closing of a device are modelled; its transfers appear in `UVCStream` as its callers
  use them. Not modelled: its other operating systems, hotplug callbacks, transfer timeouts
  and cancellation of control transfers, the asynchronous interface to descriptors.
* Polling with `uvc_stream_get_frame` and bulk transfers: not used by the library.
* Weak memory: unsynchronized accesses are interleaved, not reordered.

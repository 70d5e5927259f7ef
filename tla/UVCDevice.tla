----------------------------- MODULE UVCDevice ------------------------------
(***************************************************************************)
(* The life of a camera below the preview: UVCCamera::connect and release  *)
(* (UVCCamera.cpp), uvc_open and uvc_close (libuvc, device.c), libuvc's    *)
(* handler thread (init.c) and libusb_open and libusb_close (core.c), over *)
(* the event handling of LibusbEvents.                                     *)
(*                                                                         *)
(* Thread "camera" connects and releases.  The clients are the threads     *)
(* that query the camera while it is connected: the preview thread and the *)
(* camera's own control requests.  Thread "event" is libuvc's handler      *)
(* thread.  A connection is numbered; the number stands for the handle.    *)
(***************************************************************************)
EXTENDS LibusbEvents

CONSTANTS
    MaxConnects,    \* bound: how often a camera is found and opened
    MaxQueries,     \* bound: control transfers of one connection
    Reuse           \* "object": a released UVCCamera connects again, with its
                    \* context; "file": the next camera object is given the
                    \* same open UsbDeviceConnection

ASSUME DeviceAssumption == /\ MaxConnects \in Nat \ {0}
                           /\ MaxQueries \in Nat
                           /\ Reuse \subseteq {"object", "file"}

VARIABLES
    context,                \* is there a libuvc context?
    kill_handler_thread,    \* its flag
    open_devices,           \* does its list hold the device?
    dev_ref,                \* references to the uvc_device
    fds,                    \* duplicates of the descriptor that are open
    conn,                   \* connections so far
    queries,                \* control transfers of this connection so far
    finds,                  \* libusb_find_device calls in this context
    abandoned               \* transfers the close took off the flying list

cameraVars == <<context, kill_handler_thread, open_devices, dev_ref, fds, conn,
                queries, finds, abandoned>>
vars       == <<eventVars, cameraVars>>

DeviceInit ==
    /\ EventInit
    /\ context = FALSE
    /\ kill_handler_thread = FALSE
    /\ open_devices = FALSE
    /\ dev_ref = 0
    /\ fds = 0
    /\ conn = 0
    /\ queries = 0
    /\ finds = 0
    /\ abandoned = 0

At(from, to) == Goto("camera", from, to)

-----------------------------------------------------------------------------
(* UVCCamera::connect.                                                     *)

\* What the kernel still holds when the next connection begins: the URBs of
\* the open file live as long as the file does.
KeptUrbs == IF "file" \in Reuse THEN urbs ELSE {}

\* slip: the flag that ends the handler thread is no part of the new context
ForgetFlag ==
    /\ ~context /\ conn < MaxConnects
    /\ At("idle", "find")
    /\ context' = TRUE
    /\ attached' = plugged
    /\ refcnt' = IF plugged THEN 1 ELSE 0
    /\ finds' = 0 /\ abandoned' = 0
    /\ urbs' = KeptUrbs
    /\ UNCHANGED <<lockVars, waitVars, notifyVars, fixedVars, hotplug_pipe,
                   pollfds, flying_transfers, completed, current, stale,
                   kill_handler_thread, open_devices, dev_ref, fds, conn,
                   queries>>

\* uvc_init2: the first connection of a UVCCamera makes its context, which
\* lists the camera if it is there.
InitContext ==
    /\ ~context /\ conn < MaxConnects
    /\ At("idle", "find")
    /\ context' = TRUE
    /\ kill_handler_thread' = FALSE
    /\ attached' = plugged
    /\ refcnt' = IF plugged THEN 1 ELSE 0
    /\ finds' = 0 /\ abandoned' = 0
    /\ urbs' = KeptUrbs
    /\ UNCHANGED <<lockVars, waitVars, notifyVars, fixedVars, hotplug_pipe,
                   pollfds, flying_transfers, completed, current, stale,
                   open_devices, dev_ref, fds, conn, queries>>

\* A released UVCCamera connects again: mContext is still there.
ConnectAgain ==
    /\ context /\ conn < MaxConnects /\ "object" \in Reuse
    /\ At("idle", "find")
    /\ urbs' = KeptUrbs
    /\ UNCHANGED <<lockVars, waitVars, notifyVars, fixedVars, deviceVars,
                   flying_transfers, refcnt, completed, current, stale,
                   cameraVars>>

\* uvc_find_device2.  The descriptor is duplicated first and closed again when
\* the list does not have the camera.  libusb_find_device takes a reference of
\* its own, beside the one of the uvc_device, and nothing ever drops it.
FindDevice ==
    /\ At("find", IF attached THEN "open" ELSE "idle")
    /\ IF attached
       THEN /\ fds' = fds + 1
            /\ refcnt' = refcnt + 2
            /\ dev_ref' = 1
            /\ finds' = finds + 1
            /\ conn' = conn + 1
            /\ queries' = 0
       ELSE UNCHANGED <<fds, refcnt, dev_ref, finds, conn, queries>>
    /\ UNCHANGED <<lockVars, waitVars, notifyVars, deviceVars, fixedVars,
                   flyVars, completed, current, stale, context,
                   kill_handler_thread, open_devices, abandoned>>

\* libusb_open.  usbi_fd_notification interrupts whoever handles events; no
\* other thread uses the context yet, so its lock, byte and count come to
\* nothing.  uvc_open then refers to the device once more.  A device that has
\* left the list is not opened, and the opening of any other may fail as well (1186).
Open ==
    /\ pc["camera"] = "open"
    /\ events_lock = NULL
    /\ \/ /\ attached /\ At("open", "claim")
          /\ handle' = conn
          /\ pollfds' = TRUE
          /\ refcnt' = refcnt + 2
          /\ dev_ref' = dev_ref + 1
          /\ UNCHANGED fds
       \/ /\ At("open", "idle")
          /\ dev_ref' = dev_ref - 1
          /\ refcnt' = refcnt - 1
          /\ fds' = fds - 1
          /\ UNCHANGED <<handle, pollfds>>
    /\ UNCHANGED <<lockVars, waitVars, notifyVars, hotplug_pipe, attached,
                   plugged, interrupts, flyVars, completed, current, stale,
                   context, kill_handler_thread, open_devices, conn, queries,
                   finds, abandoned>>

\* uvc_get_device_info and uvc_claim_if; either may fail, and then the handle
\* is closed again.
Claim ==
    /\ \/ plugged /\ At("claim", "status")
       \/ At("claim", "modify")
    /\ UNCHANGED <<lockVars, waitVars, dataVars, cameraVars>>

\* The transfer of the status interrupts is submitted; if that fails the
\* interface is released and the handle closed.
SubmitStatus ==
    /\ At("status", IF plugged THEN "start" ELSE "release_if")
    /\ Submit("status")
    /\ interrupts' = 0
    /\ UNCHANGED <<lockVars, waitVars, notifyVars, deviceVars, handle,
                   plugged, completed, current, stale, cameraVars>>

\* uvc_start_handler_thread, then the device joins the context's list.
StartHandlerThread ==
    /\ pc["camera"] = "start"
    /\ pc' = [pc EXCEPT !["camera"] = "connected", !["event"] = "loop"]
    /\ open_devices' = TRUE
    /\ UNCHANGED <<lockVars, waitVars, dataVars, context, kill_handler_thread,
                   dev_ref, fds, conn, queries, finds, abandoned>>

\* _uvc_handle_events looks at the flag before each round.
HandlerLoop ==
    /\ Goto("event", "loop", IF kill_handler_thread THEN "exited" ELSE "try")
    /\ UNCHANGED <<lockVars, waitVars, dataVars, cameraVars>>

\* While the camera is connected a client makes a control transfer.
Query(t) ==
    /\ pc["camera"] = "connected"
    /\ queries < MaxQueries
    /\ queries' = queries + 1
    /\ ControlTransfer(t)
    /\ UNCHANGED <<context, kill_handler_thread, open_devices, dev_ref, fds,
                   conn, finds, abandoned>>

-----------------------------------------------------------------------------
(* UVCCamera::release: uvc_close, libusb_close and the rest.               *)

\* stopPreview comes first.
Release ==
    /\ At("connected", "stop")
    /\ UNCHANGED <<lockVars, waitVars, dataVars, cameraVars>>

\* The preview thread is joined: no transfer of a client is under way.
PreviewStopped ==
    /\ At("stop", "release_if")
    /\ \A c \in Clients : pc[c] = "idle"
    /\ UNCHANGED <<lockVars, waitVars, dataVars, cameraVars>>

\* uvc_release_if: the kernel ends the URBs of the interface.
ReleaseInterface ==
    /\ At("release_if", IF open_devices THEN "kill" ELSE "modify")
    /\ urbs' = {[u EXCEPT !.done = TRUE] : u \in urbs}
    /\ UNCHANGED <<lockVars, waitVars, notifyVars, deviceVars, fixedVars,
                   flying_transfers, refcnt, completed, current, stale,
                   cameraVars>>

\* slip: the handler thread is not told to end
NoKill ==
    /\ At("kill", "modify")
    /\ UNCHANGED <<lockVars, waitVars, dataVars, cameraVars>>

\* The last open device: the handler thread shall end.
KillHandlerThread ==
    /\ At("kill", "modify")
    /\ kill_handler_thread' = TRUE
    /\ UNCHANGED <<lockVars, waitVars, dataVars, context, open_devices,
                   dev_ref, fds, conn, queries, finds, abandoned>>

\* libusb_close: nobody is to start handling events, ...
CloseModifies ==
    /\ At("modify", "write")
    /\ pollfd_modify' = pollfd_modify + 1
    /\ UNCHANGED <<lockVars, waitVars, ctrl_pipe, deviceVars, fixedVars,
                   flyVars, refcnt, completed, current, stale, cameraVars>>

\* ... whoever does is interrupted, ...
CloseInterrupts ==
    /\ At("write", "lock")
    /\ ctrl_pipe' = ctrl_pipe + 1
    /\ UNCHANGED <<lockVars, waitVars, pollfd_modify, deviceVars, fixedVars,
                   flyVars, refcnt, completed, current, stale, cameraVars>>

\* slip: the handle is closed without the event lock
CloseUnlocked ==
    /\ At("lock", "do_close")
    /\ event_handler_active' = TRUE
    /\ ctrl_pipe' = 0
    /\ UNCHANGED <<events_lock, waitVars, pollfd_modify, deviceVars,
                   fixedVars, flyVars, refcnt, completed, current, stale,
                   cameraVars>>

\* ... and the event lock is taken and the byte read back.
CloseLocks ==
    /\ At("lock", "do_close")
    /\ events_lock = NULL
    /\ events_lock' = "camera" /\ event_handler_active' = TRUE
    /\ ctrl_pipe' = 0
    /\ UNCHANGED <<waitVars, pollfd_modify, deviceVars, fixedVars, flyVars,
                   refcnt, completed, current, stale, cameraVars>>

\* do_close takes the handle's transfers off the list and forgets them.  It has
\* locked the recursive event lock once more: its unlock clears the flag, wakes
\* the waiters and leaves the lock held.
DoClose ==
    /\ At("do_close", "close_wake")
    /\ flying_transfers' = {}
    /\ abandoned' = abandoned + Cardinality(flying_transfers)
    /\ event_handler_active' = FALSE
    /\ UNCHANGED <<events_lock, waitVars, notifyVars, deviceVars, fixedVars,
                   urbs, refcnt, completed, current, stale, context,
                   kill_handler_thread, open_devices, dev_ref, fds, conn,
                   queries, finds>>

DoCloseWakes ==
    /\ At("close_wake", "op_close")
    /\ WakeWaiters
    /\ UNCHANGED <<lockVars, dataVars, cameraVars>>

\* slip: the change of the descriptors is never over
KeepModify ==
    /\ At("op_close", "close_unlock")
    /\ pollfds' = FALSE
    /\ handle' = 0
    /\ refcnt' = refcnt - 1
    /\ UNCHANGED <<lockVars, waitVars, notifyVars, attached, hotplug_pipe,
                   plugged, interrupts, flyVars, completed, current, stale,
                   cameraVars>>

\* The descriptor is polled no longer, the handle is freed with its reference,
\* and the change of the descriptors is over.
FreeHandle ==
    /\ At("op_close", "close_unlock")
    /\ pollfds' = FALSE
    /\ handle' = 0
    /\ refcnt' = refcnt - 1
    /\ pollfd_modify' = pollfd_modify - 1
    /\ UNCHANGED <<lockVars, waitVars, ctrl_pipe, attached, hotplug_pipe,
                   plugged, interrupts, flyVars, completed, current, stale,
                   cameraVars>>

CloseUnlocks ==
    /\ At("close_unlock", "close_broadcast")
    /\ event_handler_active' = FALSE
    /\ events_lock' = NULL
    /\ UNCHANGED <<waitVars, dataVars, cameraVars>>

CloseWakes ==
    /\ At("close_broadcast", "join")
    /\ WakeWaiters
    /\ UNCHANGED <<lockVars, dataVars, cameraVars>>

\* slip: the handler thread is not waited for
NoJoin ==
    /\ pc["camera"] = "join"
    /\ pc' = [pc EXCEPT !["camera"] = "closed"]
    /\ UNCHANGED <<lockVars, waitVars, dataVars, cameraVars>>

\* pthread_join of the handler thread, if this device had one.
JoinHandlerThread ==
    /\ pc["camera"] = "join"
    /\ open_devices => pc["event"] = "exited"
    /\ pc' = [pc EXCEPT !["camera"] = "closed", !["event"] = "none"]
    /\ UNCHANGED <<lockVars, waitVars, dataVars, cameraVars>>

\* The end of uvc_close (or of a failed uvc_open) and of UVCCamera's own code:
\* both references to the device go, and the descriptor is closed.
Released ==
    /\ At("closed", "idle")
    /\ open_devices' = FALSE
    /\ dev_ref' = dev_ref - 2
    /\ refcnt' = refcnt - 2
    /\ fds' = fds - 1
    /\ UNCHANGED <<lockVars, waitVars, notifyVars, deviceVars, fixedVars,
                   flyVars, completed, current, stale, context,
                   kill_handler_thread, conn, queries, finds, abandoned>>

\* UVCCamera's destructor: uvc_exit and libusb_exit.  A message left in the
\* hotplug pipe is read for its reference, and the list drops its own.
Destroy ==
    /\ context
    /\ At("idle", "idle")
    /\ context' = FALSE
    /\ attached' = FALSE
    /\ hotplug_pipe' = 0
    /\ refcnt' = refcnt - hotplug_pipe - (IF attached THEN 1 ELSE 0)
    /\ UNCHANGED <<lockVars, waitVars, notifyVars, fixedVars, flyVars,
                   pollfds, completed, current, stale, kill_handler_thread,
                   open_devices, dev_ref, fds, conn, queries, finds,
                   abandoned>>

\* A camera is plugged in while no UVCCamera is alive: a new device, and a new
\* file when it is opened.
Replug ==
    /\ ~plugged /\ ~context
    /\ plugged' = TRUE
    /\ urbs' = {}
    /\ UNCHANGED <<pc, lockVars, waitVars, notifyVars, deviceVars, handle,
                   interrupts, flying_transfers, refcnt, completed, current,
                   stale, cameraVars>>

-----------------------------------------------------------------------------
Connect ==
    \/ InitContext
    \/ ConnectAgain
    \/ FindDevice
    \/ Open
    \/ Claim
    \/ SubmitStatus
    \/ StartHandlerThread

Close ==
    \/ PreviewStopped
    \/ ReleaseInterface
    \/ KillHandlerThread
    \/ CloseModifies
    \/ CloseInterrupts
    \/ CloseLocks
    \/ DoClose
    \/ DoCloseWakes
    \/ FreeHandle
    \/ CloseUnlocks
    \/ CloseWakes
    \/ JoinHandlerThread
    \/ Released

\* After a stale URB the program's behaviour is undefined, and the model ends.
Next ==
    /\ ~stale
    /\ \/ \E t \in Clients : Query(t)
       \/ \E t \in Clients : WaitForCompletion(t) /\ UNCHANGED cameraVars
       \/ HandlerLoop
       \/ \E t \in Handlers : HandleEvents(t) /\ UNCHANGED cameraVars
       \/ \E t \in Handlers : TimesOut(t) /\ UNCHANGED cameraVars
       \/ Kernel /\ UNCHANGED cameraVars
       \/ Connect
       \/ Release
       \/ Close
       \/ Destroy
       \/ Replug

\* A thread is scheduled as long as it can run, it obtains event_waiters_lock
\* for a broadcast when that is free again and again, and the kernel finishes a
\* control transfer.  A thread need not begin anything new, and the 60 seconds
\* need not ever pass.
HandlerStep(t) ==
    /\ ~stale
    /\ \/ HandleEvents(t) /\ UNCHANGED cameraVars
       \/ t \in Clients /\ WaitForCompletion(t) /\ UNCHANGED cameraVars
       \/ t = "event" /\ HandlerLoop

CameraStep == ~stale /\ Close

Broadcasts ==
    /\ ~stale
    /\ \/ \E t \in Handlers : /\ CompletionWakes(t) \/ UnlockWakes(t)
                             /\ UNCHANGED cameraVars
       \/ DoCloseWakes
       \/ CloseWakes

TransferEnds(c) == ~stale /\ UrbCompletes(c) /\ UNCHANGED cameraVars

Fairness == /\ \A t \in Handlers : WF_vars(HandlerStep(t))
            /\ WF_vars(CameraStep)
            /\ SF_vars(Broadcasts)
            /\ WF_vars(~stale /\ PollTimesOut("event") /\ UNCHANGED cameraVars)
            /\ \A c \in Clients : WF_vars(TransferEnds(c))

Spec == DeviceInit /\ [][Next]_vars /\ Fairness

-----------------------------------------------------------------------------
(* Properties.                                                             *)

HandlerPlaces == {"idle", "none", "wait", "loop", "exited", "try", "trylock",
                  "recheck", "poll", "redo", "reap", "disconnect", "complete",
                  "callback", "broadcast", "unref", "unlock", "wake",
                  "waiters", "modify", "active", "asleep"}

CameraPlaces  == {"idle", "find", "open", "claim", "status", "start",
                  "connected", "stop", "release_if", "kill", "modify", "write",
                  "lock", "do_close", "close_wake", "op_close",
                  "close_unlock", "close_broadcast", "join", "closed"}

Urbs == [x : Transfers, conn : 1..MaxConnects, done : BOOLEAN]

\* Every variable has its type.
TypeOK ==
    /\ pc \in [Threads -> HandlerPlaces \cup CameraPlaces]
    /\ events_lock \in Threads \cup {NULL}
    /\ event_waiters_lock \in Handlers \cup {NULL}
    /\ event_waiters \subseteq Handlers
    /\ {event_handler_active, pollfds, attached, plugged, stale, context,
        kill_handler_thread, open_devices} \subseteq BOOLEAN
    /\ {pollfd_modify, ctrl_pipe, hotplug_pipe, fds} \subseteq {0, 1}
    /\ flying_transfers \subseteq Transfers
    /\ completed \in [Clients -> BOOLEAN]
    /\ current \in [Handlers -> Transfers \cup {NULL}]
    /\ dev_ref \in 0..2
    /\ interrupts \in 0..MaxInterrupts
    /\ queries \in 0..MaxQueries
    /\ refcnt \in Int     \* never negative: RefsAccounted
    /\ abandoned \in Nat
    /\ {handle, conn, finds} \subseteq 0..MaxConnects
    /\ urbs \subseteq Urbs

\* Places at which a thread follows pointers to the open handle.
UsingHandle == {"reap", "disconnect", "complete", "callback", "broadcast",
                "unref"}

\* The handle is never freed under a thread that is completing a transfer of it
\* (core.c:1405-1428, io.c:1561-1621): libusb_close takes the event lock, and
\* whoever completes transfers holds it.
NoUseAfterClose ==
    \A t \in Handlers : pc[t] \in UsingHandle => handle # 0

\* The buffer and the flag of a synchronous transfer are on the stack of the
\* thread that waits for it (sync.c:88-120): as long as the kernel or libusb can
\* still write to them that thread has not returned.
CallerWaits ==
    \A c \in Clients :
       \/ c \in flying_transfers
       \/ pollfds /\ \E u \in urbs : u.x = c /\ u.conn = handle
       \/ \E t \in Handlers : current[t] = c /\ pc[t] \in {"complete", "callback"}
       => pc[c] # "idle"

\* A released UVCCamera has given everything back (UVCCamera.cpp:139-160,
\* device.c:1490-1523): no transfer, lock, waiter, byte, handle, thread,
\* descriptor or device reference of its own is left.
NothingLeft ==
    pc["camera"] = "idle" =>
       /\ flying_transfers = {} /\ event_waiters = {}
       /\ events_lock = NULL /\ event_waiters_lock = NULL
       /\ pollfd_modify = 0 /\ ctrl_pipe = 0
       /\ handle = 0 /\ ~pollfds
       /\ pc["event"] = "none" /\ ~open_devices
       /\ fds = 0 /\ dev_ref = 0

\* Threads that complete a transfer and have not yet dropped its reference.
Completing == {t \in Handlers : pc[t] \in {"callback", "broadcast", "unref"}}

\* The references to the libusb_device are the ones that something holds: the
\* list or the message of its leaving, the uvc_device, the handle and the
\* transfers in flight or being completed, and those that have lost their
\* holder: one for every connection (libusb_find_device, core.c:741-770) and
\* one for every transfer dropped by a close (core.c:1300-1333).
RefsAccounted ==
    refcnt = (IF attached THEN 1 ELSE 0) + hotplug_pipe
             + dev_ref + (IF handle # 0 THEN 1 ELSE 0)
             + Cardinality(flying_transfers) + Cardinality(Completing)
             + finds + abandoned

\* As long as the first connection of a context is open its handler thread is
\* there for the status interrupts (init.c:95-109).  With a context that is used
\* again this is lost: uvc_close sets kill_handler_thread and nothing clears it
\* (device.c:1510).
HandledWhileOpen ==
    pc["camera"] = "connected" /\ finds = 1 =>
       pc["event"] \notin {"none", "exited"}

\* No wakeup is lost (io.c:1608-1612, 1719-1727, 2200-2219).  While somebody sleeps on
\* event_waiters_cond there is a handler, a change of the descriptors is pending,
\* or a broadcast is about to be made; and a client that sleeps although its flag
\* is set went to sleep before the broadcast of the thread that set it.
NoLostWakeup ==
    /\ event_waiters # {} =>
          \/ event_handler_active
          \/ pollfd_modify > 0
          \/ pc["camera"] \in {"close_wake", "close_unlock", "close_broadcast"}
          \/ \E t \in Handlers : pc[t] = "wake"
    /\ \A c \in event_waiters \cap Clients : completed[c] =>
          \E t \in Handlers : pc[t] = "broadcast" /\ current[t] = c

\* Where the call of a client is, as the client sees it.
Call(c) == IF pc[c] = "idle" THEN "idle"
           ELSE IF completed[c] THEN "done" ELSE "pending"

Transferring == INSTANCE SyncTransfers
    WITH Callers <- Clients, open <- handle # 0,
         call <- [c \in Clients |-> Call(c)]

\* The event handling keeps the promise of the synchronous calls
\* (sync.c:88-133, core.c:1371-1428): a call ends after its own transfer was
\* completed, which happens once and on the open handle, and the handle is opened
\* and closed between the calls.
ImplementsSyncTransfers == Transferring!Spec

\* A synchronous control transfer returns (sync.c:44-60): whoever handles the
\* events, and whether the camera answers or is pulled out, its thread is woken.
TransferReturns ==
    \A c \in Clients : pc[c] = "wait" ~> pc[c] = "idle" \/ stale

\* A release comes to its end (device.c:1490-1523): the handler thread and the
\* handlers among the clients are interrupted and let the close have the lock.
CloseReturns == pc["camera"] = "stop" ~> pc["camera"] = "idle" \/ stale
=============================================================================

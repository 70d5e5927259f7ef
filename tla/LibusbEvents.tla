---------------------------- MODULE LibusbEvents ----------------------------
(***************************************************************************)
(* The event handling of the libusb the camera library ships with          *)
(* (jnibak/libusb/libusb: io.c, sync.c, core.c and os/android_usbfs.c).     *)
(*                                                                         *)
(* libusb has no thread of its own.  Whoever needs an event handles events *)
(* for everybody: a thread that made a synchronous control transfer, or    *)
(* libuvc's handler thread.  One of them at a time holds events_lock and   *)
(* polls; the others sleep on event_waiters_cond until a transfer has been *)
(* completed or the lock has been given back.  The module is this protocol *)
(* for one context with one device: taking the role of the handler, poll,  *)
(* reaping what the kernel has finished, the completion of a transfer, the *)
(* disconnection of the device, and the waiting.  Opening and closing the  *)
(* device is the module UVCDevice.                                         *)
(*                                                                         *)
(* A control transfer has no timeout (libuvc passes 0, ctrl.c:53), so time *)
(* shows only in the 60 seconds after which poll and the wait give up.     *)
(***************************************************************************)
EXTENDS Integers, FiniteSets

CONSTANTS
    Clients,        \* threads that make synchronous control transfers
    NULL,           \* nobody, nothing
    MaxInterrupts   \* bound: how often a camera reports a status by itself

ASSUME ClientsAssumption ==
    /\ {"event", "camera", "status"} \cap Clients = {}
    /\ NULL \notin Clients \cup {"event", "camera", "status"}
    /\ MaxInterrupts \in Nat

Handlers  == Clients \cup {"event"}     \* who may handle events
Threads   == Handlers \cup {"camera"}   \* "camera": connect, release, destroy
Transfers == Clients \cup {"status"}    \* a client's transfer bears its name

VARIABLES
    pc,                     \* [Threads -> where the thread is]
    events_lock,            \* its owner, or NULL
    event_handler_active,
    pollfd_modify,          \* how many want to change the polled descriptors
    ctrl_pipe,              \* bytes in the pipe that interrupts poll
    hotplug_pipe,           \* "device left" messages not yet read
    event_waiters_lock,     \* its owner, or NULL
    event_waiters,          \* who sleeps on event_waiters_cond
    flying_transfers,       \* transfers submitted and not completed
    pollfds,                \* is the device's descriptor polled?
    completed,              \* [Clients -> the flag of its transfer]
    current,                \* [Handlers -> the transfer it completes]
    attached,               \* is the device in the context's list?
    refcnt,                 \* references to the libusb_device
    handle,                 \* the open handle: its connection's number, or 0
    urbs,                   \* what the kernel holds of the open file
    plugged,                \* is the camera there?
    interrupts,             \* status interrupts of this connection so far
    stale                   \* an URB of a closed handle has been reaped

eventVars == <<pc, events_lock, event_handler_active, pollfd_modify, ctrl_pipe,
               hotplug_pipe, event_waiters_lock, event_waiters,
               flying_transfers, pollfds, completed, current, attached, refcnt,
               handle, urbs, plugged, interrupts,
               stale>>

lockVars   == <<events_lock, event_handler_active>>
waitVars   == <<event_waiters_lock, event_waiters>>
notifyVars == <<pollfd_modify, ctrl_pipe>>
flyVars    == <<flying_transfers, urbs>>
fixedVars  == <<handle, plugged, interrupts>>
deviceVars == <<pollfds, attached, hotplug_pipe>>
dataVars   == <<notifyVars, deviceVars, fixedVars, flyVars, refcnt, completed,
                current, stale>>

EventInit ==
    /\ pc = [t \in Threads |-> IF t = "event" THEN "none" ELSE "idle"]
    /\ events_lock = NULL
    /\ event_handler_active = FALSE
    /\ pollfd_modify = 0
    /\ ctrl_pipe = 0
    /\ hotplug_pipe = 0
    /\ event_waiters_lock = NULL
    /\ event_waiters = {}
    /\ flying_transfers = {}
    /\ pollfds = FALSE
    /\ completed = [c \in Clients |-> FALSE]
    /\ current = [t \in Handlers |-> NULL]
    /\ attached = FALSE
    /\ refcnt = 0
    /\ handle = 0
    /\ urbs = {}
    /\ plugged = TRUE
    /\ interrupts = 0
    /\ stale = FALSE

Goto(t, from, to) == /\ pc[t] = from
                     /\ pc' = [pc EXCEPT ![t] = to]

\* Where a call of libusb_handle_events returns to: the loop of the handler
\* thread or the loop of the synchronous transfer.
Back(t) == IF t = "event" THEN "loop" ELSE "wait"

Completed(t) == t \in Clients /\ completed[t]

-----------------------------------------------------------------------------
(* Submitting a transfer.                                                  *)

\* libusb_submit_transfer is one critical section of flying_transfers_lock;
\* without a device the kernel refuses the URB and nothing is left behind.
Submit(x) ==
    IF plugged
    THEN /\ flying_transfers' = flying_transfers \cup {x}
         /\ urbs' = urbs \cup {[x |-> x, conn |-> handle, done |-> FALSE]}
         /\ refcnt' = refcnt + 1
    ELSE UNCHANGED <<flyVars, refcnt>>

\* libusb_control_transfer as far as the submission; a refused submission
\* makes it return at once.
ControlTransfer(t) ==
    /\ Goto(t, "idle", IF plugged THEN "wait" ELSE "idle")
    /\ completed' = [completed EXCEPT ![t] = FALSE]
    /\ Submit(t)
    /\ UNCHANGED <<lockVars, notifyVars, waitVars, deviceVars, fixedVars,
                   current, stale>>

\* slip: an interrupted or failed round of events ends the wait
WaitOnce(t) ==
    /\ \/ Goto(t, "wait", "try")
       \/ Goto(t, "wait", "idle")
    /\ UNCHANGED <<lockVars, waitVars, dataVars>>

\* sync_transfer_wait_for_completion: events are handled until the flag is set.
WaitForCompletion(t) ==
    /\ Goto(t, "wait", IF completed[t] THEN "idle" ELSE "try")
    /\ UNCHANGED <<lockVars, waitVars, dataVars>>

-----------------------------------------------------------------------------
(* Becoming the handler.                                                   *)

\* libusb_try_lock_events, first half: nobody starts to handle events while
\* another thread wants to change the descriptors.
TryLockEvents(t) ==
    /\ Goto(t, "try", IF pollfd_modify > 0 THEN "waiters" ELSE "trylock")
    /\ UNCHANGED <<lockVars, waitVars, dataVars>>

\* libusb_try_lock_events, second half: the trylock.
TrylockMutex(t) ==
    /\ Goto(t, "trylock", IF events_lock = NULL THEN "recheck" ELSE "waiters")
    /\ IF events_lock = NULL
       THEN events_lock' = t /\ event_handler_active' = TRUE
       ELSE UNCHANGED lockVars
    /\ UNCHANGED <<waitVars, dataVars>>

\* slip: the new handler does not look at its flag again
NoRecheck(t) ==
    /\ Goto(t, "recheck", "poll")
    /\ UNCHANGED <<lockVars, waitVars, dataVars>>

\* With the lock held the flag is read again before the thread polls.
Recheck(t) ==
    /\ Goto(t, "recheck", IF Completed(t) THEN "unlock" ELSE "poll")
    /\ UNCHANGED <<lockVars, waitVars, dataVars>>

\* libusb_unlock_events, first half.
UnlockEvents(t) ==
    /\ Goto(t, "unlock", "wake")
    /\ event_handler_active' = FALSE
    /\ events_lock' = NULL
    /\ UNCHANGED <<waitVars, dataVars>>

\* A broadcast on event_waiters_cond, made with event_waiters_lock held.
WakeWaiters ==
    /\ event_waiters_lock = NULL
    /\ event_waiters' = {}
    /\ UNCHANGED event_waiters_lock

\* libusb_unlock_events, second half: those who wait may now take over.
UnlockWakes(t) ==
    /\ Goto(t, "wake", Back(t))
    /\ WakeWaiters
    /\ UNCHANGED <<lockVars, dataVars>>

-----------------------------------------------------------------------------
(* Handling events: poll, reap, disconnect.                                *)

Finished == {u \in urbs : u.done}

\* Another descriptor than the control pipe's is ready.
Ready == hotplug_pipe > 0 \/ (pollfds /\ (plugged => Finished # {}))

\* poll returns for the control pipe alone: handle_events leaves at once.  With
\* another descriptor ready the byte is ignored and that descriptor is served.
PollInterrupted(t) ==
    /\ pc[t] \in {"poll", "redo"}
    /\ ctrl_pipe > 0 \/ pc[t] = "redo"
    /\ ~Ready
    /\ pc' = [pc EXCEPT ![t] = "unlock"]
    /\ UNCHANGED <<lockVars, waitVars, dataVars>>

\* The hotplug pipe: the message is read and its reference dropped, then the
\* descriptors are polled once more without waiting ("redo").
PollHotplug(t) ==
    /\ pc[t] \in {"poll", "redo"}
    /\ hotplug_pipe > 0
    /\ hotplug_pipe' = hotplug_pipe - 1
    /\ refcnt' = refcnt - 1
    /\ pc' = [pc EXCEPT ![t] = "redo"]
    /\ UNCHANGED <<lockVars, notifyVars, waitVars, fixedVars, flyVars,
                   pollfds, attached, completed, current, stale>>

\* The device has something to reap.
PollDevice(t) ==
    /\ pc[t] \in {"poll", "redo"}
    /\ hotplug_pipe = 0
    /\ pollfds /\ plugged /\ Finished # {}
    /\ pc' = [pc EXCEPT ![t] = "reap"]
    /\ UNCHANGED <<lockVars, waitVars, dataVars>>

\* POLLERR: the device is gone; its descriptor is polled no longer.
PollError(t) ==
    /\ pc[t] \in {"poll", "redo"}
    /\ hotplug_pipe = 0
    /\ pollfds /\ ~plugged
    /\ pollfds' = FALSE
    /\ pc' = [pc EXCEPT ![t] = "disconnect"]
    /\ UNCHANGED <<lockVars, notifyVars, waitVars, fixedVars, flyVars,
                   attached, hotplug_pipe, refcnt, completed, current, stale>>

\* Nothing is ready: poll gives up after 60 seconds, or a signal ends it.
PollTimesOut(t) ==
    /\ ~Ready /\ ctrl_pipe = 0
    /\ Goto(t, "poll", "unlock")
    /\ UNCHANGED <<lockVars, waitVars, dataVars>>

\* One round of reap_for_handle.  The kernel returns the URB's own pointer to
\* its transfer: that of a handle which has been closed is freed memory, and
\* nothing is said of what follows.
Reap(t) ==
    /\ pc[t] = "reap"
    /\ IF Finished = {}
       THEN /\ pc' = [pc EXCEPT ![t] = "unlock"]
            /\ UNCHANGED <<urbs, current, stale>>
       ELSE \E u \in Finished :
            /\ urbs' = urbs \ {u}
            /\ IF u.conn = handle
               THEN /\ current' = [current EXCEPT ![t] = u.x]
                    /\ pc' = [pc EXCEPT ![t] = "complete"]
                    /\ UNCHANGED stale
               ELSE /\ stale' = TRUE
                    /\ UNCHANGED <<current, pc>>
    /\ UNCHANGED <<lockVars, notifyVars, waitVars, deviceVars, fixedVars,
                   flying_transfers, refcnt, completed>>

\* usbi_disconnect_device, called with the hotplug lock held by whoever sees
\* the device leave first: the handler, or the monitor of the kernel's events.
\* The list's reference passes to the message.
DisconnectDevice ==
    IF attached
    THEN attached' = FALSE /\ hotplug_pipe' = hotplug_pipe + 1
    ELSE UNCHANGED <<attached, hotplug_pipe>>

\* usbi_handle_disconnect: every transfer in flight is completed as NO_DEVICE,
\* one after the other, then the device is taken off the list.
Disconnect(t) ==
    /\ pc[t] = "disconnect"
    /\ IF flying_transfers # {}
       THEN /\ \E x \in flying_transfers : current' = [current EXCEPT ![t] = x]
            /\ pc' = [pc EXCEPT ![t] = "complete"]
            /\ UNCHANGED <<attached, hotplug_pipe>>
       ELSE /\ DisconnectDevice
            /\ pc' = [pc EXCEPT ![t] = "unlock"]
            /\ UNCHANGED current
    /\ UNCHANGED <<lockVars, notifyVars, waitVars, fixedVars, flyVars,
                   pollfds, refcnt, completed, stale>>

-----------------------------------------------------------------------------
(* usbi_handle_transfer_completion.                                        *)

\* The transfer leaves the list of those in flight.
Complete(t) ==
    /\ Goto(t, "complete", "callback")
    /\ flying_transfers' = flying_transfers \ {current[t]}
    /\ UNCHANGED <<lockVars, notifyVars, waitVars, deviceVars, fixedVars,
                   urbs, refcnt, completed, current, stale>>

\* sync_transfer_cb sets the flag of the waiting thread.
SyncTransferCallback(t) ==
    /\ current[t] \in Clients
    /\ Goto(t, "callback", "broadcast")
    /\ completed' = [completed EXCEPT ![current[t]] = TRUE]
    /\ UNCHANGED <<lockVars, notifyVars, waitVars, deviceVars, fixedVars,
                   flyVars, refcnt, current, stale>>

\* _uvc_status_callback submits the transfer again, unless it was ended by an
\* error, a cancellation or the device's leaving.
StatusCallback(t) ==
    /\ current[t] = "status"
    /\ Goto(t, "callback", "broadcast")
    /\ \/ UNCHANGED <<flyVars, refcnt>>
       \/ pollfds /\ Submit("status")
    /\ UNCHANGED <<lockVars, notifyVars, waitVars, deviceVars, fixedVars,
                   completed, current, stale>>

\* slip: the completion wakes nobody
CompleteSilently(t) ==
    /\ Goto(t, "broadcast", "unref")
    /\ UNCHANGED <<lockVars, waitVars, dataVars>>

\* The waiting threads are told that some transfer has been completed.
CompletionWakes(t) ==
    /\ Goto(t, "broadcast", "unref")
    /\ WakeWaiters
    /\ UNCHANGED <<lockVars, dataVars>>

\* slip: a transfer ended by the disconnection keeps its reference
UnrefReapedOnly(t) ==
    /\ Goto(t, "unref", IF pollfds THEN "reap" ELSE "disconnect")
    /\ refcnt' = IF pollfds THEN refcnt - 1 ELSE refcnt
    /\ current' = [current EXCEPT ![t] = NULL]
    /\ UNCHANGED <<lockVars, notifyVars, waitVars, deviceVars, fixedVars,
                   flyVars, completed, stale>>

\* The transfer's reference to the device is dropped, through the handle; then
\* on with the loop the completion was called from.
Unref(t) ==
    /\ Goto(t, "unref", IF pollfds THEN "reap" ELSE "disconnect")
    /\ refcnt' = refcnt - 1
    /\ current' = [current EXCEPT ![t] = NULL]
    /\ UNCHANGED <<lockVars, notifyVars, waitVars, deviceVars, fixedVars,
                   flyVars, completed, stale>>

-----------------------------------------------------------------------------
(* Waiting for another thread's handling.                                  *)

\* libusb_lock_event_waiters, then the flag: if it is set the thread is done.
LockWaiters(t) ==
    /\ event_waiters_lock = NULL
    /\ Goto(t, "waiters", IF Completed(t) THEN Back(t) ELSE "modify")
    /\ event_waiters_lock' = IF Completed(t) THEN NULL ELSE t
    /\ UNCHANGED <<lockVars, dataVars, event_waiters>>

\* libusb_wait_for_event: the lock is released and the thread sleeps, in one.
WaitForEvent(t) ==
    /\ event_waiters_lock' = NULL
    /\ event_waiters' = event_waiters \cup {t}
    /\ pc' = [pc EXCEPT ![t] = "asleep"]

\* libusb_event_handler_active counts a pending change of the descriptors as
\* an active handler.
ModifyPending(t) ==
    /\ pc[t] = "modify"
    /\ \/ pollfd_modify > 0 /\ WaitForEvent(t)
       \/ /\ pollfd_modify = 0
          /\ Goto(t, "modify", "active")
          /\ UNCHANGED waitVars
    /\ UNCHANGED <<lockVars, dataVars>>

\* No handler any more: the thread tries again.  Otherwise it sleeps.
HandlerActive(t) ==
    /\ pc[t] = "active"
    /\ \/ event_handler_active /\ WaitForEvent(t)
       \/ /\ ~event_handler_active
          /\ Goto(t, "active", "try")
          /\ event_waiters_lock' = NULL
          /\ UNCHANGED event_waiters
    /\ UNCHANGED <<lockVars, dataVars>>

\* Woken, the thread takes the lock back, releases it and returns.
Awake(t) ==
    /\ t \notin event_waiters
    /\ event_waiters_lock = NULL
    /\ Goto(t, "asleep", Back(t))
    /\ UNCHANGED <<lockVars, waitVars, dataVars>>

\* The wait gives up after 60 seconds.
WaitTimesOut(t) ==
    /\ t \in event_waiters
    /\ pc[t] = "asleep"
    /\ event_waiters' = event_waiters \ {t}
    /\ UNCHANGED <<pc, lockVars, dataVars, event_waiters_lock>>

-----------------------------------------------------------------------------
(* The kernel.                                                             *)

\* The kernel finishes an URB.
UrbCompletes(x) ==
    /\ plugged
    /\ \E u \in urbs :
       /\ u.x = x /\ ~u.done
       /\ urbs' = (urbs \ {u}) \cup {[u EXCEPT !.done = TRUE]}
    /\ IF x = "status"
       THEN interrupts < MaxInterrupts /\ interrupts' = interrupts + 1
       ELSE UNCHANGED interrupts
    /\ UNCHANGED <<pc, lockVars, notifyVars, waitVars, deviceVars, handle,
                   plugged, flying_transfers, refcnt, completed, current,
                   stale>>

\* The camera is pulled out: every URB ends, and the descriptor shows POLLERR.
Unplug ==
    /\ plugged
    /\ plugged' = FALSE
    /\ urbs' = {[u EXCEPT !.done = TRUE] : u \in urbs}
    /\ UNCHANGED <<pc, lockVars, notifyVars, waitVars, deviceVars, handle,
                   interrupts, flying_transfers, refcnt, completed, current,
                   stale>>

\* The monitor of the kernel's events sees the device leave.
MonitorSeesRemoval ==
    /\ ~plugged /\ attached
    /\ DisconnectDevice
    /\ UNCHANGED <<pc, lockVars, notifyVars, waitVars, fixedVars, flyVars,
                   pollfds, refcnt, completed, current, stale>>

-----------------------------------------------------------------------------
\* A step of thread t inside libusb_handle_events that is its own to take.
HandleEvents(t) ==
    \/ TryLockEvents(t)
    \/ TrylockMutex(t)
    \/ Recheck(t)
    \/ PollInterrupted(t)
    \/ PollHotplug(t)
    \/ PollDevice(t)
    \/ PollError(t)
    \/ Reap(t)
    \/ Disconnect(t)
    \/ Complete(t)
    \/ SyncTransferCallback(t)
    \/ StatusCallback(t)
    \/ CompletionWakes(t)
    \/ Unref(t)
    \/ UnlockEvents(t)
    \/ UnlockWakes(t)
    \/ LockWaiters(t)
    \/ ModifyPending(t)
    \/ HandlerActive(t)
    \/ Awake(t)

TimesOut(t) == PollTimesOut(t) \/ WaitTimesOut(t)

Kernel ==
    \/ \E x \in Transfers : UrbCompletes(x)
    \/ Unplug
    \/ MonitorSeesRemoval
=============================================================================

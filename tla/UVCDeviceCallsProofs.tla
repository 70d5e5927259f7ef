------------------------ MODULE UVCDeviceCallsProofs ------------------------
(***************************************************************************)
(* What the clients of UVCDevice see of the event handling, for any number *)
(* of clients, connections, queries and interrupts: no wakeup is lost, and *)
(* the calls implement SyncTransfers.                                      *)
(*                                                                         *)
(* The argument for the wakeups: a thread decides to sleep with            *)
(* event_waiters_lock held and gives it back as it falls asleep, and a     *)
(* broadcast needs that lock.  So a flag that is set after the thread has  *)
(* read it is set by somebody who has not yet broadcast (Announced), and   *)
(* the handler or the close that it waits for ends with a broadcast        *)
(* (Guarded).                                                              *)
(***************************************************************************)
EXTENDS UVCDeviceProofs

-----------------------------------------------------------------------------
(* Wakeups.                                                                *)

\* While somebody sleeps there is a handler, a close, or a broadcast to come.
Guarded ==
    event_waiters # {} =>
       \/ event_handler_active
       \/ pollfd_modify > 0
       \/ pc["camera"] \in {"close_wake", "close_unlock", "close_broadcast"}
       \/ \E t \in Handlers : pc[t] = "wake"

\* The client sleeps, or has read its flag and will sleep without another look.
Sleepy(c) == c \in event_waiters \/ pc[c] \in {"modify", "active"}

Announced ==
    \A c \in Clients : Sleepy(c) /\ completed[c] =>
       \E t \in Handlers : pc[t] = "broadcast" /\ current[t] = c

Wakeups == Guarded /\ Announced

\* a step that sets no flag, makes nobody sleepy and broadcasts nothing
LEMMA AnnouncedKept ==
    ASSUME Announced, UNCHANGED completed,
           \A c \in Clients : Sleepy(c)' /\ completed[c] => Sleepy(c),
           \A t \in Handlers : pc[t] = "broadcast" =>
              pc'[t] = "broadcast" /\ current'[t] = current[t]
    PROVE  Announced'
  BY DEF Announced

\* after a broadcast nobody sleeps or is about to
LEMMA BroadcastWakes ==
    ASSUME IInv, WakeWaiters,
           \A t \in Handlers : pc'[t] \in {"modify", "active"} => pc[t] \in {"modify", "active"}
    PROVE  Wakeups'
  <1>1. event_waiters' = {} /\ event_waiters_lock = NULL
    BY DEF WakeWaiters
  <1>2. \A t \in Handlers : pc[t] \notin {"modify", "active"}
    BY <1>1, Names DEF IInv, Locks
  <1> QED
    BY <1>1, <1>2, Names DEF Wakeups, Guarded, Announced, Sleepy

\* a handler goes to a place where it neither sleeps nor is about to
LEMMA HandlerGoesOn ==
    ASSUME IInv, Wakeups, NEW t \in Handlers, NEW q \in HandlerPlaces \ {"modify", "active"},
           pc[t] \notin {"wake", "broadcast"},
           pc' = [pc EXCEPT ![t] = q],
           UNCHANGED <<event_waiters, pollfd_modify, completed>>,
           event_handler_active => event_handler_active',
           \A s \in Handlers : s # t => current'[s] = current[s]
    PROVE  Wakeups'
  <1>1. /\ pc'["camera"] = pc["camera"]
        /\ \A s \in Handlers : pc'[s] = IF s = t THEN q ELSE pc[s]
    BY HandlerMoves DEF IInv
  <1>2. Guarded'
    BY <1>1 DEF Wakeups, Guarded
  <1>3. Announced'
    <2>1. \A c \in Clients : Sleepy(c)' => Sleepy(c)
      BY <1>1, Names DEF Sleepy
    <2>2. \A s \in Handlers : pc[s] = "broadcast" =>
             pc'[s] = "broadcast" /\ current'[s] = current[s]
      BY <1>1
    <2> QED
      BY <2>1, <2>2, AnnouncedKept DEF Wakeups
  <1> QED
    BY <1>2, <1>3 DEF Wakeups

\* the camera thread moves, and the lock and the waiters are left alone
LEMMA CameraGoesOn ==
    ASSUME IInv, Wakeups, NEW q \in CameraPlaces,
           pc' = [pc EXCEPT !["camera"] = q],
           pc["camera"] \notin {"close_wake", "close_unlock", "close_broadcast"},
           UNCHANGED <<event_waiters, completed, current>>,
           event_handler_active => event_handler_active',
           pollfd_modify > 0 => pollfd_modify' > 0 \/ q = "close_unlock"
    PROVE  Wakeups'
  <1>1. pc'["camera"] = q /\ \A s \in Handlers : pc'[s] = pc[s]
    BY CameraMoves DEF IInv
  <1>2. Guarded'
    BY <1>1 DEF Wakeups, Guarded
  <1>3. Announced'
    <2>1. \A c \in Clients : Sleepy(c)' => Sleepy(c)
      BY <1>1, Names DEF Sleepy
    <2> QED
      BY <1>1, <2>1, AnnouncedKept DEF Wakeups
  <1> QED
    BY <1>2, <1>3 DEF Wakeups

\* a step that moves nobody
LEMMA NobodyMoves ==
    ASSUME Wakeups, UNCHANGED <<pc, event_handler_active, pollfd_modify, completed>>,
           event_waiters' \subseteq event_waiters,
           \A t \in Handlers : pc[t] = "broadcast" => current'[t] = current[t]
    PROVE  Wakeups'
  BY DEF Wakeups, Guarded, Announced, Sleepy

-----------------------------------------------------------------------------
(* The threads that handle events.                                         *)

\* taking the role of the handler, polling, reaping, completing
LEMMA HandlingKeepsWakeups ==
    ASSUME IInv, Wakeups, NEW t \in Handlers,
           \/ TryLockEvents(t) \/ TrylockMutex(t) \/ Recheck(t)
           \/ PollInterrupted(t) \/ PollHotplug(t) \/ PollDevice(t) \/ PollError(t)
           \/ PollTimesOut(t) \/ Disconnect(t) \/ Complete(t) \/ StatusCallback(t)
           \/ Unref(t) \/ Awake(t)
    PROVE  Wakeups'
  <1> USE DEF lockVars, waitVars, dataVars, notifyVars, HandlerPlaces, Goto
  <1>1. CASE TryLockEvents(t)
    BY <1>1, HandlerGoesOn DEF TryLockEvents
  <1>2. CASE TrylockMutex(t)
    <2>1. CASE events_lock = NULL
      BY <1>2, <2>1, HandlerGoesOn DEF TrylockMutex
    <2>2. CASE events_lock # NULL
      <3>1. /\ pc[t] = "trylock" /\ pc' = [pc EXCEPT ![t] = "waiters"]
            /\ UNCHANGED <<event_handler_active, event_waiters, pollfd_modify, completed, current>>
        BY <1>2, <2>2 DEF TrylockMutex
      <3> QED
        BY <3>1, HandlerGoesOn
    <2> QED
      BY <2>1, <2>2
  <1>3. CASE Recheck(t)
    BY <1>3, HandlerGoesOn DEF Recheck
  <1>4. CASE PollInterrupted(t)
    BY <1>4, HandlerGoesOn DEF PollInterrupted
  <1>5. CASE PollHotplug(t)
    BY <1>5, HandlerGoesOn DEF PollHotplug
  <1>6. CASE PollDevice(t)
    BY <1>6, HandlerGoesOn DEF PollDevice
  <1>7. CASE PollError(t)
    BY <1>7, HandlerGoesOn DEF PollError
  <1>8. CASE PollTimesOut(t)
    BY <1>8, HandlerGoesOn DEF PollTimesOut
  <1>9. CASE Disconnect(t)
    BY <1>9, HandlerGoesOn DEF Disconnect, IInv, DataTypes
  <1>10. CASE Complete(t)
    BY <1>10, HandlerGoesOn DEF Complete
  <1>11. CASE StatusCallback(t)
    BY <1>11, HandlerGoesOn DEF StatusCallback
  <1>12. CASE Unref(t)
    BY <1>12, HandlerGoesOn DEF Unref, IInv, DataTypes
  <1>13. CASE Awake(t)
    BY <1>13, HandlerGoesOn DEF Awake, Back
  <1> QED
    BY <1>1, <1>2, <1>3, <1>4, <1>5, <1>6, <1>7, <1>8, <1>9, <1>10, <1>11, <1>12, <1>13

\* a client or the handler thread between its calls of libusb_handle_events
LEMMA CallersKeepWakeups ==
    ASSUME IInv, Wakeups
    PROVE  /\ \A t \in Clients : WaitForCompletion(t) => Wakeups'
           /\ HandlerLoop => Wakeups'
  <1> USE DEF lockVars, waitVars, dataVars, notifyVars, HandlerPlaces, Goto
  <1>1. ASSUME NEW t \in Clients, WaitForCompletion(t)
        PROVE  Wakeups'
    BY <1>1, HandlerGoesOn, Names DEF WaitForCompletion
  <1>2. ASSUME HandlerLoop
        PROVE  Wakeups'
    BY <1>2, HandlerGoesOn, Names DEF HandlerLoop
  <1> QED
    BY <1>1, <1>2

\* only what belongs to the open handle is completed
LEMMA ReapKeepsWakeups ==
    ASSUME IInv, Wakeups, NEW t \in Handlers, Reap(t)
    PROVE  Wakeups'
  <1> USE DEF lockVars, waitVars, notifyVars
  <1>1. /\ pc[t] = "reap"
        /\ UNCHANGED <<event_waiters, event_handler_active, pollfd_modify, completed>>
    BY DEF Reap
  <1>2. CASE UNCHANGED <<pc, current>>
    BY <1>1, <1>2, NobodyMoves
  <1>3. CASE pc' = [pc EXCEPT ![t] = "unlock"] /\ UNCHANGED current
    BY <1>1, <1>3, HandlerGoesOn DEF HandlerPlaces
  <1>4. ASSUME NEW u \in urbs,
               pc' = [pc EXCEPT ![t] = "complete"], current' = [current EXCEPT ![t] = u.x]
        PROVE  Wakeups'
    <2>1. \A s \in Handlers : s # t => current'[s] = current[s]
      BY <1>4 DEF IInv, DataTypes
    <2> QED
      BY <1>1, <1>4, <2>1, HandlerGoesOn DEF HandlerPlaces
  <1> QED
    BY <1>2, <1>3, <1>4 DEF Reap, Finished

\* the flag is set by the thread that will broadcast
LEMMA CallbackKeepsWakeups ==
    ASSUME IInv, Wakeups, NEW t \in Handlers, SyncTransferCallback(t)
    PROVE  Wakeups'
  <1> USE DEF lockVars, waitVars, notifyVars
  <1>1. /\ pc'["camera"] = pc["camera"] /\ pc[t] = "callback" /\ pc'[t] = "broadcast"
        /\ \A s \in Handlers : s # t => pc'[s] = pc[s]
    BY HandlerMoves DEF IInv, SyncTransferCallback, Goto, HandlerPlaces
  <1>2. Guarded'
    BY <1>1 DEF Wakeups, Guarded, SyncTransferCallback
  <1>3. ASSUME NEW c \in Clients, Sleepy(c)', completed'[c]
        PROVE  \E s \in Handlers : pc'[s] = "broadcast" /\ current'[s] = c
    <2>1. CASE current[t] = c
      BY <1>1, <2>1 DEF SyncTransferCallback
    <2>2. CASE current[t] # c
      <3>1. completed[c] /\ Sleepy(c)
        BY <1>1, <1>3, <2>2, Names DEF IInv, DataTypes, SyncTransferCallback, Sleepy
      <3>2. PICK s \in Handlers : pc[s] = "broadcast" /\ current[s] = c
        BY <3>1 DEF Wakeups, Announced
      <3> QED
        BY <1>1, <3>2 DEF SyncTransferCallback
    <2> QED
      BY <2>1, <2>2
  <1> QED
    BY <1>2, <1>3 DEF Wakeups, Announced

\* giving up the role of the handler, and the broadcasts
LEMMA BroadcastsKeepWakeups ==
    ASSUME IInv, Wakeups, NEW t \in Handlers,
           UnlockEvents(t) \/ UnlockWakes(t) \/ CompletionWakes(t)
    PROVE  Wakeups'
  <1> USE DEF lockVars, waitVars, dataVars, notifyVars, Goto
  <1>1. CASE UnlockEvents(t)
    <2>1. /\ pc'["camera"] = pc["camera"] /\ pc[t] = "unlock" /\ pc'[t] = "wake"
          /\ \A s \in Handlers : s # t => pc'[s] = pc[s]
      BY <1>1, HandlerMoves DEF IInv, UnlockEvents, HandlerPlaces
    <2>2. \A c \in Clients : Sleepy(c)' => Sleepy(c)
      BY <1>1, <2>1, Names DEF Sleepy, UnlockEvents
    <2>3. Announced'
      BY <1>1, <2>1, <2>2, AnnouncedKept DEF Wakeups, UnlockEvents
    <2> QED
      BY <2>1, <2>3 DEF Wakeups, Guarded
  <1>2. CASE UnlockWakes(t)
    <2>1. \A s \in Handlers : pc'[s] = IF s = t THEN Back(t) ELSE pc[s]
      BY <1>2, HandlerMoves DEF IInv, UnlockWakes, HandlerPlaces, Back
    <2> QED
      BY <1>2, <2>1, BroadcastWakes DEF UnlockWakes, Back
  <1>3. CASE CompletionWakes(t)
    <2>1. \A s \in Handlers : pc'[s] = IF s = t THEN "unref" ELSE pc[s]
      BY <1>3, HandlerMoves DEF IInv, CompletionWakes, HandlerPlaces
    <2> QED
      BY <1>3, <2>1, BroadcastWakes DEF CompletionWakes
  <1> QED
    BY <1>1, <1>2, <1>3

\* deciding to sleep: the flag is read first, and the lock is held until the
\* thread sleeps; it sleeps only if there is a handler or a pending change
LEMMA SleepingKeepsWakeups ==
    ASSUME IInv, Wakeups, NEW t \in Handlers,
           LockWaiters(t) \/ ModifyPending(t) \/ HandlerActive(t)
    PROVE  Wakeups'
  <1> USE DEF lockVars, waitVars, dataVars, notifyVars, Goto
  <1>1. CASE LockWaiters(t)
    <2>1. CASE Completed(t)
      BY <1>1, <2>1, HandlerGoesOn DEF LockWaiters, Back, HandlerPlaces
    <2>2. CASE ~Completed(t)
      <3>1. /\ pc'["camera"] = pc["camera"] /\ pc[t] = "waiters"
            /\ \A s \in Handlers : s # t => pc'[s] = pc[s]
            /\ UNCHANGED <<event_waiters, event_handler_active, pollfd_modify, completed, current>>
            /\ pc'[t] = "modify"
        BY <1>1, <2>2, HandlerMoves DEF IInv, LockWaiters, HandlerPlaces
      <3>2. Guarded'
        BY <3>1 DEF Wakeups, Guarded
      <3>3. \A c \in Clients : Sleepy(c)' /\ completed[c] => Sleepy(c)
        BY <2>2, <3>1, Names DEF Sleepy, Completed
      <3> QED
        BY <3>1, <3>2, <3>3, AnnouncedKept DEF Wakeups
    <2> QED
      BY <2>1, <2>2
  <1>2. ASSUME NEW q \in {"active", "asleep", "try"},
               pc[t] \in {"modify", "active"}, pc' = [pc EXCEPT ![t] = q],
               UNCHANGED <<event_handler_active, pollfd_modify, completed, current>>,
               \/ event_waiters' = event_waiters
               \/ /\ event_waiters' = event_waiters \cup {t}
                  /\ pollfd_modify > 0 \/ event_handler_active
        PROVE  Wakeups'
    <2>1. /\ pc'["camera"] = pc["camera"]
          /\ \A s \in Handlers : pc'[s] = IF s = t THEN q ELSE pc[s]
      BY <1>2, HandlerMoves DEF IInv, HandlerPlaces
    <2>2. Guarded'
      BY <1>2, <2>1 DEF Wakeups, Guarded
    <2>3. \A c \in Clients : Sleepy(c)' => Sleepy(c)
      BY <1>2, <2>1, Names DEF Sleepy
    <2> QED
      BY <1>2, <2>1, <2>2, <2>3, AnnouncedKept DEF Wakeups
  <1>3. CASE ModifyPending(t)
    BY <1>2, <1>3 DEF ModifyPending, WaitForEvent
  <1>4. CASE HandlerActive(t)
    BY <1>2, <1>4 DEF HandlerActive, WaitForEvent
  <1> QED
    BY <1>1, <1>3, <1>4

-----------------------------------------------------------------------------
(* The camera thread and the kernel.                                       *)

\* a client begins a transfer: its flag is cleared
LEMMA QueryKeepsWakeups ==
    ASSUME IInv, Wakeups, NEW t \in Clients, Query(t)
    PROVE  Wakeups'
  <1> USE DEF lockVars, waitVars, notifyVars
  <1>1. /\ pc'["camera"] = pc["camera"]
        /\ \A s \in Handlers : s # t => pc'[s] = pc[s]
        /\ pc[t] = "idle" /\ pc'[t] \in {"idle", "wait"}
    BY HandlerMoves, Names DEF IInv, Query, ControlTransfer, Goto, HandlerPlaces
  <1>2. /\ UNCHANGED <<event_waiters, event_handler_active, pollfd_modify, current>>
        /\ completed' = [completed EXCEPT ![t] = FALSE]
    BY DEF Query, ControlTransfer
  <1>3. Guarded'
    BY <1>1, <1>2, Names DEF Wakeups, Guarded
  <1>4. ASSUME NEW c \in Clients, Sleepy(c)', completed'[c]
        PROVE  \E s \in Handlers : pc'[s] = "broadcast" /\ current'[s] = c
    <2>1. completed[c] /\ Sleepy(c)
      BY <1>1, <1>2, <1>4, Names DEF IInv, DataTypes, Sleepy
    <2>2. PICK s \in Handlers : pc[s] = "broadcast" /\ current[s] = c
      BY <2>1 DEF Wakeups, Announced
    <2> QED
      BY <1>1, <1>2, <2>2, Names
  <1> QED
    BY <1>3, <1>4 DEF Wakeups, Announced

\* connecting: there is no one to wake, but nothing changes for a thread that sleeps
LEMMA ConnectKeepsWakeups ==
    ASSUME IInv, Wakeups, Connect \/ Release \/ Destroy
    PROVE  Wakeups'
  <1> USE DEF lockVars, waitVars, dataVars, notifyVars, cameraVars, CameraPlaces, At, Goto
  <1>1. CASE InitContext
    BY <1>1, CameraGoesOn DEF InitContext
  <1>2. CASE ConnectAgain
    BY <1>2, CameraGoesOn DEF ConnectAgain
  <1>3. CASE FindDevice
    BY <1>3, CameraGoesOn DEF FindDevice
  <1>4. CASE Open
    BY <1>4, CameraGoesOn DEF Open
  <1>5. CASE Claim
    BY <1>5, CameraGoesOn DEF Claim
  <1>6. CASE SubmitStatus
    BY <1>6, CameraGoesOn DEF SubmitStatus
  <1>7. CASE StartHandlerThread
    <2>1. pc["event"] = "none"
      BY <1>7 DEF StartHandlerThread, IInv, Quiet, Served
    <2>2. /\ pc["camera"] = "start" /\ pc'["camera"] = "connected" /\ pc'["event"] = "loop"
          /\ \A s \in Handlers : s # "event" => pc'[s] = pc[s]
      BY <1>7, Names DEF StartHandlerThread, IInv, PcTypes
    <2>3. UNCHANGED <<event_waiters, event_handler_active, pollfd_modify, completed, current>>
      BY <1>7 DEF StartHandlerThread
    <2>4. Guarded'
      BY <2>1, <2>2, <2>3 DEF Wakeups, Guarded
    <2>5. \A c \in Clients : Sleepy(c)' => Sleepy(c)
      BY <2>2, <2>3, Names DEF Sleepy
    <2> QED
      BY <2>1, <2>2, <2>3, <2>4, <2>5, AnnouncedKept DEF Wakeups
  <1>8. CASE Release
    BY <1>8, CameraGoesOn DEF Release
  <1>9. CASE Destroy
    BY <1>9, CameraGoesOn DEF Destroy
  <1> QED
    BY <1>1, <1>2, <1>3, <1>4, <1>5, <1>6, <1>7, <1>8, <1>9 DEF Connect

\* closing: the pending change and the lock end with a broadcast
LEMMA CloseKeepsWakeups ==
    ASSUME IInv, Wakeups, Close
    PROVE  Wakeups'
  <1> USE DEF lockVars, waitVars, dataVars, notifyVars, cameraVars, CameraPlaces, At, Goto
  <1>1. CASE PreviewStopped
    BY <1>1, CameraGoesOn DEF PreviewStopped
  <1>2. CASE ReleaseInterface
    BY <1>2, CameraGoesOn DEF ReleaseInterface
  <1>3. CASE KillHandlerThread
    BY <1>3, CameraGoesOn DEF KillHandlerThread
  <1>4. CASE CloseModifies
    <2>1. pollfd_modify' > 0
      BY <1>4 DEF CloseModifies, IInv, Life, Modifying
    <2> QED
      BY <1>4, <2>1, CameraGoesOn DEF CloseModifies
  <1>5. CASE CloseInterrupts
    BY <1>5, CameraGoesOn DEF CloseInterrupts
  <1>6. CASE CloseLocks
    BY <1>6, CameraGoesOn DEF CloseLocks
  <1>7. CASE DoClose
    <2>1. /\ pc'["camera"] = "close_wake" /\ \A s \in Handlers : pc'[s] = pc[s]
      BY <1>7, CameraMoves DEF IInv, DoClose
    <2>2. \A c \in Clients : Sleepy(c)' => Sleepy(c)
      BY <1>7, <2>1, Names DEF Sleepy, DoClose
    <2>3. Announced'
      BY <1>7, <2>1, <2>2, AnnouncedKept DEF Wakeups, DoClose
    <2> QED
      BY <2>1, <2>3 DEF Wakeups, Guarded
  <1>8. CASE DoCloseWakes \/ CloseWakes
    <2>1. \A s \in Handlers : pc'[s] = pc[s]
      BY <1>8, CameraMoves DEF IInv, DoCloseWakes, CloseWakes
    <2> QED
      BY <1>8, <2>1, BroadcastWakes DEF DoCloseWakes, CloseWakes
  <1>9. CASE FreeHandle
    BY <1>9, CameraGoesOn DEF FreeHandle
  <1>10. CASE CloseUnlocks
    <2>1. /\ pc'["camera"] = "close_broadcast" /\ \A s \in Handlers : pc'[s] = pc[s]
      BY <1>10, CameraMoves DEF IInv, CloseUnlocks
    <2>2. \A c \in Clients : Sleepy(c)' => Sleepy(c)
      BY <1>10, <2>1, Names DEF Sleepy, CloseUnlocks
    <2>3. Announced'
      BY <1>10, <2>1, <2>2, AnnouncedKept DEF Wakeups, CloseUnlocks
    <2> QED
      BY <2>1, <2>3 DEF Wakeups, Guarded
  <1>11. CASE JoinHandlerThread
    <2>1. pc["event"] \in {"none", "exited"}
      BY <1>11 DEF JoinHandlerThread, IInv, Quiet
    <2>2. /\ pc["camera"] = "join" /\ pc'["camera"] = "closed" /\ pc'["event"] = "none"
          /\ \A s \in Handlers : s # "event" => pc'[s] = pc[s]
      BY <1>11, Names DEF JoinHandlerThread, IInv, PcTypes
    <2>3. UNCHANGED <<event_waiters, event_handler_active, pollfd_modify, completed, current>>
      BY <1>11 DEF JoinHandlerThread
    <2>4. Guarded'
      BY <2>1, <2>2, <2>3 DEF Wakeups, Guarded
    <2>5. \A c \in Clients : Sleepy(c)' => Sleepy(c)
      BY <2>2, <2>3, Names DEF Sleepy
    <2> QED
      BY <2>1, <2>2, <2>3, <2>4, <2>5, AnnouncedKept DEF Wakeups
  <1>12. CASE Released
    BY <1>12, CameraGoesOn DEF Released
  <1> QED
    BY <1>1, <1>2, <1>3, <1>4, <1>5, <1>6, <1>7, <1>8, <1>9, <1>10, <1>11, <1>12 DEF Close

\* every step keeps the wakeups
LEMMA NextKeepsWakeups == IInv /\ Wakeups /\ [Next]_vars => Wakeups'
  <1> SUFFICES ASSUME IInv, Wakeups, [Next]_vars
               PROVE  Wakeups'
    OBVIOUS
  <1>1. ASSUME NEW t \in Clients, Query(t)
        PROVE  Wakeups'
    BY <1>1, QueryKeepsWakeups
  <1>2. CASE HandlerLoop \/ \E t \in Clients : WaitForCompletion(t)
    BY <1>2, CallersKeepWakeups
  <1>3. ASSUME NEW t \in Handlers, HandleEvents(t) \/ PollTimesOut(t)
        PROVE  Wakeups'
    BY <1>3, HandlingKeepsWakeups, ReapKeepsWakeups, CallbackKeepsWakeups,
       BroadcastsKeepWakeups, SleepingKeepsWakeups DEF HandleEvents
  <1>4. ASSUME NEW t \in Handlers, WaitTimesOut(t)
        PROVE  Wakeups'
    BY <1>4, NobodyMoves DEF WaitTimesOut, lockVars, dataVars, notifyVars
  <1>5. CASE Kernel \/ Replug \/ UNCHANGED vars
    BY <1>5, NobodyMoves DEF Kernel, UrbCompletes, Unplug, MonitorSeesRemoval, Replug, vars,
       eventVars, lockVars, waitVars, notifyVars
  <1>6. CASE Connect \/ Release \/ Destroy
    BY <1>6, ConnectKeepsWakeups
  <1>7. CASE Close
    BY <1>7, CloseKeepsWakeups
  <1> QED
    BY <1>1, <1>2, <1>3, <1>4, <1>5, <1>6, <1>7 DEF Next, TimesOut

\* No thread sleeps in libusb_wait_for_event without somebody who will wake it, and no
\* client sleeps through the broadcast of its own completion (io.c:1608-1612,
\* 1722-1726, 2202-2219), though flag, lock and condition belong to different locks.
THEOREM WakeupsAreNotLost == Spec => []NoLostWakeup
  <1>1. DeviceInit => Wakeups
    BY Names DEF DeviceInit, EventInit, Wakeups, Guarded, Announced
  <1>2. IInv /\ Wakeups => NoLostWakeup
    BY DEF Wakeups, Guarded, Announced, Sleepy, NoLostWakeup
  <1> QED
    BY <1>1, <1>2, NextKeepsWakeups, InvariantHolds, PTL DEF Spec

-----------------------------------------------------------------------------
(* The calls.                                                              *)

\* a step that leaves the calls and the handle alone is a stutter
LEMMA CallsUnchanged ==
    ASSUME UNCHANGED <<completed, handle>>,
           \A c \in Clients : pc[c] = "idle" <=> pc'[c] = "idle"
    PROVE  UNCHANGED Transferring!vars
  <1>1. \A c \in Clients : Call(c)' = Call(c)
    BY DEF Call
  <1> QED
    BY <1>1 DEF Transferring!vars

\* a handler that does not leave its place of rest
LEMMA HandlerCallUnchanged ==
    ASSUME IInv, NEW t \in Handlers, NEW q, q # "idle", pc[t] # "idle",
           pc' = [pc EXCEPT ![t] = q], UNCHANGED <<completed, handle>>
    PROVE  UNCHANGED Transferring!vars
  <1>1. \A c \in Clients : pc[c] = "idle" <=> pc'[c] = "idle"
    BY Names DEF IInv, PcTypes
  <1> QED
    BY <1>1, CallsUnchanged

\* the camera thread moves
LEMMA CameraCallUnchanged ==
    ASSUME IInv, NEW q, pc' = [pc EXCEPT !["camera"] = q], UNCHANGED <<completed, handle>>
    PROVE  UNCHANGED Transferring!vars
  <1>1. \A c \in Clients : pc'[c] = pc[c]
    BY Names DEF IInv, PcTypes
  <1> QED
    BY <1>1, CallsUnchanged

\* one call goes on
LEMMA OneCallGoes ==
    ASSUME NEW t \in Clients, NEW to, Call(t)' = to, UNCHANGED handle,
           \A c \in Clients \ {t} : Call(c)' = Call(c)
    PROVE  Transferring!Goes(t, Call(t), to)
  <1> DEFINE call == [c \in Clients |-> Call(c)]
  <1>1. call' = [call EXCEPT ![t] = to]
    OBVIOUS
  <1>2. call[t] = Call(t)
    OBVIOUS
  <1> QED
    BY <1>1, <1>2 DEF Transferring!Goes

\* a query begins a call, or is refused
LEMMA QueryImplements ==
    ASSUME IInv, NEW t \in Clients, Query(t)
    PROVE  [Transferring!Next]_(Transferring!vars)
  <1>1. /\ pc["camera"] = "connected" /\ pc[t] = "idle"
        /\ pc' = [pc EXCEPT ![t] = IF plugged THEN "wait" ELSE "idle"]
        /\ completed' = [completed EXCEPT ![t] = FALSE]
        /\ UNCHANGED handle
    BY DEF Query, ControlTransfer, Goto, fixedVars
  <1>2. handle # 0
    BY <1>1, DeviceAssumption DEF IInv, DataTypes, Life, Opened
  <1>3. \A c \in Clients \ {t} : Call(c)' = Call(c)
    BY <1>1, Names DEF IInv, PcTypes, DataTypes, Call
  <1>4. CASE plugged
    <2>1. Call(t) = "idle" /\ Call(t)' = "pending"
      BY <1>1, <1>4, Names DEF IInv, PcTypes, DataTypes, Call
    <2>2. Transferring!Goes(t, "idle", "pending")
      BY <1>1, <1>3, <2>1, OneCallGoes
    <2> QED
      BY <1>2, <2>2 DEF Transferring!Next, Transferring!Begin
  <1>5. CASE ~plugged
    <2>1. Call(t)' = Call(t)
      BY <1>1, <1>5, Names DEF IInv, PcTypes, Call
    <2> QED
      BY <1>1, <1>3, <2>1 DEF Transferring!vars
  <1> QED
    BY <1>4, <1>5

\* the wait ends when the flag is set
LEMMA WaitImplements ==
    ASSUME IInv, NEW t \in Clients, WaitForCompletion(t)
    PROVE  [Transferring!Next]_(Transferring!vars)
  <1>1. /\ pc[t] = "wait" /\ UNCHANGED <<completed, handle>>
        /\ pc' = [pc EXCEPT ![t] = IF completed[t] THEN "idle" ELSE "try"]
    BY DEF WaitForCompletion, Goto, dataVars, fixedVars
  <1>2. CASE ~completed[t]
    BY <1>1, <1>2, HandlerCallUnchanged, Names
  <1>3. CASE completed[t]
    <2>1. handle # 0
      BY <1>1, Names, DeviceAssumption DEF IInv, DataTypes, Life, Quiet, Opened
    <2>2. \A c \in Clients \ {t} : Call(c)' = Call(c)
      BY <1>1, Names DEF IInv, PcTypes, Call
    <2>3. Call(t) = "done" /\ Call(t)' = "idle"
      BY <1>1, <1>3, Names DEF IInv, PcTypes, Call
    <2>4. Transferring!Goes(t, "done", "idle")
      BY <1>1, <2>2, <2>3, OneCallGoes
    <2> QED
      BY <2>1, <2>4 DEF Transferring!Next, Transferring!Return
  <1> QED
    BY <1>2, <1>3

\* the callback completes the call it belongs to, which is pending
LEMMA CallbackImplements ==
    ASSUME IInv, NEW t \in Handlers, SyncTransferCallback(t)
    PROVE  [Transferring!Next]_(Transferring!vars)
  <1>1. PICK c \in Clients :
           /\ c = current[t] /\ pc[t] = "callback" /\ pc' = [pc EXCEPT ![t] = "broadcast"]
           /\ completed' = [completed EXCEPT ![c] = TRUE] /\ UNCHANGED handle
    BY DEF SyncTransferCallback, Goto, fixedVars
  <1>2. pc[c] # "idle" /\ ~completed[c]
    BY <1>1 DEF IInv, Waits, Done
  <1>3. handle # 0
    BY <1>1, DeviceAssumption DEF IInv, DataTypes, Life, Flights, UsingHandle, Opened
  <1>4. \A d \in Clients \ {c} : Call(d)' = Call(d)
    BY <1>1, Names DEF IInv, PcTypes, DataTypes, Call
  <1>5. Call(c) = "pending" /\ Call(c)' = "done"
    BY <1>1, <1>2, Names DEF IInv, PcTypes, DataTypes, Call
  <1>6. Transferring!Goes(c, "pending", "done")
    BY <1>1, <1>4, <1>5, OneCallGoes
  <1> QED
    BY <1>1, <1>3, <1>6 DEF Transferring!Next, Transferring!Complete

\* every other step of a handler happens inside the calls
LEMMA HandleEventsImplements ==
    ASSUME IInv, NEW t \in Handlers, HandleEvents(t)
    PROVE  [Transferring!Next]_(Transferring!vars)
  <1> USE DEF lockVars, waitVars, dataVars, fixedVars, Goto
  <1>1. CASE TryLockEvents(t) \/ TrylockMutex(t) \/ Recheck(t)
    BY <1>1, HandlerCallUnchanged DEF TryLockEvents, TrylockMutex, Recheck
  <1>2. CASE PollInterrupted(t) \/ PollHotplug(t) \/ PollDevice(t) \/ PollError(t)
    BY <1>2, HandlerCallUnchanged DEF PollInterrupted, PollHotplug, PollDevice, PollError
  <1>3. CASE Reap(t)
    <2>1. /\ pc[t] = "reap" /\ UNCHANGED <<completed, handle>>
          /\ \/ UNCHANGED pc
             \/ \E q \in {"unlock", "complete"} : pc' = [pc EXCEPT ![t] = q]
      BY <1>3 DEF Reap
    <2> QED
      BY <2>1, HandlerCallUnchanged, CallsUnchanged
  <1>4. CASE Disconnect(t)
    <2>1. /\ pc[t] = "disconnect" /\ UNCHANGED <<completed, handle>>
          /\ \E q \in {"unlock", "complete"} : pc' = [pc EXCEPT ![t] = q]
      BY <1>4 DEF Disconnect
    <2> QED
      BY <2>1, HandlerCallUnchanged
  <1>5. CASE Complete(t) \/ StatusCallback(t) \/ CompletionWakes(t) \/ Unref(t)
    BY <1>5, HandlerCallUnchanged DEF Complete, StatusCallback, CompletionWakes, Unref
  <1>6. CASE SyncTransferCallback(t)
    BY <1>6, CallbackImplements
  <1>7. CASE UnlockEvents(t) \/ UnlockWakes(t) \/ Awake(t)
    BY <1>7, HandlerCallUnchanged DEF UnlockEvents, UnlockWakes, Awake, Back
  <1>8. CASE LockWaiters(t)
    <2>1. /\ pc[t] = "waiters" /\ UNCHANGED <<completed, handle>>
          /\ \E q \in {"loop", "wait", "modify"} : pc' = [pc EXCEPT ![t] = q]
      BY <1>8 DEF LockWaiters, Back
    <2> QED
      BY <2>1, HandlerCallUnchanged
  <1>9. CASE ModifyPending(t) \/ HandlerActive(t)
    <2>1. /\ pc[t] \in {"modify", "active"} /\ UNCHANGED <<completed, handle>>
          /\ \E q \in {"asleep", "active", "try"} : pc' = [pc EXCEPT ![t] = q]
      BY <1>9 DEF ModifyPending, HandlerActive, WaitForEvent
    <2> QED
      BY <2>1, HandlerCallUnchanged
  <1> QED
    BY <1>1, <1>2, <1>3, <1>4, <1>5, <1>6, <1>7, <1>8, <1>9 DEF HandleEvents

\* the handle is opened while no client is in a call
LEMMA ConnectImplements ==
    ASSUME IInv, Connect \/ Release \/ Destroy
    PROVE  [Transferring!Next]_(Transferring!vars)
  <1> USE DEF lockVars, waitVars, dataVars, fixedVars, cameraVars, At, Goto
  <1>1. CASE InitContext \/ ConnectAgain
    BY <1>1, CameraCallUnchanged DEF InitContext, ConnectAgain
  <1>2. CASE FindDevice
    BY <1>2, CameraCallUnchanged DEF FindDevice
  <1>3. CASE Open
    <2> DEFINE Opens == /\ pc["camera"] = "open" /\ pc' = [pc EXCEPT !["camera"] = "claim"]
                        /\ handle' = conn /\ UNCHANGED completed
               Fails == pc' = [pc EXCEPT !["camera"] = "idle"] /\ UNCHANGED <<completed, handle>>
    <2>0. Opens \/ Fails
      BY <1>3 DEF Open
    <2>1. CASE Opens
      <3>1. Opens
        BY <2>1
      <3>2. \A c \in Clients : pc[c] = "idle" /\ pc'[c] = "idle"
        BY <3>1, Names DEF IInv, PcTypes, Quiet
      <3>3. handle = 0 /\ handle' # 0
        BY <3>1, DeviceAssumption DEF IInv, DataTypes, Life, Opened
      <3>4. \A c \in Clients : Call(c) = "idle" /\ Call(c)' = "idle"
        BY <3>2 DEF Call
      <3> QED
        BY <3>3, <3>4 DEF Transferring!Next, Transferring!OpenHandle, Transferring!Idle
    <2>2. CASE Fails
      BY <2>2, CameraCallUnchanged
    <2> QED
      BY <2>0, <2>1, <2>2
  <1>4. CASE Claim
    BY <1>4, CameraCallUnchanged DEF Claim
  <1>5. CASE SubmitStatus
    BY <1>5, CameraCallUnchanged DEF SubmitStatus
  <1>6. CASE StartHandlerThread
    <2>1. \A c \in Clients : pc'[c] = pc[c]
      BY <1>6, Names DEF StartHandlerThread, IInv, PcTypes
    <2> QED
      BY <1>6, <2>1, CallsUnchanged DEF StartHandlerThread
  <1>7. CASE Release \/ Destroy
    BY <1>7, CameraCallUnchanged DEF Release, Destroy
  <1> QED
    BY <1>1, <1>2, <1>3, <1>4, <1>5, <1>6, <1>7 DEF Connect

\* the handle is freed while no client is in a call
LEMMA CloseImplements ==
    ASSUME IInv, Close
    PROVE  [Transferring!Next]_(Transferring!vars)
  <1> USE DEF lockVars, waitVars, dataVars, fixedVars, cameraVars, At, Goto
  <1>1. CASE PreviewStopped \/ ReleaseInterface \/ KillHandlerThread \/ CloseModifies
    BY <1>1, CameraCallUnchanged
       DEF PreviewStopped, ReleaseInterface, KillHandlerThread, CloseModifies
  <1>2. CASE CloseInterrupts \/ CloseLocks \/ DoClose \/ DoCloseWakes
    BY <1>2, CameraCallUnchanged DEF CloseInterrupts, CloseLocks, DoClose, DoCloseWakes
  <1>3. CASE FreeHandle
    <2>1. /\ pc["camera"] = "op_close" /\ pc' = [pc EXCEPT !["camera"] = "close_unlock"]
          /\ handle' = 0 /\ UNCHANGED completed
      BY <1>3 DEF FreeHandle
    <2>2. \A c \in Clients : pc[c] = "idle" /\ pc'[c] = "idle"
      BY <2>1, Names DEF IInv, PcTypes, Quiet
    <2>3. handle # 0
      BY <2>1, DeviceAssumption DEF IInv, DataTypes, Life, Opened
    <2>4. \A c \in Clients : Call(c) = "idle" /\ Call(c)' = "idle"
      BY <2>2 DEF Call
    <2> QED
      BY <2>1, <2>3, <2>4 DEF Transferring!Next, Transferring!CloseHandle, Transferring!Idle
  <1>4. CASE CloseUnlocks \/ CloseWakes \/ Released
    BY <1>4, CameraCallUnchanged DEF CloseUnlocks, CloseWakes, Released
  <1>5. CASE JoinHandlerThread
    <2>1. \A c \in Clients : pc'[c] = pc[c]
      BY <1>5, Names DEF JoinHandlerThread, IInv, PcTypes
    <2> QED
      BY <1>5, <2>1, CallsUnchanged DEF JoinHandlerThread
  <1> QED
    BY <1>1, <1>2, <1>3, <1>4, <1>5 DEF Close

\* every step is a step of the promise, or none
LEMMA NextImplements == IInv /\ [Next]_vars => [Transferring!Next]_(Transferring!vars)
  <1> SUFFICES ASSUME IInv, [Next]_vars
               PROVE  [Transferring!Next]_(Transferring!vars)
    OBVIOUS
  <1>1. ASSUME NEW t \in Clients, Query(t) \/ WaitForCompletion(t)
        PROVE  [Transferring!Next]_(Transferring!vars)
    BY <1>1, QueryImplements, WaitImplements
  <1>2. ASSUME NEW t \in Handlers, HandleEvents(t)
        PROVE  [Transferring!Next]_(Transferring!vars)
    BY <1>2, HandleEventsImplements
  <1>3. CASE HandlerLoop
    <2>1. /\ pc["event"] = "loop" /\ UNCHANGED <<completed, handle>>
          /\ \E q \in {"exited", "try"} : pc' = [pc EXCEPT !["event"] = q]
      BY <1>3 DEF HandlerLoop, Goto, dataVars, fixedVars
    <2> QED
      BY <2>1, HandlerCallUnchanged, Names
  <1>4. ASSUME NEW t \in Handlers, TimesOut(t)
        PROVE  [Transferring!Next]_(Transferring!vars)
    BY <1>4, HandlerCallUnchanged, CallsUnchanged
       DEF TimesOut, PollTimesOut, WaitTimesOut, Goto, dataVars, fixedVars
  <1>5. CASE Kernel \/ Replug \/ UNCHANGED vars
    BY <1>5, CallsUnchanged DEF Kernel, UrbCompletes, Unplug, MonitorSeesRemoval, Replug,
       vars, eventVars, fixedVars
  <1>6. CASE Connect \/ Release \/ Destroy
    BY <1>6, ConnectImplements
  <1>7. CASE Close
    BY <1>7, CloseImplements
  <1> QED
    BY <1>1, <1>2, <1>3, <1>4, <1>5, <1>6, <1>7 DEF Next

\* Whoever handles the events, however the camera is pulled out and the handle closed,
\* the synchronous calls keep their promise (sync.c:88-133, core.c:1371-1428).
THEOREM CallsAreSynchronous == Spec => ImplementsSyncTransfers
  <1>1. DeviceInit => Transferring!Init
    BY Names DEF DeviceInit, EventInit, Transferring!Init, Call
  <1> QED
    BY <1>1, NextImplements, InvariantHolds, PTL
       DEF Spec, ImplementsSyncTransfers, Transferring!Spec
=============================================================================

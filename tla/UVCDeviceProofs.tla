--------------------------- MODULE UVCDeviceProofs ---------------------------
(***************************************************************************)
(* The safety of UVCDevice, for any number of clients, connections,        *)
(* queries and interrupts, whether a camera object or its file is used     *)
(* again or not.                                                           *)
(*                                                                         *)
(* The argument: the thread that handles events holds events_lock from the *)
(* trylock to the unlock, and so does libusb_close while it takes the      *)
(* transfers off the list and frees the handle (Locks).  The place of the  *)
(* camera thread says what is open (Life), and outside a connection no     *)
(* other thread runs (Quiet).  Hence what is completed is in flight, an    *)
(* URB of the open handle belongs to a transfer in flight, and a client    *)
(* whose flag is set has neither (Flights).                                *)
(***************************************************************************)
EXTENDS UVCDevice, FiniteSetTheorems, TLAPS

\* Places of a thread that holds events_lock.
Handling == {"recheck", "poll", "unlock", "redo"} \cup UsingHandle

\* Places of the camera thread at which it holds events_lock.
Closing == {"do_close", "close_wake", "op_close", "close_unlock"}

\* Places at which the change of the descriptors is pending.
Modifying == {"write", "lock", "do_close", "close_wake", "op_close"}

\* Places at which the handle is open.
Opened == {"claim", "status", "start", "connected", "stop", "release_if",
           "kill", "modify", "write", "lock", "do_close", "close_wake",
           "op_close"}

\* Places at which a transfer may be in flight.
Flying == {"start", "connected", "stop", "release_if", "kill", "modify",
           "write", "lock", "do_close"}

\* Places at which the handler thread may run.
Served == {"connected", "stop", "release_if", "kill", "modify", "write",
           "lock", "do_close", "close_wake", "op_close", "close_unlock",
           "close_broadcast", "join"}

-----------------------------------------------------------------------------
(* The inductive invariant.                                                *)

PcTypes ==
    /\ pc \in [Threads -> HandlerPlaces \cup CameraPlaces]
    /\ \A t \in Handlers : pc[t] \in HandlerPlaces
    /\ pc["camera"] \in CameraPlaces

DataTypes ==
    /\ events_lock \in Threads \cup {NULL}
    /\ event_waiters_lock \in Handlers \cup {NULL}
    /\ event_waiters \subseteq Handlers
    /\ event_handler_active \in BOOLEAN /\ pollfds \in BOOLEAN
    /\ attached \in BOOLEAN /\ plugged \in BOOLEAN /\ stale \in BOOLEAN
    /\ context \in BOOLEAN /\ kill_handler_thread \in BOOLEAN
    /\ open_devices \in BOOLEAN
    /\ hotplug_pipe \in {0, 1}
    /\ flying_transfers \subseteq Transfers
    /\ IsFiniteSet(flying_transfers)
    /\ completed \in [Clients -> BOOLEAN]
    /\ current \in [Handlers -> Transfers \cup {NULL}]
    /\ interrupts \in 0..MaxInterrupts
    /\ queries \in 0..MaxQueries
    /\ refcnt \in Int /\ abandoned \in Nat
    /\ conn \in 0..MaxConnects /\ finds \in 0..conn
    /\ urbs \subseteq Urbs

\* Who is where holds which lock, and only they do.
Locks ==
    /\ \A t \in Handlers : pc[t] \in Handling <=> events_lock = t
    /\ pc["camera"] \in Closing <=> events_lock = "camera"
    /\ \A t \in Handlers :
          pc[t] \in {"modify", "active"} <=> event_waiters_lock = t
    /\ \A t \in event_waiters : pc[t] = "asleep"

\* What the place of the camera thread says of the connection.
Life ==
    /\ pollfd_modify = IF pc["camera"] \in Modifying THEN 1 ELSE 0
    /\ ctrl_pipe = IF pc["camera"] = "lock" THEN 1 ELSE 0
    /\ fds = IF pc["camera"] \in {"idle", "find"} THEN 0 ELSE 1
    /\ dev_ref = IF pc["camera"] \in {"idle", "find"} THEN 0
                 ELSE IF pc["camera"] = "open" THEN 1 ELSE 2
    /\ handle = IF pc["camera"] \in Opened THEN conn ELSE 0
    /\ pc["camera"] = "find" => conn < MaxConnects
    /\ pc["camera"] \notin {"idle", "find"} => conn >= 1
    /\ pc["camera"] \notin {"idle", "find"} => finds >= 1
    /\ pc["camera"] # "idle" => context
    /\ attached => hotplug_pipe = 0
    /\ ~context => ~attached /\ hotplug_pipe = 0
    /\ pollfds => pc["camera"] \in Opened

\* Outside a connection the clients are idle and there is no handler thread.
Quiet ==
    /\ \A c \in Clients : pc[c] # "idle" => pc["camera"] \in {"connected", "stop"}
    /\ pc["event"] # "none" => open_devices /\ pc["camera"] \in Served
    /\ pc["camera"] \in {"connected", "stop", "kill"} => open_devices
    /\ open_devices => pc["camera"] \in Served \cup {"closed"}

\* The flag that ends the handler thread, and the thread.
Killed ==
    /\ pc["event"] = "exited" => kill_handler_thread
    /\ pc["camera"] \in Served /\ open_devices => pc["event"] # "none"
    /\ context /\ kill_handler_thread => finds >= 1
    /\ finds = 1 /\ pc["camera"] \in {"open", "claim", "status", "start",
                                      "connected", "stop", "release_if", "kill"}
          => ~kill_handler_thread

Flights ==
    /\ flying_transfers # {} => pc["camera"] \in Flying
    /\ \A t \in Handlers :
       /\ pc[t] \in UsingHandle => pc["camera"] \in Opened
       /\ pc[t] = "reap" => pollfds
       /\ pc[t] = "disconnect" => ~pollfds
       /\ pc[t] = "complete" => current[t] \in flying_transfers
       /\ pc[t] = "callback" => current[t] \notin flying_transfers
    /\ \A u \in urbs : u.conn <= conn /\ (pc["camera"] = "open" => u.conn < conn)
    /\ pollfds /\ pc["camera"] \notin {"close_wake", "op_close"} =>
          \A u \in urbs : u.conn = handle =>
             /\ u.x \in flying_transfers
             /\ \A t \in Handlers : pc[t] = "complete" => current[t] # u.x
             /\ \A v \in urbs : v.conn = handle /\ v.x = u.x => v = u

\* A client whose flag is set, and one that waits for nothing, has no transfer.
Done(c) ==
    /\ c \notin flying_transfers
    /\ pollfds => \A u \in urbs : u.conn = handle => u.x # c
    /\ \A t \in Handlers : pc[t] \in {"complete", "callback"} => current[t] # c

Waits == \A c \in Clients : pc[c] = "idle" \/ completed[c] => Done(c)

IInv == PcTypes /\ DataTypes /\ Locks /\ Life /\ Quiet /\ Killed /\ Flights /\ Waits
        /\ RefsAccounted
-----------------------------------------------------------------------------
(* How the program counters move.                                          *)

\* which names are the same thread, transfer or nobody
LEMMA Names ==
    /\ "camera" \notin Handlers /\ "camera" \in Threads
    /\ "event" \in Handlers /\ "event" \notin Clients
    /\ Clients \subseteq Handlers /\ Handlers \subseteq Threads
    /\ \A t \in Threads : t \in Handlers \/ t = "camera"
    /\ \A t \in Handlers : t \in Clients \/ t = "event"
    /\ NULL \notin Threads /\ NULL \notin Transfers
    /\ "status" \notin Clients /\ "status" \in Transfers
    /\ Clients \subseteq Transfers
  BY ClientsAssumption DEF Threads, Handlers, Transfers

\* a handler goes to another place
LEMMA HandlerMoves ==
    ASSUME PcTypes, NEW t \in Handlers, NEW q \in HandlerPlaces,
           pc' = [pc EXCEPT ![t] = q]
    PROVE  /\ PcTypes'
           /\ pc'["camera"] = pc["camera"]
           /\ pc'[t] = q
           /\ \A s \in Handlers : s # t => pc'[s] = pc[s]
  BY Names DEF PcTypes

\* the camera thread goes to another place
LEMMA CameraMoves ==
    ASSUME PcTypes, NEW q \in CameraPlaces, pc' = [pc EXCEPT !["camera"] = q]
    PROVE  /\ PcTypes'
           /\ pc'["camera"] = q
           /\ \A s \in Handlers : pc'[s] = pc[s]
  BY Names DEF PcTypes

\* A handler's step leaves the camera thread and its data alone; the places of
\* rest are for threads that are not handling events.
LEMMA HandlerQuiet ==
    ASSUME PcTypes, Quiet, Killed, NEW t \in Handlers,
           pc[t] \notin {"idle", "none"},
           NEW q \in HandlerPlaces \ {"none", "exited"},
           pc' = [pc EXCEPT ![t] = q], UNCHANGED cameraVars
    PROVE  Quiet' /\ Killed'
  <1>1. /\ pc'["camera"] = pc["camera"]
        /\ \A s \in Handlers : pc'[s] = IF s = t THEN q ELSE pc[s]
    BY HandlerMoves
  <1>2. Quiet'
    BY <1>1, Names DEF Quiet, cameraVars
  <1>3. Killed'
    BY <1>1, Names DEF Killed, cameraVars
  <1> QED
    BY <1>2, <1>3

\* a step of a handler that completes nothing and changes locks or waiters only
LEMMA HandlerPlain ==
    ASSUME PcTypes, Life, Flights, Waits, RefsAccounted, NEW t \in Handlers,
           pc[t] \notin {"idle", "complete", "callback", "broadcast", "unref"},
           NEW q \in HandlerPlaces \ (UsingHandle \cup {"idle"}),
           pc' = [pc EXCEPT ![t] = q],
           UNCHANGED cameraVars, UNCHANGED dataVars
    PROVE  Life' /\ Flights' /\ Waits' /\ RefsAccounted'
  <1>1. /\ pc'["camera"] = pc["camera"]
        /\ \A s \in Handlers : pc'[s] = IF s = t THEN q ELSE pc[s]
    BY HandlerMoves
  <1>2. Life'
    BY <1>1 DEF Life, cameraVars, dataVars, notifyVars, deviceVars, fixedVars
  <1>3. Flights'
    BY <1>1 DEF Flights, cameraVars, dataVars, deviceVars, fixedVars, flyVars, UsingHandle
  <1>4. Waits'
    BY <1>1, Names DEF Waits, Done, cameraVars, dataVars, deviceVars, fixedVars, flyVars, UsingHandle
  <1>5. Completing' = Completing
    BY <1>1 DEF Completing, UsingHandle
  <1>6. RefsAccounted'
    BY <1>5 DEF RefsAccounted, cameraVars, dataVars, deviceVars, fixedVars, flyVars
  <1> QED
    BY <1>2, <1>3, <1>4, <1>6

\* the whole invariant after such a step, but for the locks
LEMMA PlainStep ==
    ASSUME IInv, NEW t \in Handlers,
           pc[t] \notin {"idle", "none", "complete", "callback", "broadcast", "unref"},
           NEW q \in HandlerPlaces \ (UsingHandle \cup {"idle", "none", "exited"}),
           pc' = [pc EXCEPT ![t] = q],
           UNCHANGED cameraVars, UNCHANGED dataVars, DataTypes', Locks'
    PROVE  IInv'
  <1>1. PcTypes'
    BY HandlerMoves DEF IInv
  <1>2. Quiet' /\ Killed'
    BY HandlerQuiet DEF IInv
  <1>3. Life' /\ Flights' /\ Waits' /\ RefsAccounted'
    BY HandlerPlain DEF IInv
  <1> QED
    BY <1>1, <1>2, <1>3 DEF IInv

-----------------------------------------------------------------------------
(* Becoming the handler and waiting for one.                               *)

\* the descriptors are about to change, or the trylock follows
LEMMA TryLockEventsStep ==
    ASSUME IInv, NEW t \in Handlers, TryLockEvents(t), UNCHANGED cameraVars
    PROVE  IInv'
  <1> DEFINE q == IF pollfd_modify > 0 THEN "waiters" ELSE "trylock"
  <1>1. q \in HandlerPlaces \ (UsingHandle \cup {"idle", "none", "exited"})
    BY DEF HandlerPlaces, UsingHandle
  <1>2. pc[t] = "try" /\ pc' = [pc EXCEPT ![t] = q] /\ UNCHANGED dataVars
    BY DEF TryLockEvents, Goto
  <1>3. /\ pc'["camera"] = pc["camera"]
        /\ \A s \in Handlers : pc'[s] = IF s = t THEN q ELSE pc[s]
    BY <1>1, <1>2, HandlerMoves DEF IInv
  <1>4. DataTypes'
    BY <1>2, Names DEF IInv, TryLockEvents, DataTypes, lockVars, waitVars, dataVars, notifyVars, deviceVars, fixedVars, flyVars, cameraVars
  <1>5. Locks'
    BY <1>2, <1>3, Names DEF IInv, TryLockEvents, Locks, Handling, UsingHandle, Closing, lockVars, waitVars
  <1> QED
    BY <1>1, <1>2, <1>4, <1>5, PlainStep

\* only a free lock is taken
LEMMA TrylockMutexStep ==
    ASSUME IInv, NEW t \in Handlers, TrylockMutex(t), UNCHANGED cameraVars
    PROVE  IInv'
  <1> DEFINE q == IF events_lock = NULL THEN "recheck" ELSE "waiters"
  <1>1. q \in HandlerPlaces \ (UsingHandle \cup {"idle", "none", "exited"})
    BY DEF HandlerPlaces, UsingHandle
  <1>2. pc[t] = "trylock" /\ pc' = [pc EXCEPT ![t] = q] /\ UNCHANGED dataVars
    BY DEF TrylockMutex, Goto
  <1>3. /\ pc'["camera"] = pc["camera"]
        /\ \A s \in Handlers : pc'[s] = IF s = t THEN q ELSE pc[s]
    BY <1>1, <1>2, HandlerMoves DEF IInv
  <1>4. DataTypes'
    BY <1>2, Names DEF IInv, TrylockMutex, DataTypes, lockVars, waitVars, dataVars, notifyVars, deviceVars, fixedVars, flyVars, cameraVars
  <1>5. Locks'
    BY <1>2, <1>3, Names DEF IInv, TrylockMutex, Locks, Handling, UsingHandle, Closing, lockVars, waitVars
  <1> QED
    BY <1>1, <1>2, <1>4, <1>5, PlainStep

\* the handler still holds the lock
LEMMA RecheckStep ==
    ASSUME IInv, NEW t \in Handlers, Recheck(t), UNCHANGED cameraVars
    PROVE  IInv'
  <1> DEFINE q == IF Completed(t) THEN "unlock" ELSE "poll"
  <1>1. q \in HandlerPlaces \ (UsingHandle \cup {"idle", "none", "exited"})
    BY DEF HandlerPlaces, UsingHandle
  <1>2. pc[t] = "recheck" /\ pc' = [pc EXCEPT ![t] = q] /\ UNCHANGED dataVars
    BY DEF Recheck, Goto
  <1>3. /\ pc'["camera"] = pc["camera"]
        /\ \A s \in Handlers : pc'[s] = IF s = t THEN q ELSE pc[s]
    BY <1>1, <1>2, HandlerMoves DEF IInv
  <1>4. DataTypes'
    BY <1>2, Names DEF IInv, Recheck, DataTypes, lockVars, waitVars, dataVars, notifyVars, deviceVars, fixedVars, flyVars, cameraVars
  <1>5. Locks'
    BY <1>2, <1>3, Names DEF IInv, Recheck, Locks, Handling, UsingHandle, Closing, lockVars, waitVars
  <1> QED
    BY <1>1, <1>2, <1>4, <1>5, PlainStep

\* the byte in the control pipe ends the poll
LEMMA PollInterruptedStep ==
    ASSUME IInv, NEW t \in Handlers, PollInterrupted(t), UNCHANGED cameraVars
    PROVE  IInv'
  <1> DEFINE q == "unlock"
  <1>1. q \in HandlerPlaces \ (UsingHandle \cup {"idle", "none", "exited"})
    BY DEF HandlerPlaces, UsingHandle
  <1>2. pc[t] = (IF pc[t] = "redo" THEN "redo" ELSE "poll") /\ pc' = [pc EXCEPT ![t] = q] /\ UNCHANGED dataVars
    BY DEF PollInterrupted, Goto
  <1>3. /\ pc'["camera"] = pc["camera"]
        /\ \A s \in Handlers : pc'[s] = IF s = t THEN q ELSE pc[s]
    BY <1>1, <1>2, HandlerMoves DEF IInv
  <1>4. DataTypes'
    BY <1>2, Names DEF IInv, PollInterrupted, DataTypes, lockVars, waitVars, dataVars, notifyVars, deviceVars, fixedVars, flyVars, cameraVars
  <1>5. Locks'
    BY <1>2, <1>3, Names DEF IInv, PollInterrupted, Locks, Handling, UsingHandle, Closing, lockVars, waitVars
  <1> QED
    BY <1>1, <1>2, <1>4, <1>5, PlainStep

\* the 60 seconds are over
LEMMA PollTimesOutStep ==
    ASSUME IInv, NEW t \in Handlers, PollTimesOut(t), UNCHANGED cameraVars
    PROVE  IInv'
  <1> DEFINE q == "unlock"
  <1>1. q \in HandlerPlaces \ (UsingHandle \cup {"idle", "none", "exited"})
    BY DEF HandlerPlaces, UsingHandle
  <1>2. pc[t] = "poll" /\ pc' = [pc EXCEPT ![t] = q] /\ UNCHANGED dataVars
    BY DEF PollTimesOut, Goto
  <1>3. /\ pc'["camera"] = pc["camera"]
        /\ \A s \in Handlers : pc'[s] = IF s = t THEN q ELSE pc[s]
    BY <1>1, <1>2, HandlerMoves DEF IInv
  <1>4. DataTypes'
    BY <1>2, Names DEF IInv, PollTimesOut, DataTypes, lockVars, waitVars, dataVars, notifyVars, deviceVars, fixedVars, flyVars, cameraVars
  <1>5. Locks'
    BY <1>2, <1>3, Names DEF IInv, PollTimesOut, Locks, Handling, UsingHandle, Closing, lockVars, waitVars
  <1> QED
    BY <1>1, <1>2, <1>4, <1>5, PlainStep

\* the owner gives the lock back
LEMMA UnlockEventsStep ==
    ASSUME IInv, NEW t \in Handlers, UnlockEvents(t), UNCHANGED cameraVars
    PROVE  IInv'
  <1> DEFINE q == "wake"
  <1>1. q \in HandlerPlaces \ (UsingHandle \cup {"idle", "none", "exited"})
    BY DEF HandlerPlaces, UsingHandle
  <1>2. pc[t] = "unlock" /\ pc' = [pc EXCEPT ![t] = q] /\ UNCHANGED dataVars
    BY DEF UnlockEvents, Goto
  <1>3. /\ pc'["camera"] = pc["camera"]
        /\ \A s \in Handlers : pc'[s] = IF s = t THEN q ELSE pc[s]
    BY <1>1, <1>2, HandlerMoves DEF IInv
  <1>4. DataTypes'
    BY <1>2, Names DEF IInv, UnlockEvents, DataTypes, lockVars, waitVars, dataVars, notifyVars, deviceVars, fixedVars, flyVars, cameraVars
  <1>5. Locks'
    BY <1>2, <1>3, Names DEF IInv, UnlockEvents, Locks, Handling, UsingHandle, Closing, lockVars, waitVars
  <1> QED
    BY <1>1, <1>2, <1>4, <1>5, PlainStep

\* the waiters are woken
LEMMA UnlockWakesStep ==
    ASSUME IInv, NEW t \in Handlers, UnlockWakes(t), UNCHANGED cameraVars
    PROVE  IInv'
  <1> DEFINE q == Back(t)
  <1>1. q \in HandlerPlaces \ (UsingHandle \cup {"idle", "none", "exited"})
    BY DEF HandlerPlaces, UsingHandle, Back
  <1>2. pc[t] = "wake" /\ pc' = [pc EXCEPT ![t] = q] /\ UNCHANGED dataVars
    BY DEF UnlockWakes, Goto, WakeWaiters
  <1>3. /\ pc'["camera"] = pc["camera"]
        /\ \A s \in Handlers : pc'[s] = IF s = t THEN q ELSE pc[s]
    BY <1>1, <1>2, HandlerMoves DEF IInv
  <1>4. DataTypes'
    BY <1>2, Names DEF IInv, UnlockWakes, WakeWaiters, DataTypes, lockVars, waitVars, dataVars, notifyVars, deviceVars, fixedVars, flyVars, cameraVars
  <1>5. Locks'
    BY <1>2, <1>3, Names DEF IInv, UnlockWakes, WakeWaiters, Locks, Handling, UsingHandle, Closing, lockVars, waitVars, Back
  <1> QED
    BY <1>1, <1>2, <1>4, <1>5, PlainStep

\* only a free event_waiters_lock is taken
LEMMA LockWaitersStep ==
    ASSUME IInv, NEW t \in Handlers, LockWaiters(t), UNCHANGED cameraVars
    PROVE  IInv'
  <1> DEFINE q == IF Completed(t) THEN Back(t) ELSE "modify"
  <1>1. q \in HandlerPlaces \ (UsingHandle \cup {"idle", "none", "exited"})
    BY DEF HandlerPlaces, UsingHandle, Back
  <1>2. pc[t] = "waiters" /\ pc' = [pc EXCEPT ![t] = q] /\ UNCHANGED dataVars
    BY DEF LockWaiters, Goto
  <1>3. /\ pc'["camera"] = pc["camera"]
        /\ \A s \in Handlers : pc'[s] = IF s = t THEN q ELSE pc[s]
    BY <1>1, <1>2, HandlerMoves DEF IInv
  <1>4. DataTypes'
    BY <1>2, Names DEF IInv, LockWaiters, DataTypes, lockVars, waitVars, dataVars, notifyVars, deviceVars, fixedVars, flyVars, cameraVars
  <1>5. Locks'
    BY <1>2, <1>3, Names DEF IInv, LockWaiters, Locks, Handling, UsingHandle, Closing, lockVars, waitVars, Back
  <1> QED
    BY <1>1, <1>2, <1>4, <1>5, PlainStep

\* the thread sleeps and gives event_waiters_lock back, or keeps it
LEMMA ModifyPendingStep ==
    ASSUME IInv, NEW t \in Handlers, ModifyPending(t), UNCHANGED cameraVars
    PROVE  IInv'
  <1> DEFINE q == IF pollfd_modify > 0 THEN "asleep" ELSE "active"
  <1>1. q \in HandlerPlaces \ (UsingHandle \cup {"idle", "none", "exited"})
    BY DEF HandlerPlaces, UsingHandle
  <1>2. pc[t] = "modify" /\ pc' = [pc EXCEPT ![t] = q] /\ UNCHANGED dataVars
    BY DEF ModifyPending, Goto, WaitForEvent
  <1>3. /\ pc'["camera"] = pc["camera"]
        /\ \A s \in Handlers : pc'[s] = IF s = t THEN q ELSE pc[s]
    BY <1>1, <1>2, HandlerMoves DEF IInv
  <1>4. DataTypes'
    BY <1>2, Names DEF IInv, ModifyPending, WaitForEvent, DataTypes, lockVars, waitVars, dataVars, notifyVars, deviceVars, fixedVars, flyVars, cameraVars
  <1>5. Locks'
    BY <1>2, <1>3, Names DEF IInv, ModifyPending, WaitForEvent, Locks, Handling, UsingHandle, Closing, lockVars, waitVars
  <1> QED
    BY <1>1, <1>2, <1>4, <1>5, PlainStep

\* in both cases event_waiters_lock is given back
LEMMA HandlerActiveStep ==
    ASSUME IInv, NEW t \in Handlers, HandlerActive(t), UNCHANGED cameraVars
    PROVE  IInv'
  <1> DEFINE q == IF event_handler_active THEN "asleep" ELSE "try"
  <1>1. q \in HandlerPlaces \ (UsingHandle \cup {"idle", "none", "exited"})
    BY DEF HandlerPlaces, UsingHandle
  <1>2. pc[t] = "active" /\ pc' = [pc EXCEPT ![t] = q] /\ UNCHANGED dataVars
    BY DEF HandlerActive, Goto, WaitForEvent
  <1>3. /\ pc'["camera"] = pc["camera"]
        /\ \A s \in Handlers : pc'[s] = IF s = t THEN q ELSE pc[s]
    BY <1>1, <1>2, HandlerMoves DEF IInv
  <1>4. DataTypes'
    BY <1>2, Names DEF IInv, HandlerActive, WaitForEvent, DataTypes, lockVars, waitVars, dataVars, notifyVars, deviceVars, fixedVars, flyVars, cameraVars
  <1>5. Locks'
    BY <1>2, <1>3, Names DEF IInv, HandlerActive, WaitForEvent, Locks, Handling, UsingHandle, Closing, lockVars, waitVars
  <1> QED
    BY <1>1, <1>2, <1>4, <1>5, PlainStep

\* a woken thread goes on
LEMMA AwakeStep ==
    ASSUME IInv, NEW t \in Handlers, Awake(t), UNCHANGED cameraVars
    PROVE  IInv'
  <1> DEFINE q == Back(t)
  <1>1. q \in HandlerPlaces \ (UsingHandle \cup {"idle", "none", "exited"})
    BY DEF HandlerPlaces, UsingHandle, Back
  <1>2. pc[t] = "asleep" /\ pc' = [pc EXCEPT ![t] = q] /\ UNCHANGED dataVars
    BY DEF Awake, Goto
  <1>3. /\ pc'["camera"] = pc["camera"]
        /\ \A s \in Handlers : pc'[s] = IF s = t THEN q ELSE pc[s]
    BY <1>1, <1>2, HandlerMoves DEF IInv
  <1>4. DataTypes'
    BY <1>2, Names DEF IInv, Awake, DataTypes, lockVars, waitVars, dataVars, notifyVars, deviceVars, fixedVars, flyVars, cameraVars
  <1>5. Locks'
    BY <1>2, <1>3, Names DEF IInv, Awake, Locks, Handling, UsingHandle, Closing, lockVars, waitVars, Back
  <1> QED
    BY <1>1, <1>2, <1>4, <1>5, PlainStep

\* the wait ends without another thread's doing
LEMMA WaitTimesOutStep ==
    ASSUME IInv, NEW t \in Handlers, WaitTimesOut(t), UNCHANGED cameraVars
    PROVE  IInv'
  <1>1. UNCHANGED <<pc, lockVars, dataVars, event_waiters_lock, cameraVars>>
        /\ event_waiters' = event_waiters \ {t}
    BY DEF WaitTimesOut
  <1> USE DEF lockVars, dataVars, notifyVars, deviceVars, fixedVars, flyVars, cameraVars
  <1>2. PcTypes' /\ DataTypes'
    BY <1>1 DEF IInv, PcTypes, DataTypes
  <1>3. Locks' /\ Life' /\ Quiet' /\ Killed'
    BY <1>1 DEF IInv, Locks, Life, Quiet, Killed
  <1>4. Flights' /\ Waits'
    BY <1>1 DEF IInv, Flights, Waits, Done
  <1>5. Completing' = Completing
    BY <1>1 DEF Completing
  <1>6. RefsAccounted'
    BY <1>1, <1>5 DEF IInv, RefsAccounted
  <1> QED
    BY <1>2, <1>3, <1>4, <1>6 DEF IInv

\* a synchronous transfer returns once its flag is set
LEMMA WaitForCompletionStep ==
    ASSUME IInv, NEW t \in Clients, WaitForCompletion(t), UNCHANGED cameraVars
    PROVE  IInv'
  <1> DEFINE q == IF completed[t] THEN "idle" ELSE "try"
  <1>1. q \in HandlerPlaces \ (UsingHandle \cup {"none", "exited"})
    BY DEF HandlerPlaces, UsingHandle
  <1>2. /\ pc[t] = "wait" /\ pc' = [pc EXCEPT ![t] = q]
        /\ UNCHANGED <<lockVars, waitVars, dataVars>>
        /\ t \in Handlers
    BY Names DEF WaitForCompletion, Goto
  <1>3. /\ pc'["camera"] = pc["camera"]
        /\ \A s \in Handlers : pc'[s] = IF s = t THEN q ELSE pc[s]
        /\ PcTypes'
    BY <1>1, <1>2, HandlerMoves DEF IInv
  <1>4. Quiet' /\ Killed'
    BY <1>1, <1>2, HandlerQuiet DEF IInv
  <1> USE DEF lockVars, waitVars, dataVars, notifyVars, deviceVars, fixedVars, flyVars, cameraVars
  <1>5. DataTypes'
    BY <1>2, Names DEF IInv, DataTypes
  <1>6. Locks'
    BY <1>2, <1>3, Names DEF IInv, Locks, Handling, UsingHandle, Closing
  <1>7. Life'
    BY <1>2, <1>3 DEF IInv, Life
  <1>8. Flights'
    BY <1>2, <1>3 DEF IInv, Flights, UsingHandle
  <1>9. Waits'
    BY <1>2, <1>3, Names DEF IInv, Waits, Done
  <1>10. Completing' = Completing
    BY <1>2, <1>3 DEF Completing
  <1>11. RefsAccounted'
    BY <1>2, <1>10 DEF IInv, RefsAccounted
  <1> QED
    BY <1>3, <1>4, <1>5, <1>6, <1>7, <1>8, <1>9, <1>11 DEF IInv

\* the handler thread ends only when it is told to
LEMMA HandlerLoopStep ==
    ASSUME IInv, HandlerLoop
    PROVE  IInv'
  <1> DEFINE q == IF kill_handler_thread THEN "exited" ELSE "try"
  <1>1. q \in HandlerPlaces \ (UsingHandle \cup {"idle", "none"})
    BY DEF HandlerPlaces, UsingHandle
  <1>2. /\ pc["event"] = "loop" /\ pc' = [pc EXCEPT !["event"] = q]
        /\ UNCHANGED <<lockVars, waitVars, dataVars, cameraVars>>
    BY DEF HandlerLoop, Goto
  <1>3. /\ pc'["camera"] = pc["camera"]
        /\ \A s \in Handlers : pc'[s] = IF s = "event" THEN q ELSE pc[s]
        /\ PcTypes'
    BY <1>1, <1>2, HandlerMoves, Names DEF IInv
  <1>4. Life' /\ Flights' /\ Waits' /\ RefsAccounted'
    BY <1>1, <1>2, HandlerPlain, Names DEF IInv
  <1> USE DEF lockVars, waitVars, dataVars, notifyVars, deviceVars, fixedVars, flyVars, cameraVars
  <1>5. DataTypes'
    BY <1>2, Names DEF IInv, DataTypes
  <1>6. Locks'
    BY <1>2, <1>3, Names DEF IInv, Locks, Handling, UsingHandle, Closing
  <1>7. Quiet'
    BY <1>2, <1>3, Names DEF IInv, Quiet
  <1>8. Killed'
    BY <1>2, <1>3, Names DEF IInv, Killed
  <1> QED
    BY <1>3, <1>4, <1>5, <1>6, <1>7, <1>8 DEF IInv

-----------------------------------------------------------------------------
(* Polling, completing and disconnecting.                                  *)

\* the handler t is the only one, and the camera thread is not closing
Alone(t) == /\ \A s \in Handlers : pc[s] \in Handling => s = t
            /\ pc["camera"] \notin Closing

\* whoever is at such a place has the lock
LEMMA HandlerAlone ==
    ASSUME PcTypes, Locks, NEW t \in Handlers, pc[t] \in Handling
    PROVE  Alone(t)
  BY Names DEF Locks, Alone

\* a thread about to complete: no other has a reference to drop
LEMMA CompletingAlone ==
    ASSUME NEW t \in Handlers, Alone(t)
    PROVE  Completing = IF pc[t] \in {"callback", "broadcast", "unref"} THEN {t} ELSE {}
  BY DEF Alone, Completing, Handling, UsingHandle

\* every summand of RefsAccounted is a number
LEMMA Numbers ==
    ASSUME PcTypes, DataTypes, Locks, Life
    PROVE  /\ Cardinality(flying_transfers) \in Nat
           /\ Cardinality(Completing) \in Nat
           /\ hotplug_pipe \in Nat /\ dev_ref \in Nat /\ finds \in Nat
           /\ abandoned \in Nat /\ refcnt \in Int /\ handle \in Nat
           /\ conn \in Nat
  <1>1. Completing \subseteq {events_lock}
    BY DEF Locks, Completing, Handling, UsingHandle
  <1>2. IsFiniteSet(Completing)
    BY <1>1, FS_Singleton, FS_Subset
  <1>3. Cardinality(flying_transfers) \in Nat /\ Cardinality(Completing) \in Nat
    BY <1>2, FS_CardinalityType DEF DataTypes
  <1> QED
    BY <1>3, DeviceAssumption DEF DataTypes, Life

\* the message's reference goes with the message
LEMMA PollHotplugStep ==
    ASSUME IInv, NEW t \in Handlers, PollHotplug(t), UNCHANGED cameraVars
    PROVE  IInv'
  <1> DEFINE q == "redo"
  <1>1. q \in HandlerPlaces \ {"idle", "none", "exited"}
    BY DEF HandlerPlaces
  <1>2. pc[t] \in {"poll", "redo"} /\ pc' = [pc EXCEPT ![t] = q]
    BY DEF PollHotplug, Goto
  <1>3. /\ pc'["camera"] = pc["camera"]
        /\ \A s \in Handlers : pc'[s] = IF s = t THEN q ELSE pc[s]
        /\ PcTypes'
    BY <1>1, <1>2, HandlerMoves DEF IInv
  <1>4. Quiet' /\ Killed'
    BY <1>1, <1>2, HandlerQuiet DEF IInv
  <1>5. Alone(t)
    BY <1>2, HandlerAlone DEF IInv, Handling, UsingHandle
  <1> USE DEF lockVars, waitVars, dataVars, notifyVars, deviceVars, fixedVars, flyVars, cameraVars
  <1>6. DataTypes'
    BY <1>2, <1>3, Names DEF IInv, PollHotplug, DataTypes
  <1>7. Locks'
    BY <1>2, <1>3, Names DEF IInv, PollHotplug, Locks, Handling, UsingHandle, Closing
  <1>8. Life'
    BY <1>2, <1>3, Names DEF IInv, PollHotplug, Life
  <1>9. Flights'
    BY <1>2, <1>3, <1>5, Names
       DEF IInv, PollHotplug, Flights, Alone, Handling, UsingHandle, Closing
  <1>10. Waits'
    BY <1>2, <1>3, <1>5, Names
       DEF IInv, PollHotplug, Waits, Done, Alone, Handling, UsingHandle, Closing
  <1>11. RefsAccounted'
    <2>1. Completing' = Completing
      BY <1>2, <1>3 DEF Completing
    <2> QED
      BY <1>2, <2>1, Numbers DEF IInv, PollHotplug, RefsAccounted
  <1> QED
    BY <1>3, <1>4, <1>6, <1>7, <1>8, <1>9, <1>10, <1>11 DEF IInv

\* something of the open device can be reaped
LEMMA PollDeviceStep ==
    ASSUME IInv, NEW t \in Handlers, PollDevice(t), UNCHANGED cameraVars
    PROVE  IInv'
  <1> DEFINE q == "reap"
  <1>1. q \in HandlerPlaces \ {"idle", "none", "exited"}
    BY DEF HandlerPlaces
  <1>2. pc[t] \in {"poll", "redo"} /\ pc' = [pc EXCEPT ![t] = q]
    BY DEF PollDevice, Goto
  <1>3. /\ pc'["camera"] = pc["camera"]
        /\ \A s \in Handlers : pc'[s] = IF s = t THEN q ELSE pc[s]
        /\ PcTypes'
    BY <1>1, <1>2, HandlerMoves DEF IInv
  <1>4. Quiet' /\ Killed'
    BY <1>1, <1>2, HandlerQuiet DEF IInv
  <1>5. Alone(t)
    BY <1>2, HandlerAlone DEF IInv, Handling, UsingHandle
  <1> USE DEF lockVars, waitVars, dataVars, notifyVars, deviceVars, fixedVars, flyVars, cameraVars
  <1>6. DataTypes'
    BY <1>2, <1>3, Names DEF IInv, PollDevice, DataTypes
  <1>7. Locks'
    BY <1>2, <1>3, Names DEF IInv, PollDevice, Locks, Handling, UsingHandle, Closing
  <1>8. Life'
    BY <1>2, <1>3, Names DEF IInv, PollDevice, Life
  <1>9. Flights'
    BY <1>2, <1>3, <1>5, Names DEF IInv, PollDevice, Flights, Life, Alone, Handling, UsingHandle, Closing
  <1>10. Waits'
    BY <1>2, <1>3, <1>5, Names
       DEF IInv, PollDevice, Waits, Done, Alone, Handling, UsingHandle, Closing
  <1>11. RefsAccounted'
    <2>1. Completing' = Completing
      BY <1>2, <1>3 DEF Completing
    <2> QED
      BY <1>2, <2>1 DEF IInv, PollDevice, RefsAccounted
  <1> QED
    BY <1>3, <1>4, <1>6, <1>7, <1>8, <1>9, <1>10, <1>11 DEF IInv

\* the descriptor is polled no longer
LEMMA PollErrorStep ==
    ASSUME IInv, NEW t \in Handlers, PollError(t), UNCHANGED cameraVars
    PROVE  IInv'
  <1> DEFINE q == "disconnect"
  <1>1. q \in HandlerPlaces \ {"idle", "none", "exited"}
    BY DEF HandlerPlaces
  <1>2. pc[t] \in {"poll", "redo"} /\ pc' = [pc EXCEPT ![t] = q]
    BY DEF PollError, Goto
  <1>3. /\ pc'["camera"] = pc["camera"]
        /\ \A s \in Handlers : pc'[s] = IF s = t THEN q ELSE pc[s]
        /\ PcTypes'
    BY <1>1, <1>2, HandlerMoves DEF IInv
  <1>4. Quiet' /\ Killed'
    BY <1>1, <1>2, HandlerQuiet DEF IInv
  <1>5. Alone(t)
    BY <1>2, HandlerAlone DEF IInv, Handling, UsingHandle
  <1> USE DEF lockVars, waitVars, dataVars, notifyVars, deviceVars, fixedVars, flyVars, cameraVars
  <1>6. DataTypes'
    BY <1>2, <1>3, Names DEF IInv, PollError, DataTypes
  <1>7. Locks'
    BY <1>2, <1>3, Names DEF IInv, PollError, Locks, Handling, UsingHandle, Closing
  <1>8. Life'
    BY <1>2, <1>3, Names DEF IInv, PollError, Life
  <1>9. Flights'
    BY <1>2, <1>3, <1>5, Names DEF IInv, PollError, Flights, Life, Alone, Handling, UsingHandle, Closing
  <1>10. Waits'
    BY <1>2, <1>3, <1>5, Names
       DEF IInv, PollError, Waits, Done, Alone, Handling, UsingHandle, Closing
  <1>11. RefsAccounted'
    <2>1. Completing' = Completing
      BY <1>2, <1>3 DEF Completing
    <2> QED
      BY <1>2, <2>1 DEF IInv, PollError, RefsAccounted
  <1> QED
    BY <1>3, <1>4, <1>6, <1>7, <1>8, <1>9, <1>10, <1>11 DEF IInv

\* the transfer is in flight no longer
LEMMA CompleteStep ==
    ASSUME IInv, NEW t \in Handlers, Complete(t), UNCHANGED cameraVars
    PROVE  IInv'
  <1> DEFINE q == "callback"
  <1>1. q \in HandlerPlaces \ {"idle", "none", "exited"}
    BY DEF HandlerPlaces
  <1>2. pc[t] = "complete" /\ pc' = [pc EXCEPT ![t] = q]
    BY DEF Complete, Goto
  <1>3. /\ pc'["camera"] = pc["camera"]
        /\ \A s \in Handlers : pc'[s] = IF s = t THEN q ELSE pc[s]
        /\ PcTypes'
    BY <1>1, <1>2, HandlerMoves DEF IInv
  <1>4. Quiet' /\ Killed'
    BY <1>1, <1>2, HandlerQuiet DEF IInv
  <1>5. Alone(t)
    BY <1>2, HandlerAlone DEF IInv, Handling, UsingHandle
  <1> USE DEF lockVars, waitVars, dataVars, notifyVars, deviceVars, fixedVars, flyVars, cameraVars
  <1>6. DataTypes'
    <2>1. IsFiniteSet(flying_transfers')
      BY FS_RemoveElement DEF IInv, Complete, DataTypes
    <2> QED
      BY <1>2, <2>1, Names DEF IInv, Complete, DataTypes
  <1>7. Locks'
    BY <1>2, <1>3, Names DEF IInv, Complete, Locks, Handling, UsingHandle, Closing
  <1>8. Life'
    BY <1>2, <1>3, Names DEF IInv, Complete, Life
  <1>9. Flights'
    BY <1>2, <1>3, <1>5, Names
       DEF IInv, Complete, Flights, Alone, Handling, UsingHandle, Closing
  <1>10. Waits'
    BY <1>2, <1>3, <1>5, Names
       DEF IInv, Complete, Waits, Done, Alone, Handling, UsingHandle, Closing
  <1>11. RefsAccounted'
    <2>1. Completing = {}
      BY <1>2, <1>5, CompletingAlone
    <2>2. Completing' = {t}
      BY <1>2, <1>3, <2>1 DEF Completing
    <2>3. Cardinality({}) = 0 /\ Cardinality({t}) = 1
      BY FS_EmptySet, FS_Singleton
    <2>4. Cardinality(Completing') - Cardinality(Completing) = 1
      BY <2>1, <2>2, <2>3
    <2>5. Cardinality(flying_transfers') = Cardinality(flying_transfers) - 1
      BY <1>2, FS_RemoveElement DEF IInv, Complete, DataTypes, Flights
    <2> HIDE DEF Completing
    <2>6. Cardinality(Completing') = Cardinality(Completing) + 1
      BY <2>4, Numbers, <2>2, <2>3 DEF IInv
    <2> QED
      BY <1>2, <2>5, <2>6, Numbers DEF IInv, Complete, RefsAccounted
  <1> QED
    BY <1>3, <1>4, <1>6, <1>7, <1>8, <1>9, <1>10, <1>11 DEF IInv

\* the waiter's flag is set
LEMMA SyncTransferCallbackStep ==
    ASSUME IInv, NEW t \in Handlers, SyncTransferCallback(t), UNCHANGED cameraVars
    PROVE  IInv'
  <1> DEFINE q == "broadcast"
  <1>1. q \in HandlerPlaces \ {"idle", "none", "exited"}
    BY DEF HandlerPlaces
  <1>2. pc[t] = "callback" /\ pc' = [pc EXCEPT ![t] = q]
    BY DEF SyncTransferCallback, Goto
  <1>3. /\ pc'["camera"] = pc["camera"]
        /\ \A s \in Handlers : pc'[s] = IF s = t THEN q ELSE pc[s]
        /\ PcTypes'
    BY <1>1, <1>2, HandlerMoves DEF IInv
  <1>4. Quiet' /\ Killed'
    BY <1>1, <1>2, HandlerQuiet DEF IInv
  <1>5. Alone(t)
    BY <1>2, HandlerAlone DEF IInv, Handling, UsingHandle
  <1> USE DEF lockVars, waitVars, dataVars, notifyVars, deviceVars, fixedVars, flyVars, cameraVars
  <1>6. DataTypes'
    BY <1>2, <1>3, Names DEF IInv, SyncTransferCallback, DataTypes
  <1>7. Locks'
    BY <1>2, <1>3, Names DEF IInv, SyncTransferCallback, Locks, Handling, UsingHandle, Closing
  <1>8. Life'
    BY <1>2, <1>3, Names DEF IInv, SyncTransferCallback, Life
  <1>9. Flights'
    BY <1>2, <1>3, <1>5, Names
       DEF IInv, SyncTransferCallback, Flights, Alone, Handling, UsingHandle, Closing
  <1>10. Waits'
    <2> SUFFICES ASSUME NEW c \in Clients, pc'[c] = "idle" \/ completed'[c]
                 PROVE  Done(c)'
      BY DEF Waits
    <2>1. CASE c = current[t]
      BY <1>2, <1>3, <1>5, <2>1, Names
         DEF IInv, SyncTransferCallback, Flights, Done, Alone, Handling, UsingHandle, Closing
    <2>2. CASE c # current[t]
      BY <1>2, <1>3, <1>5, <2>2, Names
         DEF IInv, SyncTransferCallback, DataTypes, Waits, Done, Alone, Handling, UsingHandle
    <2> QED
      BY <2>1, <2>2
  <1>11. RefsAccounted'
    <2>1. Completing' = Completing
      BY <1>2, <1>3 DEF Completing
    <2> QED
      BY <1>2, <2>1 DEF IInv, SyncTransferCallback, RefsAccounted
  <1> QED
    BY <1>3, <1>4, <1>6, <1>7, <1>8, <1>9, <1>10, <1>11 DEF IInv

\* the waiters are woken
LEMMA CompletionWakesStep ==
    ASSUME IInv, NEW t \in Handlers, CompletionWakes(t), UNCHANGED cameraVars
    PROVE  IInv'
  <1> DEFINE q == "unref"
  <1>1. q \in HandlerPlaces \ {"idle", "none", "exited"}
    BY DEF HandlerPlaces
  <1>2. pc[t] = "broadcast" /\ pc' = [pc EXCEPT ![t] = q]
    BY DEF CompletionWakes, Goto
  <1>3. /\ pc'["camera"] = pc["camera"]
        /\ \A s \in Handlers : pc'[s] = IF s = t THEN q ELSE pc[s]
        /\ PcTypes'
    BY <1>1, <1>2, HandlerMoves DEF IInv
  <1>4. Quiet' /\ Killed'
    BY <1>1, <1>2, HandlerQuiet DEF IInv
  <1>5. Alone(t)
    BY <1>2, HandlerAlone DEF IInv, Handling, UsingHandle
  <1> USE DEF lockVars, waitVars, dataVars, notifyVars, deviceVars, fixedVars, flyVars, cameraVars
  <1>6. DataTypes'
    BY <1>2, <1>3, Names DEF IInv, CompletionWakes, WakeWaiters, DataTypes
  <1>7. Locks'
    BY <1>2, <1>3, Names DEF IInv, CompletionWakes, WakeWaiters, Locks, Handling, UsingHandle, Closing
  <1>8. Life'
    BY <1>2, <1>3, Names DEF IInv, CompletionWakes, WakeWaiters, Life
  <1>9. Flights'
    BY <1>2, <1>3, <1>5, Names
       DEF IInv, CompletionWakes, WakeWaiters, Flights, Alone, Handling, UsingHandle, Closing
  <1>10. Waits'
    BY <1>2, <1>3, <1>5, Names
       DEF IInv, CompletionWakes, WakeWaiters, Waits, Done, Alone, Handling, UsingHandle, Closing
  <1>11. RefsAccounted'
    <2>1. Completing' = Completing
      BY <1>2, <1>3 DEF Completing
    <2> QED
      BY <1>2, <2>1 DEF IInv, CompletionWakes, WakeWaiters, RefsAccounted
  <1> QED
    BY <1>3, <1>4, <1>6, <1>7, <1>8, <1>9, <1>10, <1>11 DEF IInv

\* the transfer's reference goes
LEMMA UnrefStep ==
    ASSUME IInv, NEW t \in Handlers, Unref(t), UNCHANGED cameraVars
    PROVE  IInv'
  <1> DEFINE q == IF pollfds THEN "reap" ELSE "disconnect"
  <1>1. q \in HandlerPlaces \ {"idle", "none", "exited"}
    BY DEF HandlerPlaces
  <1>2. pc[t] = "unref" /\ pc' = [pc EXCEPT ![t] = q]
    BY DEF Unref, Goto
  <1>3. /\ pc'["camera"] = pc["camera"]
        /\ \A s \in Handlers : pc'[s] = IF s = t THEN q ELSE pc[s]
        /\ PcTypes'
    BY <1>1, <1>2, HandlerMoves DEF IInv
  <1>4. Quiet' /\ Killed'
    BY <1>1, <1>2, HandlerQuiet DEF IInv
  <1>5. Alone(t)
    BY <1>2, HandlerAlone DEF IInv, Handling, UsingHandle
  <1> USE DEF lockVars, waitVars, dataVars, notifyVars, deviceVars, fixedVars, flyVars, cameraVars
  <1>6. DataTypes'
    BY <1>2, <1>3, Names DEF IInv, Unref, DataTypes
  <1>7. Locks'
    BY <1>2, <1>3, Names DEF IInv, Unref, Locks, Handling, UsingHandle, Closing
  <1>8. Life'
    BY <1>2, <1>3, Names DEF IInv, Unref, Life
  <1>9. Flights'
    BY <1>2, <1>3, <1>5, Names
       DEF IInv, Unref, Flights, Alone, Handling, UsingHandle, Closing
  <1>10. Waits'
    BY <1>2, <1>3, <1>5, Names
       DEF IInv, Unref, Waits, Done, Alone, Handling, UsingHandle, Closing
  <1>11. RefsAccounted'
    <2>1. Completing = {t}
      BY <1>2, <1>5, CompletingAlone
    <2>2. Completing' = {}
      BY <1>2, <1>3, <2>1 DEF Completing
    <2>3. Cardinality({}) = 0 /\ Cardinality({t}) = 1
      BY FS_EmptySet, FS_Singleton
    <2>4. Cardinality(Completing') - Cardinality(Completing) = 0 - 1
      BY <2>1, <2>2, <2>3
    <2> HIDE DEF Completing
    <2>5. Cardinality(Completing') = Cardinality(Completing) - 1
      BY <2>4, Numbers, <2>2, <2>3 DEF IInv
    <2> QED
      BY <1>2, <2>5, Numbers DEF IInv, Unref, RefsAccounted
  <1> QED
    BY <1>3, <1>4, <1>6, <1>7, <1>8, <1>9, <1>10, <1>11 DEF IInv
\* the parts of Reap that take an URB
ReapLive(t, u) ==
    /\ Goto(t, "reap", "complete")
    /\ u.conn = handle
    /\ urbs' = urbs \ {u}
    /\ current' = [current EXCEPT ![t] = u.x]
    /\ UNCHANGED <<lockVars, notifyVars, waitVars, deviceVars, fixedVars,
                   flying_transfers, refcnt, completed, stale>>

ReapStale(t, u) ==
    /\ urbs' = urbs \ {u}
    /\ stale' = TRUE
    /\ UNCHANGED <<pc, current, lockVars, notifyVars, waitVars, deviceVars,
                   fixedVars, flying_transfers, refcnt, completed>>

\* a URB of the open handle: its transfer is completed next
LEMMA ReapLiveStep ==
    ASSUME IInv, NEW t \in Handlers, NEW u \in urbs, ReapLive(t, u), UNCHANGED cameraVars
    PROVE  IInv'
  <1> DEFINE q == "complete"
  <1>1. q \in HandlerPlaces \ {"idle", "none", "exited"}
    BY DEF HandlerPlaces
  <1>2. pc[t] = "reap" /\ pc' = [pc EXCEPT ![t] = q]
    BY DEF ReapLive, Goto
  <1>3. /\ pc'["camera"] = pc["camera"]
        /\ \A s \in Handlers : pc'[s] = IF s = t THEN q ELSE pc[s]
        /\ PcTypes'
    BY <1>1, <1>2, HandlerMoves DEF IInv
  <1>4. Quiet' /\ Killed'
    BY <1>1, <1>2, HandlerQuiet DEF IInv
  <1>5. Alone(t)
    BY <1>2, HandlerAlone DEF IInv, Handling, UsingHandle
  <1> USE DEF lockVars, waitVars, dataVars, notifyVars, deviceVars, fixedVars, flyVars, cameraVars
  <1>6. DataTypes'
    BY <1>2, Names DEF IInv, ReapLive, DataTypes, Urbs
  <1>7. Locks'
    BY <1>2, <1>3, Names DEF IInv, ReapLive, Locks, Handling, UsingHandle, Closing
  <1>8. Life'
    BY <1>2, <1>3, Names DEF IInv, ReapLive, Life
  <1>9. Flights'
    BY <1>2, <1>3, <1>5, Names
       DEF IInv, ReapLive, DataTypes, Flights, Life, Alone, Handling, UsingHandle, Closing
  <1>10. Waits'
    <2> SUFFICES ASSUME NEW c \in Clients, pc'[c] = "idle" \/ completed'[c]
                 PROVE  Done(c)'
      BY DEF Waits
    <2>1. Done(c) /\ pollfds
      BY <1>2, <1>3 DEF IInv, ReapLive, Waits, Flights
    <2> QED
      BY <1>2, <1>3, <1>5, <2>1, Names
         DEF IInv, ReapLive, DataTypes, Done, Alone, Handling, UsingHandle
  <1>11. RefsAccounted'
    <2>1. Completing' = Completing
      BY <1>2, <1>3 DEF Completing
    <2> QED
      BY <1>2, <2>1 DEF IInv, ReapLive, RefsAccounted
  <1> QED
    BY <1>3, <1>4, <1>6, <1>7, <1>8, <1>9, <1>10, <1>11 DEF IInv

\* a step that leaves all but the kernel's URBs, the flag of a stale one and the
\* count of interrupts
LEMMA UrbsOnly ==
    ASSUME IInv, UNCHANGED <<pc, lockVars, waitVars, notifyVars, deviceVars, handle,
                             flying_transfers, refcnt, completed, current, cameraVars>>
    PROVE  PcTypes' /\ Locks' /\ Life' /\ Quiet' /\ Killed' /\ RefsAccounted'
  <1> USE DEF lockVars, waitVars, notifyVars, deviceVars, cameraVars
  <1>1. PcTypes' /\ Locks'
    BY DEF IInv, PcTypes, Locks
  <1>2. Life' /\ Quiet' /\ Killed'
    BY DEF IInv, Life, Quiet, Killed
  <1>3. Completing' = Completing
    BY DEF Completing
  <1>4. RefsAccounted'
    BY <1>3 DEF IInv, RefsAccounted
  <1> QED
    BY <1>1, <1>2, <1>4

\* a stale URB
LEMMA ReapStaleStep ==
    ASSUME IInv, NEW t \in Handlers, NEW u \in urbs, ReapStale(t, u), UNCHANGED cameraVars
    PROVE  IInv'
  <1> USE DEF lockVars, waitVars, notifyVars, deviceVars, fixedVars, cameraVars
  <1>1. PcTypes' /\ Locks' /\ Life' /\ Quiet' /\ Killed' /\ RefsAccounted'
    BY UrbsOnly DEF ReapStale
  <1>2. DataTypes'
    BY DEF IInv, ReapStale, DataTypes
  <1>3. Flights'
    BY DEF IInv, ReapStale, Flights
  <1>4. Waits'
    BY DEF IInv, ReapStale, Waits, Done
  <1> QED
    BY <1>1, <1>2, <1>3, <1>4 DEF IInv

\* nothing left to reap, a transfer to complete, or a stale URB
LEMMA ReapStep ==
    ASSUME IInv, NEW t \in Handlers, Reap(t), UNCHANGED cameraVars
    PROVE  IInv'
  <1>1. CASE Finished = {}
    <2> DEFINE q == "unlock"
    <2>1. q \in HandlerPlaces \ (UsingHandle \cup {"idle", "none", "exited"})
      BY DEF HandlerPlaces, UsingHandle
    <2>2. /\ pc[t] = "reap" /\ pc' = [pc EXCEPT ![t] = q]
          /\ UNCHANGED <<dataVars, lockVars, waitVars>>
      BY <1>1 DEF Reap, dataVars, flyVars
    <2>3. /\ pc'["camera"] = pc["camera"]
          /\ \A s \in Handlers : pc'[s] = IF s = t THEN q ELSE pc[s]
      BY <2>1, <2>2, HandlerMoves DEF IInv
    <2>4. DataTypes'
      BY <2>2, Names DEF IInv, DataTypes, lockVars, waitVars, dataVars, notifyVars, deviceVars,
                         fixedVars, flyVars, cameraVars
    <2>5. Locks'
      BY <2>2, <2>3, Names DEF IInv, Locks, Handling, UsingHandle, Closing, lockVars, waitVars
    <2> QED
      BY <2>1, <2>2, <2>4, <2>5, PlainStep
  <1>2. ASSUME NEW u \in Finished, Finished # {}, urbs' = urbs \ {u},
               IF u.conn = handle
               THEN /\ current' = [current EXCEPT ![t] = u.x]
                    /\ pc' = [pc EXCEPT ![t] = "complete"]
                    /\ UNCHANGED stale
               ELSE /\ stale' = TRUE
                    /\ UNCHANGED <<current, pc>>
        PROVE  IInv'
    <2>1. u \in urbs
      BY <1>2 DEF Finished
    <2>2. CASE u.conn = handle
      <3>1. ReapLive(t, u)
        BY <1>2, <2>2 DEF Reap, ReapLive, Goto
      <3> QED
        BY <2>1, <3>1, ReapLiveStep
    <2>3. CASE u.conn # handle
      <3>1. ReapStale(t, u)
        BY <1>2, <2>3 DEF Reap, ReapStale
      <3> QED
        BY <2>1, <3>1, ReapStaleStep
    <2> QED
      BY <2>2, <2>3
  <1> QED
    BY <1>1, <1>2 DEF Reap

\* the parts of Disconnect
DisconnectOne(t, x) ==
    /\ Goto(t, "disconnect", "complete")
    /\ current' = [current EXCEPT ![t] = x]
    /\ UNCHANGED <<lockVars, notifyVars, waitVars, fixedVars, flyVars,
                   deviceVars, refcnt, completed, stale>>

DisconnectLast(t) ==
    /\ Goto(t, "disconnect", "unlock")
    /\ DisconnectDevice
    /\ UNCHANGED <<lockVars, notifyVars, waitVars, fixedVars, flyVars,
                   pollfds, current, refcnt, completed, stale>>

\* the next transfer in flight is completed
LEMMA DisconnectOneStep ==
    ASSUME IInv, NEW t \in Handlers, NEW x \in flying_transfers, DisconnectOne(t, x), UNCHANGED cameraVars
    PROVE  IInv'
  <1> DEFINE q == "complete"
  <1>1. q \in HandlerPlaces \ {"idle", "none", "exited"}
    BY DEF HandlerPlaces
  <1>2. pc[t] = "disconnect" /\ pc' = [pc EXCEPT ![t] = q]
    BY DEF DisconnectOne, Goto
  <1>3. /\ pc'["camera"] = pc["camera"]
        /\ \A s \in Handlers : pc'[s] = IF s = t THEN q ELSE pc[s]
        /\ PcTypes'
    BY <1>1, <1>2, HandlerMoves DEF IInv
  <1>4. Quiet' /\ Killed'
    BY <1>1, <1>2, HandlerQuiet DEF IInv
  <1>5. Alone(t)
    BY <1>2, HandlerAlone DEF IInv, Handling, UsingHandle
  <1> USE DEF lockVars, waitVars, dataVars, notifyVars, deviceVars, fixedVars, flyVars, cameraVars
  <1>6. DataTypes'
    BY <1>2, <1>3, Names DEF IInv, DisconnectOne, DataTypes
  <1>7. Locks'
    BY <1>2, <1>3, Names DEF IInv, DisconnectOne, Locks, Handling, UsingHandle, Closing
  <1>8. Life'
    BY <1>2, <1>3, Names DEF IInv, DisconnectOne, Life
  <1>9. Flights'
    BY <1>2, <1>3, <1>5, Names DEF IInv, DisconnectOne, DataTypes, Flights, Alone, Handling, UsingHandle, Closing
  <1>10. Waits'
    BY <1>2, <1>3, <1>5, Names DEF IInv, DisconnectOne, DataTypes, Waits, Done, Alone, Handling, UsingHandle
  <1>11. RefsAccounted'
    <2>1. Completing' = Completing
      BY <1>2, <1>3 DEF Completing
    <2> QED
      BY <1>2, <2>1 DEF IInv, DisconnectOne, RefsAccounted
  <1> QED
    BY <1>3, <1>4, <1>6, <1>7, <1>8, <1>9, <1>10, <1>11 DEF IInv

\* the reference of the list passes to the message
LEMMA DisconnectLastStep ==
    ASSUME IInv, NEW t \in Handlers, DisconnectLast(t), UNCHANGED cameraVars
    PROVE  IInv'
  <1> DEFINE q == "unlock"
  <1>1. q \in HandlerPlaces \ {"idle", "none", "exited"}
    BY DEF HandlerPlaces
  <1>2. pc[t] = "disconnect" /\ pc' = [pc EXCEPT ![t] = q]
    BY DEF DisconnectLast, Goto
  <1>3. /\ pc'["camera"] = pc["camera"]
        /\ \A s \in Handlers : pc'[s] = IF s = t THEN q ELSE pc[s]
        /\ PcTypes'
    BY <1>1, <1>2, HandlerMoves DEF IInv
  <1>4. Quiet' /\ Killed'
    BY <1>1, <1>2, HandlerQuiet DEF IInv
  <1>5. Alone(t)
    BY <1>2, HandlerAlone DEF IInv, Handling, UsingHandle
  <1> USE DEF lockVars, waitVars, dataVars, notifyVars, deviceVars, fixedVars, flyVars, cameraVars
  <1>6. DataTypes'
    <2>1. hotplug_pipe' \in {0, 1} /\ attached' \in BOOLEAN
      <3>1. CASE attached
        <4>1. hotplug_pipe = 0
          BY <3>1 DEF IInv, Life
        <4>2. hotplug_pipe' = hotplug_pipe + 1 /\ attached' = FALSE
          BY <3>1 DEF DisconnectLast, DisconnectDevice
        <4>3. hotplug_pipe' = 1
          BY <4>1, <4>2
        <4> QED
          BY <4>2, <4>3
      <3>2. CASE ~attached
        BY <3>2 DEF IInv, DisconnectLast, DisconnectDevice, DataTypes
      <3> QED
        BY <3>1, <3>2
    <2> QED
      BY <1>2, <2>1, Names DEF IInv, DisconnectLast, DataTypes
  <1>7. Locks'
    BY <1>2, <1>3, Names DEF IInv, DisconnectLast, DisconnectDevice, Locks, Handling, UsingHandle, Closing
  <1>8. Life'
    BY <1>2, <1>3, Names DEF IInv, DisconnectLast, DisconnectDevice, Life
  <1>9. Flights'
    BY <1>2, <1>3, <1>5, Names
       DEF IInv, DisconnectLast, DisconnectDevice, Flights, Alone, Handling, UsingHandle, Closing
  <1>10. Waits'
    BY <1>2, <1>3, <1>5, Names
       DEF IInv, DisconnectLast, DisconnectDevice, Waits, Done, Alone, Handling, UsingHandle, Closing
  <1>11. RefsAccounted'
    <2>1. Completing' = Completing
      BY <1>2, <1>3 DEF Completing
    <2> QED
      BY <1>2, <2>1, Numbers DEF IInv, DisconnectLast, DisconnectDevice, RefsAccounted
  <1> QED
    BY <1>3, <1>4, <1>6, <1>7, <1>8, <1>9, <1>10, <1>11 DEF IInv

\* one transfer after the other, and the device at the end
LEMMA DisconnectStep ==
    ASSUME IInv, NEW t \in Handlers, Disconnect(t), UNCHANGED cameraVars
    PROVE  IInv'
  <1>1. CASE flying_transfers # {}
    <2>1. PICK x \in flying_transfers : current' = [current EXCEPT ![t] = x]
      BY <1>1 DEF Disconnect
    <2>2. DisconnectOne(t, x)
      BY <1>1, <2>1 DEF Disconnect, DisconnectOne, Goto, deviceVars
    <2> QED
      BY <2>2, DisconnectOneStep
  <1>2. CASE flying_transfers = {}
    <2>1. DisconnectLast(t)
      BY <1>2 DEF Disconnect, DisconnectLast, Goto
    <2> QED
      BY <2>1, DisconnectLastStep
  <1> QED
    BY <1>1, <1>2
-----------------------------------------------------------------------------
(* Submitting a transfer.                                                  *)

\* the URB of a new transfer
NewUrb(x) == [x |-> x, conn |-> handle, done |-> FALSE]

\* it is one, and belongs to the transfer and the open handle
LEMMA UrbTyped ==
    ASSUME NEW x \in Transfers
    PROVE  /\ handle \in 1..MaxConnects => NewUrb(x) \in Urbs
           /\ NewUrb(x).x = x /\ NewUrb(x).conn = handle
  BY DEF NewUrb, Urbs

\* an accepted transfer
Accepted(x) ==
    /\ flying_transfers' = flying_transfers \cup {x}
    /\ urbs' = urbs \cup {NewUrb(x)}
    /\ refcnt' = refcnt + 1
    /\ IsFiniteSet(flying_transfers')
    /\ Cardinality(flying_transfers') = Cardinality(flying_transfers) + 1

\* what Submit does, told apart by its outcome
LEMMA SubmitOutcome ==
    ASSUME DataTypes, NEW x \in Transfers, x \notin flying_transfers, Submit(x)
    PROVE  \/ UNCHANGED <<flying_transfers, urbs, refcnt>>
           \/ Accepted(x)
  <1>1. /\ IsFiniteSet(flying_transfers \cup {x})
        /\ Cardinality(flying_transfers \cup {x}) = Cardinality(flying_transfers) + 1
    BY FS_AddElement DEF DataTypes
  <1> QED
    BY <1>1 DEF Submit, flyVars, NewUrb, Accepted

\* a transfer that was neither in flight nor held by the kernel now is both
LEMMA FlightsAccepted ==
    ASSUME PcTypes, DataTypes, Flights, NEW x \in Transfers, x \notin flying_transfers,
           pollfds => \A u \in urbs : u.conn = handle => u.x # x,
           \A s \in Handlers : pc'[s] \in {"complete", "callback"} => current[s] # x,
           handle = conn, pc["camera"] \in Flying,
           pc'["camera"] = pc["camera"],
           \A s \in Handlers : \/ pc'[s] = pc[s]
                               \/ /\ pc'[s] \in UsingHandle => pc[s] \in UsingHandle
                                  /\ pc'[s] \notin {"reap", "disconnect", "complete", "callback"},
           flying_transfers' = flying_transfers \cup {x},
           urbs' = urbs \cup {NewUrb(x)},
           UNCHANGED <<pollfds, current, handle, conn>>
    PROVE  Flights'
  <1> DEFINE n == NewUrb(x)
  <1>1. n.x = x /\ n.conn = conn /\ conn \in Nat
    BY UrbTyped, DeviceAssumption DEF DataTypes
  <1>2. urbs' = urbs \cup {n}
    OBVIOUS
  <1> HIDE DEF n
  <1>3. flying_transfers' # {} => pc'["camera"] \in Flying
    OBVIOUS
  <1>4. ASSUME NEW t \in Handlers
        PROVE  /\ pc'[t] \in UsingHandle => pc'["camera"] \in Opened
               /\ pc'[t] = "reap" => pollfds'
               /\ pc'[t] = "disconnect" => ~pollfds'
               /\ pc'[t] = "complete" => current'[t] \in flying_transfers'
               /\ pc'[t] = "callback" => current'[t] \notin flying_transfers'
    BY <1>4 DEF Flights
  <1>5. ASSUME NEW u \in urbs'
        PROVE  u.conn <= conn' /\ (pc'["camera"] = "open" => u.conn < conn')
    BY <1>1, <1>2, <1>5 DEF Flights, Flying
  <1>6. ASSUME pollfds', pc'["camera"] \notin {"close_wake", "op_close"},
               NEW u \in urbs', u.conn = handle'
        PROVE  /\ u.x \in flying_transfers'
               /\ \A t \in Handlers : pc'[t] = "complete" => current'[t] # u.x
               /\ \A v \in urbs' : v.conn = handle' /\ v.x = u.x => v = u
    BY <1>1, <1>2, <1>6 DEF Flights
  <1> QED
    BY <1>3, <1>4, <1>5, <1>6 DEF Flights

\* the outcomes of the status callback
StatusEnds(t) ==
    /\ current[t] = "status"
    /\ Goto(t, "callback", "broadcast")
    /\ UNCHANGED <<flyVars, refcnt, lockVars, notifyVars, waitVars, deviceVars,
                   fixedVars, completed, current, stale>>

StatusAgain(t) ==
    /\ current[t] = "status"
    /\ Goto(t, "callback", "broadcast")
    /\ pollfds /\ Accepted("status")
    /\ UNCHANGED <<lockVars, notifyVars, waitVars, deviceVars, fixedVars,
                   completed, current, stale>>

\* the status transfer is not submitted again
LEMMA StatusEndsStep ==
    ASSUME IInv, NEW t \in Handlers, StatusEnds(t), UNCHANGED cameraVars
    PROVE  IInv'
  <1> DEFINE q == "broadcast"
  <1>1. q \in HandlerPlaces \ {"idle", "none", "exited"}
    BY DEF HandlerPlaces
  <1>2. pc[t] = "callback" /\ pc' = [pc EXCEPT ![t] = q]
    BY DEF StatusEnds, Goto
  <1>3. /\ pc'["camera"] = pc["camera"]
        /\ \A s \in Handlers : pc'[s] = IF s = t THEN q ELSE pc[s]
        /\ PcTypes'
    BY <1>1, <1>2, HandlerMoves DEF IInv
  <1>4. Quiet' /\ Killed'
    BY <1>1, <1>2, HandlerQuiet DEF IInv
  <1>5. Alone(t)
    BY <1>2, HandlerAlone DEF IInv, Handling, UsingHandle
  <1> USE DEF lockVars, waitVars, dataVars, notifyVars, deviceVars, fixedVars, flyVars, cameraVars
  <1>6. DataTypes'
    BY <1>2, <1>3, Names DEF IInv, StatusEnds, DataTypes
  <1>7. Locks'
    BY <1>2, <1>3, Names DEF IInv, StatusEnds, Locks, Handling, UsingHandle, Closing
  <1>8. Life'
    BY <1>2, <1>3, Names DEF IInv, StatusEnds, Life
  <1>9. Flights'
    BY <1>2, <1>3, <1>5, Names
       DEF IInv, StatusEnds, Flights, Alone, Handling, UsingHandle, Closing
  <1>10. Waits'
    BY <1>2, <1>3, <1>5, Names
       DEF IInv, StatusEnds, Waits, Done, Alone, Handling, UsingHandle, Closing
  <1>11. RefsAccounted'
    <2>1. Completing' = Completing
      BY <1>2, <1>3 DEF Completing
    <2> QED
      BY <1>2, <2>1 DEF IInv, StatusEnds, RefsAccounted
  <1> QED
    BY <1>3, <1>4, <1>6, <1>7, <1>8, <1>9, <1>10, <1>11 DEF IInv

\* the status transfer is submitted again
LEMMA StatusAgainStep ==
    ASSUME IInv, NEW t \in Handlers, StatusAgain(t), UNCHANGED cameraVars
    PROVE  IInv'
  <1> DEFINE q == "broadcast"
  <1>1. q \in HandlerPlaces \ {"idle", "none", "exited"}
    BY DEF HandlerPlaces
  <1>2. pc[t] = "callback" /\ pc' = [pc EXCEPT ![t] = q]
    BY DEF StatusAgain, Goto
  <1>3. /\ pc'["camera"] = pc["camera"]
        /\ \A s \in Handlers : pc'[s] = IF s = t THEN q ELSE pc[s]
        /\ PcTypes'
    BY <1>1, <1>2, HandlerMoves DEF IInv
  <1>4. Quiet' /\ Killed'
    BY <1>1, <1>2, HandlerQuiet DEF IInv
  <1>5. Alone(t)
    BY <1>2, HandlerAlone DEF IInv, Handling, UsingHandle
  <1> USE DEF lockVars, waitVars, dataVars, notifyVars, deviceVars, fixedVars, flyVars, cameraVars
  <1>6. DataTypes'
    <2>1. handle \in 1..MaxConnects
      BY <1>2, DeviceAssumption DEF IInv, DataTypes, Life, Flights, UsingHandle, Opened
    <2>2. urbs' \subseteq Urbs
      BY <2>1, UrbTyped, Names DEF IInv, StatusAgain, Accepted, DataTypes
    <2>3. flying_transfers' \subseteq Transfers /\ IsFiniteSet(flying_transfers') /\ refcnt' \in Int
      BY Names DEF IInv, StatusAgain, Accepted, DataTypes
    <2> QED
      BY <1>2, <2>2, <2>3 DEF IInv, StatusAgain, DataTypes
  <1>7. Locks'
    BY <1>2, <1>3, Names DEF IInv, StatusAgain, Accepted, Locks, Handling, UsingHandle, Closing
  <1>8. Life'
    BY <1>2, <1>3, Names DEF IInv, StatusAgain, Accepted, Life
  <1>9. Flights'
    <2>1. "status" \notin flying_transfers /\ \A u \in urbs : u.conn = handle => u.x # "status"
      BY <1>2, <1>5 DEF IInv, StatusAgain, Flights, Alone, Closing
    <2>2. pc["camera"] \in Opened /\ pc["camera"] \notin Closing /\ handle = conn
      BY <1>2, <1>5 DEF IInv, StatusAgain, Life, Alone
    <2>3. \E c \in Clients \cup {"event"} : pc[c] \notin {"idle", "none"}
      BY <1>2, Names
    <2>4. pc["camera"] \in Flying
      BY <2>2, <2>3, Names DEF IInv, Quiet, Opened, Closing, Flying, Served
    <2>5. /\ flying_transfers' = flying_transfers \cup {"status"}
          /\ urbs' = urbs \cup {NewUrb("status")}
          /\ UNCHANGED <<pollfds, current, handle, conn>>
      BY DEF StatusAgain, Accepted
    <2>6. \A s \in Handlers : pc'[s] \notin {"complete", "callback"}
      BY <1>3, <1>5 DEF Alone, Handling, UsingHandle
    <2> QED
      BY <1>2, <1>3, <2>1, <2>2, <2>4, <2>5, <2>6, FlightsAccepted, Names DEF IInv, UsingHandle
  <1>10. Waits'
    <2>1. NewUrb("status").x = "status"
      BY UrbTyped, Names
    <2> QED
      BY <1>2, <1>3, <1>5, <2>1, Names
         DEF IInv, StatusAgain, Accepted, Waits, Done, Alone, Handling, UsingHandle
  <1>11. RefsAccounted'
    <2>1. Completing' = Completing
      BY <1>2, <1>3 DEF Completing
    <2> QED
      BY <1>2, <2>1, Numbers DEF IInv, StatusAgain, Accepted, RefsAccounted
  <1> QED
    BY <1>3, <1>4, <1>6, <1>7, <1>8, <1>9, <1>10, <1>11 DEF IInv

\* submitted again or not, the status transfer was not in flight
LEMMA StatusCallbackStep ==
    ASSUME IInv, NEW t \in Handlers, StatusCallback(t), UNCHANGED cameraVars
    PROVE  IInv'
  <1>1. "status" \notin flying_transfers
    BY DEF IInv, StatusCallback, Goto, Flights
  <1>2. CASE UNCHANGED <<flyVars, refcnt>>
    <2>1. StatusEnds(t)
      BY <1>2 DEF StatusCallback, StatusEnds
    <2> QED
      BY <2>1, StatusEndsStep
  <1>3. CASE pollfds /\ Accepted("status")
    <2>1. StatusAgain(t)
      BY <1>3 DEF StatusCallback, StatusAgain
    <2> QED
      BY <2>1, StatusAgainStep
  <1>4. (pollfds /\ Submit("status")) => \/ UNCHANGED <<flyVars, refcnt>>
                                         \/ pollfds /\ Accepted("status")
    BY <1>1, SubmitOutcome, Names DEF IInv, Accepted, flyVars
  <1> QED
    BY <1>2, <1>3, <1>4 DEF StatusCallback

\* a client's control transfer
LEMMA QueryStep ==
    ASSUME IInv, NEW t \in Clients, Query(t)
    PROVE  IInv'
  <1> DEFINE q == IF plugged THEN "wait" ELSE "idle"
  <1>1. q \in HandlerPlaces \ (UsingHandle \cup {"none", "exited"})
    BY DEF HandlerPlaces, UsingHandle
  <1>2. /\ pc[t] = "idle" /\ pc' = [pc EXCEPT ![t] = q]
        /\ completed' = [completed EXCEPT ![t] = FALSE]
        /\ pc["camera"] = "connected"
        /\ queries < MaxQueries /\ queries' = queries + 1
        /\ UNCHANGED <<lockVars, notifyVars, waitVars, deviceVars, fixedVars,
                       current, stale, context, kill_handler_thread,
                       open_devices, dev_ref, fds, conn, finds, abandoned>>
        /\ t \in Handlers /\ t \in Transfers
    BY Names DEF Query, ControlTransfer, Goto
  <1>3. /\ pc'["camera"] = pc["camera"]
        /\ \A s \in Handlers : pc'[s] = IF s = t THEN q ELSE pc[s]
        /\ PcTypes'
    BY <1>1, <1>2, HandlerMoves DEF IInv
  <1>4. Done(t)
    BY <1>2 DEF IInv, Waits
  <1>5. UNCHANGED <<flying_transfers, urbs, refcnt>> \/ Accepted(t)
    BY <1>2, <1>4, SubmitOutcome DEF IInv, Accepted, Query, ControlTransfer, Done
  <1>6. handle = conn /\ handle \in 1..MaxConnects
    BY <1>2 DEF IInv, DataTypes, Life, Opened
  <1> USE DEF lockVars, waitVars, notifyVars, deviceVars, fixedVars
  <1>7. DataTypes'
    <2>1. urbs' \subseteq Urbs
      BY <1>2, <1>5, <1>6, UrbTyped DEF IInv, Accepted, DataTypes
    <2>2. flying_transfers' \subseteq Transfers /\ IsFiniteSet(flying_transfers') /\ refcnt' \in Int
      BY <1>2, <1>5 DEF IInv, Accepted, DataTypes
    <2>3. queries' \in 0..MaxQueries
      BY <1>2, DeviceAssumption DEF IInv, DataTypes
    <2> QED
      BY <1>2, <2>1, <2>2, <2>3 DEF IInv, DataTypes
  <1>8. Locks'
    BY <1>1, <1>2, <1>3, Names DEF IInv, Locks, Handling, UsingHandle
  <1>9. Life'
    BY <1>2, <1>3 DEF IInv, Life
  <1>10. Quiet' /\ Killed'
    BY <1>2, <1>3, Names DEF IInv, Quiet, Killed
  <1>11. Flights'
    <2>1. CASE Accepted(t)
      <3>1. /\ t \notin flying_transfers
            /\ pollfds => \A u \in urbs : u.conn = handle => u.x # t
            /\ \A s \in Handlers : pc[s] \in {"complete", "callback"} => current[s] # t
        BY <1>4 DEF Done
      <3> QED
        BY <1>1, <1>2, <1>3, <1>6, <2>1, <3>1, FlightsAccepted
           DEF IInv, Accepted, Flying, UsingHandle
    <2>2. CASE UNCHANGED <<flying_transfers, urbs, refcnt>>
      BY <1>1, <1>2, <1>3, <2>2 DEF IInv, Flights, UsingHandle
    <2> QED
      BY <1>5, <2>1, <2>2
  <1>12. Waits'
    <2> SUFFICES ASSUME NEW c \in Clients, pc'[c] = "idle" \/ completed'[c]
                 PROVE  Done(c)'
      BY DEF Waits
    <2>1. Done(c)
      BY <1>2, <1>3, <1>4 DEF IInv, DataTypes, Waits
    <2>2. CASE Accepted(t)
      <3>1. c # t /\ NewUrb(t).x = t
        <4>1. plugged
          BY <2>2, <1>4 DEF Query, ControlTransfer, Submit, Accepted, Done, flyVars
        <4>2. pc'[t] = "wait" /\ ~completed'[t]
          BY <1>2, <1>3, <4>1 DEF IInv, DataTypes
        <4> QED
          BY <1>2, <4>2, UrbTyped
      <3> QED
        BY <1>1, <1>2, <1>3, <2>1, <2>2, <3>1 DEF Accepted, Done, UsingHandle
    <2>3. CASE UNCHANGED <<flying_transfers, urbs, refcnt>>
      BY <1>1, <1>2, <1>3, <2>1, <2>3 DEF Done, UsingHandle
    <2> QED
      BY <1>5, <2>2, <2>3
  <1>13. RefsAccounted'
    <2>1. Completing' = Completing
      BY <1>1, <1>2, <1>3 DEF Completing, UsingHandle
    <2> QED
      BY <1>2, <1>5, <2>1, Numbers DEF IInv, Accepted, RefsAccounted
  <1> QED
    BY <1>3, <1>7, <1>8, <1>9, <1>10, <1>11, <1>12, <1>13 DEF IInv
-----------------------------------------------------------------------------
(* The camera thread connects.                                             *)

\* outside a connection the other threads rest, and nothing is in flight
LEMMA AtRest ==
    ASSUME IInv, pc["camera"] \in {"idle", "find", "open", "claim", "status", "start", "closed"}
    PROVE  /\ \A t \in Handlers : pc[t] \in {"idle", "none"}
           /\ Completing = {} /\ Cardinality(Completing) = 0
  <1>1. \A t \in Handlers : pc[t] \in {"idle", "none"}
    BY Names DEF IInv, Quiet, Served
  <1>2. Completing = {}
    BY <1>1 DEF Completing
  <1> QED
    BY <1>1, <1>2, FS_EmptySet

\* nor is anything in flight before the status transfer or after do_close
LEMMA NoneFlying ==
    ASSUME IInv, pc["camera"] \notin Flying
    PROVE  flying_transfers = {} /\ Cardinality(flying_transfers) = 0
  BY FS_EmptySet DEF IInv, Flights

\* what is left of the URBs when a connection begins
LEMMA Kept ==
    ASSUME IInv, urbs' = KeptUrbs
    PROVE  urbs' \subseteq urbs
  BY DEF KeptUrbs

\* a new context: nothing of an earlier one is left
LEMMA InitContextStep ==
    ASSUME IInv, InitContext
    PROVE  IInv'
  <1> DEFINE q == "find"
  <1>1. q \in CameraPlaces
    BY DEF CameraPlaces
  <1>2. pc["camera"] = "idle" /\ pc' = [pc EXCEPT !["camera"] = q]
    BY DEF InitContext, At, Goto
  <1>3. /\ pc'["camera"] = q
        /\ \A s \in Handlers : pc'[s] = pc[s]
        /\ PcTypes'
    BY <1>1, <1>2, CameraMoves DEF IInv
  <1> USE DEF lockVars, waitVars, dataVars, notifyVars, deviceVars, fixedVars, flyVars, cameraVars
  <1>4. DataTypes'
    <2>1. attached' \in BOOLEAN /\ refcnt' \in Int
      BY <1>2, <1>3, Names DEF IInv, InitContext, DataTypes
    <2>2. urbs' \subseteq urbs
      BY Kept DEF InitContext
    <2>3. finds' \in 0..conn' /\ abandoned' \in Nat
      BY <1>2, <1>3, Names DEF IInv, InitContext, DataTypes
    <2> QED
      BY <1>2, <2>1, <2>2, <2>3, Names DEF IInv, InitContext, DataTypes
  <1>5. Locks'
    BY <1>2, <1>3, Names DEF IInv, InitContext, Locks, Closing
  <1>6. Life'
    BY <1>2, <1>3, Names DEF IInv, InitContext, Life, Opened, Modifying
  <1>7. Quiet'
    BY <1>2, <1>3, Names DEF IInv, InitContext, Quiet, Served
  <1>8. Killed'
    BY <1>2, <1>3, Names DEF IInv, InitContext, Killed, Served, Quiet
  <1>9. Flights'
    BY <1>2, <1>3, Kept, Names DEF IInv, InitContext, Flights, Flying, Opened
  <1>10. Waits'
    BY <1>2, <1>3, Kept, Names DEF IInv, InitContext, Waits, Done
  <1>11. RefsAccounted'
    <2>1. Completing' = Completing
      BY <1>3 DEF Completing
    <2> QED
      BY <1>2, <1>3, <2>1, AtRest, NoneFlying, Numbers DEF IInv, InitContext, Life, Opened, Flying, DataTypes, RefsAccounted
  <1> QED
    BY <1>3, <1>4, <1>5, <1>6, <1>7, <1>8, <1>9, <1>10, <1>11 DEF IInv

\* the context is used again
LEMMA ConnectAgainStep ==
    ASSUME IInv, ConnectAgain
    PROVE  IInv'
  <1> DEFINE q == "find"
  <1>1. q \in CameraPlaces
    BY DEF CameraPlaces
  <1>2. pc["camera"] = "idle" /\ pc' = [pc EXCEPT !["camera"] = q]
    BY DEF ConnectAgain, At, Goto
  <1>3. /\ pc'["camera"] = q
        /\ \A s \in Handlers : pc'[s] = pc[s]
        /\ PcTypes'
    BY <1>1, <1>2, CameraMoves DEF IInv
  <1> USE DEF lockVars, waitVars, dataVars, notifyVars, deviceVars, fixedVars, flyVars, cameraVars
  <1>4. DataTypes'
    <2>1. urbs' \subseteq urbs
      BY Kept DEF ConnectAgain
    <2> QED
      BY <1>2, <2>1, Names DEF IInv, ConnectAgain, DataTypes
  <1>5. Locks'
    BY <1>2, <1>3, Names DEF IInv, ConnectAgain, Locks, Closing
  <1>6. Life'
    BY <1>2, <1>3, Names DEF IInv, ConnectAgain, Life, Opened, Modifying
  <1>7. Quiet'
    BY <1>2, <1>3, Names DEF IInv, ConnectAgain, Quiet, Served
  <1>8. Killed'
    BY <1>2, <1>3, Names DEF IInv, ConnectAgain, Killed, Served
  <1>9. Flights'
    BY <1>2, <1>3, Kept, Names DEF IInv, ConnectAgain, Flights, Flying, Opened
  <1>10. Waits'
    BY <1>2, <1>3, Kept, Names DEF IInv, ConnectAgain, Waits, Done
  <1>11. RefsAccounted'
    <2>1. Completing' = Completing
      BY <1>3 DEF Completing
    <2> QED
      BY <1>2, <1>3, <2>1, Numbers DEF IInv, ConnectAgain, RefsAccounted
  <1> QED
    BY <1>3, <1>4, <1>5, <1>6, <1>7, <1>8, <1>9, <1>10, <1>11 DEF IInv

\* the connection is numbered
LEMMA FindDeviceStep ==
    ASSUME IInv, FindDevice
    PROVE  IInv'
  <1> DEFINE q == IF attached THEN "open" ELSE "idle"
  <1>1. q \in CameraPlaces
    BY DEF CameraPlaces
  <1>2. pc["camera"] = "find" /\ pc' = [pc EXCEPT !["camera"] = q]
    BY DEF FindDevice, At, Goto
  <1>3. /\ pc'["camera"] = q
        /\ \A s \in Handlers : pc'[s] = pc[s]
        /\ PcTypes'
    BY <1>1, <1>2, CameraMoves DEF IInv
  <1> USE DEF lockVars, waitVars, dataVars, notifyVars, deviceVars, fixedVars, flyVars, cameraVars
  <1>4. DataTypes'
    <2>1. refcnt' \in Int /\ queries' \in 0..MaxQueries
      BY <1>2, <1>3, DeviceAssumption, Names DEF IInv, FindDevice, DataTypes
    <2>2. conn' \in 0..MaxConnects /\ finds' \in 0..conn'
      BY <1>2, DeviceAssumption DEF IInv, FindDevice, DataTypes, Life
    <2> QED
      BY <1>2, <2>1, <2>2, Names DEF IInv, FindDevice, DataTypes
  <1>5. Locks'
    BY <1>2, <1>3, Names DEF IInv, FindDevice, Locks, Closing
  <1>6. Life'
    <2>1. CASE attached
      BY <1>2, <1>3, <2>1, Numbers, Names DEF IInv, FindDevice, Life, Opened, Modifying, DataTypes
    <2>2. CASE ~attached
      BY <1>2, <1>3, <2>2, Numbers, Names DEF IInv, FindDevice, Life, Opened, Modifying, DataTypes
    <2> QED
      BY <2>1, <2>2
  <1>7. Quiet'
    BY <1>2, <1>3, Names DEF IInv, FindDevice, Quiet, Served
  <1>8. Killed'
    <2>1. CASE attached
      BY <1>2, <1>3, <2>1, Numbers, Names DEF IInv, FindDevice, Killed, Served, DataTypes, Life, Quiet
    <2>2. CASE ~attached
      BY <1>2, <1>3, <2>2, Numbers, Names DEF IInv, FindDevice, Killed, Served, DataTypes, Life, Quiet
    <2> QED
      BY <2>1, <2>2
  <1>9. Flights'
    <2>1. CASE attached
      BY <1>2, <1>3, <2>1, Numbers, NoneFlying, AtRest, Names DEF IInv, FindDevice, Flights, Flying, Opened, Urbs, DataTypes
    <2>2. CASE ~attached
      BY <1>2, <1>3, <2>2, Numbers, NoneFlying, AtRest, Names DEF IInv, FindDevice, Flights, Flying, Opened, Urbs, DataTypes
    <2> QED
      BY <2>1, <2>2
  <1>10. Waits'
    BY <1>2, <1>3, Names DEF IInv, FindDevice, Waits, Done
  <1>11. RefsAccounted'
    <2>1. Completing' = Completing
      BY <1>3 DEF Completing
    <2>2. CASE attached
      BY <1>2, <1>3, <2>1, <2>2, AtRest, NoneFlying, Numbers DEF IInv, FindDevice, Life, RefsAccounted
    <2>3. CASE ~attached
      BY <1>2, <1>3, <2>1, <2>3, AtRest, NoneFlying, Numbers DEF IInv, FindDevice, Life, RefsAccounted
    <2> QED
      BY <2>2, <2>3
  <1> QED
    BY <1>3, <1>4, <1>5, <1>6, <1>7, <1>8, <1>9, <1>10, <1>11 DEF IInv

\* the handle is open, or nothing is left
LEMMA OpenStep ==
    ASSUME IInv, Open
    PROVE  IInv'
  <1>1. PICK q \in {"claim", "idle"} : pc' = [pc EXCEPT !["camera"] = q]
    BY DEF Open, At, Goto
  <1>2. pc["camera"] = "open"
    BY DEF Open, At, Goto
  <1>3. /\ pc'["camera"] = q
        /\ \A s \in Handlers : pc'[s] = pc[s]
        /\ PcTypes'
    BY <1>1, <1>2, CameraMoves DEF IInv, CameraPlaces
  <1> USE DEF lockVars, waitVars, dataVars, notifyVars, deviceVars, fixedVars, flyVars, cameraVars
  <1>4. /\ q = "claim" => /\ attached /\ handle' = conn /\ pollfds' = TRUE
                          /\ refcnt' = refcnt + 2 /\ dev_ref' = dev_ref + 1 /\ fds' = fds
        /\ q = "idle" => /\ handle' = handle /\ pollfds' = pollfds
                         /\ refcnt' = refcnt - 1 /\ dev_ref' = dev_ref - 1 /\ fds' = fds - 1
    BY <1>2, <1>3, Names DEF IInv, PcTypes, Open, At, Goto
  <1>5. /\ events_lock = NULL
        /\ UNCHANGED <<lockVars, waitVars, notifyVars, hotplug_pipe, attached,
                       plugged, interrupts, flyVars, completed, current, stale,
                       context, kill_handler_thread, open_devices, conn, queries,
                       finds, abandoned>>
    BY DEF Open
  <1>6. DataTypes'
    <2>1. refcnt' \in Int
      BY <1>2, <1>3, <1>4, <1>5, Names DEF IInv, DataTypes
    <2>2. pollfds' \in BOOLEAN
      BY <1>2, <1>3, <1>4, <1>5, Names DEF IInv, DataTypes
    <2> QED
      BY <1>2, <1>4, <1>5, <2>1, <2>2, Names DEF IInv, DataTypes
  <1>7. Locks'
    <2>1. \A t \in Handlers : pc'[t] \in Handling <=> events_lock' = t
      BY <1>3, <1>5 DEF IInv, Locks
    <2>2. pc'["camera"] \in Closing <=> events_lock' = "camera"
      BY <1>1, <1>2, <1>3, <1>5 DEF IInv, Locks, Closing
    <2>3. \A t \in Handlers : pc'[t] \in {"modify", "active"} <=> event_waiters_lock' = t
      BY <1>3, <1>5 DEF IInv, Locks
    <2>4. \A t \in event_waiters' : pc'[t] = "asleep"
      BY <1>3, <1>5 DEF IInv, Locks, DataTypes
    <2> QED
      BY <2>1, <2>2, <2>3, <2>4 DEF Locks
  <1>8. Life'
    <2>1. CASE q = "claim"
      BY <1>2, <1>3, <1>4, <1>5, <2>1, Names DEF IInv, Life, Opened, Modifying
    <2>2. CASE q = "idle"
      BY <1>2, <1>3, <1>4, <1>5, <2>2, Names DEF IInv, Life, Opened, Modifying
    <2> QED
      BY <2>1, <2>2
  <1>9. Quiet'
    BY <1>2, <1>3, <1>4, <1>5, Names DEF IInv, Quiet, Served
  <1>10. Killed'
    BY <1>2, <1>3, <1>4, <1>5, Names DEF IInv, Killed, Served
  <1>11. Flights'
    <2>1. CASE q = "claim"
      BY <1>2, <1>3, <1>4, <1>5, <2>1, AtRest, Numbers, Names
         DEF IInv, Flights, Flying, Opened, Life, DataTypes, UsingHandle
    <2>2. CASE q = "idle"
      BY <1>2, <1>3, <1>4, <1>5, <2>2, AtRest, Numbers, Names
         DEF IInv, Flights, Flying, Opened, Life, DataTypes, UsingHandle
    <2> QED
      BY <2>1, <2>2
  <1>12. Waits'
    <2>1. CASE q = "claim"
      BY <1>2, <1>3, <1>4, <1>5, <2>1, Numbers, AtRest, Names
         DEF IInv, Waits, Done, Flights, Life
    <2>2. CASE q = "idle"
      BY <1>2, <1>3, <1>4, <1>5, <2>2, Numbers, AtRest, Names
         DEF IInv, Waits, Done, Flights, Life
    <2> QED
      BY <2>1, <2>2
  <1>13. RefsAccounted'
    <2>1. Completing' = Completing
      BY <1>3 DEF Completing
    <2>2. CASE q = "claim"
      BY <1>2, <1>3, <1>4, <1>5, <2>1, <2>2, AtRest, NoneFlying, Numbers, Names
         DEF IInv, Life, Opened, RefsAccounted
    <2>3. CASE q = "idle"
      BY <1>2, <1>3, <1>4, <1>5, <2>1, <2>3, AtRest, NoneFlying, Numbers, Names
         DEF IInv, Life, Opened, RefsAccounted
    <2> QED
      BY <2>2, <2>3
  <1> QED
    BY <1>3, <1>4, <1>5, <1>6, <1>7, <1>8, <1>9, <1>10, <1>11, <1>12, <1>13 DEF IInv

\* either way the handle stays open
LEMMA ClaimStep ==
    ASSUME IInv, Claim
    PROVE  IInv'
  <1>1. PICK q \in {"status", "modify"} : pc' = [pc EXCEPT !["camera"] = q]
    BY DEF Claim, At, Goto
  <1>2. pc["camera"] = "claim"
    BY DEF Claim, At, Goto
  <1>3. /\ pc'["camera"] = q
        /\ \A s \in Handlers : pc'[s] = pc[s]
        /\ PcTypes'
    BY <1>1, <1>2, CameraMoves DEF IInv, CameraPlaces
  <1> USE DEF lockVars, waitVars, dataVars, notifyVars, deviceVars, fixedVars, flyVars, cameraVars
  <1>4. DataTypes'
    BY <1>2, <1>3, Names DEF IInv, Claim, DataTypes
  <1>5. Locks'
    BY <1>2, <1>3, <1>1, Names DEF IInv, Claim, Locks, Closing
  <1>6. Life'
    BY <1>2, <1>3, Names DEF IInv, Claim, Life, Opened, Modifying
  <1>7. Quiet'
    BY <1>2, <1>3, Names DEF IInv, Claim, Quiet, Served
  <1>8. Killed'
    BY <1>2, <1>3, Names DEF IInv, Claim, Killed, Served, Quiet
  <1>9. Flights'
    BY <1>2, <1>3, Names DEF IInv, Claim, Flights, Flying, Opened
  <1>10. Waits'
    BY <1>2, <1>3, Names DEF IInv, Claim, Waits, Done
  <1>11. RefsAccounted'
    <2>1. Completing' = Completing
      BY <1>3 DEF Completing
    <2> QED
      BY <1>2, <1>3, <2>1, Numbers DEF IInv, Claim, RefsAccounted
  <1> QED
    BY <1>3, <1>4, <1>5, <1>6, <1>7, <1>8, <1>9, <1>10, <1>11 DEF IInv

\* the status transfer is submitted; nothing else was in flight
LEMMA SubmitStatusStep ==
    ASSUME IInv, SubmitStatus
    PROVE  IInv'
  <1> DEFINE q == IF plugged THEN "start" ELSE "release_if"
  <1>1. q \in CameraPlaces
    BY DEF CameraPlaces
  <1>2. pc["camera"] = "status" /\ pc' = [pc EXCEPT !["camera"] = q]
    BY DEF SubmitStatus, At, Goto
  <1>3. /\ pc'["camera"] = q
        /\ \A s \in Handlers : pc'[s] = pc[s]
        /\ PcTypes'
    BY <1>1, <1>2, CameraMoves DEF IInv
  <1>4. /\ flying_transfers = {} /\ Cardinality(flying_transfers) = 0
        /\ \A t \in Handlers : pc[t] \in {"idle", "none"}
    BY <1>2, AtRest, NoneFlying DEF Flying
  <1>5. handle = conn /\ handle \in 1..MaxConnects
    BY <1>2, DeviceAssumption DEF IInv, DataTypes, Life, Opened
  <1>6. UNCHANGED <<flying_transfers, urbs, refcnt>> \/ Accepted("status")
    BY <1>4, SubmitOutcome, Names DEF IInv, Accepted, SubmitStatus
  <1>7. NewUrb("status") \in Urbs /\ NewUrb("status").x = "status"
        /\ NewUrb("status").conn = conn
    BY <1>5, UrbTyped, Names
  <1>8. Accepted("status") => pc'["camera"] = "start"
    BY <1>3, <1>4 DEF SubmitStatus, Submit, Accepted, flyVars
  <1> USE DEF lockVars, waitVars, deviceVars, notifyVars, cameraVars
  <1>9. DataTypes'
    <2>1. urbs' \subseteq Urbs
      BY <1>6, <1>7 DEF IInv, Accepted, DataTypes
    <2>2. flying_transfers' \subseteq Transfers /\ IsFiniteSet(flying_transfers') /\ refcnt' \in Int
      BY <1>6, Names DEF IInv, Accepted, DataTypes
    <2>3. interrupts' \in 0..MaxInterrupts
      BY ClientsAssumption DEF SubmitStatus
    <2> QED
      BY <2>1, <2>2, <2>3 DEF IInv, SubmitStatus, DataTypes
  <1>10. Locks'
    BY <1>2, <1>3, Names DEF IInv, SubmitStatus, Locks, Closing
  <1>11. Life'
    BY <1>2, <1>3 DEF IInv, SubmitStatus, Life, Opened, Modifying
  <1>12. Quiet'
    BY <1>2, <1>3, Names DEF IInv, SubmitStatus, Quiet, Served
  <1>13. Killed'
    BY <1>2, <1>3, <1>4, Names DEF IInv, SubmitStatus, Killed, Quiet, Served
  <1>14. Flights'
    <2>1. CASE Accepted("status")
      BY <1>2, <1>3, <1>4, <1>5, <1>7, <1>8, <2>1, Numbers
         DEF IInv, SubmitStatus, Accepted, Flights, Flying, UsingHandle
    <2>2. CASE UNCHANGED <<flying_transfers, urbs, refcnt>>
      BY <1>2, <1>3, <1>4, <2>2 DEF IInv, SubmitStatus, Flights, UsingHandle
    <2> QED
      BY <1>6, <2>1, <2>2
  <1>15. Waits'
    <2> SUFFICES ASSUME NEW c \in Clients
                 PROVE  Done(c)'
      BY DEF Waits
    <2>1. Done(c) /\ c # "status"
      BY <1>2, <1>4, Names DEF IInv, Waits, Quiet
    <2> QED
      BY <1>3, <1>4, <1>6, <1>7, <2>1, Names DEF SubmitStatus, Accepted, Done
  <1>16. RefsAccounted'
    <2>1. Completing' = Completing
      BY <1>3 DEF Completing
    <2> QED
      BY <1>6, <2>1, Numbers DEF IInv, SubmitStatus, Accepted, RefsAccounted
  <1> QED
    BY <1>3, <1>9, <1>10, <1>11, <1>12, <1>13, <1>14, <1>15, <1>16 DEF IInv

\* the handler thread begins
LEMMA StartHandlerThreadStep ==
    ASSUME IInv, StartHandlerThread
    PROVE  IInv'
  <1>1. /\ pc["camera"] = "start"
        /\ pc' = [pc EXCEPT !["camera"] = "connected", !["event"] = "loop"]
    BY DEF StartHandlerThread
  <1>2. /\ pc["camera"] = "start"
        /\ pc'["camera"] = "connected"
        /\ pc'["event"] = "loop"
        /\ \A c \in Clients : pc'[c] = pc[c]
    BY <1>1, Names DEF IInv, PcTypes
  <1>3. /\ \A s \in Handlers : pc'[s] = IF s = "event" THEN "loop" ELSE pc[s]
        /\ PcTypes'
    BY <1>1, <1>2, Names DEF IInv, PcTypes, HandlerPlaces, CameraPlaces
  <1> USE DEF lockVars, waitVars, dataVars, notifyVars, deviceVars, fixedVars, flyVars, cameraVars
  <1>4. DataTypes'
    BY <1>2, <1>3, Names DEF IInv, StartHandlerThread, DataTypes
  <1>5. Locks'
    <2>1. pc["event"] \in {"none", "exited"}
      BY <1>2, AtRest, Names DEF IInv, StartHandlerThread, Quiet, Served
    <2>2. /\ events_lock' = events_lock /\ event_waiters_lock' = event_waiters_lock
          /\ event_waiters' = event_waiters
      BY DEF StartHandlerThread
    <2>3. "event" \notin event_waiters /\ events_lock # "event" /\ event_waiters_lock # "event"
      BY <2>1, Names DEF IInv, Locks, Handling, UsingHandle
    <2>4. pc["camera"] \notin Closing /\ pc'["camera"] \notin Closing
      BY <1>2 DEF Closing
    <2>5. ASSUME NEW s \in Handlers
          PROVE  /\ pc'[s] \in Handling <=> events_lock = s
                 /\ pc'[s] \in {"modify", "active"} <=> event_waiters_lock = s
                 /\ s \in event_waiters => pc'[s] = "asleep"
      <3>1. CASE s = "event"
        BY <1>2, <2>3, <3>1 DEF Handling, UsingHandle
      <3>2. CASE s # "event"
        BY <1>3, <3>2 DEF IInv, Locks
      <3> QED
        BY <3>1, <3>2
    <2> QED
      BY <2>2, <2>4, <2>5 DEF IInv, Locks, DataTypes
  <1>6. Life'
    BY <1>2, <1>3, Names DEF IInv, StartHandlerThread, Life, Opened, Modifying
  <1>7. Quiet'
    BY <1>2, <1>3, AtRest, Names DEF IInv, StartHandlerThread, Quiet, Served
  <1>8. Killed'
    BY <1>2, <1>3, Names DEF IInv, StartHandlerThread, Killed, Served, Quiet
  <1>9. Flights'
    <2>1. \A s \in Handlers : pc[s] \in {"idle", "none"} /\ pc'[s] \in {"idle", "none", "loop"}
      BY <1>2, <1>3, AtRest
    <2> QED
      BY <1>2, <2>1 DEF IInv, StartHandlerThread, Flights, Flying, UsingHandle
  <1>10. Waits'
    BY <1>2, <1>3, Names DEF IInv, StartHandlerThread, Waits, Done
  <1>11. RefsAccounted'
    <2>1. Completing' = Completing
      BY <1>2, <1>3, AtRest, Names DEF Completing
    <2> QED
      BY <1>2, <1>3, <2>1, Numbers DEF IInv, StartHandlerThread, RefsAccounted
  <1> QED
    BY <1>3, <1>4, <1>5, <1>6, <1>7, <1>8, <1>9, <1>10, <1>11 DEF IInv
-----------------------------------------------------------------------------
(* The camera thread closes.                                               *)

\* URBs that end keep their transfer and their connection
LEMMA Ended ==
    ASSUME DataTypes, urbs' = {[u EXCEPT !.done = TRUE] : u \in urbs}
    PROVE  /\ urbs' \subseteq Urbs
           /\ \A u \in urbs' : \E w \in urbs : /\ u = [w EXCEPT !.done = TRUE]
                                               /\ u.x = w.x /\ u.conn = w.conn
  <1>1. ASSUME NEW w \in urbs
        PROVE  LET u == [w EXCEPT !.done = TRUE]
               IN u \in Urbs /\ u.x = w.x /\ u.conn = w.conn
    BY DEF DataTypes, Urbs
  <1> QED
    BY <1>1

\* what is in flight stays in flight when URBs end
LEMMA FlightsEnded ==
    ASSUME DataTypes, Flights, urbs' = {[u EXCEPT !.done = TRUE] : u \in urbs},
           \A s \in Handlers : pc'[s] = pc[s],
           \/ pc'["camera"] = pc["camera"]
           \/ /\ pc["camera"] \in Flying /\ pc["camera"] # "open"
              /\ pc'["camera"] \in Flying /\ pc'["camera"] # "open"
              /\ pc'["camera"] \in Opened
              /\ pc["camera"] \notin {"close_wake", "op_close"},
           UNCHANGED <<flying_transfers, pollfds, current, handle, conn>>
    PROVE  Flights'
  <1>1. \A u \in urbs' : \E w \in urbs : /\ u = [w EXCEPT !.done = TRUE]
                                         /\ u.x = w.x /\ u.conn = w.conn
    BY Ended
  <1>2. \A u \in urbs' : u.conn <= conn' /\ (pc'["camera"] = "open" => u.conn < conn')
    BY <1>1 DEF Flights
  <1>3. ASSUME pollfds', pc'["camera"] \notin {"close_wake", "op_close"},
               NEW u \in urbs', u.conn = handle'
        PROVE  /\ u.x \in flying_transfers'
               /\ \A t \in Handlers : pc'[t] = "complete" => current'[t] # u.x
               /\ \A v \in urbs' : v.conn = handle' /\ v.x = u.x => v = u
    <2>1. PICK w \in urbs : /\ u = [w EXCEPT !.done = TRUE]
                            /\ u.x = w.x /\ u.conn = w.conn
      BY <1>1, <1>3
    <2>2. /\ pollfds /\ pc["camera"] \notin {"close_wake", "op_close"}
          /\ w.conn = handle
      BY <1>3, <2>1
    <2>3. /\ w.x \in flying_transfers
          /\ \A t \in Handlers : pc[t] = "complete" => current[t] # w.x
          /\ \A v \in urbs : v.conn = handle /\ v.x = w.x => v = w
      BY <2>2 DEF Flights
    <2>4. ASSUME NEW v \in urbs', v.conn = handle', v.x = u.x
          PROVE  v = u
      <3>1. PICK z \in urbs : /\ v = [z EXCEPT !.done = TRUE]
                              /\ v.x = z.x /\ v.conn = z.conn
        BY <1>1, <2>4
      <3>2. z = w
        BY <2>1, <2>3, <2>4, <3>1
      <3> QED
        BY <2>1, <3>1, <3>2
    <2> QED
      BY <2>1, <2>3, <2>4
  <1>4. \A t \in Handlers :
          /\ pc'[t] \in UsingHandle => pc'["camera"] \in Opened
          /\ pc'[t] = "reap" => pollfds'
          /\ pc'[t] = "disconnect" => ~pollfds'
          /\ pc'[t] = "complete" => current'[t] \in flying_transfers'
          /\ pc'[t] = "callback" => current'[t] \notin flying_transfers'
    BY DEF Flights
  <1> QED
    BY <1>2, <1>3, <1>4 DEF Flights

\* stopPreview comes first
LEMMA ReleaseStep ==
    ASSUME IInv, Release
    PROVE  IInv'
  <1> DEFINE q == "stop"
  <1>1. q \in CameraPlaces
    BY DEF CameraPlaces
  <1>2. pc["camera"] = "connected" /\ pc' = [pc EXCEPT !["camera"] = q]
    BY DEF Release, At, Goto
  <1>3. /\ pc'["camera"] = q
        /\ \A s \in Handlers : pc'[s] = pc[s]
        /\ PcTypes'
    BY <1>1, <1>2, CameraMoves DEF IInv
  <1> USE DEF lockVars, waitVars, dataVars, notifyVars, deviceVars, fixedVars, flyVars, cameraVars
  <1>4. DataTypes'
    BY <1>2, <1>3, Names DEF IInv, Release, DataTypes
  <1>5. Locks'
    BY <1>2, <1>3, Names DEF IInv, Release, Locks, Closing
  <1>6. Life'
    BY <1>2, <1>3, Names DEF IInv, Release, Life, Opened, Modifying
  <1>7. Quiet'
    BY <1>2, <1>3, Names DEF IInv, Release, Quiet, Served
  <1>8. Killed'
    BY <1>2, <1>3, Names DEF IInv, Release, Killed, Served
  <1>9. Flights'
    BY <1>2, <1>3, Names DEF IInv, Release, Flights, Flying, Opened
  <1>10. Waits'
    BY <1>2, <1>3, Names DEF IInv, Release, Waits, Done
  <1>11. RefsAccounted'
    <2>1. Completing' = Completing
      BY <1>3 DEF Completing
    <2> QED
      BY <1>2, <1>3, <2>1, Numbers DEF IInv, Release, RefsAccounted
  <1> QED
    BY <1>3, <1>4, <1>5, <1>6, <1>7, <1>8, <1>9, <1>10, <1>11 DEF IInv

\* the clients are idle now
LEMMA PreviewStoppedStep ==
    ASSUME IInv, PreviewStopped
    PROVE  IInv'
  <1> DEFINE q == "release_if"
  <1>1. q \in CameraPlaces
    BY DEF CameraPlaces
  <1>2. pc["camera"] = "stop" /\ pc' = [pc EXCEPT !["camera"] = q]
    BY DEF PreviewStopped, At, Goto
  <1>3. /\ pc'["camera"] = q
        /\ \A s \in Handlers : pc'[s] = pc[s]
        /\ PcTypes'
    BY <1>1, <1>2, CameraMoves DEF IInv
  <1> USE DEF lockVars, waitVars, dataVars, notifyVars, deviceVars, fixedVars, flyVars, cameraVars
  <1>4. DataTypes'
    BY <1>2, <1>3, Names DEF IInv, PreviewStopped, DataTypes
  <1>5. Locks'
    BY <1>2, <1>3, Names DEF IInv, PreviewStopped, Locks, Closing
  <1>6. Life'
    BY <1>2, <1>3, Names DEF IInv, PreviewStopped, Life, Opened, Modifying
  <1>7. Quiet'
    BY <1>2, <1>3, Names DEF IInv, PreviewStopped, Quiet, Served
  <1>8. Killed'
    BY <1>2, <1>3, Names DEF IInv, PreviewStopped, Killed, Served
  <1>9. Flights'
    BY <1>2, <1>3, Names DEF IInv, PreviewStopped, Flights, Flying, Opened
  <1>10. Waits'
    BY <1>2, <1>3, Names DEF IInv, PreviewStopped, Waits, Done
  <1>11. RefsAccounted'
    <2>1. Completing' = Completing
      BY <1>3 DEF Completing
    <2> QED
      BY <1>2, <1>3, <2>1, Numbers DEF IInv, PreviewStopped, RefsAccounted
  <1> QED
    BY <1>3, <1>4, <1>5, <1>6, <1>7, <1>8, <1>9, <1>10, <1>11 DEF IInv

\* the URBs of the interface end
LEMMA ReleaseInterfaceStep ==
    ASSUME IInv, ReleaseInterface
    PROVE  IInv'
  <1> DEFINE q == IF open_devices THEN "kill" ELSE "modify"
  <1>1. q \in CameraPlaces
    BY DEF CameraPlaces
  <1>2. pc["camera"] = "release_if" /\ pc' = [pc EXCEPT !["camera"] = q]
    BY DEF ReleaseInterface, At, Goto
  <1>3. /\ pc'["camera"] = q
        /\ \A s \in Handlers : pc'[s] = pc[s]
        /\ PcTypes'
    BY <1>1, <1>2, CameraMoves DEF IInv
  <1> USE DEF lockVars, waitVars, dataVars, notifyVars, deviceVars, fixedVars, flyVars, cameraVars
  <1>4. DataTypes'
    <2>1. urbs' \subseteq Urbs
      BY Ended DEF IInv, ReleaseInterface
    <2> QED
      BY <1>2, <2>1, Names DEF IInv, ReleaseInterface, DataTypes
  <1>5. Locks'
    BY <1>2, <1>3, Names DEF IInv, ReleaseInterface, Locks, Closing
  <1>6. Life'
    BY <1>2, <1>3, Names DEF IInv, ReleaseInterface, Life, Opened, Modifying
  <1>7. Quiet'
    BY <1>2, <1>3, Names DEF IInv, ReleaseInterface, Quiet, Served
  <1>8. Killed'
    BY <1>2, <1>3, Names DEF IInv, ReleaseInterface, Killed, Served
  <1>9. Flights'
    BY <1>2, <1>3, FlightsEnded DEF IInv, ReleaseInterface, Flying, Opened
  <1>10. Waits'
    BY <1>2, <1>3, Ended, Names DEF IInv, ReleaseInterface, Waits, Done
  <1>11. RefsAccounted'
    <2>1. Completing' = Completing
      BY <1>3 DEF Completing
    <2> QED
      BY <1>2, <1>3, <2>1, Numbers DEF IInv, ReleaseInterface, RefsAccounted
  <1> QED
    BY <1>3, <1>4, <1>5, <1>6, <1>7, <1>8, <1>9, <1>10, <1>11 DEF IInv

\* the thread is told to end
LEMMA KillHandlerThreadStep ==
    ASSUME IInv, KillHandlerThread
    PROVE  IInv'
  <1> DEFINE q == "modify"
  <1>1. q \in CameraPlaces
    BY DEF CameraPlaces
  <1>2. pc["camera"] = "kill" /\ pc' = [pc EXCEPT !["camera"] = q]
    BY DEF KillHandlerThread, At, Goto
  <1>3. /\ pc'["camera"] = q
        /\ \A s \in Handlers : pc'[s] = pc[s]
        /\ PcTypes'
    BY <1>1, <1>2, CameraMoves DEF IInv
  <1> USE DEF lockVars, waitVars, dataVars, notifyVars, deviceVars, fixedVars, flyVars, cameraVars
  <1>4. DataTypes'
    BY <1>2, <1>3, Names DEF IInv, KillHandlerThread, DataTypes
  <1>5. Locks'
    BY <1>2, <1>3, Names DEF IInv, KillHandlerThread, Locks, Closing
  <1>6. Life'
    BY <1>2, <1>3, Names DEF IInv, KillHandlerThread, Life, Opened, Modifying
  <1>7. Quiet'
    BY <1>2, <1>3, Names DEF IInv, KillHandlerThread, Quiet, Served
  <1>8. Killed'
    BY <1>2, <1>3, Names DEF IInv, KillHandlerThread, Killed, Served, Life
  <1>9. Flights'
    BY <1>2, <1>3, Names DEF IInv, KillHandlerThread, Flights, Flying, Opened
  <1>10. Waits'
    BY <1>2, <1>3, Names DEF IInv, KillHandlerThread, Waits, Done
  <1>11. RefsAccounted'
    <2>1. Completing' = Completing
      BY <1>3 DEF Completing
    <2> QED
      BY <1>2, <1>3, <2>1, Numbers DEF IInv, KillHandlerThread, RefsAccounted
  <1> QED
    BY <1>3, <1>4, <1>5, <1>6, <1>7, <1>8, <1>9, <1>10, <1>11 DEF IInv

\* a change is pending
LEMMA CloseModifiesStep ==
    ASSUME IInv, CloseModifies
    PROVE  IInv'
  <1> DEFINE q == "write"
  <1>1. q \in CameraPlaces
    BY DEF CameraPlaces
  <1>2. pc["camera"] = "modify" /\ pc' = [pc EXCEPT !["camera"] = q]
    BY DEF CloseModifies, At, Goto
  <1>3. /\ pc'["camera"] = q
        /\ \A s \in Handlers : pc'[s] = pc[s]
        /\ PcTypes'
    BY <1>1, <1>2, CameraMoves DEF IInv
  <1> USE DEF lockVars, waitVars, dataVars, notifyVars, deviceVars, fixedVars, flyVars, cameraVars
  <1>4. DataTypes'
    BY <1>2, <1>3, Names DEF IInv, CloseModifies, DataTypes
  <1>5. Locks'
    BY <1>2, <1>3, Names DEF IInv, CloseModifies, Locks, Closing
  <1>6. Life'
    BY <1>2, <1>3, Names DEF IInv, CloseModifies, Life, Opened, Modifying
  <1>7. Quiet'
    BY <1>2, <1>3, Names DEF IInv, CloseModifies, Quiet, Served
  <1>8. Killed'
    BY <1>2, <1>3, Names DEF IInv, CloseModifies, Killed, Served
  <1>9. Flights'
    BY <1>2, <1>3, Names DEF IInv, CloseModifies, Flights, Flying, Opened
  <1>10. Waits'
    BY <1>2, <1>3, Names DEF IInv, CloseModifies, Waits, Done
  <1>11. RefsAccounted'
    <2>1. Completing' = Completing
      BY <1>3 DEF Completing
    <2> QED
      BY <1>2, <1>3, <2>1, Numbers DEF IInv, CloseModifies, RefsAccounted
  <1> QED
    BY <1>3, <1>4, <1>5, <1>6, <1>7, <1>8, <1>9, <1>10, <1>11 DEF IInv

\* the handler is interrupted
LEMMA CloseInterruptsStep ==
    ASSUME IInv, CloseInterrupts
    PROVE  IInv'
  <1> DEFINE q == "lock"
  <1>1. q \in CameraPlaces
    BY DEF CameraPlaces
  <1>2. pc["camera"] = "write" /\ pc' = [pc EXCEPT !["camera"] = q]
    BY DEF CloseInterrupts, At, Goto
  <1>3. /\ pc'["camera"] = q
        /\ \A s \in Handlers : pc'[s] = pc[s]
        /\ PcTypes'
    BY <1>1, <1>2, CameraMoves DEF IInv
  <1> USE DEF lockVars, waitVars, dataVars, notifyVars, deviceVars, fixedVars, flyVars, cameraVars
  <1>4. DataTypes'
    BY <1>2, <1>3, Names DEF IInv, CloseInterrupts, DataTypes
  <1>5. Locks'
    BY <1>2, <1>3, Names DEF IInv, CloseInterrupts, Locks, Closing
  <1>6. Life'
    BY <1>2, <1>3, Names DEF IInv, CloseInterrupts, Life, Opened, Modifying
  <1>7. Quiet'
    BY <1>2, <1>3, Names DEF IInv, CloseInterrupts, Quiet, Served
  <1>8. Killed'
    BY <1>2, <1>3, Names DEF IInv, CloseInterrupts, Killed, Served
  <1>9. Flights'
    BY <1>2, <1>3, Names DEF IInv, CloseInterrupts, Flights, Flying, Opened
  <1>10. Waits'
    BY <1>2, <1>3, Names DEF IInv, CloseInterrupts, Waits, Done
  <1>11. RefsAccounted'
    <2>1. Completing' = Completing
      BY <1>3 DEF Completing
    <2> QED
      BY <1>2, <1>3, <2>1, Numbers DEF IInv, CloseInterrupts, RefsAccounted
  <1> QED
    BY <1>3, <1>4, <1>5, <1>6, <1>7, <1>8, <1>9, <1>10, <1>11 DEF IInv

\* nobody handles events now
LEMMA CloseLocksStep ==
    ASSUME IInv, CloseLocks
    PROVE  IInv'
  <1> DEFINE q == "do_close"
  <1>1. q \in CameraPlaces
    BY DEF CameraPlaces
  <1>2. pc["camera"] = "lock" /\ pc' = [pc EXCEPT !["camera"] = q]
    BY DEF CloseLocks, At, Goto
  <1>3. /\ pc'["camera"] = q
        /\ \A s \in Handlers : pc'[s] = pc[s]
        /\ PcTypes'
    BY <1>1, <1>2, CameraMoves DEF IInv
  <1> USE DEF lockVars, waitVars, dataVars, notifyVars, deviceVars, fixedVars, flyVars, cameraVars
  <1>4. DataTypes'
    BY <1>2, <1>3, Names DEF IInv, CloseLocks, DataTypes
  <1>5. Locks'
    BY <1>2, <1>3, Names DEF IInv, CloseLocks, Locks, Closing
  <1>6. Life'
    BY <1>2, <1>3, Names DEF IInv, CloseLocks, Life, Opened, Modifying
  <1>7. Quiet'
    BY <1>2, <1>3, Names DEF IInv, CloseLocks, Quiet, Served
  <1>8. Killed'
    BY <1>2, <1>3, Names DEF IInv, CloseLocks, Killed, Served
  <1>9. Flights'
    BY <1>2, <1>3, Names DEF IInv, CloseLocks, Flights, Flying, Opened
  <1>10. Waits'
    BY <1>2, <1>3, Names DEF IInv, CloseLocks, Waits, Done
  <1>11. RefsAccounted'
    <2>1. Completing' = Completing
      BY <1>3 DEF Completing
    <2> QED
      BY <1>2, <1>3, <2>1, Numbers DEF IInv, CloseLocks, RefsAccounted
  <1> QED
    BY <1>3, <1>4, <1>5, <1>6, <1>7, <1>8, <1>9, <1>10, <1>11 DEF IInv

\* no transfer is in flight
LEMMA DoCloseStep ==
    ASSUME IInv, DoClose
    PROVE  IInv'
  <1> DEFINE q == "close_wake"
  <1>1. q \in CameraPlaces
    BY DEF CameraPlaces
  <1>2. pc["camera"] = "do_close" /\ pc' = [pc EXCEPT !["camera"] = q]
    BY DEF DoClose, At, Goto
  <1>3. /\ pc'["camera"] = q
        /\ \A s \in Handlers : pc'[s] = pc[s]
        /\ PcTypes'
    BY <1>1, <1>2, CameraMoves DEF IInv
  <1> USE DEF lockVars, waitVars, dataVars, notifyVars, deviceVars, fixedVars, flyVars, cameraVars
  <1>4. DataTypes'
    <2>1. abandoned' \in Nat
      BY <1>2, <1>3, Numbers, Names DEF IInv, DoClose, DataTypes
    <2>2. IsFiniteSet(flying_transfers')
      BY FS_EmptySet DEF DoClose
    <2> QED
      BY <1>2, <2>1, <2>2, Names DEF IInv, DoClose, DataTypes
  <1>5. Locks'
    BY <1>2, <1>3, Names DEF IInv, DoClose, Locks, Closing
  <1>6. Life'
    BY <1>2, <1>3, Names DEF IInv, DoClose, Life, Opened, Modifying
  <1>7. Quiet'
    BY <1>2, <1>3, Names DEF IInv, DoClose, Quiet, Served
  <1>8. Killed'
    BY <1>2, <1>3, Names DEF IInv, DoClose, Killed, Served
  <1>9. Flights'
    BY <1>2, <1>3, Names DEF IInv, DoClose, Flights, Flying, Opened, Locks, Closing, Handling, UsingHandle
  <1>10. Waits'
    BY <1>2, <1>3, Names DEF IInv, DoClose, Waits, Done
  <1>11. RefsAccounted'
    <2>1. Completing' = Completing
      BY <1>3 DEF Completing
    <2> QED
      BY <1>2, <1>3, <2>1, FS_EmptySet, Numbers DEF IInv, DoClose, RefsAccounted
  <1> QED
    BY <1>3, <1>4, <1>5, <1>6, <1>7, <1>8, <1>9, <1>10, <1>11 DEF IInv

\* the waiters are woken
LEMMA DoCloseWakesStep ==
    ASSUME IInv, DoCloseWakes
    PROVE  IInv'
  <1> DEFINE q == "op_close"
  <1>1. q \in CameraPlaces
    BY DEF CameraPlaces
  <1>2. pc["camera"] = "close_wake" /\ pc' = [pc EXCEPT !["camera"] = q]
    BY DEF DoCloseWakes, At, Goto
  <1>3. /\ pc'["camera"] = q
        /\ \A s \in Handlers : pc'[s] = pc[s]
        /\ PcTypes'
    BY <1>1, <1>2, CameraMoves DEF IInv
  <1> USE DEF lockVars, waitVars, dataVars, notifyVars, deviceVars, fixedVars, flyVars, cameraVars
  <1>4. DataTypes'
    BY <1>2, <1>3, Names DEF IInv, DoCloseWakes, WakeWaiters, DataTypes
  <1>5. Locks'
    BY <1>2, <1>3, Names DEF IInv, DoCloseWakes, WakeWaiters, Locks, Closing
  <1>6. Life'
    BY <1>2, <1>3, Names DEF IInv, DoCloseWakes, WakeWaiters, Life, Opened, Modifying
  <1>7. Quiet'
    BY <1>2, <1>3, Names DEF IInv, DoCloseWakes, WakeWaiters, Quiet, Served
  <1>8. Killed'
    BY <1>2, <1>3, Names DEF IInv, DoCloseWakes, WakeWaiters, Killed, Served
  <1>9. Flights'
    BY <1>2, <1>3, Names DEF IInv, DoCloseWakes, WakeWaiters, Flights, Flying, Opened
  <1>10. Waits'
    BY <1>2, <1>3, Names DEF IInv, DoCloseWakes, WakeWaiters, Waits, Done
  <1>11. RefsAccounted'
    <2>1. Completing' = Completing
      BY <1>3 DEF Completing
    <2> QED
      BY <1>2, <1>3, <2>1, Numbers DEF IInv, DoCloseWakes, WakeWaiters, RefsAccounted
  <1> QED
    BY <1>3, <1>4, <1>5, <1>6, <1>7, <1>8, <1>9, <1>10, <1>11 DEF IInv

\* nobody uses the handle
LEMMA FreeHandleStep ==
    ASSUME IInv, FreeHandle
    PROVE  IInv'
  <1> DEFINE q == "close_unlock"
  <1>1. q \in CameraPlaces
    BY DEF CameraPlaces
  <1>2. pc["camera"] = "op_close" /\ pc' = [pc EXCEPT !["camera"] = q]
    BY DEF FreeHandle, At, Goto
  <1>3. /\ pc'["camera"] = q
        /\ \A s \in Handlers : pc'[s] = pc[s]
        /\ PcTypes'
    BY <1>1, <1>2, CameraMoves DEF IInv
  <1> USE DEF lockVars, waitVars, dataVars, notifyVars, deviceVars, fixedVars, flyVars, cameraVars
  <1>4. DataTypes'
    <2>1. refcnt' \in Int
      BY <1>2, <1>3, Names DEF IInv, FreeHandle, DataTypes
    <2>2. pollfds' \in BOOLEAN
      BY <1>2, <1>3, Names DEF IInv, FreeHandle, DataTypes
    <2> QED
      BY <1>2, <2>1, <2>2, Names DEF IInv, FreeHandle, DataTypes
  <1>5. Locks'
    BY <1>2, <1>3, Names DEF IInv, FreeHandle, Locks, Closing
  <1>6. Life'
    BY <1>2, <1>3, Names DEF IInv, FreeHandle, Life, Opened, Modifying
  <1>7. Quiet'
    BY <1>2, <1>3, Names DEF IInv, FreeHandle, Quiet, Served
  <1>8. Killed'
    BY <1>2, <1>3, Names DEF IInv, FreeHandle, Killed, Served
  <1>9. Flights'
    BY <1>2, <1>3, Names DEF IInv, FreeHandle, Flights, Flying, Opened, Locks, Closing, Handling, UsingHandle
  <1>10. Waits'
    BY <1>2, <1>3, Names DEF IInv, FreeHandle, Waits, Done
  <1>11. RefsAccounted'
    <2>1. Completing' = Completing
      BY <1>3 DEF Completing
    <2> QED
      BY <1>2, <1>3, <2>1, Numbers DEF IInv, FreeHandle, Life, Opened, RefsAccounted
  <1> QED
    BY <1>3, <1>4, <1>5, <1>6, <1>7, <1>8, <1>9, <1>10, <1>11 DEF IInv

\* the lock is free
LEMMA CloseUnlocksStep ==
    ASSUME IInv, CloseUnlocks
    PROVE  IInv'
  <1> DEFINE q == "close_broadcast"
  <1>1. q \in CameraPlaces
    BY DEF CameraPlaces
  <1>2. pc["camera"] = "close_unlock" /\ pc' = [pc EXCEPT !["camera"] = q]
    BY DEF CloseUnlocks, At, Goto
  <1>3. /\ pc'["camera"] = q
        /\ \A s \in Handlers : pc'[s] = pc[s]
        /\ PcTypes'
    BY <1>1, <1>2, CameraMoves DEF IInv
  <1> USE DEF lockVars, waitVars, dataVars, notifyVars, deviceVars, fixedVars, flyVars, cameraVars
  <1>4. DataTypes'
    BY <1>2, <1>3, Names DEF IInv, CloseUnlocks, DataTypes
  <1>5. Locks'
    BY <1>2, <1>3, Names DEF IInv, CloseUnlocks, Locks, Closing
  <1>6. Life'
    BY <1>2, <1>3, Names DEF IInv, CloseUnlocks, Life, Opened, Modifying
  <1>7. Quiet'
    BY <1>2, <1>3, Names DEF IInv, CloseUnlocks, Quiet, Served
  <1>8. Killed'
    BY <1>2, <1>3, Names DEF IInv, CloseUnlocks, Killed, Served
  <1>9. Flights'
    BY <1>2, <1>3, Names DEF IInv, CloseUnlocks, Flights, Flying, Opened
  <1>10. Waits'
    BY <1>2, <1>3, Names DEF IInv, CloseUnlocks, Waits, Done
  <1>11. RefsAccounted'
    <2>1. Completing' = Completing
      BY <1>3 DEF Completing
    <2> QED
      BY <1>2, <1>3, <2>1, Numbers DEF IInv, CloseUnlocks, RefsAccounted
  <1> QED
    BY <1>3, <1>4, <1>5, <1>6, <1>7, <1>8, <1>9, <1>10, <1>11 DEF IInv

\* the waiters are woken
LEMMA CloseWakesStep ==
    ASSUME IInv, CloseWakes
    PROVE  IInv'
  <1> DEFINE q == "join"
  <1>1. q \in CameraPlaces
    BY DEF CameraPlaces
  <1>2. pc["camera"] = "close_broadcast" /\ pc' = [pc EXCEPT !["camera"] = q]
    BY DEF CloseWakes, At, Goto
  <1>3. /\ pc'["camera"] = q
        /\ \A s \in Handlers : pc'[s] = pc[s]
        /\ PcTypes'
    BY <1>1, <1>2, CameraMoves DEF IInv
  <1> USE DEF lockVars, waitVars, dataVars, notifyVars, deviceVars, fixedVars, flyVars, cameraVars
  <1>4. DataTypes'
    BY <1>2, <1>3, Names DEF IInv, CloseWakes, WakeWaiters, DataTypes
  <1>5. Locks'
    BY <1>2, <1>3, Names DEF IInv, CloseWakes, WakeWaiters, Locks, Closing
  <1>6. Life'
    BY <1>2, <1>3, Names DEF IInv, CloseWakes, WakeWaiters, Life, Opened, Modifying
  <1>7. Quiet'
    BY <1>2, <1>3, Names DEF IInv, CloseWakes, WakeWaiters, Quiet, Served
  <1>8. Killed'
    BY <1>2, <1>3, Names DEF IInv, CloseWakes, WakeWaiters, Killed, Served
  <1>9. Flights'
    BY <1>2, <1>3, Names DEF IInv, CloseWakes, WakeWaiters, Flights, Flying, Opened
  <1>10. Waits'
    BY <1>2, <1>3, Names DEF IInv, CloseWakes, WakeWaiters, Waits, Done
  <1>11. RefsAccounted'
    <2>1. Completing' = Completing
      BY <1>3 DEF Completing
    <2> QED
      BY <1>2, <1>3, <2>1, Numbers DEF IInv, CloseWakes, WakeWaiters, RefsAccounted
  <1> QED
    BY <1>3, <1>4, <1>5, <1>6, <1>7, <1>8, <1>9, <1>10, <1>11 DEF IInv

\* the handler thread has ended
LEMMA JoinHandlerThreadStep ==
    ASSUME IInv, JoinHandlerThread
    PROVE  IInv'
  <1>1. /\ pc["camera"] = "join"
        /\ pc' = [pc EXCEPT !["camera"] = "closed", !["event"] = "none"]
    BY DEF JoinHandlerThread
  <1>2. /\ pc["camera"] = "join"
        /\ pc'["camera"] = "closed"
        /\ pc'["event"] = "none"
        /\ \A c \in Clients : pc'[c] = pc[c]
    BY <1>1, Names DEF IInv, PcTypes
  <1>3. /\ \A s \in Handlers : pc'[s] = IF s = "event" THEN "none" ELSE pc[s]
        /\ PcTypes'
    BY <1>1, <1>2, Names DEF IInv, PcTypes, HandlerPlaces, CameraPlaces
  <1> USE DEF lockVars, waitVars, dataVars, notifyVars, deviceVars, fixedVars, flyVars, cameraVars
  <1>4. DataTypes'
    BY <1>2, <1>3, Names DEF IInv, JoinHandlerThread, DataTypes
  <1>5. Locks'
    <2>1. pc["event"] \in {"none", "exited"}
      BY <1>2, Names DEF IInv, JoinHandlerThread, Quiet, Served
    <2>2. /\ events_lock' = events_lock /\ event_waiters_lock' = event_waiters_lock
          /\ event_waiters' = event_waiters
      BY DEF JoinHandlerThread
    <2>3. "event" \notin event_waiters /\ events_lock # "event" /\ event_waiters_lock # "event"
      BY <2>1, Names DEF IInv, Locks, Handling, UsingHandle
    <2>4. pc["camera"] \notin Closing /\ pc'["camera"] \notin Closing
      BY <1>2 DEF Closing
    <2>5. ASSUME NEW s \in Handlers
          PROVE  /\ pc'[s] \in Handling <=> events_lock = s
                 /\ pc'[s] \in {"modify", "active"} <=> event_waiters_lock = s
                 /\ s \in event_waiters => pc'[s] = "asleep"
      <3>1. CASE s = "event"
        BY <1>2, <2>3, <3>1 DEF Handling, UsingHandle
      <3>2. CASE s # "event"
        BY <1>3, <3>2 DEF IInv, Locks
      <3> QED
        BY <3>1, <3>2
    <2> QED
      BY <2>2, <2>4, <2>5 DEF IInv, Locks, DataTypes
  <1>6. Life'
    BY <1>2, <1>3, Names DEF IInv, JoinHandlerThread, Life, Opened, Modifying
  <1>7. Quiet'
    BY <1>2, <1>3, Names DEF IInv, JoinHandlerThread, Quiet, Served
  <1>8. Killed'
    BY <1>2, <1>3, Names DEF IInv, JoinHandlerThread, Killed, Served
  <1>9. Flights'
    BY <1>2, <1>3, Names DEF IInv, JoinHandlerThread, Flights, Flying, Opened, UsingHandle
  <1>10. Waits'
    BY <1>2, <1>3, Names DEF IInv, JoinHandlerThread, Waits, Done
  <1>11. RefsAccounted'
    <2>1. Completing' = Completing
      BY <1>2, <1>3, Names DEF IInv, Quiet, JoinHandlerThread, Completing
    <2> QED
      BY <1>2, <1>3, <2>1, Numbers DEF IInv, JoinHandlerThread, RefsAccounted
  <1> QED
    BY <1>3, <1>4, <1>5, <1>6, <1>7, <1>8, <1>9, <1>10, <1>11 DEF IInv

\* every reference of the connection is dropped
LEMMA ReleasedStep ==
    ASSUME IInv, Released
    PROVE  IInv'
  <1> DEFINE q == "idle"
  <1>1. q \in CameraPlaces
    BY DEF CameraPlaces
  <1>2. pc["camera"] = "closed" /\ pc' = [pc EXCEPT !["camera"] = q]
    BY DEF Released, At, Goto
  <1>3. /\ pc'["camera"] = q
        /\ \A s \in Handlers : pc'[s] = pc[s]
        /\ PcTypes'
    BY <1>1, <1>2, CameraMoves DEF IInv
  <1> USE DEF lockVars, waitVars, dataVars, notifyVars, deviceVars, fixedVars, flyVars, cameraVars
  <1>4. DataTypes'
    <2>1. refcnt' \in Int
      BY <1>2, <1>3, Names DEF IInv, Released, DataTypes
    <2>2. open_devices' \in BOOLEAN
      BY <1>2, <1>3, Names DEF IInv, Released, DataTypes
    <2> QED
      BY <1>2, <2>1, <2>2, Names DEF IInv, Released, DataTypes
  <1>5. Locks'
    BY <1>2, <1>3, Names DEF IInv, Released, Locks, Closing
  <1>6. Life'
    BY <1>2, <1>3, Names DEF IInv, Released, Life, Opened, Modifying
  <1>7. Quiet'
    BY <1>2, <1>3, Names DEF IInv, Released, Quiet, Served
  <1>8. Killed'
    BY <1>2, <1>3, Names DEF IInv, Released, Killed, Served
  <1>9. Flights'
    BY <1>2, <1>3, Names DEF IInv, Released, Flights, Flying, Opened
  <1>10. Waits'
    BY <1>2, <1>3, Names DEF IInv, Released, Waits, Done
  <1>11. RefsAccounted'
    <2>1. Completing' = Completing
      BY <1>3 DEF Completing
    <2> QED
      BY <1>2, <1>3, <2>1, Numbers DEF IInv, Released, Life, RefsAccounted
  <1> QED
    BY <1>3, <1>4, <1>5, <1>6, <1>7, <1>8, <1>9, <1>10, <1>11 DEF IInv

\* the list and its message drop theirs
LEMMA DestroyStep ==
    ASSUME IInv, Destroy
    PROVE  IInv'
  <1> DEFINE q == "idle"
  <1>1. q \in CameraPlaces
    BY DEF CameraPlaces
  <1>2. pc["camera"] = "idle" /\ pc' = [pc EXCEPT !["camera"] = q]
    BY DEF Destroy, At, Goto
  <1>3. /\ pc'["camera"] = q
        /\ \A s \in Handlers : pc'[s] = pc[s]
        /\ PcTypes'
    BY <1>1, <1>2, CameraMoves DEF IInv
  <1> USE DEF lockVars, waitVars, dataVars, notifyVars, deviceVars, fixedVars, flyVars, cameraVars
  <1>4. DataTypes'
    <2>1. refcnt' \in Int /\ hotplug_pipe' \in {0, 1}
      BY <1>2, <1>3, Names DEF IInv, Destroy, DataTypes
    <2>2. attached' \in BOOLEAN /\ context' \in BOOLEAN
      BY <1>2, <1>3, Names DEF IInv, Destroy, DataTypes
    <2> QED
      BY <1>2, <2>1, <2>2, Names DEF IInv, Destroy, DataTypes
  <1>5. Locks'
    BY <1>2, <1>3, Names DEF IInv, Destroy, Locks, Closing
  <1>6. Life'
    BY <1>2, <1>3, Names DEF IInv, Destroy, Life, Opened, Modifying
  <1>7. Quiet'
    BY <1>2, <1>3, Names DEF IInv, Destroy, Quiet, Served
  <1>8. Killed'
    BY <1>2, <1>3, Names DEF IInv, Destroy, Killed, Served
  <1>9. Flights'
    BY <1>2, <1>3, Names DEF IInv, Destroy, Flights, Flying, Opened
  <1>10. Waits'
    BY <1>2, <1>3, Names DEF IInv, Destroy, Waits, Done
  <1>11. RefsAccounted'
    <2>1. Completing' = Completing
      BY <1>3 DEF Completing
    <2>2. CASE attached
      BY <1>2, <1>3, <2>1, <2>2, Numbers DEF IInv, Destroy, RefsAccounted
    <2>3. CASE ~attached
      BY <1>2, <1>3, <2>1, <2>3, Numbers DEF IInv, Destroy, RefsAccounted
    <2> QED
      BY <2>2, <2>3
  <1> QED
    BY <1>3, <1>4, <1>5, <1>6, <1>7, <1>8, <1>9, <1>10, <1>11 DEF IInv
-----------------------------------------------------------------------------
(* The kernel.                                                             *)

\* an URB is finished: it is another set of URBs with the same transfers
LEMMA UrbCompletesStep ==
    ASSUME IInv, NEW x \in Transfers, UrbCompletes(x), UNCHANGED cameraVars
    PROVE  IInv'
  <1>1. PICK u \in urbs :
           /\ u.x = x /\ ~u.done
           /\ urbs' = (urbs \ {u}) \cup {[u EXCEPT !.done = TRUE]}
    BY DEF UrbCompletes
  <1> DEFINE n == [u EXCEPT !.done = TRUE]
  <1>2. n \in Urbs /\ n.x = u.x /\ n.conn = u.conn
    BY DEF IInv, DataTypes, Urbs
  <1>3. urbs' = (urbs \ {u}) \cup {n}
    BY <1>1
  <1> HIDE DEF n
  <1>4. /\ UNCHANGED <<pc, lockVars, waitVars, notifyVars, deviceVars, handle,
                       flying_transfers, refcnt, completed, current, stale, plugged>>
        /\ interrupts' \in 0..MaxInterrupts
    <2>1. interrupts' \in 0..MaxInterrupts
      <3>1. CASE x = "status"
        BY <3>1, ClientsAssumption DEF IInv, UrbCompletes, DataTypes
      <3>2. CASE x # "status"
        BY <3>2 DEF IInv, UrbCompletes, DataTypes
      <3> QED
        BY <3>1, <3>2
    <2> QED
      BY <2>1 DEF UrbCompletes
  <1>5. PcTypes' /\ Locks' /\ Life' /\ Quiet' /\ Killed' /\ RefsAccounted'
    BY <1>4, UrbsOnly
  <1> USE DEF lockVars, waitVars, deviceVars, cameraVars
  <1>6. DataTypes'
    <2>1. urbs' \subseteq Urbs
      BY <1>2, <1>3 DEF IInv, DataTypes
    <2> QED
      BY <1>4, <2>1 DEF IInv, DataTypes
  <1>7. Flights'
    <2>1. \A v \in urbs' : v.conn <= conn' /\ (pc'["camera"] = "open" => v.conn < conn')
      BY <1>2, <1>3, <1>4 DEF IInv, Flights
    <2>2. ASSUME pollfds, pc["camera"] \notin {"close_wake", "op_close"},
                 NEW v \in urbs', v.conn = handle
          PROVE  /\ v.x \in flying_transfers
                 /\ \A t \in Handlers : pc[t] = "complete" => current[t] # v.x
                 /\ \A w \in urbs' : w.conn = handle /\ w.x = v.x => w = v
      BY <1>2, <1>3, <2>2 DEF IInv, Flights
    <2> QED
      BY <1>4, <2>1, <2>2 DEF IInv, Flights
  <1>8. Waits'
    BY <1>2, <1>3, <1>4 DEF IInv, Waits, Done
  <1> QED
    BY <1>5, <1>6, <1>7, <1>8 DEF IInv

\* every URB ends
LEMMA UnplugStep ==
    ASSUME IInv, Unplug, UNCHANGED cameraVars
    PROVE  IInv'
  <1>1. /\ UNCHANGED <<pc, lockVars, waitVars, notifyVars, deviceVars, handle,
                       flying_transfers, refcnt, completed, current, stale, interrupts>>
        /\ urbs' = {[u EXCEPT !.done = TRUE] : u \in urbs}
        /\ plugged' = FALSE
    BY DEF Unplug
  <1>2. PcTypes' /\ Locks' /\ Life' /\ Quiet' /\ Killed' /\ RefsAccounted'
    BY <1>1, UrbsOnly
  <1> USE DEF lockVars, waitVars, deviceVars, cameraVars
  <1>3. DataTypes'
    <2>1. urbs' \subseteq Urbs
      BY <1>1, Ended DEF IInv
    <2> QED
      BY <1>1, <2>1 DEF IInv, DataTypes
  <1>4. Flights'
    BY <1>1, FlightsEnded DEF IInv
  <1>5. Waits'
    BY <1>1, Ended DEF IInv, Waits, Done
  <1> QED
    BY <1>2, <1>3, <1>4, <1>5 DEF IInv

\* the reference of the list passes to the message
LEMMA MonitorSeesRemovalStep ==
    ASSUME IInv, MonitorSeesRemoval, UNCHANGED cameraVars
    PROVE  IInv'
  <1>1. /\ UNCHANGED <<pc, lockVars, waitVars, notifyVars, fixedVars, flyVars,
                       pollfds, refcnt, completed, current, stale>>
        /\ attached /\ ~attached' /\ attached' = FALSE
        /\ hotplug_pipe' = hotplug_pipe + 1
    BY DEF MonitorSeesRemoval, DisconnectDevice
  <1> USE DEF lockVars, waitVars, notifyVars, fixedVars, flyVars, cameraVars
  <1>2. hotplug_pipe = 0
    BY <1>1 DEF IInv, Life
  <1>3. DataTypes'
    <2>1. hotplug_pipe' = 1
      BY <1>1, <1>2
    <2> QED
      BY <1>1, <2>1 DEF IInv, DataTypes
  <1>4. PcTypes' /\ Locks' /\ Quiet' /\ Killed'
    BY <1>1 DEF IInv, PcTypes, Locks, Quiet, Killed
  <1>5. Life'
    BY <1>1, <1>2 DEF IInv, Life
  <1>6. Flights' /\ Waits'
    BY <1>1 DEF IInv, Flights, Waits, Done
  <1>7. RefsAccounted'
    <2>1. Completing' = Completing
      BY <1>1 DEF Completing
    <2> QED
      BY <1>1, <2>1, Numbers DEF IInv, RefsAccounted
  <1> QED
    BY <1>3, <1>4, <1>5, <1>6, <1>7 DEF IInv

\* a new device and a new file: no URB
LEMMA ReplugStep ==
    ASSUME IInv, Replug
    PROVE  IInv'
  <1>1. /\ UNCHANGED <<pc, lockVars, waitVars, notifyVars, deviceVars, handle,
                       flying_transfers, refcnt, completed, current, stale,
                       interrupts, cameraVars>>
        /\ urbs' = {} /\ plugged' = TRUE
    BY DEF Replug
  <1>2. PcTypes' /\ Locks' /\ Life' /\ Quiet' /\ Killed' /\ RefsAccounted'
    BY <1>1, UrbsOnly
  <1> USE DEF lockVars, waitVars, deviceVars, cameraVars
  <1>3. DataTypes'
    BY <1>1 DEF IInv, DataTypes
  <1>4. Flights' /\ Waits'
    BY <1>1 DEF IInv, Flights, Waits, Done
  <1> QED
    BY <1>2, <1>3, <1>4 DEF IInv

-----------------------------------------------------------------------------
(* The theorems.                                                           *)

\* the invariant holds before anything happens
LEMMA InitInvariant == DeviceInit => IInv
  <1> SUFFICES ASSUME DeviceInit
               PROVE  IInv
    OBVIOUS
  <1> USE DEF DeviceInit, EventInit
  <1>1. PcTypes
    BY Names DEF PcTypes, HandlerPlaces, CameraPlaces
  <1>2. \A t \in Handlers : pc[t] \in {"idle", "none"}
    BY Names
  <1>3. pc["camera"] = "idle" /\ pc["event"] = "none"
        /\ \A c \in Clients : pc[c] = "idle"
    BY Names
  <1>4. DataTypes
    <2>1. /\ completed \in [Clients -> BOOLEAN]
          /\ current \in [Handlers -> Transfers \cup {NULL}]
      OBVIOUS
    <2>2. /\ interrupts \in 0..MaxInterrupts /\ queries \in 0..MaxQueries
          /\ conn \in 0..MaxConnects /\ finds \in 0..conn
          /\ refcnt \in Int /\ abandoned \in Nat /\ hotplug_pipe \in {0, 1}
      BY ClientsAssumption, DeviceAssumption
    <2>3. /\ urbs \subseteq Urbs /\ flying_transfers \subseteq Transfers
          /\ IsFiniteSet(flying_transfers)
      BY FS_EmptySet
    <2> QED
      BY <2>1, <2>2, <2>3, Names DEF DataTypes
  <1>5. Locks
    BY <1>2, <1>3, Names DEF Locks, Handling, UsingHandle, Closing
  <1>6. Life /\ Quiet /\ Killed
    BY <1>3 DEF Life, Quiet, Killed, Modifying, Opened, Served
  <1>7. Flights /\ Waits
    BY <1>2, <1>3, Names DEF Flights, Waits, Done, UsingHandle
  <1>8. RefsAccounted
    <2>1. Completing = {}
      BY <1>2 DEF Completing
    <2> QED
      BY <2>1, FS_EmptySet DEF RefsAccounted
  <1> QED
    BY <1>1, <1>4, <1>5, <1>6, <1>7, <1>8 DEF IInv

\* a step of a thread that handles events
LEMMA HandleEventsStep ==
    ASSUME IInv, NEW t \in Handlers, HandleEvents(t), UNCHANGED cameraVars
    PROVE  IInv'
  <1>1. CASE TryLockEvents(t) \/ TrylockMutex(t) \/ Recheck(t) \/ UnlockEvents(t)
             \/ UnlockWakes(t)
    BY <1>1, TryLockEventsStep, TrylockMutexStep, RecheckStep, UnlockEventsStep,
       UnlockWakesStep
  <1>2. CASE PollInterrupted(t) \/ PollHotplug(t) \/ PollDevice(t) \/ PollError(t)
    BY <1>2, PollInterruptedStep, PollHotplugStep, PollDeviceStep, PollErrorStep
  <1>3. CASE Reap(t) \/ Disconnect(t) \/ Complete(t) \/ SyncTransferCallback(t)
             \/ StatusCallback(t) \/ CompletionWakes(t) \/ Unref(t)
    BY <1>3, ReapStep, DisconnectStep, CompleteStep, SyncTransferCallbackStep,
       StatusCallbackStep, CompletionWakesStep, UnrefStep
  <1>4. CASE LockWaiters(t) \/ ModifyPending(t) \/ HandlerActive(t) \/ Awake(t)
    BY <1>4, LockWaitersStep, ModifyPendingStep, HandlerActiveStep, AwakeStep
  <1> QED
    BY <1>1, <1>2, <1>3, <1>4 DEF HandleEvents

\* every step of every thread, of the kernel and of the user keeps the invariant
LEMMA NextInvariant == IInv /\ [Next]_vars => IInv'
  <1> SUFFICES ASSUME IInv, [Next]_vars
               PROVE  IInv'
    OBVIOUS
  <1>1. ASSUME NEW t \in Clients, Query(t)
        PROVE  IInv'
    BY <1>1, QueryStep
  <1>2. ASSUME NEW t \in Clients, WaitForCompletion(t), UNCHANGED cameraVars
        PROVE  IInv'
    BY <1>2, WaitForCompletionStep
  <1>3. CASE HandlerLoop
    BY <1>3, HandlerLoopStep
  <1>4. ASSUME NEW t \in Handlers, HandleEvents(t), UNCHANGED cameraVars
        PROVE  IInv'
    BY <1>4, HandleEventsStep
  <1>5. ASSUME NEW t \in Handlers, TimesOut(t), UNCHANGED cameraVars
        PROVE  IInv'
    BY <1>5, PollTimesOutStep, WaitTimesOutStep DEF TimesOut
  <1>6. CASE Kernel /\ UNCHANGED cameraVars
    BY <1>6, UrbCompletesStep, UnplugStep, MonitorSeesRemovalStep DEF Kernel
  <1>7. CASE Connect
    BY <1>7, InitContextStep, ConnectAgainStep, FindDeviceStep, OpenStep, ClaimStep,
       SubmitStatusStep, StartHandlerThreadStep DEF Connect
  <1>8. CASE Release
    BY <1>8, ReleaseStep
  <1>9. CASE Close
    <2>1. CASE PreviewStopped \/ ReleaseInterface \/ KillHandlerThread
               \/ CloseModifies \/ CloseInterrupts \/ CloseLocks
      BY <2>1, PreviewStoppedStep, ReleaseInterfaceStep, KillHandlerThreadStep,
         CloseModifiesStep, CloseInterruptsStep, CloseLocksStep
    <2>2. CASE DoClose \/ DoCloseWakes \/ FreeHandle \/ CloseUnlocks \/ CloseWakes
               \/ JoinHandlerThread \/ Released
      BY <2>2, DoCloseStep, DoCloseWakesStep, FreeHandleStep, CloseUnlocksStep,
         CloseWakesStep, JoinHandlerThreadStep, ReleasedStep
    <2> QED
      BY <1>9, <2>1, <2>2 DEF Close
  <1>10. CASE Destroy
    BY <1>10, DestroyStep
  <1>11. CASE Replug
    BY <1>11, ReplugStep
  <1>12. CASE UNCHANGED vars
    <2> USE <1>12 DEF vars, eventVars, cameraVars
    <2>1. PcTypes' /\ DataTypes' /\ Locks'
      BY DEF IInv, PcTypes, DataTypes, Locks
    <2>2. Life' /\ Quiet' /\ Killed'
      BY DEF IInv, Life, Quiet, Killed
    <2>3. Flights' /\ Waits'
      BY DEF IInv, Flights, Waits, Done
    <2>4. Completing' = Completing
      BY DEF Completing
    <2>5. RefsAccounted'
      BY <2>4 DEF IInv, RefsAccounted
    <2> QED
      BY <2>1, <2>2, <2>3, <2>5 DEF IInv
  <1> QED
    BY <1>1, <1>2, <1>3, <1>4, <1>5, <1>6, <1>7, <1>8, <1>9, <1>10, <1>11, <1>12 DEF Next

\* the invariant holds in every behaviour of UVCDevice
THEOREM InvariantHolds == Spec => []IInv
  BY InitInvariant, NextInvariant, PTL DEF Spec

\* Every variable keeps its type: in particular the count of pending changes,
\* the bytes in the pipes and the descriptors never exceed one, and no reference
\* of the uvc_device is dropped twice (core.c:1371-1428, device.c:1490-1523).
THEOREM TypeCorrect == Spec => []TypeOK
  <1>1. IInv => TypeOK
    BY DeviceAssumption
       DEF IInv, PcTypes, DataTypes, Life, TypeOK
  <1> QED
    BY <1>1, InvariantHolds, PTL

\* Whatever threads query the camera, the handle is not freed while one of them
\* completes a transfer of it (core.c:1405-1428, io.c:1561-1621).
THEOREM HandleOutlivesUse == Spec => []NoUseAfterClose
  <1>1. IInv => NoUseAfterClose
    BY DeviceAssumption DEF IInv, DataTypes, Life, Flights, NoUseAfterClose, Opened
  <1> QED
    BY <1>1, InvariantHolds, PTL

\* Nothing is written to the stack of a client that has returned (sync.c:88-120).
THEOREM StackOutlivesTransfer == Spec => []CallerWaits
  <1>1. IInv => CallerWaits
    BY DEF IInv, Waits, Done, CallerWaits
  <1> QED
    BY <1>1, InvariantHolds, PTL

\* A released camera has given everything back (UVCCamera.cpp:139-160).
THEOREM ReleaseIsComplete == Spec => []NothingLeft
  <1>1. ASSUME IInv, pc["camera"] = "idle"
        PROVE  /\ flying_transfers = {} /\ event_waiters = {}
               /\ events_lock = NULL /\ event_waiters_lock = NULL
               /\ pollfd_modify = 0 /\ ctrl_pipe = 0
               /\ handle = 0 /\ ~pollfds
               /\ pc["event"] = "none" /\ ~open_devices
               /\ fds = 0 /\ dev_ref = 0
    <2>1. \A t \in Handlers : pc[t] \in {"idle", "none"}
      BY <1>1, AtRest
    <2>2. flying_transfers = {}
      BY <1>1, NoneFlying DEF Flying
    <2>3. event_waiters = {}
      BY <1>1, <2>1 DEF IInv, DataTypes, Locks
    <2>4. events_lock = NULL /\ event_waiters_lock = NULL
      BY <1>1, <2>1, Names DEF IInv, DataTypes, Locks, Handling, UsingHandle, Closing
    <2>5. pc["event"] = "none" /\ ~open_devices
      BY <1>1 DEF IInv, Quiet, Served
    <2>6. /\ pollfd_modify = 0 /\ ctrl_pipe = 0 /\ handle = 0 /\ ~pollfds
          /\ fds = 0 /\ dev_ref = 0
      BY <1>1 DEF IInv, Life, Modifying, Opened
    <2> QED
      BY <2>2, <2>3, <2>4, <2>5, <2>6
  <1>2. IInv => NothingLeft
    BY <1>1 DEF NothingLeft
  <1> QED
    BY <1>2, InvariantHolds, PTL

\* The references to the device are those that something holds and the two kinds
\* that are lost; so their number is never negative, and the device is not freed
\* while something refers to it (core.c:741-770, 1300-1333).
THEOREM ReferencesAccounted == Spec => []RefsAccounted
  <1>1. IInv => RefsAccounted
    BY DEF IInv
  <1> QED
    BY <1>1, InvariantHolds, PTL

\* The first connection of a context has its handler thread (init.c:95-109).
THEOREM HandlerThreadRuns == Spec => []HandledWhileOpen
  <1>1. IInv => HandledWhileOpen
    BY DEF IInv, Quiet, Killed, HandledWhileOpen, Served
  <1> QED
    BY <1>1, InvariantHolds, PTL
=============================================================================

----------------------------- MODULE CameraSession -----------------------------
(***************************************************************************)
(* Opening and closing cameras: USBCamera and USBMonitor on the UI thread,   *)
(* CameraHandler with its CameraThread, and the life of the UVCCamera        *)
(* objects.  What a running preview does is UVCPreview's matter, recordings  *)
(* are Recording's.                                                          *)
(*                                                                         *)
(* posted is the queue of the UI thread: runnables of USBMonitor, and the    *)
(* broadcasts of the system, which are delivered there too.  A device that   *)
(* is plugged in again is another UsbDevice.                                 *)
(***************************************************************************)
EXTENDS Integers, Sequences, FiniteSets

CONSTANTS
    Devices,   \* UsbDevice objects
    Patience,  \* values of patient: an app may open a camera while it is opening one
    Faults,    \* openDevice, nativeConnect and setPreviewSize may fail
    MaxOpens   \* bound: calls of USBCamera.open

ASSUME SessionAssumption ==
    /\ Patience \subseteq BOOLEAN /\ Faults \in BOOLEAN
    /\ MaxOpens \in Nat \ {0}

None == 0
Blocks == 1..MaxOpens       \* UsbControlBlock objects
Cameras == 1..MaxOpens      \* UVCCamera objects

VARIABLES
    plugged, permitted,       \* devices UsbManager lists, and lets the app use
    asking,                   \* devices the user is asked about
    patient, opens,           \* the app: its habit, and its calls of open
    mPermissionIntent,        \* USBMonitor is registered
    mCtrlBlocks,              \* the control block of a device, or None
    device,                   \* the device of each control block made so far
    mConnection,              \* blocks whose connection is open
    posted,
    mHandler,                 \* USBCamera.mHandler is not null
    crashed,                  \* an exception has ended the app
    ui, uiNext,               \* where the UI thread is, and goes after closeCamera
    closing,                  \* the block whose monitor the UI thread holds, or None
    messages,                 \* queue of the CameraThread
    thread,                   \* where the CameraThread is
    mUVCCamera,               \* the camera CameraThread knows, or None
    camera, block             \* state and control block of each UVCCamera

usbVars     == <<plugged, permitted, asking>>
monitorVars == <<mPermissionIntent, mCtrlBlocks, device, mConnection>>
appVars     == <<patient, opens, mHandler, crashed>>
uiVars      == <<ui, uiNext, closing>>
cameraVars  == <<thread, mUVCCamera, camera, block>>
vars == <<usbVars, monitorVars, appVars, posted, uiVars, messages, cameraVars>>

Init ==
    /\ plugged = Devices /\ permitted = {} /\ asking = {}
    /\ patient \in Patience /\ opens = 0 /\ mHandler = TRUE /\ crashed = FALSE
    /\ mPermissionIntent = TRUE
    /\ mCtrlBlocks = [d \in Devices |-> None]
    /\ device = <<>> /\ mConnection = {}
    /\ posted = <<>> /\ messages = <<>>
    /\ ui = "idle" /\ uiNext = "idle" /\ closing = None
    /\ thread = "idle" /\ mUVCCamera = None
    /\ camera = [c \in Cameras |-> "none"]
    /\ block = [c \in Cameras |-> None]

Elements(s) == {s[i] : i \in DOMAIN s}
isCameraOpened == mUVCCamera # None

-------------------------------------------------------------------------------
(* The USB bus and the user's answer to the permission dialog *)

Unplug(d) ==
    /\ d \in plugged /\ ~crashed
    /\ plugged' = plugged \ {d} /\ permitted' = permitted \ {d}
    /\ posted' = IF mPermissionIntent THEN Append(posted, <<"detached", d>>) ELSE posted
    /\ UNCHANGED <<asking, monitorVars, appVars, uiVars, messages, cameraVars>>

Answer(d) ==
    /\ d \in asking /\ ~crashed
    /\ asking' = asking \ {d}
    /\ \/ /\ d \in plugged
          /\ permitted' = permitted \cup {d}
          /\ posted' = Append(posted, <<"granted", d>>)
       \/ UNCHANGED <<permitted, posted>>          \* onCancel does nothing
    /\ UNCHANGED <<plugged, monitorVars, appVars, uiVars, messages, cameraVars>>

-------------------------------------------------------------------------------
(* Calls of the application, on the UI thread *)

UiIdle == ui = "idle" /\ ~crashed

\* a call of open is still on its way to the CameraThread
Opening ==
    \/ asking # {}
    \/ \E p \in Elements(posted) : p[1] \in {"granted", "connect"}
    \/ \E x \in Elements(messages) : x[1] = "open"

\* slip: asks also when it has the permission
RequestAlways(d) ==
    /\ posted' = IF d \in permitted THEN Append(posted, <<"connect", d>>) ELSE posted
    /\ asking' = asking \cup {d}

RequestPermission(d) ==
    IF d \in permitted
      THEN posted' = Append(posted, <<"connect", d>>) /\ UNCHANGED asking
      ELSE asking' = asking \cup {d} /\ UNCHANGED posted

\* open: the app asks isCameraOpened() first
Open(d) ==
    /\ UiIdle /\ mHandler /\ ~isCameraOpened
    /\ d \in plugged /\ opens < MaxOpens
    /\ patient => ~Opening
    /\ opens' = opens + 1
    /\ RequestPermission(d)
    /\ UNCHANGED <<plugged, permitted, monitorVars, patient, mHandler, crashed, uiVars, messages,
                   cameraVars>>

(* closeCamera: stopPreview sends MSG_PREVIEW_STOP and begins to wait in one      *)
(* synchronized block.                                                          *)
CloseCamera(next) ==
    /\ messages' = Append(messages, <<"stop", None>>)
    /\ ui' = "waiting" /\ uiNext' = next

Close ==
    /\ UiIdle /\ mHandler
    /\ CloseCamera("idle")
    /\ UNCHANGED <<usbVars, monitorVars, appVars, posted, closing, cameraVars>>

\* the rest of closeCamera, and of UsbControlBlock.close
CameraClosed ==
    /\ ui = "woken"
    /\ messages' = Append(messages, <<"close", None>>)
    /\ ui' = uiNext /\ uiNext' = "idle" /\ closing' = None
    /\ UNCHANGED <<usbVars, monitorVars, appVars, posted, cameraVars>>

\* slip: onDisconnect is not called
CloseSilently(b, next) ==
    /\ mConnection' = mConnection \ {b} /\ ui' = next
    /\ UNCHANGED <<closing, messages, uiNext>>

\* UsbControlBlock.close: a synchronized method that calls onDisconnect
CloseBlock(b, next) ==
    IF b \in mConnection
      THEN /\ mConnection' = mConnection \ {b}
           /\ closing' = b
           /\ CloseCamera(next)
      ELSE /\ ui' = next
           /\ UNCHANGED <<mConnection, closing, messages, uiNext>>

RemoveBlock(d) == mCtrlBlocks' = [mCtrlBlocks EXCEPT ![d] = None]

\* unregister, then USBMonitor.destroy: one control block after the other
Destroy ==
    /\ UiIdle /\ mHandler
    /\ mPermissionIntent' = FALSE
    /\ ui' = "destroying"
    /\ UNCHANGED <<usbVars, mCtrlBlocks, device, mConnection, appVars, posted, uiNext,
                   closing, messages, cameraVars>>

DestroyBlock(d) ==
    /\ ui = "destroying" /\ mCtrlBlocks[d] # None
    /\ RemoveBlock(d)
    /\ CloseBlock(mCtrlBlocks[d], "destroying")
    /\ UNCHANGED <<usbVars, mPermissionIntent, device, appVars, posted, cameraVars>>

Destroyed ==
    /\ ui = "destroying" /\ \A d \in Devices : mCtrlBlocks[d] = None
    /\ mHandler' = FALSE /\ ui' = "idle"
    /\ UNCHANGED <<usbVars, monitorVars, patient, opens, crashed, posted, uiNext, closing, messages,
                   cameraVars>>

-------------------------------------------------------------------------------
(* What the UI thread takes from its queue *)

Takes(what, d) ==
    /\ UiIdle
    /\ posted # <<>> /\ Head(posted) = <<what, d>>

\* onReceive ACTION_USB_PERMISSION; nothing is delivered after unregister
PermissionGranted(d) ==
    /\ Takes("granted", d)
    /\ posted' = IF mPermissionIntent THEN Append(Tail(posted), <<"connect", d>>)
                 ELSE Tail(posted)
    /\ UNCHANGED <<usbVars, monitorVars, appVars, uiVars, messages, cameraVars>>

\* onReceive ACTION_USB_DEVICE_DETACHED
Detached(d) ==
    /\ Takes("detached", d)
    /\ posted' = Tail(posted)
    /\ IF mPermissionIntent /\ mCtrlBlocks[d] # None
         THEN RemoveBlock(d) /\ CloseBlock(mCtrlBlocks[d], "idle")
         ELSE UNCHANGED <<mCtrlBlocks, mConnection, uiVars, messages>>
    /\ UNCHANGED <<usbVars, mPermissionIntent, device, appVars, cameraVars>>

OpenDevice(d) ==
    /\ device' = Append(device, d)
    /\ mCtrlBlocks' = [mCtrlBlocks EXCEPT ![d] = Len(device')]
    /\ \/ d \in plugged /\ mConnection' = mConnection \cup {Len(device')}
       \/ (d \notin plugged \/ Faults) /\ UNCHANGED mConnection

\* slip: a new one each time
NewBlock(d) == OpenDevice(d)

\* the control block of d, made when there is none; openDevice may return null
GetBlock(d) ==
    IF mCtrlBlocks[d] # None THEN UNCHANGED <<mCtrlBlocks, device, mConnection>>
    ELSE OpenDevice(d)

\* processConnect's runnable, which calls onConnect
Connect(d) ==
    /\ Takes("connect", d)
    /\ posted' = Tail(posted)
    /\ GetBlock(d)
    /\ IF mHandler
         THEN /\ messages' = messages \o << <<"open", mCtrlBlocks'[d]>>, <<"start", None>> >>
              /\ UNCHANGED crashed
         ELSE crashed' = TRUE /\ UNCHANGED messages
    /\ UNCHANGED <<usbVars, mPermissionIntent, patient, opens, mHandler, uiVars, cameraVars>>

Ui ==
    \/ CameraClosed \/ Destroyed
    \/ \E d \in Devices : DestroyBlock(d) \/ PermissionGranted(d) \/ Detached(d) \/ Connect(d)

-------------------------------------------------------------------------------
(* CameraThread *)

Handles(what) ==
    /\ thread = "idle" /\ ~crashed
    /\ messages # <<>> /\ Head(messages)[1] = what
    /\ messages' = Tail(messages)

threadFrame == <<usbVars, monitorVars, appVars, posted>>

\* handleOpen: the camera counts as opened from here on
HandleOpen ==
    LET c == Cardinality({x \in Cameras : camera[x] # "none"}) + 1
    IN /\ Handles("open")
       /\ mUVCCamera' = c
       /\ camera' = [camera EXCEPT ![c] = "created"]
       /\ block' = [block EXCEPT ![c] = Head(messages)[2]]
       /\ thread' = "open"
       /\ UNCHANGED <<threadFrame, uiVars>>

Device(c) == device[block[c]]
Live(c) == camera[c] \in {"connected", "previewing"}

\* getFileDescriptor is a synchronized method of the control block
GetFileDescriptor ==
    /\ thread = "open" /\ closing # block[mUVCCamera] /\ ~crashed
    /\ thread' = IF block[mUVCCamera] \in mConnection THEN "connect" ELSE "idle"
    /\ UNCHANGED <<threadFrame, uiVars, messages, mUVCCamera, camera, block>>

\* two cameras on one device may disturb each other
Disturbed(c) == \E x \in Cameras \ {c} : Live(x) /\ Device(x) = Device(c)

\* nativeConnect: works on a copy of the descriptor as long as that is still open
NativeConnect ==
    /\ thread = "connect" /\ thread' = "idle" /\ ~crashed
    /\ LET c == mUVCCamera
       IN \/ /\ block[c] \in mConnection /\ Device(c) \in plugged
             /\ camera' = [camera EXCEPT ![c] = "connected"]
          \/ /\ \/ block[c] \notin mConnection \/ Device(c) \notin plugged
                \/ Faults \/ Disturbed(c)
             /\ UNCHANGED camera
    /\ UNCHANGED <<threadFrame, uiVars, messages, mUVCCamera, block>>

\* slip: only a camera that previews is destroyed
DestroyIfPreviewing ==
    /\ mUVCCamera' = None
    /\ camera' = [c \in Cameras |->
                    IF c = mUVCCamera /\ camera[c] = "previewing" THEN "destroyed" ELSE camera[c]]

\* handleClose
DestroyCamera ==
    /\ mUVCCamera' = None
    /\ camera' = [c \in Cameras |-> IF c = mUVCCamera THEN "destroyed" ELSE camera[c]]

HandleClose ==
    /\ Handles("close")
    /\ DestroyCamera
    /\ UNCHANGED <<threadFrame, uiVars, thread, block>>

\* slip: a camera that takes neither mode stays open
KeepCamera == UNCHANGED <<mUVCCamera, camera>>

\* setPreviewSize has thrown twice
GiveUp == DestroyCamera

HandleStartPreview ==
    /\ Handles("start")
    /\ LET c == mUVCCamera
       IN \/ c = None /\ UNCHANGED <<mUVCCamera, camera>>
          \/ /\ c # None /\ Live(c) /\ Device(c) \in plugged
             /\ \/ camera' = [camera EXCEPT ![c] = "previewing"]
                \/ (Faults \/ Disturbed(c)) /\ UNCHANGED camera     \* startPreview fails
             /\ UNCHANGED mUVCCamera
          \/ /\ c # None
             /\ ~Live(c) \/ Device(c) \notin plugged \/ Faults \/ Disturbed(c)
             /\ GiveUp
    /\ UNCHANGED <<threadFrame, uiVars, thread, block>>

\* slip: returns early without a camera
NotifyIfOpened == ui' = IF ui = "waiting" /\ isCameraOpened THEN "woken" ELSE ui
NotifyAll == ui' = IF ui = "waiting" THEN "woken" ELSE ui

\* slip: preview goes on
KeepPreviewing == UNCHANGED camera
StopCamera ==
    camera' = [c \in Cameras |->
                 IF c = mUVCCamera /\ camera[c] = "previewing" THEN "connected" ELSE camera[c]]

HandleStopPreview ==
    /\ Handles("stop")
    /\ StopCamera
    /\ NotifyAll
    /\ UNCHANGED <<threadFrame, uiNext, closing, thread, mUVCCamera, block>>

Thread ==
    HandleOpen \/ GetFileDescriptor \/ NativeConnect \/ HandleClose \/ HandleStartPreview
        \/ HandleStopPreview

-------------------------------------------------------------------------------
Next ==
    \/ Ui \/ Thread
    \/ Close \/ Destroy
    \/ \E d \in Devices : Unplug(d) \/ Answer(d) \/ Open(d)

Spec == Init /\ [][Next]_vars

\* Both threads are scheduled; the user and the bus do as they like.
LiveSpec == Spec /\ WF_vars(Ui) /\ WF_vars(Thread)

-------------------------------------------------------------------------------
(* Properties *)

\* Types; as many control blocks and cameras as calls of open suffice, and every
\* block that is filed was made for the device it is filed under (327-348).
TypeOK ==
    /\ permitted \subseteq plugged /\ plugged \subseteq Devices /\ asking \subseteq Devices
    /\ opens \in 0..MaxOpens
    /\ {mPermissionIntent, mHandler, crashed} \subseteq BOOLEAN
    /\ Len(device) <= opens /\ mConnection \subseteq DOMAIN device
    /\ \A d \in Devices : mCtrlBlocks[d] # None => device[mCtrlBlocks[d]] = d
    /\ Elements(posted) \subseteq {"granted", "connect", "detached"} \X Devices
    /\ ui \in {"idle", "waiting", "woken", "destroying"} /\ uiNext \in {"idle", "destroying"}
    /\ closing \in {None} \cup DOMAIN device
    /\ Elements(messages) \subseteq
          ({"open"} \X DOMAIN device) \cup ({"start", "stop", "close"} \X {None})
    /\ thread \in {"idle", "open", "connect"}
    /\ mUVCCamera \in {None} \cup Cameras
    /\ camera \in [Cameras -> {"none", "created", "connected", "previewing", "destroyed"}]
    /\ block \in [Cameras -> {None} \cup Blocks]

\* handleOpen does not close the camera before (its handleClose() is commented out,
\* 249).  An app that opens again on isCameraOpened() alone, as the README's and
\* USBCameraActivity (64-75) do, has two openings on their way, and the second takes
\* the first one's camera out of reach of every later call.
Replaced(c) == ~patient /\ \E x \in Cameras : x > c /\ camera[x] # "none"

\* "wait for actually preview stopped to avoid releasing Surface/SurfaceTexture while
\* preview is still running" (CameraHandler.java 128): when stopPreview has
\* returned, whatever the queue held when it was called, the only camera that may
\* still preview is one that handleOpen has replaced; the code does not stop that one.
PreviewStopped ==
    ui = "woken" => \A c \in Cameras : camera[c] = "previewing" => Replaced(c)

\* Replacing is the only leak: any other UVCCamera that CameraThread no longer knows,
\* closed, given up or opened for a device that is gone, is destroyed (248-345).
NoneLeaked ==
    \A c \in Cameras \ {mUVCCamera} : camera[c] \in {"none", "destroyed"} \/ Replaced(c)

\* Every open connection belongs to the control block filed for its device, so that
\* unplugging or destroy() closes it: none is lost by opening twice, by a device that
\* goes while it is opened, or by one that cannot be opened (105-121, 295-305, 327-348).
EachConnectionFiled ==
    \A b \in mConnection : mCtrlBlocks[device[b]] = b

\* A camera does not outlive its connection: whoever closes the connection, by
\* unplugging or by destroy(), the camera lives on only until the close that follows
\* has been handled, unless it has been replaced; and destroy() leaves no connection
\* open (105-121, 295-305).
NoneOutlivesConnection ==
    /\ \A c \in Cameras : Live(c) /\ block[c] \notin mConnection =>
          \/ ui \in {"waiting", "woken"} \/ <<"close", None>> \in Elements(messages)
          \/ Replaced(c)
    /\ ~mHandler /\ ~crashed => mConnection = {}

\* isCameraOpened() is true as soon as the UVCCamera exists, but when the thread has
\* nothing left to do it is true only of a camera that could be connected (240-292).
OpenedIsConnected ==
    thread = "idle" /\ messages = <<>> /\ isCameraOpened => Live(mUVCCamera)

\* stopPreview returns, unless the UI thread called it out of UsbControlBlock.close
\* while CameraThread is about to ask that control block for its descriptor.
StopReturns ==
    ui = "waiting" ~> \/ ui # "waiting" \/ crashed
                      \/ thread = "open" /\ closing = block[mUVCCamera]

\* "therefore this method will take a time to execute" (130): but it returns.
StopAlwaysReturns == ui = "waiting" ~> ui # "waiting" \/ crashed

\* "called when USB device removed or its power off" (84): a camera whose device has
\* been unplugged is closed, whichever call is on its way at that moment, unless
\* another camera replaces it first.
ClosedWhenUnplugged ==
    \A c \in Cameras :
        Live(c) /\ Device(c) \notin plugged ~>
            camera[c] = "destroyed" \/ crashed \/ Replaced(c)

===============================================================================

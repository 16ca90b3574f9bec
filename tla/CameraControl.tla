--------------------------- MODULE CameraControl ---------------------------
(***************************************************************************)
(* camera/V4L2/v4l2_camera_data.cpp: the life of a camera's control thread *)
(* and the video properties other threads set meanwhile.  One thread owns  *)
(* the camera (it calls Start, SignalToStop, WaitForStop, IsRunning and    *)
(* the Set calls that begin with IsRunning), any number of other threads   *)
(* call SetVideoProperty, and the control thread opens, configures, runs   *)
(* and closes the device.                                                  *)
(*                                                                         *)
(* Granularity.  Sync guards Running, the std::thread and each property    *)
(* call, but the control thread changes VideoFd and iterates               *)
(* PropertiesToSet without it, so a property call is two steps, its test   *)
(* and its effect.  ConfigSync has one user and is left out.  A join()     *)
(* inside Sync waits for a thread that needs Sync no more: it is a guard.  *)
(* Frames change nothing here; FramePipeline has them.                     *)
(***************************************************************************)
EXTENDS Naturals

CONSTANTS
  Setters,          (* threads that call SetVideoProperty                  *)
  LastProperty,     (* properties are 0 .. LastProperty, in the map's order *)
  Values,           (* what a property may be set to                       *)
  Null              (* no value, no owner, no call                         *)

ASSUME CameraAssumption ==
  /\ LastProperty \in Nat
  /\ Null \notin Setters \union Values
  /\ Null \notin [property : 0 .. LastProperty, value : Values]

VARIABLES
  sync,             (* a setter that is inside Sync, or Null               *)
  running,          (* Running                                             *)
  needToStop,       (* NeedToStop is signalled                             *)
  joinable,         (* ControlThread.joinable()                            *)
  ctlPc,            (* the control thread; "none" before there is one      *)
  videoFd,          (* VideoFd # -1                                        *)
  streaming,        (* VideoStreamingActive                                *)
  propertiesToSet,  (* PropertiesToSet: a value for each, or Null          *)
  cursor,           (* Init's place in PropertiesToSet                     *)
  device,           (* what the camera's controls are set to               *)
  ownerPc,          (* "idle", or inside WaitForStop                       *)
  setterPc,         (* "idle", "save" or "ioctl"                           *)
  setting,          (* the call each setter is in                          *)
  last,             (* history: the last value accepted for each property  *)
  refused,          (* history: the device refused a value                 *)
  overlapped        (* history: a property was set during Init or Cleanup  *)

Properties == 0 .. LastProperty
Calls == [property : Properties, value : Values]
Maybe == Values \union {Null}
Changing == {"open", "configure", "apply", "clear", "cleanup", "close"}
CtlPcs == Changing \union {"none", "capture", "finish", "ended"}

lifeVars == <<running, needToStop, joinable>>
devVars == <<videoFd, streaming>>
propVars == <<propertiesToSet, device, last, refused>>
setVars == <<sync, setterPc, setting, overlapped>>
vars == <<lifeVars, devVars, propVars, setVars, cursor, ctlPc, ownerPc>>

(***************************************************************************)
(* Types, and: a setter holds Sync exactly while it is inside a call.      *)
(***************************************************************************)
TypeOK ==
  /\ sync \in Setters \union {Null}
  /\ running \in BOOLEAN
  /\ needToStop \in BOOLEAN
  /\ joinable \in BOOLEAN
  /\ ctlPc \in CtlPcs
  /\ videoFd \in BOOLEAN
  /\ streaming \in BOOLEAN
  /\ propertiesToSet \in [Properties -> Maybe]
  /\ cursor \in 0 .. LastProperty + 1
  /\ device \in [Properties -> Maybe]
  /\ ownerPc \in {"idle", "test", "join"}
  /\ setterPc \in [Setters -> {"idle", "save", "ioctl"}]
  /\ setting \in [Setters -> Calls \union {Null}]
  /\ last \in [Properties -> Maybe]
  /\ refused \in BOOLEAN
  /\ overlapped \in BOOLEAN
  /\ \A s \in Setters : setterPc[s] # "idle" <=> sync = s
  /\ \A s \in Setters : setterPc[s] # "idle" <=> setting[s] # Null

Init ==
  /\ sync = Null
  /\ running = FALSE
  /\ needToStop = FALSE
  /\ joinable = FALSE
  /\ ctlPc = "none"
  /\ videoFd = FALSE
  /\ streaming = FALSE
  /\ propertiesToSet = [p \in Properties |-> Null]
  /\ cursor = 0
  /\ device = [p \in Properties |-> Null]
  /\ ownerPc = "idle"
  /\ setterPc = [s \in Setters |-> "idle"]
  /\ setting = [s \in Setters |-> Null]
  /\ last = [p \in Properties |-> Null]
  /\ refused = FALSE
  /\ overlapped = FALSE

-----------------------------------------------------------------------------
(* The owner of the camera. *)

(* IsRunning() takes Sync and joins a control thread that has finished:    *)
(* when it returns, and what it leaves of the thread.                      *)
IsRunningReturns == sync = Null /\ (~running /\ joinable => ctlPc = "ended")

JoinFinished ==
  /\ joinable' = (joinable /\ running)
  /\ ctlPc' = IF ~running /\ joinable THEN "none" ELSE ctlPc

unlessStarted == <<running, needToStop, devVars, propVars, setVars, cursor>>

(* IsRunning() by itself, and SetVideoSize, SetFrameRate and their kind. *)
AskIsRunning ==
  /\ ownerPc = "idle"
  /\ IsRunningReturns
  /\ JoinFinished
  /\ UNCHANGED <<ownerPc, unlessStarted>>

(* Start() of a camera that is not running; the other case is IsRunning(). *)
Start ==
  /\ ownerPc = "idle"
  /\ IsRunningReturns
  /\ ~running
  /\ needToStop' = FALSE
  /\ running' = TRUE
  /\ joinable' = TRUE
  /\ ctlPc' = "open"
  /\ UNCHANGED <<ownerPc, devVars, propVars, setVars, cursor>>

(* Mutant: the signal is for an open device only. *)
SignalWhenOpen ==
  /\ IsRunningReturns
  /\ JoinFinished
  /\ needToStop' = (needToStop \/ (running /\ videoFd))
  /\ UNCHANGED <<running, devVars, propVars, setVars, cursor>>

(* SignalToStop(), called by itself or by WaitForStop(). *)
SignalToStop ==
  /\ IsRunningReturns
  /\ JoinFinished
  /\ needToStop' = (needToStop \/ running)
  /\ UNCHANGED <<running, devVars, propVars, setVars, cursor>>

OwnerSignals ==
  /\ ownerPc = "idle"
  /\ SignalToStop
  /\ ownerPc' \in {"idle", "test"}

(* WaitForStop(): IsRunning() || ControlThread.joinable() *)
WaitTests ==
  /\ ownerPc = "test"
  /\ IsRunningReturns
  /\ JoinFinished
  /\ ownerPc' = IF running THEN "join" ELSE "idle"
  /\ UNCHANGED unlessStarted

(* Mutant: the thread is not joined. *)
WaitJoinsNothing ==
  /\ ownerPc = "join"
  /\ ownerPc' = "idle"
  /\ UNCHANGED <<joinable, ctlPc, unlessStarted>>

(* ControlThread.join(), outside Sync. *)
WaitJoins ==
  /\ ownerPc = "join"
  /\ ctlPc = "ended"
  /\ joinable' = FALSE
  /\ ctlPc' = "none"
  /\ ownerPc' = "idle"
  /\ UNCHANGED unlessStarted

OwnerWaits == WaitTests \/ WaitJoins
OwnerStep == AskIsRunning \/ Start \/ OwnerSignals \/ OwnerWaits

-----------------------------------------------------------------------------
(* SetVideoProperty() in another thread. *)

BeginSet(s, p, v) ==
  /\ setterPc[s] = "idle"
  /\ sync = Null
  /\ sync' = s
  /\ setterPc' = [setterPc EXCEPT ![s] = IF running /\ videoFd THEN "ioctl" ELSE "save"]
  /\ setting' = [setting EXCEPT ![s] = [property |-> p, value |-> v]]
  /\ overlapped' = (overlapped \/ ctlPc \in Changing)
  /\ UNCHANGED <<lifeVars, devVars, propVars, cursor, ctlPc, ownerPc>>

(* Mutant: the lock is not released. *)
EndSetKeepsSync(s) ==
  /\ setterPc' = [setterPc EXCEPT ![s] = "idle"]
  /\ setting' = [setting EXCEPT ![s] = Null]
  /\ UNCHANGED <<sync, lifeVars, devVars, cursor, ctlPc, ownerPc, overlapped>>

(* The lock is released. *)
EndSet(s) ==
  /\ sync' = Null
  /\ setterPc' = [setterPc EXCEPT ![s] = "idle"]
  /\ setting' = [setting EXCEPT ![s] = Null]
  /\ UNCHANGED <<lifeVars, devVars, cursor, ctlPc, ownerPc, overlapped>>

(* The device was not ready: keep the value for later. *)
SaveProperty(s) ==
  /\ setterPc[s] = "save"
  /\ LET set == setting[s]
     IN /\ propertiesToSet' = [propertiesToSet EXCEPT ![set.property] = set.value]
        /\ last' = [last EXCEPT ![set.property] = set.value]
  /\ EndSet(s)
  /\ UNCHANGED <<device, refused>>

(* The device was ready: it takes the value, unless it is closed by now. *)
IoctlProperty(s) ==
  /\ setterPc[s] = "ioctl"
  /\ LET set == setting[s]
     IN \/ /\ videoFd
           /\ device' = [device EXCEPT ![set.property] = set.value]
           /\ last' = [last EXCEPT ![set.property] = set.value]
        \/ UNCHANGED <<device, last>>
  /\ EndSet(s)
  /\ UNCHANGED <<propertiesToSet, refused>>

FinishSet(s) == SaveProperty(s) \/ IoctlProperty(s)

SetterStep(s) ==
  \/ \E p \in Properties, v \in Values : BeginSet(s, p, v)
  \/ FinishSet(s)

-----------------------------------------------------------------------------
(* ControlThreadHandler(), the control thread. *)

controlling(here, there) == ctlPc = here /\ ctlPc' = there
notCtl == <<lifeVars, ownerPc, setVars, last>>

(* Init(): open() assigns VideoFd. *)
OpenDevice ==
  /\ \/ controlling("open", "configure") /\ videoFd' = TRUE
     \/ controlling("open", "cleanup") /\ UNCHANGED videoFd
  /\ UNCHANGED <<notCtl, streaming, propertiesToSet, device, refused, cursor>>

(* Format, buffers and STREAMON, any of which may fail. *)
ConfigureDevice ==
  /\ \/ controlling("configure", "apply") /\ streaming' = TRUE
     \/ controlling("configure", "cleanup") /\ UNCHANGED streaming
  /\ cursor' = 0
  /\ UNCHANGED <<notCtl, videoFd, propertiesToSet, device, refused>>

(* Mutant: the loop over the saved values is missing. *)
ApplyNothing ==
  /\ controlling("apply", "clear")
  /\ cursor' = LastProperty + 1
  /\ UNCHANGED <<notCtl, devVars, propertiesToSet, device, refused>>

(* for (auto property : PropertiesToSet) SetVideoProperty(...): the saved  *)
(* values go to the device, which may refuse one.                          *)
ApplyProperty ==
  /\ controlling("apply", "apply")
  /\ cursor \in Properties
  /\ cursor' = cursor + 1
  /\ IF propertiesToSet[cursor] = Null
     THEN UNCHANGED <<device, refused>>
     ELSE /\ sync = Null
          /\ \/ /\ device' = [device EXCEPT ![cursor] = propertiesToSet[cursor]]
                /\ UNCHANGED refused
             \/ refused' = TRUE /\ UNCHANGED device
  /\ UNCHANGED <<notCtl, devVars, propertiesToSet>>

(* The end of the loop. *)
Applied ==
  /\ controlling("apply", "clear")
  /\ cursor \notin Properties
  /\ UNCHANGED <<notCtl, devVars, propertiesToSet, device, refused, cursor>>

(* PropertiesToSet.clear(); VideoCaptureLoop() may find no memory and end. *)
ClearProperties ==
  /\ controlling("clear", "capture") \/ controlling("clear", "cleanup")
  /\ propertiesToSet' = [p \in Properties |-> Null]
  /\ UNCHANGED <<notCtl, devVars, device, refused, cursor>>

(* Mutant: Running is cleared before Cleanup(). *)
EndCaptureReportsEarly ==
  /\ controlling("capture", "cleanup")
  /\ needToStop
  /\ running' = FALSE
  /\ UNCHANGED <<needToStop, joinable, devVars, propVars, setVars, cursor, ownerPc>>

(* NeedToStop.Wait() says that VideoCaptureLoop() is to end. *)
EndCapture ==
  /\ controlling("capture", "cleanup")
  /\ needToStop
  /\ UNCHANGED <<notCtl, devVars, propertiesToSet, device, refused, cursor>>

(* Mutant: STREAMOFF is missing. *)
StopStreamingSkipped ==
  /\ controlling("cleanup", "close")
  /\ UNCHANGED <<notCtl, devVars, propertiesToSet, device, refused, cursor>>

(* Cleanup(): STREAMOFF, then close. *)
StopStreaming ==
  /\ controlling("cleanup", "close")
  /\ streaming' = FALSE
  /\ UNCHANGED <<notCtl, videoFd, propertiesToSet, device, refused, cursor>>

CloseDevice ==
  /\ controlling("close", "finish")
  /\ videoFd' = FALSE
  /\ UNCHANGED <<notCtl, streaming, propertiesToSet, device, refused, cursor>>

(* Running = false under Sync, and the thread ends. *)
FinishThread ==
  /\ controlling("finish", "ended")
  /\ sync = Null
  /\ running' = FALSE
  /\ UNCHANGED <<needToStop, joinable, devVars, propVars, setVars, cursor, ownerPc>>

CtlStep ==
  \/ OpenDevice \/ ConfigureDevice \/ ApplyProperty \/ Applied \/ ClearProperties
  \/ EndCapture \/ StopStreaming \/ CloseDevice \/ FinishThread

Next == OwnerStep \/ CtlStep \/ \E s \in Setters : SetterStep(s)

Safety == Init /\ [][Next]_vars

(* Threads run, and one that keeps finding Sync free gets it at last. *)
Fairness ==
  /\ SF_vars(CtlStep)
  /\ SF_vars(OwnerWaits)
  /\ \A s \in Setters : WF_vars(FinishSet(s))

Spec == Safety /\ Fairness

-----------------------------------------------------------------------------
(* Where the control thread is decides what is open, running and joinable. *)
Lifecycle ==
  /\ running <=> ctlPc \notin {"none", "ended"}
  /\ joinable <=> ctlPc # "none"
  /\ videoFd => ctlPc \in (Changing \union {"capture"}) \ {"open"}
  /\ ctlPc \in {"configure", "apply", "clear", "capture"} => videoFd
  /\ streaming => ctlPc \in {"apply", "clear", "capture", "cleanup"}
  /\ ownerPc = "join" => joinable

(***************************************************************************)
(* Running is a promise about the device: while it is FALSE nobody has the *)
(* device open and no thread is left that would touch it, so Start() may   *)
(* begin a new one.                                                        *)
(***************************************************************************)
DeviceReleased ==
  /\ ~running => ~videoFd /\ ~streaming /\ ctlPc \in {"none", "ended"}
  /\ joinable <=> ctlPc # "none"

(* When WaitForStop() returns, the camera is stopped and its thread joined, *)
(* however late the signal came.                                            *)
WaitStops ==
  [][ownerPc # "idle" /\ ownerPc' = "idle" => ~running' /\ ~joinable' /\ ~videoFd']_vars

(* WaitForStop() returns, wherever Init() was when the signal came. *)
WaitReturns == ownerPc = "test" ~> ownerPc = "idle"

(***************************************************************************)
(* As long as nobody sets a property while the device is being opened or   *)
(* closed, and it refuses none, a capturing camera has all the values last *)
(* accepted, those saved before it was started included.                   *)
(***************************************************************************)
AllSet == \A p \in Properties : propertiesToSet[p] = Null /\ device[p] = last[p]

SavedIsApplied == ctlPc = "capture" /\ ~overlapped /\ ~refused => AllSet

(***************************************************************************)
(* "Save property value and try setting it when device gets running"       *)
(* (v4l2_camera_data.cpp line 523): a value that was accepted is tried     *)
(* once the device runs, whenever it was set.                              *)
(***************************************************************************)
AcceptedIsTried == ctlPc = "capture" /\ ~refused => AllSet

=============================================================================

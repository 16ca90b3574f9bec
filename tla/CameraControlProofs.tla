------------------------ MODULE CameraControlProofs ------------------------
(***************************************************************************)
(* For every set of setters, properties and values: a camera that is not   *)
(* running holds no device and has no thread at work, and WaitForStop()    *)
(* returns only when that is so; a capturing camera has the values it was  *)
(* given.                                                                  *)
(***************************************************************************)
EXTENDS CameraControl, TLAPS

(***************************************************************************)
(* Types.  One lemma per actor.                                            *)
(***************************************************************************)

(* The owner's calls keep the types. *)
LEMMA OwnerTypes ==
  ASSUME TypeOK, OwnerStep
  PROVE  TypeOK'
<1> USE DEF TypeOK, devVars, propVars, setVars, unlessStarted, IsRunningReturns, JoinFinished,
            CtlPcs, Changing
<1>1. CASE AskIsRunning
  BY <1>1 DEF AskIsRunning
<1>2. CASE Start
  BY <1>2 DEF Start
<1>3. CASE OwnerSignals
  BY <1>3 DEF OwnerSignals, SignalToStop
<1>4. CASE WaitTests
  BY <1>4 DEF WaitTests
<1>5. CASE WaitJoins
  BY <1>5 DEF WaitJoins
<1>6. QED
  BY <1>1, <1>2, <1>3, <1>4, <1>5 DEF OwnerStep, OwnerWaits

(* A setter's call keeps the types: whoever is inside a call has Sync. *)
LEMMA SetterTypes ==
  ASSUME TypeOK, NEW s \in Setters, SetterStep(s)
  PROVE  TypeOK'
<1> USE CameraAssumption DEF TypeOK, lifeVars, devVars, propVars, Maybe
<1>1. ASSUME NEW p \in Properties, NEW v \in Values, BeginSet(s, p, v)
      PROVE  TypeOK'
  <2>1. [property |-> p, value |-> v] \in Calls /\ [property |-> p, value |-> v] # Null
    BY DEF Calls, Properties
  <2>2. QED
    BY <1>1, <2>1 DEF BeginSet
<1>2. ASSUME FinishSet(s)
      PROVE  setting[s].property \in Properties /\ setting[s].value \in Values
  BY <1>2 DEF FinishSet, SaveProperty, IoctlProperty, Calls
<1>3. CASE SaveProperty(s)
  BY <1>2, <1>3 DEF FinishSet, SaveProperty, EndSet
<1>4. CASE IoctlProperty(s)
  BY <1>2, <1>4 DEF FinishSet, IoctlProperty, EndSet
<1>5. QED
  BY <1>1, <1>3, <1>4 DEF SetterStep, FinishSet

(* So does the control thread; its cursor stays within the map. *)
LEMMA CtlTypes ==
  ASSUME TypeOK, CtlStep
  PROVE  TypeOK'
<1> USE CameraAssumption DEF TypeOK, controlling, notCtl, lifeVars, devVars, propVars, setVars,
        CtlPcs, Changing
<1>1. CASE OpenDevice
  BY <1>1 DEF OpenDevice
<1>2. CASE ConfigureDevice
  <2>1. cursor' \in 0 .. LastProperty + 1
    BY <1>2 DEF ConfigureDevice
  <2>2. streaming' \in BOOLEAN
    BY <1>2 DEF ConfigureDevice
  <2>3. QED
    BY <1>2, <2>1, <2>2 DEF ConfigureDevice
<1>3. CASE ApplyProperty
  <2>1. cursor' \in 0 .. LastProperty + 1
    BY <1>3 DEF ApplyProperty, Properties
  <2>2. refused' \in BOOLEAN
    BY <1>3 DEF ApplyProperty
  <2>3. propertiesToSet[cursor] \in Maybe
    BY <1>3 DEF ApplyProperty
  <2>4. device' \in [Properties -> Maybe]
    BY <1>3, <2>3 DEF ApplyProperty
  <2>5. QED
    BY <1>3, <2>1, <2>2, <2>4 DEF ApplyProperty
<1>4. CASE Applied
  BY <1>4 DEF Applied
<1>5. CASE ClearProperties
  BY <1>5 DEF ClearProperties, Maybe
<1>6. CASE EndCapture
  BY <1>6 DEF EndCapture
<1>7. CASE StopStreaming
  BY <1>7 DEF StopStreaming
<1>8. CASE CloseDevice
  BY <1>8 DEF CloseDevice
<1>9. CASE FinishThread
  BY <1>9 DEF FinishThread
<1>10. QED
  BY <1>1, <1>2, <1>3, <1>4, <1>5, <1>6, <1>7, <1>8, <1>9 DEF CtlStep

(* TypeOK holds in every reachable state: Sync is held exactly by a setter *)
(* that is inside a call.                                                  *)
THEOREM TypeCorrect == Safety => []TypeOK
<1>1. ASSUME Init PROVE TypeOK
  <2>1. cursor \in 0 .. LastProperty + 1
    BY <1>1, CameraAssumption DEF Init
  <2>2. ctlPc \in CtlPcs
    BY <1>1 DEF Init, CtlPcs
  <2>3. QED
    BY <1>1, <2>1, <2>2, CameraAssumption DEF Init, TypeOK, Maybe
<1>2. TypeOK /\ [Next]_vars => TypeOK'
  <2> SUFFICES ASSUME TypeOK, [Next]_vars PROVE TypeOK'
    OBVIOUS
  <2>1. CASE UNCHANGED vars
    BY <2>1 DEF vars, lifeVars, devVars, propVars, setVars, TypeOK
  <2>2. QED
    BY <2>1, OwnerTypes, SetterTypes, CtlTypes DEF Next
<1>3. QED
  BY <1>1, <1>2, PTL DEF Safety

-----------------------------------------------------------------------------
(***************************************************************************)
(* DeviceReleased alone is not inductive: Running = FALSE follows from the *)
(* order of the control thread's last steps, which Lifecycle records.      *)
(***************************************************************************)

(* The owner starts a thread only when there is none, and joins none that  *)
(* is still at work.                                                       *)
LEMMA OwnerKeepsLifecycle ==
  ASSUME TypeOK, Lifecycle, OwnerStep
  PROVE  Lifecycle'
<1> USE DEF TypeOK, Lifecycle, devVars, unlessStarted, IsRunningReturns, JoinFinished,
            CtlPcs, Changing
<1>1. CASE AskIsRunning
  BY <1>1 DEF AskIsRunning
<1>2. CASE Start
  BY <1>2 DEF Start
<1>3. CASE OwnerSignals
  BY <1>3 DEF OwnerSignals, SignalToStop
<1>4. CASE WaitTests
  BY <1>4 DEF WaitTests
<1>5. CASE WaitJoins
  BY <1>5 DEF WaitJoins
<1>6. QED
  BY <1>1, <1>2, <1>3, <1>4, <1>5 DEF OwnerStep, OwnerWaits

(* The control thread closes what it has opened before Running is FALSE. *)
LEMMA CtlKeepsLifecycle ==
  ASSUME TypeOK, Lifecycle, CtlStep
  PROVE  Lifecycle'
<1> USE DEF TypeOK, Lifecycle, controlling, notCtl, lifeVars, devVars, CtlPcs, Changing
<1>1. CASE OpenDevice
  BY <1>1 DEF OpenDevice
<1>2. CASE ConfigureDevice
  BY <1>2 DEF ConfigureDevice
<1>3. CASE ApplyProperty
  BY <1>3 DEF ApplyProperty
<1>4. CASE Applied
  BY <1>4 DEF Applied
<1>5. CASE ClearProperties
  BY <1>5 DEF ClearProperties
<1>6. CASE EndCapture
  BY <1>6 DEF EndCapture
<1>7. CASE StopStreaming
  BY <1>7 DEF StopStreaming
<1>8. CASE CloseDevice
  BY <1>8 DEF CloseDevice
<1>9. CASE FinishThread
  BY <1>9 DEF FinishThread
<1>10. QED
  BY <1>1, <1>2, <1>3, <1>4, <1>5, <1>6, <1>7, <1>8, <1>9 DEF CtlStep

(* No setter has a part in the life of the thread. *)
LEMMA SetterKeepsLifecycle ==
  ASSUME Lifecycle, NEW s \in Setters, SetterStep(s)
  PROVE  Lifecycle'
BY DEF SetterStep, FinishSet, BeginSet, SaveProperty, IoctlProperty, EndSet, Lifecycle,
       lifeVars, devVars

LEMMA LifecycleKept ==
  ASSUME TypeOK, Lifecycle, [Next]_vars
  PROVE  Lifecycle'
<1>1. CASE UNCHANGED vars
  BY <1>1 DEF vars, lifeVars, devVars, Lifecycle
<1>2. QED
  BY <1>1, OwnerKeepsLifecycle, CtlKeepsLifecycle, SetterKeepsLifecycle DEF Next

(* Lifecycle is invariant. *)
LEMMA LifecycleHolds == Safety => []Lifecycle
<1>1. Init => Lifecycle
  BY DEF Init, Lifecycle, Changing
<1>2. TypeOK /\ Lifecycle /\ [Next]_vars => Lifecycle'
  BY LifecycleKept
<1>3. QED
  BY <1>1, <1>2, TypeCorrect, PTL DEF Safety

(* DeviceReleased holds in every reachable state: a camera that is not     *)
(* running has closed its device and has no thread at work.                *)
THEOREM ReleasedWhenStopped == Safety => []DeviceReleased
<1>1. TypeOK /\ Lifecycle => DeviceReleased
  BY DEF TypeOK, Lifecycle, DeviceReleased, CtlPcs, Changing
<1>2. QED
  BY <1>1, TypeCorrect, LifecycleHolds, PTL

(* WaitForStop() returns only with the camera stopped, its thread joined   *)
(* and its device closed.                                                  *)
THEOREM StoppedWhenWaited == Safety => WaitStops
<1>1. TypeOK /\ Lifecycle /\ [Next]_vars
      => [ownerPc # "idle" /\ ownerPc' = "idle" => ~running' /\ ~joinable' /\ ~videoFd']_vars
  <2> SUFFICES ASSUME TypeOK, Lifecycle, Next, ownerPc # "idle", ownerPc' = "idle"
               PROVE  ~running' /\ ~joinable' /\ ~videoFd'
    OBVIOUS
  <2>1. Lifecycle'
    BY LifecycleKept
  <2>2. CASE OwnerStep
    <3>1. CASE WaitTests
      BY <2>1, <3>1 DEF WaitTests, JoinFinished, unlessStarted, devVars, Lifecycle, TypeOK,
                        CtlPcs, Changing
    <3>2. CASE WaitJoins
      BY <3>2 DEF WaitJoins, unlessStarted, devVars, Lifecycle, TypeOK, CtlPcs, Changing
    <3>3. QED
      BY <2>2, <3>1, <3>2 DEF OwnerStep, OwnerWaits, AskIsRunning, Start, OwnerSignals
  <2>3. CASE CtlStep
    BY <2>3 DEF CtlStep, OpenDevice, ConfigureDevice, ApplyProperty, Applied, ClearProperties,
                EndCapture, StopStreaming, CloseDevice, FinishThread, notCtl
  <2>4. ASSUME NEW s \in Setters, SetterStep(s) PROVE FALSE
    BY <2>4 DEF SetterStep, FinishSet, BeginSet, SaveProperty, IoctlProperty, EndSet
  <2>5. QED
    BY <2>2, <2>3, <2>4 DEF Next
<1>2. QED
  BY <1>1, TypeCorrect, LifecycleHolds, PTL DEF Safety, WaitStops

(***************************************************************************)
(* A signal to stop is not lost, wherever Init() is when it comes: while   *)
(* WaitForStop() waits for a camera that runs, NeedToStop is set, so that  *)
(* VideoCaptureLoop() ends when it gets there.  This is what WaitReturns   *)
(* rests on.                                                               *)
(***************************************************************************)
SignalKept == ownerPc # "idle" /\ running => needToStop

(* SignalKept holds in every reachable state: only Start() takes a signal  *)
(* back, and the owner that waits does not start.                          *)
THEOREM SignalsKept == Safety => []SignalKept
<1>1. Init => SignalKept
  BY DEF Init, SignalKept
<1>2. TypeOK /\ SignalKept /\ [Next]_vars => SignalKept'
  <2> SUFFICES ASSUME TypeOK, SignalKept, [Next]_vars PROVE SignalKept'
    OBVIOUS
  <2>1. CASE OwnerStep
    <3> USE DEF unlessStarted, JoinFinished, SignalKept
    <3>1. CASE AskIsRunning
      BY <3>1 DEF AskIsRunning
    <3>2. CASE Start
      BY <3>2 DEF Start
    <3>3. CASE OwnerSignals
      BY <3>3 DEF OwnerSignals, SignalToStop
    <3>4. CASE WaitTests
      BY <3>4 DEF WaitTests
    <3>5. CASE WaitJoins
      BY <3>5 DEF WaitJoins
    <3>6. QED
      BY <2>1, <3>1, <3>2, <3>3, <3>4, <3>5 DEF OwnerStep, OwnerWaits
  <2>2. CASE CtlStep
    BY <2>2 DEF CtlStep, OpenDevice, ConfigureDevice, ApplyProperty, Applied, ClearProperties,
                EndCapture, StopStreaming, CloseDevice, FinishThread, notCtl, lifeVars,
                SignalKept
  <2>3. ASSUME NEW s \in Setters, SetterStep(s) PROVE SignalKept'
    BY <2>3 DEF SetterStep, FinishSet, BeginSet, SaveProperty, IoctlProperty, EndSet, lifeVars,
                SignalKept
  <2>4. CASE UNCHANGED vars
    BY <2>4 DEF vars, lifeVars, SignalKept
  <2>5. QED
    BY <2>1, <2>2, <2>3, <2>4 DEF Next
<1>3. QED
  BY <1>1, <1>2, TypeCorrect, PTL DEF Safety

-----------------------------------------------------------------------------
(***************************************************************************)
(* SavedIsApplied.  Kept follows a value from the call that accepted it to *)
(* the device: the map holds it, or the device has it, and a call that     *)
(* began outside Init() and Cleanup() ends before the next Init().         *)
(***************************************************************************)
HasLast(p) == device[p] = last[p]

Kept ==
  ~overlapped /\ ~refused =>
    /\ \A p \in Properties : IF propertiesToSet[p] = Null THEN HasLast(p) ELSE propertiesToSet[p] = last[p]
    /\ \A s \in Setters : setterPc[s] = "save" => ctlPc \in {"none", "ended", "finish"}
    /\ \A s \in Setters : setterPc[s] = "ioctl" =>
         ctlPc \in {"capture", "cleanup", "close", "finish"} /\ \A p \in Properties : propertiesToSet[p] = Null
    /\ ctlPc = "apply" => \A p \in Properties : p < cursor => HasLast(p)
    /\ ctlPc = "clear" => \A p \in Properties : HasLast(p)
    /\ ctlPc = "capture" => \A p \in Properties : propertiesToSet[p] = Null

(* The owner starts and joins a thread only while no setter is inside. *)
LEMMA OwnerKeepsValues ==
  ASSUME TypeOK, Lifecycle, Kept, OwnerStep
  PROVE  Kept'
<1> USE DEF TypeOK, Lifecycle, Kept, HasLast, propVars, setVars, unlessStarted, IsRunningReturns,
            JoinFinished
<1>1. CASE AskIsRunning
  BY <1>1 DEF AskIsRunning
<1>2. CASE Start
  BY <1>2, CameraAssumption DEF Start
<1>3. CASE OwnerSignals
  BY <1>3 DEF OwnerSignals, SignalToStop
<1>4. CASE WaitTests
  BY <1>4 DEF WaitTests
<1>5. CASE WaitJoins
  BY <1>5 DEF WaitJoins
<1>6. QED
  BY <1>1, <1>2, <1>3, <1>4, <1>5 DEF OwnerStep, OwnerWaits

(* A value is saved where no device is open, or set where nothing is saved. *)
LEMMA SetterKeepsValues ==
  ASSUME TypeOK, Lifecycle, Kept, NEW s \in Setters, SetterStep(s)
  PROVE  Kept'
<1> USE CameraAssumption DEF TypeOK, Kept, HasLast, lifeVars, devVars, propVars
<1>1. ASSUME NEW p \in Properties, NEW v \in Values, BeginSet(s, p, v)
      PROVE  Kept'
  <2>1. ctlPc \notin Changing => ctlPc \in {"none", "ended", "finish", "capture"}
    BY DEF CtlPcs
  <2>2. QED
    BY <1>1, <2>1 DEF BeginSet, Lifecycle, Changing
<1>2. ASSUME FinishSet(s)
      PROVE  /\ setting[s].property \in Properties /\ setting[s].value \in Values
             /\ setting[s].value # Null
  BY <1>2 DEF FinishSet, SaveProperty, IoctlProperty, Calls
<1>3. CASE SaveProperty(s)
  BY <1>2, <1>3 DEF FinishSet, SaveProperty, EndSet
<1>4. CASE IoctlProperty(s)
  BY <1>2, <1>4 DEF FinishSet, IoctlProperty, EndSet
<1>5. QED
  BY <1>1, <1>3, <1>4 DEF SetterStep, FinishSet

(* The map is cleared only when the device has all that was in it. *)
LEMMA CtlKeepsValues ==
  ASSUME TypeOK, Lifecycle, Kept, CtlStep
  PROVE  Kept'
<1> USE DEF TypeOK, Lifecycle, Kept, HasLast, controlling, notCtl, lifeVars, devVars, propVars, setVars
<1>1. CASE OpenDevice
  BY <1>1 DEF OpenDevice
<1>2. CASE ConfigureDevice
  BY <1>2, CameraAssumption DEF ConfigureDevice, Properties
<1>3. CASE ApplyProperty
  BY <1>3, CameraAssumption DEF ApplyProperty, Properties
<1>4. CASE Applied
  BY <1>4, CameraAssumption DEF Applied, Properties
<1>5. CASE ClearProperties
  BY <1>5 DEF ClearProperties
<1>6. CASE EndCapture
  BY <1>6 DEF EndCapture
<1>7. CASE StopStreaming
  BY <1>7 DEF StopStreaming
<1>8. CASE CloseDevice
  BY <1>8 DEF CloseDevice
<1>9. CASE FinishThread
  BY <1>9, CameraAssumption DEF FinishThread
<1>10. QED
  BY <1>1, <1>2, <1>3, <1>4, <1>5, <1>6, <1>7, <1>8, <1>9 DEF CtlStep

(* SavedIsApplied holds in every reachable state: a capturing camera has   *)
(* every value that SetVideoProperty() last accepted, those saved before   *)
(* it was started included, unless one was set during Init() or Cleanup()  *)
(* or refused by the device.                                               *)
THEOREM SavedReachDevice == Safety => []SavedIsApplied
<1>1. Init => Kept
  BY DEF Init, Kept, HasLast
<1>2. TypeOK /\ Lifecycle /\ Kept /\ [Next]_vars => Kept'
  <2> SUFFICES ASSUME TypeOK, Lifecycle, Kept, [Next]_vars PROVE Kept'
    OBVIOUS
  <2>1. CASE UNCHANGED vars
    BY <2>1 DEF vars, propVars, setVars, Kept, HasLast
  <2>2. QED
    BY <2>1, OwnerKeepsValues, SetterKeepsValues, CtlKeepsValues DEF Next
<1>3. Kept => SavedIsApplied
  BY DEF Kept, HasLast, SavedIsApplied, AllSet
<1>4. QED
  BY <1>1, <1>2, <1>3, TypeCorrect, LifecycleHolds, PTL DEF Safety

=============================================================================

-------------------------- MODULE CameraPageProofs --------------------------
(***************************************************************************)
(* For every pause, frame rate, clock and size of a picture: the page is   *)
(* moved by one thing at a time, and at its own pace.                      *)
(***************************************************************************)
EXTENDS CameraPage, TLAPS

(***************************************************************************)
(* What the callbacks rest on.  A request was sent in the mode the page is *)
(* in; load events of parts and bytes on the way belong to a stream, so    *)
(* that onImageLoaded() finds the mode of the request that was loaded.     *)
(***************************************************************************)
Refreshing ==
  /\ Len(timers) = (IF img \in {"shown", "broken"} THEN 1 ELSE 0)
  /\ img = "none" => ~mjpegMode
  /\ img \in {"sent", "image", "stream"} => (mjpegMode <=> url = "mjpegUrl")
  /\ img = "image" => ~mjpegMode
  /\ img = "stream" => mjpegMode
  /\ img = "stream" <=> (streamTimer \/ closing)
  /\ ~(streamTimer /\ closing)
  /\ partLoaded \/ output > 0 => img = "stream"

(* Each needs the other: a timer is removed from a sequence of one. *)
Sound == TypeOK /\ Refreshing

(***************************************************************************)
(* While nobody has set the clock timeTaken is the time since the request, *)
(* and a timer was started by a load or an error.                          *)
(***************************************************************************)
Paced ==
  /\ img \in {"sent", "image"} /\ ~mjpegMode /\ ~clockSet => timeTaken = age
  /\ timers # <<>> => cause \in {"load", "error"}
  /\ OnSchedule

-----------------------------------------------------------------------------
(* Sequences of at most one timer. *)

LEMMA OneTimer ==
  ASSUME NEW s \in Seq(Nat), Len(s) = 0, NEW d \in Nat
  PROVE  /\ Append(s, d) \in Seq(Nat)
         /\ Len(Append(s, d)) = 1
         /\ Append(s, d)[1] = d
         /\ DOMAIN Append(s, d) = {1}
OBVIOUS

LEMMA LastTimer ==
  ASSUME NEW s \in Seq(Nat), Len(s) = 1, NEW i \in DOMAIN s
  PROVE  RemoveAt(s, i) = <<>>
<1>1. i = 1
  OBVIOUS
<1>2. SubSeq(s, 1, 0) = <<>> /\ SubSeq(s, 2, 1) = <<>>
  OBVIOUS
<1>3. QED
  BY <1>1, <1>2 DEF RemoveAt

LEMMA IntervalType ==
  ASSUME NEW fps \in Rates
  PROVE  Interval(fps) \in Nat
<1>1. fps \in Nat
  BY PageAssumption
<1>2. CASE fps = 0
  BY <1>2, PageAssumption DEF Interval
<1>3. CASE fps # 0
  <2>1. Second \div fps \in Nat
    BY <1>1, <1>3, PageAssumption
  <2>2. QED
    BY <1>3, <2>1 DEF Interval
<1>4. QED
  BY <1>2, <1>3

LEMMA LateType ==
  ASSUME Sound
  PROVE  Late \in Nat /\ Late > frameInterval /\ Late > Second /\ PartLength \in Nat /\ PartLength >= JpegSize
BY PageAssumption DEF Sound, TypeOK, Late, PartLength

-----------------------------------------------------------------------------
(* Every step of the page keeps both; one lemma per callback. *)

LEMMA ZeroInRange ==
  \A l \in Nat : 0 \in -ClockBack .. l
BY PageAssumption

(* A request that is sent, in the mode the page is in. *)
LEMMA RequestSound ==
  ASSUME Sound, refreshImage(mjpegMode), mjpegMode' = mjpegMode,
         frameInterval' \in Nat, Late' \in Nat, mjpegMode => frameInterval' = frameInterval,
         timers' = <<>>, UNCHANGED <<worldVars, painted>>
  PROVE  Sound'
<1>1. /\ img' = "sent" /\ partLoaded' = FALSE /\ streamTimer' = FALSE /\ closing' = FALSE
      /\ output' = 0 /\ age' = 0 /\ cause' = "request"
  BY DEF refreshImage, SetSrc, NoStream
<1>2. url' = (IF mjpegMode THEN "mjpegUrl" ELSE "jpegUrl")
  BY DEF refreshImage, SetSrc
<1>3. timeTaken' \in -ClockBack .. Late' /\ clockSet' \in BOOLEAN
  <2>1. CASE mjpegMode
    BY <2>1 DEF refreshImage, Sound, TypeOK, Late
  <2>2. CASE ~mjpegMode
    <3>1. timeTaken' = 0 /\ clockSet' = FALSE
      BY <2>2 DEF refreshImage
    <3>2. QED
      BY <3>1, ZeroInRange
  <2>3. QED
    BY <2>1, <2>2
<1>4. PartLength' \in Nat
  BY PageAssumption DEF PartLength
<1>5. output' \in 0 .. 2 * JpegSize - 1 + PartLength'
  BY <1>1, <1>4, PageAssumption
<1>6. mjpegMode' \in BOOLEAN /\ url' \in {"jpegUrl", "mjpegUrl"} /\ timers' \in Seq(Nat)
  BY <1>2 DEF Sound, TypeOK
<1>7. browser' = browser /\ camera' = camera /\ failing' = failing /\ painted' = painted
  BY DEF worldVars
<1>8. TypeOK'
  <2>1. /\ browser' \in [mjpeg : BOOLEAN, reportsEnd : BOOLEAN]
        /\ camera' \in {"empty", "ok", "error"} /\ failing' \in BOOLEAN /\ painted' \in BOOLEAN
    BY <1>7 DEF Sound, TypeOK
  <2>2. age' \in 0 .. Late'
    BY <1>1
  <2>3. QED
    BY <1>1, <1>3, <1>5, <1>6, <2>1, <2>2 DEF TypeOK, Awaiting
<1>9. Refreshing'
  BY <1>1, <1>2 DEF Refreshing
<1>10. QED
  BY <1>8, <1>9 DEF Sound

LEMMA StartSound ==
  ASSUME Sound, NEW fps \in Rates, Start(fps)
  PROVE  Sound'
<1>1. ~mjpegMode /\ timers = <<>>
  BY DEF Start, Sound, TypeOK, Refreshing
<1>2. frameInterval' \in Nat /\ Late' \in Nat
  BY IntervalType, PageAssumption DEF Start, Late
<1>3. refreshImage(mjpegMode) /\ mjpegMode' = mjpegMode /\ timers' = <<>>
  BY <1>1 DEF Start, refreshImage, Sound, TypeOK
<1>4. QED
  BY <1>1, <1>2, <1>3, RequestSound DEF Start

LEMMA TimerSound ==
  ASSUME Sound, TimerFires
  PROVE  Sound'
<1>1. timers' = <<>>
  <2>1. PICK i \in DOMAIN timers : timers' = RemoveAt(timers, i)
    BY DEF TimerFires
  <2>2. timers \in Seq(Nat) /\ Len(timers) \in {0, 1}
    BY DEF Sound, TypeOK, Refreshing
  <2>3. Len(timers) = 1
    BY <2>1, <2>2
  <2>4. QED
    BY <2>1, <2>2, <2>3, LastTimer
<1>2. frameInterval' = frameInterval /\ Late' = Late
  BY DEF TimerFires, Late
<1>3. frameInterval' \in Nat /\ Late' \in Nat
  BY <1>2, LateType DEF Sound, TypeOK
<1>4. QED
  BY <1>1, <1>2, <1>3, RequestSound DEF TimerFires

LEMMA ErrorSound ==
  ASSUME Sound, onImageError
  PROVE  Sound'
<1>1. Late' = Late /\ Late \in Nat /\ PartLength' = PartLength
  BY LateType DEF onImageError, Late, PartLength, Sound
<1>2. Len(timers) = 0 /\ timers \in Seq(Nat)
  BY DEF onImageError, Sound, TypeOK, Refreshing
<1>3. timers' \in Seq(Nat) /\ Len(timers') = 1
  BY <1>2, OneTimer, PageAssumption DEF onImageError, setTimeout
<1>4. img' = "broken" /\ age' \in 0 .. Late' /\ cause' = "error" /\ mjpegMode' \in BOOLEAN
  BY <1>1 DEF onImageError
<1>5. UNCHANGED <<frameInterval, timeTaken, url, partLoaded, streamTimer, closing, output, browser,
                  camera, failing, clockSet, painted>>
  BY DEF onImageError, streamVars, worldVars
<1>6. TypeOK'
  BY <1>1, <1>3, <1>4, <1>5 DEF Sound, TypeOK
<1>7. ~partLoaded /\ ~(output > 0) /\ ~streamTimer /\ ~closing
  BY DEF onImageError, Sound, Refreshing, TypeOK
<1>8. Refreshing'
  BY <1>3, <1>4, <1>5, <1>7 DEF Refreshing
<1>9. QED
  BY <1>6, <1>8 DEF Sound

LEMMA LoadSound ==
  ASSUME Sound, ImageLoads
  PROVE  Sound'
<1>1. Late' = Late /\ Late \in Nat /\ PartLength' = PartLength
  BY LateType DEF ImageLoads, Late, PartLength, Sound
<1>2. NextDelay \in Nat
  BY <1>1, PageAssumption DEF NextDelay, Sound, TypeOK
<1>3. Len(timers) = 0 /\ timers \in Seq(Nat) /\ ~mjpegMode
  BY DEF ImageLoads, Sound, TypeOK, Refreshing
<1>4. timers' \in Seq(Nat) /\ Len(timers') = 1 /\ cause' = "load"
  BY <1>2, <1>3, OneTimer DEF ImageLoads, onImageLoaded, setTimeout
<1>5. img' = "shown" /\ painted' = TRUE
  BY DEF ImageLoads
<1>6. UNCHANGED <<mjpegMode, frameInterval, timeTaken, url, partLoaded, streamTimer, closing, output,
                  browser, camera, failing, age, clockSet>>
  BY DEF ImageLoads, streamVars, worldVars
<1>7. TypeOK'
  BY <1>1, <1>4, <1>5, <1>6 DEF Sound, TypeOK
<1>8. ~partLoaded /\ ~(output > 0) /\ ~streamTimer /\ ~closing
  BY DEF ImageLoads, Sound, Refreshing, TypeOK
<1>9. Refreshing'
  BY <1>3, <1>4, <1>5, <1>6, <1>8 DEF Refreshing
<1>10. QED
  BY <1>7, <1>9 DEF Sound

LEMMA PartSound ==
  ASSUME Sound, PartLoads
  PROVE  Sound'
<1>1. Late' = Late /\ PartLength' = PartLength
  BY DEF PartLoads, Late, PartLength
<1>2. mjpegMode
  BY DEF PartLoads, Sound, Refreshing
<1>3. UNCHANGED <<timers, cause>> /\ partLoaded' = FALSE
  BY <1>2 DEF PartLoads, onImageLoaded
<1>4. UNCHANGED <<mjpegMode, frameInterval, timeTaken, img, url, streamTimer, closing, output,
                  browser, camera, failing, age, clockSet, painted>>
  BY DEF PartLoads, streamVars, worldVars
<1>5. TypeOK'
  <2>1. /\ timeTaken' \in -ClockBack .. Late' /\ age' \in 0 .. Late'
        /\ output' \in 0 .. 2 * JpegSize - 1 + PartLength'
    BY <1>1, <1>4 DEF Sound, TypeOK
  <2>2. /\ browser' \in [mjpeg : BOOLEAN, reportsEnd : BOOLEAN] /\ frameInterval' \in Nat
        /\ timers' \in Seq(Nat)
    BY <1>3, <1>4 DEF Sound, TypeOK
  <2>3. /\ img' \in {"none", "shown", "broken", "frozen"} \union Awaiting
        /\ url' \in {"jpegUrl", "mjpegUrl"} /\ camera' \in {"empty", "ok", "error"}
        /\ cause' \in {"request", "load", "error"}
    BY <1>3, <1>4 DEF Sound, TypeOK
  <2>4. /\ mjpegMode' \in BOOLEAN /\ partLoaded' \in BOOLEAN /\ streamTimer' \in BOOLEAN
        /\ closing' \in BOOLEAN /\ failing' \in BOOLEAN /\ clockSet' \in BOOLEAN
        /\ painted' \in BOOLEAN
    BY <1>3, <1>4 DEF Sound, TypeOK
  <2>5. QED
    BY <2>1, <2>2, <2>3, <2>4 DEF TypeOK
<1>6. Refreshing'
  BY <1>3, <1>4 DEF Sound, Refreshing
<1>7. QED
  BY <1>5, <1>6 DEF Sound

-----------------------------------------------------------------------------
(***************************************************************************)
(* The server and the world change the request, the stream and little      *)
(* else.                                                                   *)
(***************************************************************************)
LEMMA OutputType ==
  ASSUME Sound
  PROVE  output \in Nat /\ PartLength \in Nat /\ JpegSize \in Nat /\ JpegSize > 0
BY PageAssumption, LateType DEF Sound, TypeOK

LEMMA ServerSound ==
  ASSUME Sound, ServerStep
  PROVE  Sound'
<1>1. Late' = Late /\ PartLength' = PartLength
  BY DEF ServerStep, HandleJpeg, RefuseStream, OpenStream, SendPart, CloseStream, pageVars, Late,
         PartLength
<1>2. UNCHANGED <<mjpegMode, frameInterval, timeTaken, timers, url, partLoaded, browser, camera,
                  failing, age, cause, clockSet, painted>>
  BY DEF ServerStep, HandleJpeg, RefuseStream, OpenStream, SendPart, CloseStream, pageVars,
         worldVars, historyVars
<1>3. CASE HandleJpeg \/ RefuseStream
  <2>1. UNCHANGED <<streamTimer, closing, output>>
    BY <1>3 DEF HandleJpeg, RefuseStream, streamVars
  <2>2. img = "sent" /\ img' \in {"image", "error"} /\ (img' = "image" => url = "jpegUrl")
    BY <1>3 DEF HandleJpeg, RefuseStream
  <2>3. TypeOK'
    BY <1>1, <1>2, <2>1, <2>2 DEF Sound, TypeOK, Awaiting
  <2>4. Refreshing'
    BY <1>2, <2>1, <2>2 DEF Sound, TypeOK, Refreshing
  <2>5. QED
    BY <2>3, <2>4 DEF Sound
<1>4. CASE OpenStream
  <2>1. /\ img = "sent" /\ url = "mjpegUrl" /\ img' = "stream"
        /\ streamTimer' = TRUE /\ closing' = FALSE
    BY <1>4 DEF OpenStream
  <2>2. output' \in 0 .. 2 * JpegSize - 1 + PartLength
    BY <1>4, OutputType DEF OpenStream
  <2>3. TypeOK'
    BY <1>1, <1>2, <2>1, <2>2 DEF Sound, TypeOK, Awaiting
  <2>4. Refreshing'
    BY <1>2, <2>1 DEF Sound, TypeOK, Refreshing
  <2>5. QED
    BY <2>3, <2>4 DEF Sound
<1>5. CASE SendPart
  <2>1. UNCHANGED <<img, streamTimer, closing>> /\ img = "stream"
    BY <1>5 DEF SendPart, Sound, Refreshing
  <2>2. output' \in 0 .. 2 * JpegSize - 1 + PartLength
    BY <1>5, OutputType DEF SendPart, Sound, TypeOK
  <2>3. TypeOK'
    BY <1>1, <1>2, <2>1, <2>2 DEF Sound, TypeOK
  <2>4. Refreshing'
    BY <1>2, <2>1 DEF Sound, Refreshing
  <2>5. QED
    BY <2>3, <2>4 DEF Sound
<1>6. CASE CloseStream
  <2>1. UNCHANGED <<img, output>> /\ img = "stream" /\ streamTimer' = FALSE /\ closing' = TRUE
    BY <1>6 DEF CloseStream, Sound, Refreshing
  <2>2. TypeOK'
    BY <1>1, <1>2, <2>1 DEF Sound, TypeOK
  <2>3. Refreshing'
    BY <1>2, <2>1 DEF Sound, Refreshing
  <2>4. QED
    BY <2>2, <2>3 DEF Sound
<1>7. QED
  BY <1>3, <1>4, <1>5, <1>6 DEF ServerStep

LEMMA DeliverSound ==
  ASSUME Sound, Deliver
  PROVE  Sound'
<1>1. Late' = Late /\ PartLength' = PartLength
  BY DEF Deliver, pageVars, Late, PartLength
<1>2. UNCHANGED <<mjpegMode, frameInterval, timeTaken, timers, img, url, streamTimer, closing,
                  browser, camera, failing, age, cause, clockSet>>
  BY DEF Deliver, pageVars, worldVars
<1>3. output' \in 0 .. 2 * JpegSize - 1 + PartLength
  BY OutputType DEF Deliver, Sound, TypeOK
<1>4. partLoaded' \in BOOLEAN /\ painted' \in BOOLEAN
  <2> DEFINE whole == output' % PartLength = 0
  <2>1. painted' = (painted \/ whole) /\ partLoaded' \in {partLoaded, partLoaded \/ whole}
    BY DEF Deliver
  <2>2. painted \in BOOLEAN /\ partLoaded \in BOOLEAN /\ whole \in BOOLEAN
    BY DEF Sound, TypeOK
  <2> HIDE DEF whole
  <2>3. QED
    BY <2>1, <2>2, Zenon
<1>5. img = "stream"
  BY DEF Deliver, Sound, Refreshing
<1>6. TypeOK'
  BY <1>1, <1>2, <1>3, <1>4 DEF Sound, TypeOK
<1>7. Refreshing'
  BY <1>2, <1>5 DEF Sound, Refreshing
<1>8. QED
  BY <1>6, <1>7 DEF Sound

(* A stream ends, or any connection breaks. *)
LEMMA EndSound ==
  ASSUME Sound, StreamEnds \/ ConnectionBreaks
  PROVE  Sound'
<1>1. Late' = Late /\ PartLength' = PartLength
  BY DEF StreamEnds, ConnectionBreaks, pageVars, Late, PartLength
<1>2. UNCHANGED <<mjpegMode, frameInterval, timeTaken, timers, url, browser, camera, failing, age,
                  cause, clockSet, painted>>
  BY DEF StreamEnds, ConnectionBreaks, pageVars, worldVars, historyVars
<1>3. partLoaded' = FALSE /\ streamTimer' = FALSE /\ closing' = FALSE /\ output' = 0
  BY DEF StreamEnds, ConnectionBreaks, NoStream
<1>4. img' \in {"error", "frozen"} /\ img \in {"sent", "image", "stream"}
  BY DEF StreamEnds, ConnectionBreaks, Sound, Refreshing
<1>5. output' \in 0 .. 2 * JpegSize - 1 + PartLength
  BY <1>3, OutputType
<1>6. TypeOK'
  BY <1>1, <1>2, <1>3, <1>4, <1>5 DEF Sound, TypeOK, Awaiting
<1>7. Refreshing'
  BY <1>2, <1>3, <1>4 DEF Sound, Refreshing
<1>8. QED
  BY <1>6, <1>7 DEF Sound

LEMMA TickSound ==
  ASSUME Sound, Tick
  PROVE  Sound'
<1>1. Late' = Late /\ Late \in Nat /\ PartLength' = PartLength
  BY LateType DEF Tick, Late, PartLength, Sound
<1>2. timers' \in Seq(Nat) /\ Len(timers') = Len(timers)
  <2>1. timers \in Seq(Nat)
    BY DEF Sound, TypeOK
  <2>2. \A i \in DOMAIN timers : (IF timers[i] > 0 THEN timers[i] - 1 ELSE 0) \in Nat
    BY <2>1
  <2>3. timers' = [i \in DOMAIN timers |-> IF timers[i] > 0 THEN timers[i] - 1 ELSE 0]
    BY DEF Tick
  <2>4. timers' \in [1 .. Len(timers) -> Nat] /\ Len(timers) \in Nat
    BY <2>1, <2>2, <2>3
  <2>5. QED
    BY <2>4
<1>3. timeTaken' \in -ClockBack .. Late /\ age' \in 0 .. Late
  BY <1>1, PageAssumption DEF Tick, Passed, Sound, TypeOK
<1>4. /\ painted' = FALSE
      /\ UNCHANGED <<mjpegMode, frameInterval, img, url, partLoaded, streamTimer, closing, output,
                     browser, camera, failing, cause, clockSet>>
  BY DEF Tick, streamVars, worldVars
<1>5. TypeOK'
  <2>1. timeTaken' \in -ClockBack .. Late' /\ age' \in 0 .. Late'
    BY <1>1, <1>3
  <2>2. output' \in 0 .. 2 * JpegSize - 1 + PartLength' /\ frameInterval' \in Nat
    BY <1>1, <1>4 DEF Sound, TypeOK
  <2>3. /\ browser' \in [mjpeg : BOOLEAN, reportsEnd : BOOLEAN]
        /\ img' \in {"none", "shown", "broken", "frozen"} \union Awaiting
        /\ url' \in {"jpegUrl", "mjpegUrl"} /\ camera' \in {"empty", "ok", "error"}
        /\ cause' \in {"request", "load", "error"}
    BY <1>4 DEF Sound, TypeOK
  <2>4. /\ mjpegMode' \in BOOLEAN /\ partLoaded' \in BOOLEAN /\ streamTimer' \in BOOLEAN
        /\ closing' \in BOOLEAN /\ failing' \in BOOLEAN /\ clockSet' \in BOOLEAN
        /\ painted' \in BOOLEAN
    BY <1>4 DEF Sound, TypeOK
  <2>5. QED
    BY <1>2, <2>1, <2>2, <2>3, <2>4 DEF TypeOK
<1>6. Refreshing'
  BY <1>2, <1>4 DEF Sound, Refreshing
<1>7. QED
  BY <1>5, <1>6 DEF Sound

(* Network, camera and wall clock. *)
LEMMA ChangeSound ==
  ASSUME Sound, NetworkChanges \/ CameraChanges \/ SetClock
  PROVE  Sound'
<1>1. Late' = Late /\ PartLength' = PartLength
  BY DEF NetworkChanges, CameraChanges, SetClock, pageVars, Late, PartLength
<1>2. UNCHANGED <<browser, mjpegMode, frameInterval, timers, img, url, partLoaded, streamTimer,
                  closing, output, age, cause, painted>>
  BY DEF NetworkChanges, CameraChanges, SetClock, pageVars, streamVars, historyVars, worldVars
<1>3. failing' \in BOOLEAN /\ camera' \in {"empty", "ok", "error"}
  BY DEF NetworkChanges, CameraChanges, SetClock, worldVars, Sound, TypeOK
<1>4. timeTaken' \in -ClockBack .. Late /\ clockSet' \in BOOLEAN
  BY DEF NetworkChanges, CameraChanges, SetClock, pageVars, historyVars, Sound, TypeOK
<1>5. TypeOK'
  <2>1. /\ timeTaken' \in -ClockBack .. Late' /\ age' \in 0 .. Late'
        /\ output' \in 0 .. 2 * JpegSize - 1 + PartLength'
    BY <1>1, <1>2, <1>4 DEF Sound, TypeOK
  <2>2. /\ browser' \in [mjpeg : BOOLEAN, reportsEnd : BOOLEAN] /\ frameInterval' \in Nat
        /\ timers' \in Seq(Nat)
    BY <1>2 DEF Sound, TypeOK
  <2>3. /\ img' \in {"none", "shown", "broken", "frozen"} \union Awaiting
        /\ url' \in {"jpegUrl", "mjpegUrl"} /\ cause' \in {"request", "load", "error"}
    BY <1>2 DEF Sound, TypeOK
  <2>4. /\ mjpegMode' \in BOOLEAN /\ partLoaded' \in BOOLEAN /\ streamTimer' \in BOOLEAN
        /\ closing' \in BOOLEAN /\ painted' \in BOOLEAN
    BY <1>2 DEF Sound, TypeOK
  <2>5. QED
    BY <1>3, <1>4, <2>1, <2>2, <2>3, <2>4 DEF TypeOK
<1>6. Refreshing'
  BY <1>2 DEF Sound, Refreshing
<1>7. QED
  BY <1>5, <1>6 DEF Sound

(* Every step keeps both. *)
LEMMA SoundKept ==
  ASSUME Sound, [Next]_vars
  PROVE  Sound'
<1>1. CASE UNCHANGED vars
  <2>1. UNCHANGED <<browser, mjpegMode, frameInterval, timeTaken, timers, img, url, partLoaded,
                    streamTimer, closing, output, camera, failing, age, cause, clockSet, painted>>
    BY <1>1 DEF vars, pageVars, streamVars, worldVars, historyVars
  <2>2. Late' = Late /\ PartLength' = PartLength
    BY <2>1 DEF Late, PartLength
  <2>3. TypeOK'
    BY <2>1, <2>2 DEF Sound, TypeOK
  <2>4. Refreshing'
    BY <2>1 DEF Sound, Refreshing
  <2>5. QED
    BY <2>3, <2>4 DEF Sound
<1>2. CASE PageStep
  BY <1>2, StartSound, TimerSound, ErrorSound, LoadSound, PartSound DEF PageStep
<1>3. CASE WorldStep
  BY <1>3, DeliverSound, EndSound, TickSound, ChangeSound DEF WorldStep
<1>4. QED
  BY <1>1, <1>2, <1>3, ServerSound DEF Next

LEMMA SoundFromInit ==
  ASSUME Init
  PROVE  Sound
<1>1. frameInterval = 0 /\ Late \in Nat /\ PartLength \in Nat
  BY PageAssumption DEF Init, Late, PartLength
<1>2. timeTaken \in -ClockBack .. Late /\ age \in 0 .. Late
  BY <1>1, PageAssumption DEF Init
<1>3. output \in 0 .. 2 * JpegSize - 1 + PartLength
  BY <1>1, PageAssumption DEF Init
<1>4. frameInterval \in Nat /\ timers \in Seq(Nat)
  BY DEF Init
<1>5. TypeOK
  BY <1>2, <1>3, <1>4 DEF Init, TypeOK, Awaiting
<1>6. Refreshing
  BY DEF Init, Refreshing
<1>7. QED
  BY <1>5, <1>6 DEF Sound

LEMMA SoundHolds == Safety => []Sound
<1>1. Init => Sound
  BY SoundFromInit
<1>2. Sound /\ [Next]_vars => Sound'
  BY SoundKept
<1>3. QED
  BY <1>1, <1>2, PTL DEF Safety

(* TypeOK holds in every reachable state; with it the bound on what a slow *)
(* connection may have waiting.                                            *)
THEOREM TypeCorrect == Safety => []TypeOK
<1>1. Sound => TypeOK
  BY DEF Sound
<1>2. QED
  BY <1>1, SoundHolds, PTL

(* The page never stops refreshing but for a stream that ended silently,   *)
(* and never refreshes twice at a time.                                    *)
THEOREM RefreshesOnce == Safety => []OneRefresh
<1>1. Sound => OneRefresh
  BY DEF Sound, TypeOK, Refreshing, OneRefresh, Awaiting
<1>2. QED
  BY <1>1, SoundHolds, PTL

-----------------------------------------------------------------------------
(***************************************************************************)
(* The pace.  A timer is set where timeTaken is known to be the age of the *)
(* request; from then on it loses with every tick what the age gains.      *)
(***************************************************************************)
LEMMA NoTimerPaced ==
  ASSUME timers' = <<>>,
         img' \in {"sent", "image"} /\ ~mjpegMode' /\ ~clockSet' => timeTaken' = age'
  PROVE  Paced'
<1>1. DOMAIN timers' = {}
  OBVIOUS
<1>2. OnSchedule'
  BY <1>1 DEF OnSchedule
<1>3. QED
  BY <1>2 DEF Paced

LEMMA StartPaced ==
  ASSUME Sound, Paced, NEW fps \in Rates, Start(fps)
  PROVE  Paced'
<1>1. timers \in Seq(Nat) /\ Len(timers) = 0
  BY DEF Start, Sound, TypeOK, Refreshing
<1>2. timers' = <<>>
  BY <1>1 DEF Start
<1>3. timeTaken' = 0 /\ age' = 0
  BY DEF Start, refreshImage, SetSrc
<1>4. QED
  BY <1>2, <1>3, NoTimerPaced

LEMMA TimerPaced ==
  ASSUME Sound, Paced, TimerFires
  PROVE  Paced'
<1>1. timers' = <<>>
  <2>1. PICK i \in DOMAIN timers : timers' = RemoveAt(timers, i)
    BY DEF TimerFires
  <2>2. timers \in Seq(Nat) /\ Len(timers) \in {0, 1}
    BY DEF Sound, TypeOK, Refreshing
  <2>3. Len(timers) = 1
    BY <2>1, <2>2
  <2>4. QED
    BY <2>1, <2>2, <2>3, LastTimer
<1>2. mjpegMode' = mjpegMode /\ (~mjpegMode => timeTaken' = 0 /\ age' = 0)
  BY DEF TimerFires, refreshImage, SetSrc
<1>3. QED
  BY <1>1, <1>2, NoTimerPaced

LEMMA ErrorPaced ==
  ASSUME Sound, Paced, onImageError
  PROVE  Paced'
<1>1. Len(timers) = 0 /\ timers \in Seq(Nat)
  BY DEF onImageError, Sound, TypeOK, Refreshing
<1>2. DOMAIN timers' = {1} /\ timers'[1] = Second
  BY <1>1, OneTimer, PageAssumption DEF onImageError, setTimeout
<1>3. img' = "broken" /\ age' = 0 /\ cause' = "error"
  BY DEF onImageError
<1>4. OnSchedule'
  BY <1>2, <1>3, PageAssumption DEF OnSchedule
<1>5. QED
  BY <1>3, <1>4 DEF Paced

LEMMA LoadPaced ==
  ASSUME Sound, Paced, ImageLoads
  PROVE  Paced'
<1>1. Len(timers) = 0 /\ timers \in Seq(Nat) /\ img = "image" /\ ~mjpegMode
  BY DEF ImageLoads, Sound, TypeOK, Refreshing
<1>2. frameInterval \in Nat /\ timeTaken \in Int /\ age \in Nat
  BY LateType, PageAssumption DEF Sound, TypeOK
<1>3. NextDelay \in Nat
  BY <1>2 DEF NextDelay
<1>4. DOMAIN timers' = {1} /\ timers'[1] = NextDelay /\ cause' = "load"
  BY <1>1, <1>3, OneTimer DEF ImageLoads, onImageLoaded, setTimeout
<1>5. img' = "shown" /\ age' = age /\ clockSet' = clockSet /\ frameInterval' = frameInterval
  BY DEF ImageLoads
<1>6. clockSet \/ timeTaken = age
  BY <1>1 DEF Paced
<1>7. clockSet \/ (IF NextDelay > 0 THEN age + NextDelay = frameInterval ELSE age >= frameInterval)
  BY <1>2, <1>6 DEF NextDelay
<1>8. OnSchedule'
  BY <1>4, <1>5, <1>7 DEF OnSchedule
<1>9. QED
  BY <1>4, <1>5, <1>8 DEF Paced

(* Steps that leave timers, times and what happened last alone. *)
LEMMA SamePaced ==
  ASSUME Sound, Paced, UNCHANGED <<timers, age, cause, clockSet, frameInterval, timeTaken, mjpegMode>>,
         img' \in {"sent", "image"} => img \in {"sent", "image"}
  PROVE  Paced'
<1>1. OnSchedule'
  BY DEF Paced, OnSchedule
<1>2. QED
  BY <1>1 DEF Paced

LEMMA TickPaced ==
  ASSUME Sound, Paced, Tick
  PROVE  Paced'
<1>1. Late \in Nat /\ Late > frameInterval /\ Late > Second /\ frameInterval \in Nat
  BY LateType DEF Sound, TypeOK
<1>2. age \in Nat /\ age <= Late /\ timers \in Seq(Nat)
  BY <1>1 DEF Sound, TypeOK
<1>3. timeTaken' = Passed(timeTaken) /\ age' = Passed(age)
  BY DEF Tick
<1>4. UNCHANGED <<mjpegMode, frameInterval, img, cause, clockSet>>
  BY DEF Tick
<1>5. /\ DOMAIN timers' = DOMAIN timers
      /\ \A i \in DOMAIN timers : timers'[i] = IF timers[i] > 0 THEN timers[i] - 1 ELSE 0
  BY DEF Tick
<1>6. OnSchedule'
  <2> SUFFICES ASSUME NEW i \in DOMAIN timers
               PROVE  LET wait == IF cause = "error" THEN Second ELSE frameInterval
                      IN \/ cause = "load" /\ clockSet
                         \/ IF timers'[i] > 0 THEN age' + timers'[i] = wait ELSE age' >= wait
    BY <1>4, <1>5 DEF OnSchedule
  <2> DEFINE wait == IF cause = "error" THEN Second ELSE frameInterval
  <2>1. wait \in Nat /\ wait < Late
    BY <1>1, PageAssumption
  <2>2. timers[i] \in Nat
    BY <1>2
  <2>3. (cause = "load" /\ clockSet) \/ IF timers[i] > 0 THEN age + timers[i] = wait ELSE age >= wait
    BY DEF Paced, OnSchedule
  <2>4. timers'[i] = IF timers[i] > 0 THEN timers[i] - 1 ELSE 0
    BY <1>5
  <2>5. age' = IF age < Late THEN age + 1 ELSE age
    BY <1>3 DEF Passed
  <2> HIDE DEF wait
  <2>6. (cause = "load" /\ clockSet) \/ IF timers'[i] > 0 THEN age' + timers'[i] = wait ELSE age' >= wait
    BY <1>1, <1>2, <2>1, <2>2, <2>3, <2>4, <2>5
  <2>7. QED
    BY <2>6 DEF wait
<1>7. timers' # <<>> => timers # <<>>
  BY <1>5
<1>8. QED
  BY <1>3, <1>4, <1>6, <1>7 DEF Paced

(* The clock is set: a timer that a load started may be late now. *)
LEMMA ClockPaced ==
  ASSUME Sound, Paced, SetClock
  PROVE  Paced'
<1>1. UNCHANGED <<timers, frameInterval, age, cause>> /\ clockSet' = TRUE
  BY DEF SetClock
<1>2. OnSchedule'
  BY <1>1 DEF Paced, OnSchedule
<1>3. QED
  BY <1>1, <1>2 DEF Paced

LEMMA PacedKept ==
  ASSUME Sound, Paced, [Next]_vars
  PROVE  Paced'
<1>1. CASE PartLoads
  <2>1. mjpegMode
    BY <1>1 DEF PartLoads, Sound, Refreshing
  <2>2. QED
    BY <1>1, <2>1, SamePaced DEF PartLoads, onImageLoaded
<1>2. CASE ServerStep
  BY <1>2, SamePaced DEF ServerStep, HandleJpeg, RefuseStream, OpenStream, SendPart, CloseStream,
                         pageVars, historyVars
<1>3. CASE Deliver \/ StreamEnds \/ ConnectionBreaks \/ NetworkChanges \/ CameraChanges
  BY <1>3, SamePaced DEF Deliver, StreamEnds, ConnectionBreaks, NetworkChanges, CameraChanges,
                         pageVars, historyVars
<1>4. CASE UNCHANGED vars
  BY <1>4, SamePaced DEF vars, pageVars, historyVars
<1>5. QED
  BY <1>1, <1>2, <1>3, <1>4, StartPaced, TimerPaced, ErrorPaced, LoadPaced, TickPaced, ClockPaced
     DEF Next, PageStep, WorldStep

(* While nobody sets the clock a picture is asked for frameInterval after  *)
(* the one before, or at once when that was late, and a second after an    *)
(* error, for every rate and however slow the server.                      *)
THEOREM KeepsPace == Safety => []OnSchedule
<1>1. Init => Paced
  <2> SUFFICES ASSUME Init PROVE Paced
    OBVIOUS
  <2>1. timers = <<>> /\ img = "none"
    BY DEF Init
  <2>2. QED
    BY <2>1 DEF Paced, OnSchedule
<1>2. Sound /\ Paced /\ [Next]_vars => Paced'
  BY PacedKept
<1>3. Paced => OnSchedule
  BY DEF Paced
<1>4. QED
  BY <1>1, <1>2, <1>3, SoundHolds, PTL DEF Safety

=============================================================================

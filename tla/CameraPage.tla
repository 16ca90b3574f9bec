----------------------------- MODULE CameraPage -----------------------------
(***************************************************************************)
(* web/camera.js, the script that keeps the picture of the page fresh,     *)
(* with the two handlers of web_request_handler.cpp it asks for pictures.  *)
(* In JPEG mode a loaded picture schedules the next request; in MJPEG mode *)
(* one request is answered by a stream; an error changes the mode and asks *)
(* again after a pause.  Nothing else moves the page: a refresh that is    *)
(* forgotten freezes the picture, one too many doubles the requests.       *)
(*                                                                         *)
(* Granularity.  A callback of the page runs to its end, so it is one      *)
(* step; so is a callback of the server.  Between any two of them time     *)
(* passes, the camera fails or recovers, connections break and the wall    *)
(* clock is set.                                                           *)
(*                                                                         *)
(* Data.  Times are differences: how long a timer has to run, and what     *)
(* new Date().getTime() - timeStart would be now.  Beyond Late all of them *)
(* are alike.  What a connection still has to deliver is a number of       *)
(* bytes; every part of the stream has the same length.                    *)
(***************************************************************************)
EXTENDS Integers, SequencesExt

CONSTANTS
  Second,           (* 1000: the pause after an error, and 1000 / fps         *)
  DefaultInterval,  (* 100: frameInterval without a frame rate                *)
  Rates,            (* frame rates Start() may be given; 0 for none           *)
  ClockBack,        (* bound: how far before timeStart the clock may be set   *)
  JpegSize,         (* Owner->JpegSize of a picture                           *)
  PartHeader        (* length of the boundary and the headers of a part       *)

ASSUME PageAssumption ==
  /\ Second \in Nat
  /\ DefaultInterval \in Nat
  /\ Rates \subseteq Nat
  /\ ClockBack \in Nat
  /\ JpegSize \in Nat \ {0}
  /\ PartHeader \in Nat

VARIABLES
  browser,          (* [mjpeg |-> it shows streams,
                        reportsEnd |-> the end of a stream is an error to it]  *)
  mjpegMode,        (* mjpegMode                                              *)
  frameInterval,    (* frameInterval                                          *)
  timeTaken,        (* wall clock now - timeStart                             *)
  timers,           (* what is left of each pending setTimeout(refreshImage)  *)
  img,              (* what has become of the request of imageElement         *)
  url,              (* imageElement.src: "jpegUrl" or "mjpegUrl"              *)
  partLoaded,       (* a load event for a part of the stream is on its way    *)
  streamTimer,      (* server: the connection's next HandleTimer is scheduled *)
  closing,          (* server: conn->shutdown() was called                    *)
  output,           (* bytes of the stream not yet delivered                  *)
  camera,           (* "empty" (no picture yet), "ok" or "error"              *)
  failing,          (* the network breaks connections                         *)
  age,              (* history: time since the last request or error          *)
  cause,            (* history: what happened last, "request", "load", "error" *)
  clockSet,         (* history: the clock was set since the last JPEG request *)
  painted           (* history: a new picture appeared in this tick           *)

pageVars == <<mjpegMode, frameInterval, timeTaken, timers>>
streamVars == <<streamTimer, closing, output>>
worldVars == <<browser, camera, failing>>
historyVars == <<age, cause, clockSet, painted>>
vars == <<pageVars, img, url, partLoaded, streamVars, worldVars, historyVars>>

Late == (IF frameInterval > Second THEN frameInterval ELSE Second) + 1
PartLength == JpegSize + PartHeader

(* Requests that something will still come of. *)
Awaiting == {"sent", "image", "error", "stream"}

(***************************************************************************)
(* Types.  The last conjunct is the lag HandleTimer allows a slow          *)
(* connection: less than two pictures, and the part that followed them.    *)
(***************************************************************************)
TypeOK ==
  /\ browser \in [mjpeg : BOOLEAN, reportsEnd : BOOLEAN]
  /\ mjpegMode \in BOOLEAN
  /\ frameInterval \in Nat
  /\ timeTaken \in -ClockBack .. Late
  /\ timers \in Seq(Nat)
  /\ img \in {"none", "shown", "broken", "frozen"} \union Awaiting
  /\ url \in {"jpegUrl", "mjpegUrl"}
  /\ partLoaded \in BOOLEAN
  /\ streamTimer \in BOOLEAN
  /\ closing \in BOOLEAN
  /\ camera \in {"empty", "ok", "error"}
  /\ failing \in BOOLEAN
  /\ age \in 0 .. Late
  /\ cause \in {"request", "load", "error"}
  /\ clockSet \in BOOLEAN
  /\ painted \in BOOLEAN
  /\ output \in 0 .. 2 * JpegSize - 1 + PartLength

(* The script is loaded, Start() is still to come. *)
Init ==
  /\ browser \in [mjpeg : BOOLEAN, reportsEnd : BOOLEAN]
  /\ mjpegMode = FALSE
  /\ frameInterval = 0
  /\ timeTaken = 0
  /\ timers = <<>>
  /\ img = "none"
  /\ url = "jpegUrl"
  /\ partLoaded = FALSE
  /\ streamTimer = FALSE
  /\ closing = FALSE
  /\ output = 0
  /\ camera = "empty"
  /\ failing = FALSE
  /\ age = 0
  /\ cause = "request"
  /\ clockSet = FALSE
  /\ painted = FALSE

-----------------------------------------------------------------------------
(* camera.js. *)

NoStream == streamTimer' = FALSE /\ closing' = FALSE /\ output' = 0

(* A new src: whatever the element was loading is dropped with its events. *)
SetSrc(u) ==
  /\ url' = u
  /\ img' = "sent"
  /\ partLoaded' = FALSE
  /\ NoStream
  /\ age' = 0
  /\ cause' = "request"

(* Mutant: timeStart is that of the first request for ever. *)
refreshImageKeepsStart(mode) ==
  /\ SetSrc(IF mode THEN "mjpegUrl" ELSE "jpegUrl")
  /\ UNCHANGED <<timeTaken, clockSet>>

(* refreshImage() in the given mode. *)
refreshImage(mode) ==
  \/ /\ mode
     /\ SetSrc("mjpegUrl")
     /\ UNCHANGED <<timeTaken, clockSet>>
  \/ /\ ~mode
     /\ SetSrc("jpegUrl")
     /\ timeTaken' = 0
     /\ clockSet' = FALSE

(* 1000 / fps, or 100; setTimeout() ignores what is less than a millisecond. *)
Interval(fps) == IF fps # 0 THEN Second \div fps ELSE DefaultInterval

(* Camera.Start(fps), which the page calls once. *)
Start(fps) ==
  /\ img = "none"
  /\ frameInterval' = Interval(fps)
  /\ mjpegMode' = FALSE
  /\ refreshImage(FALSE)
  /\ UNCHANGED <<timers, worldVars, painted>>

setTimeout(delay) == timers' = Append(timers, delay)

(* A timer that is due calls refreshImage(). *)
TimerFires ==
  /\ \E i \in DOMAIN timers :
       /\ timers[i] = 0
       /\ timers' = RemoveAt(timers, i)
  /\ refreshImage(mjpegMode)
  /\ UNCHANGED <<mjpegMode, frameInterval, worldVars, painted>>

(* Mutant: an error always leads to MJPEG mode. *)
onImageErrorStaysMjpeg ==
  /\ img = "error"
  /\ img' = "broken"
  /\ mjpegMode' = TRUE
  /\ setTimeout(Second)
  /\ age' = 0
  /\ cause' = "error"
  /\ UNCHANGED <<frameInterval, timeTaken, url, partLoaded, streamVars, worldVars, clockSet, painted>>

(* onImageError(): the other mode, after a pause. *)
onImageError ==
  /\ img = "error"
  /\ img' = "broken"
  /\ mjpegMode' = ~mjpegMode
  /\ setTimeout(Second)
  /\ age' = 0
  /\ cause' = "error"
  /\ UNCHANGED <<frameInterval, timeTaken, url, partLoaded, streamVars, worldVars, clockSet, painted>>

(* Mutant: a late picture gives a negative delay. *)
NextDelayUnchecked == frameInterval - timeTaken

(* (timeTaken > frameInterval) ? 0 : frameInterval - timeTaken *)
NextDelay == IF timeTaken > frameInterval THEN 0 ELSE frameInterval - timeTaken

(* Mutant: the mode is not looked at. *)
onImageLoadedInAnyMode == setTimeout(NextDelay) /\ cause' = "load"

(* onImageLoaded(). *)
onImageLoaded ==
  \/ ~mjpegMode /\ setTimeout(NextDelay) /\ cause' = "load"
  \/ mjpegMode /\ UNCHANGED <<timers, cause>>

(* The browser's load event for a still image, which is shown now. *)
ImageLoads ==
  /\ img = "image"
  /\ img' = "shown"
  /\ painted' = TRUE
  /\ onImageLoaded
  /\ UNCHANGED <<mjpegMode, frameInterval, timeTaken, url, partLoaded, streamVars, worldVars,
                 age, clockSet>>

(* Its load event for a part of a stream. *)
PartLoads ==
  /\ partLoaded
  /\ partLoaded' = FALSE
  /\ onImageLoaded
  /\ UNCHANGED <<mjpegMode, frameInterval, timeTaken, img, url, streamVars, worldVars,
                 age, clockSet, painted>>

-----------------------------------------------------------------------------
(* web_request_handler.cpp. *)

(***************************************************************************)
(* JpegRequestHandler: a picture, or a 500 that is none.  Before the first *)
(* frame the body is empty, which is no picture either.                    *)
(***************************************************************************)
HandleJpeg ==
  /\ img = "sent" /\ url = "jpegUrl"
  /\ img' = IF camera = "ok" THEN "image" ELSE "error"
  /\ UNCHANGED <<pageVars, url, partLoaded, streamVars, worldVars, historyVars>>

(* MjpegRequestHandler reports an error, or the browser knows no streams. *)
RefuseStream ==
  /\ img = "sent" /\ url = "mjpegUrl"
  /\ camera = "error" \/ ~browser.mjpeg
  /\ img' = "error"
  /\ UNCHANGED <<pageVars, url, partLoaded, streamVars, worldVars, historyVars>>

(* It sends the first part and sets the connection's timer. *)
OpenStream ==
  /\ img = "sent" /\ url = "mjpegUrl"
  /\ camera # "error" /\ browser.mjpeg
  /\ img' = "stream"
  /\ streamTimer' = TRUE
  /\ closing' = FALSE
  /\ output' = IF camera = "ok" THEN PartLength ELSE 0
  /\ UNCHANGED <<pageVars, url, partLoaded, worldVars, historyVars>>

(* HandleTimer with a picture: a part, unless the connection is behind,    *)
(* and the next timer.                                                     *)
SendPart ==
  /\ streamTimer
  /\ camera = "ok"
  /\ output' = IF output < 2 * JpegSize THEN output + PartLength ELSE output
  /\ UNCHANGED <<pageVars, img, url, partLoaded, streamTimer, closing, worldVars, historyVars>>

(* HandleTimer on an error, or with JpegSize = 0: shutdown() and no timer. *)
CloseStream ==
  /\ streamTimer
  /\ camera # "ok"
  /\ streamTimer' = FALSE
  /\ closing' = TRUE
  /\ UNCHANGED <<pageVars, img, url, partLoaded, output, worldVars, historyVars>>

-----------------------------------------------------------------------------
(* The browser's connection, the camera, the clocks. *)

(* A byte arrives; with the last one of a part the picture is replaced,    *)
(* and the browser may report a load.                                      *)
Deliver ==
  /\ output > 0
  /\ output' = output - 1
  /\ LET whole == output' % PartLength = 0
     IN /\ painted' = (painted \/ whole)
        /\ partLoaded' \in {partLoaded, partLoaded \/ whole}
  /\ UNCHANGED <<pageVars, img, url, streamTimer, closing, worldVars, age, cause, clockSet>>

(* The FIN after everything that was sent.  A browser that does not call   *)
(* the end of a stream an error keeps the last picture and tells nobody.   *)
StreamEnds ==
  /\ closing
  /\ output = 0
  /\ img' = IF browser.reportsEnd THEN "error" ELSE "frozen"
  /\ partLoaded' = FALSE
  /\ NoStream
  /\ UNCHANGED <<pageVars, url, worldVars, historyVars>>

(***************************************************************************)
(* A connection breaks before its request is done.  The server's timer, if *)
(* any, finds the connection closed and is not set again: nobody sees that, *)
(* and it is left out.                                                     *)
(***************************************************************************)
ConnectionBreaks ==
  /\ failing
  /\ img \in {"sent", "image", "stream"}
  /\ img' = "error"
  /\ partLoaded' = FALSE
  /\ NoStream
  /\ UNCHANGED <<pageVars, url, worldVars, historyVars>>

NetworkChanges ==
  /\ failing' = ~failing
  /\ UNCHANGED <<pageVars, img, url, partLoaded, streamVars, browser, camera, historyVars>>

(* A frame clears an error; before the first there is nothing to serve. *)
CameraChanges ==
  /\ camera' \in IF camera = "ok" THEN {"error"} ELSE {"ok", "error"}
  /\ UNCHANGED <<pageVars, img, url, partLoaded, streamVars, browser, failing, historyVars>>

Passed(t) == IF t < Late THEN t + 1 ELSE t

Tick ==
  /\ timers' = [i \in DOMAIN timers |-> IF timers[i] > 0 THEN timers[i] - 1 ELSE 0]
  /\ timeTaken' = Passed(timeTaken)
  /\ age' = Passed(age)
  /\ painted' = FALSE
  /\ UNCHANGED <<mjpegMode, frameInterval, img, url, partLoaded, streamVars, worldVars, cause, clockSet>>

(* The wall clock is set, forward or back; timers do not notice. *)
SetClock ==
  /\ timeTaken' \in -ClockBack .. Late
  /\ clockSet' = TRUE
  /\ UNCHANGED <<mjpegMode, frameInterval, timers, img, url, partLoaded, streamVars, worldVars,
                 age, cause, painted>>

-----------------------------------------------------------------------------
PageStep ==
  \/ \E fps \in Rates : Start(fps)
  \/ TimerFires \/ onImageError \/ ImageLoads \/ PartLoads

ServerStep == HandleJpeg \/ RefuseStream \/ OpenStream \/ SendPart \/ CloseStream

WorldStep ==
  \/ Deliver \/ StreamEnds \/ ConnectionBreaks \/ NetworkChanges \/ CameraChanges
  \/ Tick \/ SetClock

Next == PageStep \/ ServerStep \/ WorldStep

Safety == Init /\ [][Next]_vars

(***************************************************************************)
(* Time passes, the page starts and its callbacks are called, the server   *)
(* answers and its timers fire, what it sent arrives.  Neither the camera  *)
(* nor the network has to recover, nobody has to set the clock.            *)
(***************************************************************************)
Fairness ==
  /\ WF_vars(Tick)
  /\ WF_vars(PageStep)
  /\ WF_vars(HandleJpeg \/ RefuseStream \/ OpenStream)
  /\ WF_vars(SendPart \/ CloseStream)
  /\ WF_vars(Deliver \/ StreamEnds)

Spec == Safety /\ Fairness

-----------------------------------------------------------------------------
(***************************************************************************)
(* Exactly one thing moves the page: a timer, a request something will     *)
(* come of, or a stream that its server keeps up or is about to end.  With *)
(* two the requests would double, and double again at each load; with none *)
(* the picture is frozen, which happens only when a stream ends and the    *)
(* browser does not call that an error.                                    *)
(***************************************************************************)
OneRefresh ==
  img # "none" =>
    /\ Len(timers) + (IF img \in Awaiting THEN 1 ELSE 0) = (IF img = "frozen" THEN 0 ELSE 1)
    /\ img = "stream" <=> (streamTimer \/ closing)
    /\ ~(streamTimer /\ closing)

(***************************************************************************)
(* The page keeps its pace: unless the clock was set under it, a timer     *)
(* that still runs will fire frameInterval after the last request, or a    *)
(* second after the error, and one that is due is not early.  timeTaken    *)
(* and setTimeout() are what this rests on.                                *)
(***************************************************************************)
OnSchedule ==
  \A i \in DOMAIN timers :
    LET wait == IF cause = "error" THEN Second ELSE frameInterval
    IN \/ cause = "load" /\ clockSet
       \/ IF timers[i] > 0 THEN age + timers[i] = wait ELSE age >= wait

(***************************************************************************)
(* Once camera and network stay well the page shows new pictures again and *)
(* again, whatever happened before, if its browser reports the end of a    *)
(* stream.  Changing the mode is what saves a browser without MJPEG.       *)
(***************************************************************************)
Well == camera = "ok" /\ ~failing

PictureReturns == browser.reportsEnd => (<>[]Well => []<>painted)

=============================================================================

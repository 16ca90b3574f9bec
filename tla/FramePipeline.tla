--------------------------- MODULE FramePipeline ---------------------------
(***************************************************************************)
(* webcamera/video_source_to_webdata.cpp with its callers: the camera      *)
(* thread that stores frames (video_listener.cpp) and the I/O threads that *)
(* encode and serve them (web_request_handler.cpp).  They share            *)
(* VideoSourceToWebData under two mutexes, ImageGuard and BufferGuard, but *)
(* read four of its fields without either.                                 *)
(*                                                                         *)
(* Granularity.  Every unlocked read and every acquisition of a mutex is a *)
(* step of its own.  A thread that holds BufferGuard writes the bytes of   *)
(* the buffer and their number in steps of their own, and reads them so.   *)
(*                                                                         *)
(* Data.  A frame is its number and the length of its JPEG form, be it the *)
(* camera's or the one libjpeg will make of it.  A buffer is (id, len):    *)
(* the frame whose bytes it starts with and how long its JPEG form is.     *)
(***************************************************************************)
EXTENDS Naturals

CONSTANTS
  IoThreads,        (* the server's I/O threads, one request each at a time   *)
  MaxFrames,        (* bound: images and errors the camera may report         *)
  Sizes,            (* lengths a JPEG may have                                *)
  InitialCapacity,  (* JPEG_BUFFER_SIZE                                       *)
  Align,            (* rows of an allocated image are a multiple of this      *)
  MaxFaults,        (* bound: failing allocations and failing encodes         *)
  Camera,           (* the camera's thread, as an owner of a mutex            *)
  Null              (* no image, no buffer, no owner, no answer               *)

ASSUME PipelineAssumption ==
  /\ MaxFrames \in Nat
  /\ MaxFaults \in Nat
  /\ Sizes \subseteq Nat \ {0}
  /\ InitialCapacity \in Nat \ {0}
  /\ Align \in Nat \ {0}
  /\ Camera \notin IoThreads
  /\ Null \notin IoThreads \union {Camera}

(* Null is no image and no buffer. *)
ASSUME NullAssumption ==
  /\ Null \notin [id : Nat, len : Nat]
  /\ Null \notin [id : Nat, len : Nat, width : Nat]

VARIABLES
  format,           (* the camera's JpegEncoding: "jpeg" or "rgb"              *)
  frames,           (* images and errors the camera has reported              *)
  camPc,            (* camera thread: "idle", or "finish" inside OnNewImage   *)
  cameraImage,      (* CameraImage: Null or [id, len, width]                  *)
  newImage,         (* NewImageAvailable                                      *)
  sourceError,      (* VideoSourceError                                       *)
  internalError,    (* InternalError                                          *)
  jpegBuffer,       (* *JpegBuffer: Null or [id, len]                         *)
  capacity,         (* JpegBufferSize                                         *)
  jpegSize,         (* JpegSize                                               *)
  imageGuard,       (* owner of ImageGuard                                    *)
  bufferGuard,      (* owner of BufferGuard                                   *)
  pc,               (* where each I/O thread is in its request                *)
  kind,             (* "request" (still image or start of a stream, which
                       treat the shared data alike) or "timer"                *)
  measured,         (* JpegSize as it read it first, for the answer           *)
  answer,           (* the answer it produced last                            *)
  stuck,            (* libjpeg refuses to start: an encode failed midway      *)
  crashed,          (* a null image or buffer was used                        *)
  faults,           (* history: faults so far                                 *)
  seen              (* history: the newest frame stored when a request began,
                       0 once it has skipped encoding because of an error     *)

camVars == <<format, frames, camPc, cameraImage, sourceError>>
bufVars == <<jpegBuffer, capacity, jpegSize, stuck>>
reqVars == <<kind, measured, answer, seen>>
vars == <<camVars, newImage, internalError, bufVars, imageGuard, bufferGuard,
          pc, reqVars, crashed, faults>>

Ids == 0 .. MaxFrames
Lengths == Sizes \union {0}
Kinds == {"request", "timer"}
Encoding == {"encode", "compress", "resize", "finish"}
Pcs == {"idle", "isError", "testNew", "lockImage", "lockBuffer", "isErrorAgain", "report",
        "reportSource", "lockReport", "lockBody", "body", "copy"} \union Encoding
Errors == {"Success", "OutOfMemory", "FailedImageEncoding"}

Answers == [status : {0, 200, 500}, id : Ids, len : Lengths, size : Nat, length : Nat]

Padded(n) == ((n + Align - 1) \div Align) * Align

TypeOK ==
  /\ format \in {"jpeg", "rgb"}
  /\ frames \in Ids
  /\ camPc \in {"idle", "finish"}
  /\ cameraImage \in [id : Ids, len : Lengths, width : Lengths] \union {Null}
  /\ newImage \in BOOLEAN
  /\ sourceError \in BOOLEAN
  /\ internalError \in Errors
  /\ jpegBuffer \in [id : Ids, len : Lengths] \union {Null}
  /\ capacity \in Nat
  /\ jpegSize \in Nat
  /\ imageGuard \in IoThreads \union {Camera, Null}
  /\ bufferGuard \in IoThreads \union {Null}
  /\ pc \in [IoThreads -> Pcs]
  /\ kind \in [IoThreads -> Kinds]
  /\ measured \in [IoThreads -> Nat]
  /\ answer \in [IoThreads -> Answers \union {Null}]
  /\ stuck \in BOOLEAN
  /\ crashed \in BOOLEAN
  /\ faults \in 0 .. MaxFaults
  /\ seen \in [IoThreads -> Ids]
  /\ jpegSize <= capacity

(* The constructor: a malloc'ed buffer, no image yet. *)
Init ==
  /\ format \in {"jpeg", "rgb"}
  /\ frames = 0
  /\ camPc = "idle"
  /\ cameraImage = Null
  /\ newImage = FALSE
  /\ sourceError = FALSE
  /\ internalError = "Success"
  /\ jpegBuffer = [id |-> 0, len |-> 0]
  /\ capacity = InitialCapacity
  /\ jpegSize = 0
  /\ imageGuard = Null
  /\ bufferGuard = Null
  /\ pc = [h \in IoThreads |-> "idle"]
  /\ kind = [h \in IoThreads |-> "request"]
  /\ measured = [h \in IoThreads |-> 0]
  /\ answer = [h \in IoThreads |-> Null]
  /\ stuck = FALSE
  /\ crashed = FALSE
  /\ faults = 0
  /\ seen = [h \in IoThreads |-> 0]

-----------------------------------------------------------------------------
(* The camera's thread. *)

(***************************************************************************)
(* Image::CopyDataOrClone.  An RGB camera delivers one size, so every      *)
(* frame but the first is copied.  A JPEG image is one row whose width is  *)
(* its length: it is copied over the old one when that one's padded row is *)
(* long enough, and CopyData leaves the width of the old image as it was.  *)
(***************************************************************************)
CopiesInPlace(len) ==
  /\ cameraImage # Null
  /\ format = "jpeg" => Padded(cameraImage.width) >= len

StoredImage(id, len) ==
  [id |-> id, len |-> len, width |-> IF CopiesInPlace(len) THEN cameraImage.width ELSE len]

(* OnNewImage up to the NewImageAvailable test: the frame is stored. *)
OnNewImage(len) ==
  /\ camPc = "idle"
  /\ frames < MaxFrames
  /\ imageGuard = Null
  /\ imageGuard' = Camera
  /\ camPc' = "finish"
  /\ frames' = frames + 1
  /\ cameraImage' = StoredImage(frames + 1, len)
  /\ internalError' = "Success"
  /\ newImage' = TRUE
  /\ UNCHANGED <<format, sourceError, bufVars, bufferGuard, pc, reqVars, crashed, faults>>

(* The same when Clone() finds no memory: CameraImage is reset, and        *)
(* NewImageAvailable keeps its value.                                      *)
OnNewImageNoMemory(len) ==
  /\ camPc = "idle"
  /\ frames < MaxFrames
  /\ imageGuard = Null
  /\ ~CopiesInPlace(len)
  /\ faults < MaxFaults
  /\ imageGuard' = Camera
  /\ camPc' = "finish"
  /\ frames' = frames + 1
  /\ cameraImage' = Null
  /\ internalError' = "OutOfMemory"
  /\ faults' = faults + 1
  /\ UNCHANGED <<format, sourceError, newImage, bufVars, bufferGuard, pc, reqVars, crashed>>

(* The end of OnNewImage: the camera's own error is cleared. *)
OnNewImageEnd ==
  /\ camPc = "finish"
  /\ sourceError' = FALSE
  /\ imageGuard' = Null
  /\ camPc' = "idle"
  /\ UNCHANGED <<format, frames, cameraImage, newImage, internalError, bufVars, bufferGuard,
                 pc, reqVars, crashed, faults>>

(* VideoListener::OnError *)
OnError ==
  /\ camPc = "idle"
  /\ frames < MaxFrames
  /\ imageGuard = Null
  /\ frames' = frames + 1
  /\ sourceError' = TRUE
  /\ UNCHANGED <<format, camPc, cameraImage, newImage, internalError, bufVars, imageGuard,
                 bufferGuard, pc, reqVars, crashed, faults>>

CameraStep ==
  \/ \E len \in Sizes : OnNewImage(len) \/ OnNewImageNoMemory(len)
  \/ OnNewImageEnd
  \/ OnError

-----------------------------------------------------------------------------
(* An I/O thread and its request. *)

Goto(h, there) == pc' = [pc EXCEPT ![h] = there]

(* IsError(): no lock is held. *)
IsError == internalError # "Success" \/ sourceError

(* A GET of the still or of the stream, or the stream's timer. *)
Begin(h) ==
  /\ pc[h] = "idle"
  /\ \E k \in Kinds : kind' = [kind EXCEPT ![h] = k]
  /\ answer' = [answer EXCEPT ![h] = Null]
  /\ seen' = [seen EXCEPT ![h] = IF cameraImage = Null THEN 0 ELSE cameraImage.id]
  /\ Goto(h, "isError")
  /\ UNCHANGED <<camVars, newImage, internalError, bufVars, imageGuard, bufferGuard,
                 measured, crashed, faults>>

onlyPc == <<camVars, newImage, internalError, bufVars, imageGuard, bufferGuard,
            reqVars, crashed, faults>>

(* if (!IsError()) EncodeCameraImage(); *)
CheckError(h) ==
  /\ pc[h] = "isError"
  /\ Goto(h, IF IsError THEN "isErrorAgain" ELSE "testNew")
  /\ seen' = [seen EXCEPT ![h] = IF IsError THEN 0 ELSE @]
  /\ UNCHANGED <<camVars, newImage, internalError, bufVars, imageGuard, bufferGuard,
                 kind, measured, answer, crashed, faults>>

(* Mutant: the flag is cleared by the test. *)
TestNewImageClears(h) ==
  /\ pc[h] = "testNew"
  /\ Goto(h, IF newImage THEN "lockImage" ELSE "isErrorAgain")
  /\ newImage' = FALSE
  /\ UNCHANGED <<camVars, internalError, bufVars, imageGuard, bufferGuard,
                 reqVars, crashed, faults>>

(* EncodeCameraImage(): if (NewImageAvailable), before any lock. *)
TestNewImage(h) ==
  /\ pc[h] = "testNew"
  /\ Goto(h, IF newImage THEN "lockImage" ELSE "isErrorAgain")
  /\ UNCHANGED onlyPc

LockImage(h) ==
  /\ pc[h] = "lockImage"
  /\ imageGuard = Null
  /\ imageGuard' = h
  /\ Goto(h, "lockBuffer")
  /\ UNCHANGED <<camVars, newImage, internalError, bufVars, bufferGuard, reqVars, crashed, faults>>

LockBuffer(h) ==
  /\ pc[h] = "lockBuffer"
  /\ bufferGuard = Null
  /\ bufferGuard' = h
  /\ Goto(h, "encode")
  /\ UNCHANGED <<camVars, newImage, internalError, bufVars, imageGuard, reqVars, crashed, faults>>

encoding(h) ==
  /\ pc[h] = "encode"
  /\ UNCHANGED <<camVars, newImage, imageGuard, bufferGuard, reqVars>>

(* JpegBuffer == nullptr *)
EncodeWithoutBuffer(h) ==
  /\ encoding(h)
  /\ jpegBuffer = Null
  /\ internalError' = "OutOfMemory"
  /\ Goto(h, "finish")
  /\ UNCHANGED <<bufVars, crashed, faults>>

(* The image was reset under our feet: CameraImage->Format(). *)
EncodeNothing(h) ==
  /\ encoding(h)
  /\ jpegBuffer # Null
  /\ cameraImage = Null
  /\ crashed' = TRUE
  /\ UNCHANGED <<internalError, bufVars, pc, faults>>

(***************************************************************************)
(* An image that is a JPEG already: grow the buffer by a tenth more than   *)
(* needed (the constants here are small, so n + n \div 10 is n), copy      *)
(* Width() bytes, then note how many.                                      *)
(***************************************************************************)
CopyJpeg(h) ==
  /\ encoding(h)
  /\ jpegBuffer # Null
  /\ cameraImage # Null
  /\ format = "jpeg"
  /\ LET n == cameraImage.width
     IN /\ capacity' = IF capacity < n THEN n + n \div 10 ELSE capacity
        /\ jpegBuffer' = [id |-> cameraImage.id, len |-> cameraImage.len]
  /\ Goto(h, "resize")
  /\ UNCHANGED <<internalError, jpegSize, stuck, crashed, faults>>

(* JpegSize = CameraImage->Width() *)
NoteJpegSize(h) ==
  /\ pc[h] = "resize"
  /\ jpegSize' = cameraImage.width
  /\ Goto(h, "finish")
  /\ UNCHANGED <<camVars, newImage, internalError, jpegBuffer, capacity, stuck, imageGuard,
                 bufferGuard, reqVars, crashed, faults>>

(* realloc() fails: the old buffer is forgotten, the sizes are kept. *)
CopyJpegNoMemory(h) ==
  /\ encoding(h)
  /\ jpegBuffer # Null
  /\ cameraImage # Null
  /\ format = "jpeg"
  /\ capacity < cameraImage.width
  /\ faults < MaxFaults
  /\ jpegBuffer' = Null
  /\ internalError' = "OutOfMemory"
  /\ faults' = faults + 1
  /\ Goto(h, "finish")
  /\ UNCHANGED <<capacity, jpegSize, stuck, crashed>>

(* An image to compress: JpegSize is the room for it first, and a thread   *)
(* that has no lock may see that.                                          *)
OfferBuffer(h) ==
  /\ encoding(h)
  /\ jpegBuffer # Null
  /\ cameraImage # Null
  /\ format = "rgb"
  /\ jpegSize' = capacity
  /\ Goto(h, "compress")
  /\ UNCHANGED <<internalError, jpegBuffer, capacity, stuck, crashed, faults>>

compressing(h) ==
  /\ pc[h] = "compress"
  /\ Goto(h, "finish")
  /\ UNCHANGED <<camVars, newImage, imageGuard, bufferGuard, reqVars, crashed>>

(* Mutant: the grown size is not noted. *)
EncodeRgbKeepsCapacity(h) ==
  /\ compressing(h)
  /\ ~stuck
  /\ jpegBuffer' = [id |-> cameraImage.id, len |-> cameraImage.len]
  /\ jpegSize' = cameraImage.len
  /\ internalError' = "Success"
  /\ UNCHANGED <<capacity, stuck, faults>>

(* JpegEncoder::EncodeToMemory succeeds; libjpeg grows the buffer. *)
EncodeRgb(h) ==
  /\ compressing(h)
  /\ ~stuck
  /\ capacity' = IF capacity < cameraImage.len THEN cameraImage.len ELSE capacity
  /\ jpegBuffer' = [id |-> cameraImage.id, len |-> cameraImage.len]
  /\ jpegSize' = cameraImage.len
  /\ internalError' = "Success"
  /\ UNCHANGED <<stuck, faults>>

(***************************************************************************)
(* libjpeg throws.  JpegSize stays the size of the whole buffer, part of   *)
(* which may have been overwritten.  Nothing resets the compressor: one    *)
(* that was past its start refuses every later image.                      *)
(***************************************************************************)
EncodeRgbFails(h) ==
  /\ compressing(h)
  /\ \/ stuck /\ UNCHANGED <<stuck, faults>>
     \/ /\ ~stuck
        /\ faults < MaxFaults
        /\ faults' = faults + 1
        /\ stuck' \in BOOLEAN
  /\ jpegBuffer' = [id |-> 0, len |-> 0]
  /\ internalError' = "FailedImageEncoding"
  /\ UNCHANGED <<capacity, jpegSize>>

(* Mutant: BufferGuard is not released. *)
FinishEncodeKeepsBuffer(h) ==
  /\ pc[h] = "finish"
  /\ newImage' = FALSE
  /\ imageGuard' = Null
  /\ Goto(h, "isErrorAgain")
  /\ UNCHANGED <<camVars, internalError, bufVars, bufferGuard, reqVars, crashed, faults>>

(* NewImageAvailable = false, and both guards go out of scope. *)
FinishEncode(h) ==
  /\ pc[h] = "finish"
  /\ newImage' = FALSE
  /\ imageGuard' = Null
  /\ bufferGuard' = Null
  /\ Goto(h, "isErrorAgain")
  /\ UNCHANGED <<camVars, internalError, bufVars, reqVars, crashed, faults>>

Encode(h) ==
  \/ EncodeWithoutBuffer(h) \/ EncodeNothing(h)
  \/ CopyJpeg(h) \/ CopyJpegNoMemory(h) \/ NoteJpegSize(h)
  \/ OfferBuffer(h) \/ EncodeRgb(h) \/ EncodeRgbFails(h)
  \/ FinishEncode(h)

-----------------------------------------------------------------------------
(* The second half of every handler: decide, unlocked, then read the buffer. *)

Finish(h, a) ==
  /\ answer' = [answer EXCEPT ![h] = a]
  /\ Goto(h, "idle")

bodiless(s) == [status |-> s, id |-> 0, len |-> 0, size |-> 0, length |-> 0]

(* A timer closes its connection on an error and while there is no JPEG,   *)
(* the handlers of requests answer whatever JpegSize is.                   *)
CheckErrorAgain(h) ==
  /\ pc[h] = "isErrorAgain"
  /\ \/ /\ IsError \/ jpegSize = 0
        /\ kind[h] = "timer"
        /\ Goto(h, "idle")
     \/ /\ IsError
        /\ kind[h] # "timer"
        /\ Goto(h, "report")
     \/ /\ ~IsError
        /\ kind[h] = "timer" => jpegSize # 0
        /\ Goto(h, "lockBody")
  /\ UNCHANGED onlyPc

(* ReportError() looks at the errors again, one by one, still unlocked. *)
ReportError(h) ==
  /\ pc[h] = "report"
  /\ \/ /\ internalError # "Success"
        /\ Finish(h, bodiless(500))
     \/ /\ internalError = "Success"
        /\ Goto(h, "reportSource")
        /\ UNCHANGED answer
  /\ UNCHANGED <<camVars, newImage, internalError, bufVars, imageGuard, bufferGuard,
                 kind, measured, seen, crashed, faults>>

TestSourceError(h) ==
  /\ pc[h] = "reportSource"
  /\ \/ /\ sourceError
        /\ Goto(h, "lockReport")
        /\ UNCHANGED answer
     \/ /\ ~sourceError
        /\ Finish(h, bodiless(0))
  /\ UNCHANGED <<camVars, newImage, internalError, bufVars, imageGuard, bufferGuard,
                 kind, measured, seen, crashed, faults>>

(* The camera's message is copied under ImageGuard. *)
ReportSourceError(h) ==
  /\ pc[h] = "lockReport"
  /\ imageGuard = Null
  /\ Finish(h, bodiless(500))
  /\ UNCHANGED <<camVars, newImage, internalError, bufVars, imageGuard, bufferGuard,
                 kind, measured, seen, crashed, faults>>

(* Mutant: the body is read without the lock. *)
LockBodyWithoutWaiting(h) ==
  /\ pc[h] = "lockBody"
  /\ bufferGuard' = h
  /\ Goto(h, "body")
  /\ UNCHANGED <<camVars, newImage, internalError, bufVars, imageGuard, reqVars, crashed, faults>>

(* BufferGuard again, for the body. *)
LockBody(h) ==
  /\ pc[h] = "lockBody"
  /\ bufferGuard = Null
  /\ bufferGuard' = h
  /\ Goto(h, "body")
  /\ UNCHANGED <<camVars, newImage, internalError, bufVars, imageGuard, reqVars, crashed, faults>>

(* Mutant: the lock is let go between the two. *)
MeasureBodyAlone(h) ==
  /\ pc[h] = "body"
  /\ measured' = [measured EXCEPT ![h] = jpegSize]
  /\ bufferGuard' = Null
  /\ Goto(h, "copy")
  /\ UNCHANGED <<camVars, newImage, internalError, bufVars, imageGuard,
                 kind, answer, seen, crashed, faults>>

(* JpegSize is read twice, once for the body and once for the length that *)
(* is announced.  A stream announces first, a still has its body first.   *)
MeasureBody(h) ==
  /\ pc[h] = "body"
  /\ measured' = [measured EXCEPT ![h] = jpegSize]
  /\ Goto(h, "copy")
  /\ UNCHANGED <<camVars, newImage, internalError, bufVars, imageGuard, bufferGuard,
                 kind, answer, seen, crashed, faults>>

(* The body is made of the first JpegSize bytes of the buffer. *)
CopyBody(h) ==
  /\ pc[h] = "copy"
  /\ jpegBuffer # Null
  /\ Finish(h, [status |-> 200, id |-> jpegBuffer.id, len |-> jpegBuffer.len,
                size |-> measured[h], length |-> jpegSize])
  /\ measured' = [measured EXCEPT ![h] = 0]
  /\ bufferGuard' = Null
  /\ UNCHANGED <<camVars, newImage, internalError, bufVars, imageGuard,
                 kind, seen, crashed, faults>>

(* std::string of a null pointer. *)
CopyNothing(h) ==
  /\ pc[h] = "copy"
  /\ jpegBuffer = Null
  /\ crashed' = TRUE
  /\ UNCHANGED <<camVars, newImage, internalError, bufVars, imageGuard, bufferGuard, pc,
                 reqVars, faults>>

Answer(h) ==
  \/ CheckErrorAgain(h) \/ ReportError(h) \/ TestSourceError(h) \/ ReportSourceError(h)
  \/ LockBody(h) \/ MeasureBody(h) \/ CopyBody(h) \/ CopyNothing(h)

HandlerStep(h) ==
  \/ CheckError(h) \/ TestNewImage(h) \/ LockImage(h) \/ LockBuffer(h)
  \/ Encode(h) \/ Answer(h)

(* The process is gone. *)
Dead == crashed /\ UNCHANGED vars

Next ==
  \/ ~crashed /\ CameraStep
  \/ ~crashed /\ \E h \in IoThreads : Begin(h) \/ HandlerStep(h)
  \/ Dead

Safety == Init /\ [][Next]_vars

(* Threads are scheduled; whether requests come is up to the clients. *)
Fairness ==
  /\ WF_vars(~crashed /\ OnNewImageEnd)
  /\ \A h \in IoThreads : WF_vars(~crashed /\ HandlerStep(h))

Spec == Safety /\ Fairness

-----------------------------------------------------------------------------
(***************************************************************************)
(* The JPEG buffer has one user at a time, the image is never replaced     *)
(* while it is encoded, and nobody waits for ImageGuard while holding      *)
(* BufferGuard, so the two guards cannot deadlock.                         *)
(***************************************************************************)
UsesBuffer(h) == pc[h] \in {"body", "copy"} \union Encoding
UsesImage(h) == pc[h] \in {"lockBuffer"} \union Encoding

(* Who owns which mutex is a matter of where the threads are. *)
Owners ==
  /\ (camPc = "finish") <=> (imageGuard = Camera)
  /\ \A h \in IoThreads : UsesImage(h) <=> imageGuard = h
  /\ \A h \in IoThreads : UsesBuffer(h) <=> bufferGuard = h

GuardedBuffers ==
  /\ \A g, h \in IoThreads : UsesBuffer(g) /\ UsesBuffer(h) => g = h
  /\ \A g, h \in IoThreads : UsesImage(g) /\ UsesImage(h) => g = h
  /\ \A h \in IoThreads : UsesImage(h) => camPc = "idle"
  /\ \A h \in IoThreads : pc[h] \in {"lockImage", "lockReport"} => bufferGuard # h

(***************************************************************************)
(* No answer is torn, although it is decided outside BufferGuard to give   *)
(* one, and JpegSize is another number for as long as a frame is encoded.  *)
(* The length announced is that of the body, whatever fails.  As long as   *)
(* nothing failed, the body of an uncompressed camera is a whole frame;    *)
(* it is empty only if there was no frame yet, and a part of a stream is   *)
(* never empty.  (A still or the start of a stream may be: a 200 without a *)
(* body, where the handler's text would have "No image".)                  *)
(***************************************************************************)
IsBody(a) == a # Null /\ a.status = 200

ServedWhole ==
  \A h \in IoThreads :
    IsBody(answer[h]) =>
      /\ answer[h].length = answer[h].size
      /\ faults = 0 =>
           /\ answer[h].size = 0 <=> answer[h].id = 0
           /\ kind[h] = "timer" => answer[h].id # 0
           /\ format = "rgb" => answer[h].size = answer[h].len

(***************************************************************************)
(* As long as no allocation and no encode failed, a request that found no  *)
(* error when it began is answered with the frame that was the newest then *)
(* or a newer one, although NewImageAvailable is tested outside the locks. *)
(***************************************************************************)
ServedFresh ==
  \A h \in IoThreads : IsBody(answer[h]) /\ faults = 0 => answer[h].id >= seen[h]

(* Requests keep finishing: the guards never stop all I/O threads at once. *)
RequestsFinish == []<>(crashed \/ \E h \in IoThreads : pc[h] = "idle")

(***************************************************************************)
(* "Report HTTP error" (video_source_to_webdata.cpp line 14): an answer    *)
(* that went through ReportError() carries an error status.                *)
(***************************************************************************)
ReportedErrorHasStatus == \A h \in IoThreads : answer[h] # Null => answer[h].status # 0

=============================================================================

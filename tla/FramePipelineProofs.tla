------------------------ MODULE FramePipelineProofs ------------------------
(***************************************************************************)
(* For any number of I/O threads, frames and faults: the types of          *)
(* FramePipeline, that its two mutexes guard what they are meant to, and   *)
(* that what is answered is a whole frame and a fresh one.                 *)
(***************************************************************************)
EXTENDS FramePipeline, TLAPS

USE PipelineAssumption

(***************************************************************************)
(* Types.                                                                  *)
(***************************************************************************)

LEMMA GotoType ==
  ASSUME NEW h \in IoThreads, NEW there \in Pcs, TypeOK, Goto(h, there)
  PROVE  pc' \in [IoThreads -> Pcs]
BY DEF TypeOK, Goto

(* While an image is encoded it stays where it is, and so does the buffer, *)
(* which has room for a JPEG that was copied into it.                      *)
Roomy ==
  \A h \in IoThreads :
    pc[h] \in {"compress", "resize"} =>
      /\ cameraImage # Null
      /\ jpegBuffer # Null
      /\ pc[h] = "resize" => cameraImage.width <= capacity

LEMMA NullIsNothingElse ==
  /\ Null \notin [id : Ids, len : Lengths]
  /\ Null \notin [id : Ids, len : Lengths, width : Lengths]
<1>1. /\ Ids \subseteq Nat
      /\ Lengths \subseteq Nat
  BY DEF Ids, Lengths
<1>2. /\ [id : Ids, len : Lengths] \subseteq [id : Nat, len : Nat]
      /\ [id : Ids, len : Lengths, width : Lengths] \subseteq [id : Nat, len : Nat, width : Nat]
  BY <1>1
<1>3. QED
  BY <1>2, NullAssumption

LEMMA StoredImageType ==
  ASSUME NEW len \in Sizes, TypeOK, frames < MaxFrames
  PROVE  StoredImage(frames + 1, len) \in [id : Ids, len : Lengths, width : Lengths]
<1>1. frames + 1 \in Ids
  BY DEF TypeOK, Ids
<1>2. CASE CopiesInPlace(len)
  BY <1>1, <1>2 DEF StoredImage, CopiesInPlace, TypeOK, Lengths
<1>3. CASE ~CopiesInPlace(len)
  BY <1>1, <1>3 DEF StoredImage, Lengths
<1>4. QED
  BY <1>2, <1>3

LEMMA ImageType ==
  ASSUME TypeOK, cameraImage # Null
  PROVE  /\ cameraImage \in [id : Ids, len : Lengths, width : Lengths]
         /\ cameraImage.width \in Nat
         /\ cameraImage.len \in Nat
<1>1. cameraImage \in [id : Ids, len : Lengths, width : Lengths]
  BY DEF TypeOK
<1>2. Lengths \subseteq Nat
  BY DEF Lengths
<1>3. QED
  BY <1>1, <1>2

LEMMA CameraKeepsType ==
  ASSUME TypeOK, CameraStep
  PROVE  TypeOK'
<1>1. ASSUME NEW len \in Sizes, OnNewImage(len) PROVE TypeOK'
  <2>1. cameraImage' \in [id : Ids, len : Lengths, width : Lengths]
    BY <1>1, StoredImageType DEF OnNewImage
  <2>2. QED
    BY <1>1, <2>1 DEF OnNewImage, TypeOK, Ids, Errors, bufVars, reqVars
<1>2. ASSUME NEW len \in Sizes, OnNewImageNoMemory(len) PROVE TypeOK'
  BY <1>2 DEF OnNewImageNoMemory, TypeOK, Ids, Errors, bufVars, reqVars
<1>3. CASE OnNewImageEnd
  BY <1>3 DEF OnNewImageEnd, TypeOK, bufVars, reqVars
<1>4. CASE OnError
  BY <1>4 DEF OnError, TypeOK, Ids, bufVars, reqVars
<1>5. QED
  BY <1>1, <1>2, <1>3, <1>4 DEF CameraStep

LEMMA EncodeKeepsType ==
  ASSUME TypeOK, Roomy, NEW h \in IoThreads, Encode(h)
  PROVE  TypeOK'
<1> USE DEF camVars, reqVars, bufVars
<1>1. CASE EncodeWithoutBuffer(h)
  BY <1>1, GotoType DEF EncodeWithoutBuffer, encoding, TypeOK, Errors, Pcs, Encoding
<1>2. CASE EncodeNothing(h)
  BY <1>2 DEF EncodeNothing, encoding, TypeOK
<1>3. CASE CopyJpeg(h)
  <2>1. /\ cameraImage \in [id : Ids, len : Lengths, width : Lengths]
        /\ cameraImage.width \in Nat
    BY <1>3, ImageType DEF CopyJpeg
  <2>2. /\ capacity' \in Nat
        /\ jpegSize' \in Nat
        /\ jpegSize' <= capacity'
    BY <1>3, <2>1 DEF CopyJpeg, TypeOK
  <2>3. jpegBuffer' \in [id : Ids, len : Lengths]
    BY <1>3, <2>1 DEF CopyJpeg
  <2>4. pc' \in [IoThreads -> Pcs]
    BY <1>3, GotoType DEF CopyJpeg, Pcs, Encoding
  <2>5. QED
    BY <1>3, <2>2, <2>3, <2>4 DEF CopyJpeg, encoding, TypeOK
<1>4. CASE CopyJpegNoMemory(h)
  BY <1>4, GotoType DEF CopyJpegNoMemory, encoding, TypeOK, Errors, Pcs, Encoding
<1>5. CASE NoteJpegSize(h)
  <2>1. cameraImage # Null /\ cameraImage.width <= capacity
    BY <1>5 DEF NoteJpegSize, Roomy
  <2>2. cameraImage.width \in Nat
    BY <2>1, ImageType
  <2>3. pc' \in [IoThreads -> Pcs]
    BY <1>5, GotoType DEF NoteJpegSize, Pcs, Encoding
  <2>4. QED
    BY <1>5, <2>1, <2>2, <2>3 DEF NoteJpegSize, TypeOK
<1>6. CASE OfferBuffer(h)
  BY <1>6, GotoType DEF OfferBuffer, encoding, TypeOK, Pcs, Encoding
<1>7. CASE EncodeRgb(h)
  <2>1. /\ cameraImage \in [id : Ids, len : Lengths, width : Lengths]
        /\ cameraImage.len \in Nat
    BY <1>7, ImageType DEF EncodeRgb, compressing, Roomy
  <2>2. /\ capacity' \in Nat
        /\ jpegSize' \in Nat
        /\ jpegSize' <= capacity'
    BY <1>7, <2>1 DEF EncodeRgb, TypeOK
  <2>3. jpegBuffer' \in [id : Ids, len : Lengths]
    BY <1>7, <2>1 DEF EncodeRgb
  <2>4. pc' \in [IoThreads -> Pcs]
    BY <1>7, GotoType DEF EncodeRgb, compressing, Pcs, Encoding
  <2>5. QED
    BY <1>7, <2>2, <2>3, <2>4 DEF EncodeRgb, compressing, TypeOK, Errors
<1>8. CASE EncodeRgbFails(h)
  <2>1. jpegBuffer' \in [id : Ids, len : Lengths]
    BY <1>8 DEF EncodeRgbFails, Ids, Lengths
  <2>2. pc' \in [IoThreads -> Pcs]
    BY <1>8, GotoType DEF EncodeRgbFails, compressing, Pcs, Encoding
  <2>3. stuck' \in BOOLEAN /\ faults' \in 0 .. MaxFaults
    BY <1>8 DEF EncodeRgbFails, TypeOK
  <2>4. QED
    BY <1>8, <2>1, <2>2, <2>3 DEF EncodeRgbFails, compressing, TypeOK, Errors
<1>9. CASE FinishEncode(h)
  <2>1. pc' \in [IoThreads -> Pcs]
    BY <1>9, GotoType DEF FinishEncode, Pcs
  <2>2. QED
    BY <1>9, <2>1 DEF FinishEncode, TypeOK
<1>10. QED
  BY <1>1, <1>2, <1>3, <1>4, <1>5, <1>6, <1>7, <1>8, <1>9 DEF Encode

LEMMA RequestKeepsType ==
  ASSUME TypeOK, Roomy, NEW h \in IoThreads, Begin(h) \/ HandlerStep(h)
  PROVE  TypeOK'
<1> USE DEF camVars, reqVars, bufVars
<1>1. CASE Begin(h)
  <2>1. pc' \in [IoThreads -> Pcs]
    BY <1>1, GotoType DEF Begin, Pcs
  <2>2. kind' \in [IoThreads -> Kinds]
    BY <1>1 DEF Begin, TypeOK
  <2>3. seen' \in [IoThreads -> Ids]
    BY <1>1 DEF Begin, TypeOK, Ids
  <2>4. QED
    BY <1>1, <2>1, <2>2, <2>3 DEF Begin, TypeOK
<1>2. CASE CheckError(h)
  <2>1. pc' \in [IoThreads -> Pcs]
    BY <1>2, GotoType DEF CheckError, Pcs
  <2>2. seen' \in [IoThreads -> Ids]
    BY <1>2 DEF CheckError, TypeOK, Ids
  <2>3. QED
    BY <1>2, <2>1, <2>2 DEF CheckError, TypeOK
<1>3. CASE TestNewImage(h)
  BY <1>3, GotoType DEF TestNewImage, onlyPc, TypeOK, Pcs
<1>4. CASE LockImage(h)
  BY <1>4, GotoType DEF LockImage, TypeOK, Pcs
<1>5. CASE LockBuffer(h)
  BY <1>5, GotoType DEF LockBuffer, TypeOK, Pcs, Encoding
<1>6. CASE Encode(h)
  BY <1>6, EncodeKeepsType
<1>7. CASE CheckErrorAgain(h)
  <2>1. pc' \in [IoThreads -> Pcs]
    BY <1>7, GotoType DEF CheckErrorAgain, Pcs
  <2>2. QED
    BY <1>7, <2>1 DEF CheckErrorAgain, onlyPc, TypeOK
<1>8. ASSUME NEW a \in Answers, Finish(h, a)
      PROVE  /\ pc' \in [IoThreads -> Pcs]
             /\ answer' \in [IoThreads -> Answers \union {Null}]
  BY <1>8, GotoType DEF Finish, TypeOK, Pcs
<1>9. ASSUME NEW s \in {0, 200, 500}
      PROVE  bodiless(s) \in Answers
  BY DEF bodiless, Ids, Lengths, Answers
<1>10. CASE ReportError(h)
  <2>1. /\ pc' \in [IoThreads -> Pcs]
        /\ answer' \in [IoThreads -> Answers \union {Null}]
    <3>1. CASE Finish(h, bodiless(500))
      BY <1>8, <1>9, <3>1
    <3>2. CASE Goto(h, "reportSource") /\ UNCHANGED answer
      BY <3>2, GotoType DEF TypeOK, Pcs
    <3>3. QED
      BY <1>10, <3>1, <3>2 DEF ReportError
  <2>2. QED
    BY <1>10, <2>1 DEF ReportError, TypeOK
<1>11. CASE TestSourceError(h)
  <2>1. /\ pc' \in [IoThreads -> Pcs]
        /\ answer' \in [IoThreads -> Answers \union {Null}]
    <3>1. CASE Finish(h, bodiless(0))
      BY <1>8, <1>9, <3>1
    <3>2. CASE Goto(h, "lockReport") /\ UNCHANGED answer
      BY <3>2, GotoType DEF TypeOK, Pcs
    <3>3. QED
      BY <1>11, <3>1, <3>2 DEF TestSourceError
  <2>2. QED
    BY <1>11, <2>1 DEF TestSourceError, TypeOK
<1>12. CASE ReportSourceError(h)
  <2>1. Finish(h, bodiless(500))
    BY <1>12 DEF ReportSourceError
  <2>2. QED
    BY <1>8, <1>9, <1>12, <2>1 DEF ReportSourceError, TypeOK
<1>13. CASE LockBody(h)
  BY <1>13, GotoType DEF LockBody, TypeOK, Pcs
<1>14. CASE MeasureBody(h)
  <2>1. pc' \in [IoThreads -> Pcs]
    BY <1>14, GotoType DEF MeasureBody, Pcs
  <2>2. measured' \in [IoThreads -> Nat]
    BY <1>14 DEF MeasureBody, TypeOK
  <2>3. QED
    BY <1>14, <2>1, <2>2 DEF MeasureBody, TypeOK
<1>15. CASE CopyBody(h)
  <2> DEFINE a == [status |-> 200, id |-> jpegBuffer.id, len |-> jpegBuffer.len,
                   size |-> measured[h], length |-> jpegSize]
  <2>1. a \in Answers
    BY <1>15 DEF CopyBody, TypeOK, Answers
  <2>2. Finish(h, a)
    BY <1>15 DEF CopyBody
  <2>3. measured' \in [IoThreads -> Nat]
    BY <1>15 DEF CopyBody, TypeOK
  <2>4. QED
    BY <1>8, <1>15, <2>1, <2>2, <2>3 DEF CopyBody, TypeOK
<1>16. CASE CopyNothing(h)
  BY <1>16 DEF CopyNothing, TypeOK
<1>17. QED
  BY <1>1, <1>2, <1>3, <1>4, <1>5, <1>6, <1>7, <1>10, <1>11, <1>12, <1>13, <1>14, <1>15, <1>16
     DEF HandlerStep, Answer

LEMMA InitTypes == Init => TypeOK
<1> SUFFICES ASSUME Init PROVE TypeOK
  OBVIOUS
<1>1. /\ pc \in [IoThreads -> Pcs]
      /\ kind \in [IoThreads -> Kinds]
      /\ seen \in [IoThreads -> Ids]
      /\ measured \in [IoThreads -> Nat]
      /\ answer \in [IoThreads -> Answers \union {Null}]
  BY DEF Init, Pcs, Kinds, Ids
<1>2. jpegBuffer \in [id : Ids, len : Lengths]
  BY DEF Init, Ids, Lengths
<1>3. /\ frames \in Ids
      /\ faults \in 0 .. MaxFaults
      /\ capacity \in Nat
      /\ jpegSize \in Nat
      /\ jpegSize <= capacity
  BY DEF Init, Ids
<1>4. /\ format \in {"jpeg", "rgb"}
      /\ camPc \in {"idle", "finish"}
      /\ internalError \in Errors
      /\ newImage \in BOOLEAN /\ sourceError \in BOOLEAN
      /\ stuck \in BOOLEAN /\ crashed \in BOOLEAN
  BY DEF Init, Errors
<1>5. /\ cameraImage = Null
      /\ imageGuard = Null
      /\ bufferGuard = Null
  BY DEF Init
<1>6. QED
  BY <1>1, <1>2, <1>3, <1>4, <1>5 DEF TypeOK

-----------------------------------------------------------------------------
(***************************************************************************)
(* The mutexes.  GuardedBuffers says nothing of owners, so it is not       *)
(* inductive; Owners, which ties both mutexes to the places of the         *)
(* threads, is, and implies it.                                            *)
(***************************************************************************)
LEMMA MovesKeepOwners ==
  ASSUME TypeOK, Owners, NEW h \in IoThreads, NEW there \in Pcs, Goto(h, there),
         UNCHANGED <<camPc, imageGuard, bufferGuard>>,
         pc[h] \notin {"lockBuffer", "body", "copy"} \union Encoding,
         there \notin {"lockBuffer", "body", "copy"} \union Encoding
  PROVE  Owners'
BY DEF TypeOK, Owners, Goto, UsesImage, UsesBuffer

LEMMA CameraKeepsOwners ==
  ASSUME TypeOK, Owners, CameraStep
  PROVE  Owners'
<1> USE DEF Owners, UsesImage, UsesBuffer
<1>1. ASSUME NEW len \in Sizes, OnNewImage(len) \/ OnNewImageNoMemory(len) PROVE Owners'
  BY <1>1 DEF OnNewImage, OnNewImageNoMemory
<1>2. CASE OnNewImageEnd
  BY <1>2 DEF OnNewImageEnd
<1>3. CASE OnError
  BY <1>3 DEF OnError
<1>4. QED
  BY <1>1, <1>2, <1>3 DEF CameraStep

LEMMA EncodeKeepsOwners ==
  ASSUME TypeOK, Owners, NEW h \in IoThreads, Encode(h)
  PROVE  Owners'
<1>1. ASSUME NEW there \in Encoding, Goto(h, there), pc[h] \in Encoding,
             UNCHANGED <<camPc, imageGuard, bufferGuard>>
      PROVE  Owners'
  BY <1>1 DEF TypeOK, Owners, Goto, Encoding, UsesImage, UsesBuffer
<1>2. CASE EncodeNothing(h)
  BY <1>2 DEF EncodeNothing, encoding, camVars, Owners, UsesImage, UsesBuffer
<1>3. CASE FinishEncode(h)
  BY <1>3 DEF FinishEncode, Goto, TypeOK, camVars, Owners, UsesImage, UsesBuffer, Encoding
<1>4. CASE \/ EncodeWithoutBuffer(h) \/ CopyJpeg(h) \/ CopyJpegNoMemory(h) \/ OfferBuffer(h)
  BY <1>1, <1>4 DEF EncodeWithoutBuffer, CopyJpeg, CopyJpegNoMemory, OfferBuffer, encoding,
     camVars, Encoding
<1>5. CASE NoteJpegSize(h) \/ EncodeRgb(h) \/ EncodeRgbFails(h)
  BY <1>1, <1>5 DEF NoteJpegSize, EncodeRgb, EncodeRgbFails, compressing, camVars, Encoding
<1>6. QED
  BY <1>2, <1>3, <1>4, <1>5 DEF Encode

LEMMA RequestKeepsOwners ==
  ASSUME TypeOK, Owners, NEW h \in IoThreads, Begin(h) \/ HandlerStep(h)
  PROVE  Owners'
<1> USE DEF camVars, reqVars, bufVars, onlyPc
<1>1. CASE Begin(h)
  BY <1>1, MovesKeepOwners DEF Begin, Pcs, Encoding
<1>2. CASE CheckError(h) \/ TestNewImage(h) \/ CheckErrorAgain(h)
  BY <1>2, MovesKeepOwners DEF CheckError, TestNewImage, CheckErrorAgain, Pcs, Encoding
<1>3. CASE LockImage(h)
  BY <1>3 DEF LockImage, Goto, TypeOK, Owners, UsesImage, UsesBuffer, Encoding
<1>4. CASE LockBuffer(h)
  BY <1>4 DEF LockBuffer, Goto, TypeOK, Owners, UsesImage, UsesBuffer, Encoding
<1>5. CASE Encode(h)
  BY <1>5, EncodeKeepsOwners
<1>6. CASE ReportError(h) \/ TestSourceError(h)
  BY <1>6, MovesKeepOwners DEF ReportError, TestSourceError, Finish, Pcs, Encoding
<1>7. CASE ReportSourceError(h)
  BY <1>7, MovesKeepOwners DEF ReportSourceError, Finish, Pcs, Encoding
<1>8. CASE LockBody(h) \/ MeasureBody(h)
  BY <1>8 DEF LockBody, MeasureBody, Goto, TypeOK, Owners, UsesImage, UsesBuffer, Encoding
<1>9. CASE CopyBody(h)
  BY <1>9 DEF CopyBody, Finish, Goto, TypeOK, Owners, UsesImage, UsesBuffer, Encoding
<1>10. CASE CopyNothing(h)
  BY <1>10 DEF CopyNothing, Owners, UsesImage, UsesBuffer
<1>11. QED
  BY <1>1, <1>2, <1>3, <1>4, <1>5, <1>6, <1>7, <1>8, <1>9, <1>10 DEF HandlerStep, Answer

(* Only the owner of both mutexes changes what Roomy speaks of.            *)
LEMMA CameraKeepsRoomy ==
  ASSUME TypeOK, Owners, Roomy, CameraStep
  PROVE  Roomy'
<1>1. ASSUME imageGuard = Null, UNCHANGED pc PROVE Roomy'
  BY <1>1 DEF Owners, UsesImage, Encoding, Roomy
<1>2. CASE OnNewImageEnd
  BY <1>2 DEF OnNewImageEnd, bufVars, Roomy
<1>3. QED
  BY <1>1, <1>2 DEF CameraStep, OnNewImage, OnNewImageNoMemory, OnError

LEMMA RequestKeepsRoomy ==
  ASSUME TypeOK, Owners, Roomy, NEW h \in IoThreads, Begin(h) \/ HandlerStep(h)
  PROVE  Roomy'
<1> USE DEF camVars, bufVars, reqVars, onlyPc
<1>1. ASSUME NEW there \in Pcs \ {"compress", "resize"}, Goto(h, there),
             UNCHANGED <<cameraImage, jpegBuffer, capacity>>
      PROVE  Roomy'
  BY <1>1 DEF Roomy, Goto, TypeOK
<1>2. CASE Encode(h)
  <2>1. \A g \in IoThreads : pc[g] \in {"compress", "resize"} => g = h
    BY <1>2 DEF Owners, UsesBuffer, Encode, EncodeWithoutBuffer, EncodeNothing, CopyJpeg,
       CopyJpegNoMemory, NoteJpegSize, OfferBuffer, EncodeRgb, EncodeRgbFails, FinishEncode,
       encoding, compressing, Encoding
  <2>2. ASSUME Goto(h, "finish") \/ Goto(h, "isErrorAgain") PROVE Roomy'
    BY <2>1, <2>2 DEF Goto, TypeOK, Roomy
  <2>3. CASE EncodeNothing(h)
    BY <2>3 DEF EncodeNothing, encoding, Roomy
  <2>4. CASE CopyJpeg(h)
    <3>1. cameraImage # Null /\ cameraImage.width \in Nat /\ cameraImage.len \in Nat
      BY <2>4, ImageType DEF CopyJpeg
    <3>2. cameraImage.width <= capacity'
      BY <2>4, <3>1 DEF CopyJpeg, TypeOK
    <3>3. jpegBuffer' # Null
      <4>1. jpegBuffer' \in [id : Ids, len : Lengths]
        BY <2>4, <3>1, ImageType DEF CopyJpeg
      <4>2. QED
        BY <4>1, NullIsNothingElse
    <3>4. /\ UNCHANGED cameraImage
          /\ pc' = [pc EXCEPT ![h] = "resize"]
      BY <2>4 DEF CopyJpeg, encoding, Goto
    <3>5. QED
      BY <2>1, <3>1, <3>2, <3>3, <3>4 DEF Roomy, TypeOK
  <2>5. CASE OfferBuffer(h)
    BY <2>1, <2>5 DEF OfferBuffer, encoding, Goto, TypeOK, Roomy
  <2>6. QED
    BY <1>2, <2>2, <2>3, <2>4, <2>5 DEF Encode, EncodeWithoutBuffer, CopyJpegNoMemory,
       NoteJpegSize, EncodeRgb, EncodeRgbFails, compressing, FinishEncode
<1>3. CASE CopyNothing(h)
  BY <1>3 DEF CopyNothing, Roomy
<1>4. CASE \/ Begin(h) \/ CheckError(h) \/ TestNewImage(h) \/ LockImage(h) \/ LockBuffer(h)
  BY <1>1, <1>4 DEF Begin, CheckError, TestNewImage, LockImage, LockBuffer, Pcs, Encoding
<1>5. CASE CheckErrorAgain(h)
  BY <1>1, <1>5 DEF CheckErrorAgain, Pcs, Encoding
<1>6. CASE ReportError(h) \/ TestSourceError(h) \/ ReportSourceError(h)
  BY <1>1, <1>6 DEF ReportError, TestSourceError, ReportSourceError, Finish, Pcs, Encoding
<1>7. CASE LockBody(h) \/ MeasureBody(h) \/ CopyBody(h)
  BY <1>1, <1>7 DEF LockBody, MeasureBody, CopyBody, Finish, Pcs, Encoding
<1>8. QED
  BY <1>2, <1>3, <1>4, <1>5, <1>6, <1>7 DEF HandlerStep, Answer

(* Types, owners and Roomy hold together: what NoteJpegSize() writes has   *)
(* its type only because the image was not replaced meanwhile.             *)
LEMMA PlacesHold == Safety => [](TypeOK /\ Owners /\ Roomy)
<1>1. Init => TypeOK /\ Owners /\ Roomy
  BY InitTypes DEF Init, Owners, Roomy, UsesImage, UsesBuffer, Encoding
<1>2. TypeOK /\ Owners /\ Roomy /\ [Next]_vars => (TypeOK /\ Owners /\ Roomy)'
  <2> SUFFICES ASSUME TypeOK, Owners, Roomy, [Next]_vars PROVE (TypeOK /\ Owners /\ Roomy)'
    OBVIOUS
  <2>1. CASE UNCHANGED vars
    <3>1. TypeOK'
      BY <2>1 DEF TypeOK, vars, camVars, bufVars, reqVars
    <3>2. Owners' /\ Roomy'
      BY <2>1 DEF Owners, Roomy, UsesImage, UsesBuffer, vars, camVars, bufVars
    <3>3. QED
      BY <3>1, <3>2
  <2>2. CASE CameraStep
    BY <2>2, CameraKeepsType, CameraKeepsOwners, CameraKeepsRoomy
  <2>3. ASSUME NEW h \in IoThreads, Begin(h) \/ HandlerStep(h)
        PROVE  (TypeOK /\ Owners /\ Roomy)'
    BY <2>3, RequestKeepsType, RequestKeepsOwners, RequestKeepsRoomy
  <2>4. QED
    BY <2>1, <2>2, <2>3 DEF Next, Dead
<1>3. QED
  BY <1>1, <1>2, PTL DEF Safety

(* TypeOK holds in every reachable state; in particular JpegSize never     *)
(* exceeds JpegBufferSize, whatever failed and however far an encode is.   *)
THEOREM TypeCorrect == Safety => []TypeOK
BY PlacesHold, PTL

LEMMA OwnersHolds == Safety => []Owners
BY PlacesHold, PTL

LEMMA RoomyHolds == Safety => []Roomy
BY PlacesHold, PTL

(* One owner per mutex, and neither awaited by its owner. *)
LEMMA OwnersGuard ==
  ASSUME TypeOK, Owners
  PROVE  GuardedBuffers
BY DEF Owners, GuardedBuffers, UsesBuffer, UsesImage, TypeOK, Encoding

(* GuardedBuffers holds in every reachable state: one user of the JPEG     *)
(* buffer at a time, no frame replaced while it is encoded, no wait for    *)
(* ImageGuard by a thread that holds BufferGuard.                          *)
THEOREM BuffersGuarded == Safety => []GuardedBuffers
<1>1. TypeOK /\ Owners => GuardedBuffers
  BY OwnersGuard
<1>2. QED
  BY <1>1, TypeCorrect, OwnersHolds, PTL

(* A thread in a request can take its next step: it waits for no guard, or *)
(* for one that nobody has.                                                *)
CanGoOn(h) ==
  /\ pc[h] # "idle"
  /\ pc[h] \in {"lockImage", "lockReport"} => imageGuard = Null
  /\ pc[h] \in {"lockBuffer", "lockBody"} => bufferGuard = Null

(***************************************************************************)
(* The two guards cannot stop everybody, however many I/O threads there    *)
(* are: while a request is under way, some thread in a request can go on,  *)
(* or the camera's thread is about to leave ImageGuard.  This is what      *)
(* RequestsFinish rests on.                                                *)
(***************************************************************************)
SomebodyGoesOn ==
  (\E h \in IoThreads : pc[h] # "idle") =>
    camPc = "finish" \/ \E h \in IoThreads : CanGoOn(h)

(* SomebodyGoesOn holds in every reachable state: who holds BufferGuard    *)
(* waits for nothing, who holds ImageGuard at most for BufferGuard.        *)
THEOREM NoDeadlock == Safety => []SomebodyGoesOn
<1>1. ASSUME TypeOK, Owners PROVE SomebodyGoesOn
  <2> SUFFICES ASSUME NEW h \in IoThreads, pc[h] # "idle", camPc # "finish"
               PROVE  \E g \in IoThreads : CanGoOn(g)
    BY DEF SomebodyGoesOn
  <2>1. CASE bufferGuard # Null
    <3>1. PICK g \in IoThreads : bufferGuard = g
      BY <1>1, <2>1 DEF TypeOK
    <3>2. pc[g] \in {"body", "copy"} \union Encoding
      BY <1>1, <3>1 DEF Owners, UsesBuffer
    <3>3. QED
      BY <3>2 DEF CanGoOn, Encoding
  <2>2. CASE bufferGuard = Null /\ imageGuard # Null
    <3>1. imageGuard # Camera
      BY <1>1 DEF Owners
    <3>2. PICK g \in IoThreads : imageGuard = g
      BY <1>1, <2>2, <3>1 DEF TypeOK
    <3>3. pc[g] \in {"lockBuffer"} \union Encoding
      BY <1>1, <3>2 DEF Owners, UsesImage
    <3>4. QED
      BY <2>2, <3>3 DEF CanGoOn, Encoding
  <2>3. CASE bufferGuard = Null /\ imageGuard = Null
    BY <2>3 DEF CanGoOn
  <2>4. QED
    BY <2>1, <2>2, <2>3
<1>2. QED
  BY <1>1, TypeCorrect, OwnersHolds, PTL

-----------------------------------------------------------------------------
(***************************************************************************)
(* ServedFresh.  Without faults there is always a buffer, and what it      *)
(* holds is the newest frame unless NewImageAvailable says that one is     *)
(* waiting; the locks keep this true while a frame is encoded.             *)
(***************************************************************************)
Encoded(h) == pc[h] \in {"finish", "isErrorAgain", "lockBody", "body", "copy"}
Encodes(h) == pc[h] \in {"lockImage", "lockBuffer"} \union Encoding

Healthy == ~stuck /\ jpegBuffer # Null

Newest ==
  /\ cameraImage = Null => jpegBuffer.id = 0 /\ ~newImage
  /\ cameraImage # Null => /\ cameraImage.id \in 1 .. frames
                           /\ cameraImage.len # 0
                           /\ cameraImage.width # 0
                           /\ jpegBuffer.id <= cameraImage.id
                           /\ newImage \/ jpegBuffer.id = cameraImage.id

Served ==
  \A h \in IoThreads :
    /\ seen[h] <= IF cameraImage = Null THEN 0 ELSE cameraImage.id
    /\ Encodes(h) => cameraImage # Null
    /\ pc[h] \in {"resize", "finish"} => jpegBuffer.id = cameraImage.id
    /\ Encoded(h) => jpegBuffer.id >= seen[h]
    /\ IsBody(answer[h]) => answer[h].id >= seen[h]

Fresh == faults = 0 => Healthy /\ Newest /\ Served

LEMMA IdsAreNumbers ==
  ASSUME TypeOK, Healthy
  PROVE  /\ jpegBuffer \in [id : Ids, len : Lengths]
         /\ jpegBuffer.id \in Nat
         /\ cameraImage # Null => cameraImage \in [id : Ids, len : Lengths, width : Lengths]
         /\ cameraImage # Null => cameraImage.id \in Nat
         /\ \A h \in IoThreads : seen[h] \in Nat
         /\ frames \in Nat
<1>1. Ids \subseteq Nat
  BY DEF Ids
<1>2. /\ jpegBuffer \in [id : Ids, len : Lengths]
      /\ cameraImage # Null => cameraImage \in [id : Ids, len : Lengths, width : Lengths]
      /\ \A h \in IoThreads : seen[h] \in Ids
      /\ frames \in Ids
  BY DEF TypeOK, Healthy
<1>3. QED
  BY <1>1, <1>2

(* A frame is stored only while nobody encodes, and says so in the flag.   *)
LEMMA CameraKeepsFresh ==
  ASSUME TypeOK, Owners, Fresh, CameraStep
  PROVE  Fresh'
<1> SUFFICES ASSUME faults' = 0 PROVE (Healthy /\ Newest /\ Served)'
  BY DEF Fresh
<1>1. ASSUME NEW len \in Sizes, OnNewImage(len)
      PROVE  (Healthy /\ Newest /\ Served)'
  <2>1. /\ faults = 0
        /\ Healthy /\ Newest /\ Served
    BY <1>1 DEF OnNewImage, Fresh
  <2>2. /\ cameraImage'.id = frames + 1
        /\ cameraImage' # Null
        /\ newImage'
        /\ frames' = frames + 1
        /\ cameraImage'.len # 0
        /\ cameraImage'.width # 0
        /\ \A h \in IoThreads : pc[h] \notin Encoding
    <3>1. /\ cameraImage'.id = frames + 1
          /\ cameraImage'.len = len
          /\ cameraImage'.width = IF CopiesInPlace(len) THEN cameraImage.width ELSE len
      BY <1>1 DEF OnNewImage, StoredImage
    <3>2. cameraImage' \in [id : Ids, len : Lengths, width : Lengths]
      BY <1>1, StoredImageType DEF OnNewImage
    <3>3. cameraImage'.width # 0
      BY <2>1, <3>1 DEF CopiesInPlace, Newest
    <3>4. \A h \in IoThreads : pc[h] \notin Encoding
      BY <1>1 DEF OnNewImage, Owners, UsesImage
    <3>5. QED
      BY <1>1, <3>1, <3>2, <3>3, <3>4, NullIsNothingElse DEF OnNewImage
  <2>3. UNCHANGED <<jpegBuffer, jpegSize, stuck, format, pc, seen, answer>>
    BY <1>1 DEF OnNewImage, bufVars, reqVars
  <2>4. Newest'
    BY <2>1, <2>2, <2>3, IdsAreNumbers DEF Newest, Healthy
  <2>5. ASSUME NEW h \in IoThreads
        PROVE  seen[h] <= frames + 1
    BY <2>1, IdsAreNumbers DEF Served, Newest
  <2>6. Served'
    BY <2>1, <2>2, <2>3, <2>5 DEF Served, Encodes, Encoded, Encoding, IsBody
  <2>7. QED
    BY <2>1, <2>3, <2>4, <2>6 DEF Healthy
<1>2. ASSUME NEW len \in Sizes, OnNewImageNoMemory(len)
      PROVE  FALSE
  BY <1>2 DEF OnNewImageNoMemory, TypeOK
<1>3. CASE OnNewImageEnd
  BY <1>3 DEF OnNewImageEnd, bufVars, reqVars, Fresh, Healthy, Newest, Served,
     Encodes, Encoded, IsBody
<1>4. CASE OnError
  <2>1. /\ UNCHANGED <<cameraImage, newImage, jpegBuffer, jpegSize, stuck, format, pc, seen, answer>>
        /\ frames' = frames + 1
        /\ Healthy /\ Newest /\ Served
    BY <1>4 DEF OnError, bufVars, reqVars, Fresh
  <2>2. Newest'
    BY <2>1, IdsAreNumbers DEF Newest
  <2>3. QED
    BY <2>1, <2>2 DEF Healthy, Served, Encodes, Encoded, IsBody
<1>5. QED
  BY <1>1, <1>2, <1>3, <1>4 DEF CameraStep

(* A copy or an encode that succeeds leaves the newest frame in the buffer. *)
LEMMA EncodesNewest ==
  ASSUME TypeOK, Healthy, Newest, Served, NEW h \in IoThreads,
         NEW there \in {"resize", "finish"}, Goto(h, there),
         pc[h] \in Encoding, cameraImage # Null,
         jpegBuffer' = [id |-> cameraImage.id, len |-> cameraImage.len],
         UNCHANGED <<camVars, newImage, stuck, reqVars>>
  PROVE  (Healthy /\ Newest /\ Served)'
<1> USE DEF camVars, reqVars
<1>1. /\ jpegBuffer'.id = cameraImage.id
      /\ jpegBuffer'.len = cameraImage.len
      /\ jpegBuffer' # Null
  <2>1. jpegBuffer' \in [id : Ids, len : Lengths]
    BY ImageType
  <2>2. QED
    BY <2>1, NullIsNothingElse
<1>2. Newest'
  BY <1>1, IdsAreNumbers DEF Newest
<1>3. ASSUME NEW g \in IoThreads
      PROVE  /\ seen[g] <= cameraImage.id
             /\ pc'[g] = IF g = h THEN there ELSE pc[g]
  BY DEF Served, Goto, TypeOK
<1>4. Served'
  BY <1>1, <1>3, IdsAreNumbers DEF Served, Encodes, Encoded, Encoding, IsBody
<1>5. QED
  BY <1>1, <1>2, <1>4 DEF Healthy, IsBody

(* What a step of a request leaves alone when it only moves on.            *)
LEMMA MovesKeepFresh ==
  ASSUME TypeOK, Fresh, NEW h \in IoThreads, NEW there \in Pcs, Goto(h, there),
         UNCHANGED <<camVars, newImage, jpegBuffer, stuck, seen, answer, faults>>,
         there \in {"resize", "finish"} => pc[h] \in {"resize", "finish"},
         faults = 0 /\ Encodes(h)' => cameraImage # Null,
         faults = 0 /\ Encoded(h)' => jpegBuffer.id >= seen[h]
  PROVE  Fresh'
<1> SUFFICES ASSUME faults' = 0 PROVE (Healthy /\ Newest /\ Served)'
  BY DEF Fresh
<1> USE DEF camVars
<1>1. Healthy /\ Newest /\ Served
  BY DEF Fresh
<1>2. \A g \in IoThreads : pc'[g] = IF g = h THEN there ELSE pc[g]
  BY DEF Goto, TypeOK
<1>3. Served'
  BY <1>1, <1>2 DEF Served, Encodes, Encoded, IsBody
<1>4. QED
  BY <1>1, <1>3 DEF Healthy, Newest, IsBody

LEMMA EncodeKeepsFresh ==
  ASSUME TypeOK, Owners, Fresh, NEW h \in IoThreads, Encode(h)
  PROVE  Fresh'
<1> SUFFICES ASSUME faults' = 0 PROVE (Healthy /\ Newest /\ Served)'
  BY DEF Fresh
<1>1. /\ faults = 0
      /\ Healthy /\ Newest /\ Served
  <2>1. faults' = faults \/ faults' = faults + 1
    BY DEF Encode, EncodeWithoutBuffer, EncodeNothing, CopyJpeg, CopyJpegNoMemory, NoteJpegSize,
       OfferBuffer, EncodeRgb, EncodeRgbFails, FinishEncode, encoding, compressing
  <2>2. QED
    BY <2>1 DEF Fresh, TypeOK
<1>2. CASE CopyJpeg(h)
  <2>1. /\ pc[h] \in Encoding
        /\ Goto(h, "resize")
        /\ cameraImage # Null
        /\ jpegBuffer' = [id |-> cameraImage.id, len |-> cameraImage.len]
        /\ UNCHANGED <<camVars, newImage, stuck, reqVars>>
    BY <1>2 DEF CopyJpeg, encoding, Encoding
  <2>2. QED
    BY <1>1, <2>1, EncodesNewest
<1>3. CASE EncodeRgb(h)
  <2>1. /\ pc[h] \in Encoding
        /\ Goto(h, "finish")
        /\ jpegBuffer' = [id |-> cameraImage.id, len |-> cameraImage.len]
        /\ UNCHANGED <<camVars, newImage, stuck, reqVars>>
    BY <1>3 DEF EncodeRgb, compressing, Encoding
  <2>2. cameraImage # Null
    BY <1>1, <2>1 DEF Served, Encodes
  <2>3. QED
    BY <1>1, <2>1, <2>2, EncodesNewest
<1>4. CASE NoteJpegSize(h) \/ OfferBuffer(h)
  <2>1. PICK there \in {"compress", "finish"} :
           /\ Goto(h, there)
           /\ there = "finish" => pc[h] = "resize"
           /\ UNCHANGED <<camVars, newImage, jpegBuffer, stuck, seen, answer, faults>>
    BY <1>4 DEF NoteJpegSize, OfferBuffer, encoding, reqVars
  <2>2. there \in Pcs /\ pc[h] \in Encoding /\ pc'[h] = there
    BY <1>4, <2>1 DEF NoteJpegSize, OfferBuffer, encoding, Encoding, Pcs, Goto, TypeOK
  <2>3. cameraImage # Null
    BY <1>1, <2>2 DEF Served, Encodes
  <2>4. Encoded(h)' => jpegBuffer.id >= seen[h]
    BY <1>1, <2>1, <2>2, <2>3, IdsAreNumbers DEF Served, Encoded
  <2>5. Fresh'
    BY <2>1, <2>2, <2>3, <2>4, MovesKeepFresh
  <2>6. QED
    BY <2>5 DEF Fresh
<1>5. CASE FinishEncode(h)
  <2>1. /\ UNCHANGED <<frames, format, cameraImage, jpegBuffer, jpegSize, stuck, seen, answer>>
        /\ newImage' = FALSE
        /\ \A g \in IoThreads : pc'[g] = IF g = h THEN "isErrorAgain" ELSE pc[g]
        /\ pc[h] = "finish"
    BY <1>5 DEF FinishEncode, camVars, bufVars, reqVars, Goto, TypeOK
  <2>2. Newest'
    BY <1>1, <2>1 DEF Newest, Served, Encodes, Encoding
  <2>3. Served'
    BY <1>1, <2>1 DEF Served, Encodes, Encoded, Encoding, IsBody
  <2>4. QED
    BY <1>1, <2>1, <2>2, <2>3 DEF Healthy
<1>6. ~EncodeWithoutBuffer(h) /\ ~EncodeNothing(h)
  BY <1>1 DEF EncodeWithoutBuffer, EncodeNothing, encoding, Healthy, Served, Encodes, Encoding
<1>7. ~CopyJpegNoMemory(h) /\ ~EncodeRgbFails(h)
  BY <1>1 DEF CopyJpegNoMemory, EncodeRgbFails, Healthy
<1>8. QED
  BY <1>2, <1>3, <1>4, <1>5, <1>6, <1>7 DEF Encode

(* Finish(h, a) keeps Fresh when a body it sends is new enough and whole.  *)
LEMMA AnswersKeepFresh ==
  ASSUME TypeOK, Fresh, NEW h \in IoThreads, NEW a, Finish(h, a),
         UNCHANGED <<camVars, newImage, bufVars, seen, faults>>,
         faults = 0 /\ IsBody(a) => a.id >= seen[h]
  PROVE  Fresh'
<1> SUFFICES ASSUME faults' = 0 PROVE (Healthy /\ Newest /\ Served)'
  BY DEF Fresh
<1> USE DEF camVars, bufVars
<1>1. Healthy /\ Newest /\ Served
  BY DEF Fresh
<1>2. \A g \in IoThreads : /\ pc'[g] = IF g = h THEN "idle" ELSE pc[g]
                           /\ answer'[g] = IF g = h THEN a ELSE answer[g]
  BY DEF Finish, Goto, TypeOK
<1>3. Served'
  BY <1>1, <1>2 DEF Served, Encodes, Encoded, Encoding, IsBody
<1>4. QED
  BY <1>1, <1>3 DEF Healthy, Newest

LEMMA RequestKeepsFresh ==
  ASSUME TypeOK, Owners, Fresh, NEW h \in IoThreads, Begin(h) \/ HandlerStep(h)
  PROVE  Fresh'
<1> USE DEF reqVars, bufVars, onlyPc
<1>1. CASE Begin(h)
  <2> SUFFICES ASSUME faults' = 0 PROVE (Healthy /\ Newest /\ Served)'
    BY DEF Fresh
  <2>1. /\ UNCHANGED <<frames, format, cameraImage, newImage, jpegBuffer, jpegSize, stuck, faults>>
        /\ \A g \in IoThreads :
             /\ pc'[g] = IF g = h THEN "isError" ELSE pc[g]
             /\ answer'[g] = IF g = h THEN Null ELSE answer[g]
             /\ seen'[g] = IF g # h THEN seen[g]
                           ELSE IF cameraImage = Null THEN 0 ELSE cameraImage.id
    BY <1>1 DEF Begin, Goto, TypeOK, camVars, bufVars
  <2>2. Healthy /\ Newest /\ Served
    BY <2>1 DEF Fresh
  <2>3. ASSUME NEW g \in IoThreads
        PROVE  /\ seen'[g] <= IF cameraImage = Null THEN 0 ELSE cameraImage.id
               /\ Encodes(g)' => Encodes(g)
               /\ Encoded(g)' => Encoded(g) /\ g # h
               /\ IsBody(answer'[g]) => IsBody(answer[g]) /\ g # h
               /\ pc'[g] \in {"resize", "finish"} => pc[g] \in {"resize", "finish"}
    BY <2>1, <2>2, IdsAreNumbers DEF Served, Encodes, Encoded, Encoding, IsBody
  <2>4. Served'
    BY <2>1, <2>2, <2>3 DEF Served
  <2>5. QED
    BY <2>1, <2>2, <2>4 DEF Healthy, Newest, IsBody
<1>2. CASE CheckError(h)
  <2> SUFFICES ASSUME faults' = 0 PROVE (Healthy /\ Newest /\ Served)'
    BY DEF Fresh
  <2>1. /\ UNCHANGED <<frames, format, cameraImage, newImage, jpegBuffer, jpegSize, stuck,
                       answer, faults>>
        /\ \A g \in IoThreads :
             /\ pc'[g] = IF g # h THEN pc[g]
                         ELSE IF IsError THEN "isErrorAgain" ELSE "testNew"
             /\ seen'[g] = IF g = h /\ IsError THEN 0 ELSE seen[g]
    BY <1>2 DEF CheckError, Goto, TypeOK, camVars, bufVars
  <2>2. /\ Healthy /\ Newest /\ Served
        /\ pc[h] = "isError"
    BY <1>2, <2>1 DEF Fresh, CheckError
  <2>3. ASSUME NEW g \in IoThreads
        PROVE  /\ seen'[g] <= IF cameraImage = Null THEN 0 ELSE cameraImage.id
               /\ Encodes(g)' => Encodes(g)
               /\ pc'[g] \in {"resize", "finish"} => pc[g] \in {"resize", "finish"}
    BY <2>1, <2>2, IdsAreNumbers DEF Served, Encodes, Encoding
  <2>4. Served'
    <3>1. CASE IsError
      <4>0. IsBody(answer[h]) => answer[h].id \in Nat
        BY DEF TypeOK, Ids, IsBody, Answers
      <4>1. ASSUME NEW g \in IoThreads
            PROVE  /\ Encoded(g)' => jpegBuffer'.id >= seen'[g]
                   /\ IsBody(answer'[g]) => answer'[g].id >= seen'[g]
        <5>1. CASE g = h
          BY <2>1, <2>2, <3>1, <4>0, <5>1, IdsAreNumbers DEF Encoded
        <5>2. CASE g # h
          BY <2>1, <2>2, <5>2 DEF Served, Encoded, IsBody
        <5>3. QED
          BY <5>1, <5>2
      <4>2. QED
        BY <2>1, <2>2, <2>3, <4>1 DEF Served
    <3>2. CASE ~IsError
      BY <2>1, <2>2, <2>3, <3>2 DEF Served, Encoded, IsBody
    <3>3. QED
      BY <3>1, <3>2
  <2>5. QED
    BY <2>1, <2>2, <2>4 DEF Healthy, Newest, IsBody
<1>3. CASE TestNewImage(h)
  <2>1. PICK there \in {"lockImage", "isErrorAgain"} :
           /\ Goto(h, there)
           /\ (there = "lockImage") <=> newImage
    BY <1>3 DEF TestNewImage, TypeOK
  <2>2. there \in Pcs /\ pc[h] = "testNew"
    BY <1>3 DEF TestNewImage, Pcs
  <2>3. pc'[h] = there
    BY <2>1 DEF Goto, TypeOK
  <2>4. UNCHANGED <<camVars, newImage, bufVars, seen, answer, faults>>
    BY <1>3 DEF TestNewImage
  <2>5. ASSUME faults = 0, Encodes(h)' PROVE cameraImage # Null
    BY <2>1, <2>3, <2>5 DEF Encodes, Encoding, Fresh, Newest
  <2>6. ASSUME faults = 0, Encoded(h)' PROVE jpegBuffer.id >= seen[h]
    <3>1. ~newImage
      BY <2>1, <2>3, <2>6 DEF Encoded
    <3>2. Healthy /\ Newest /\ Served
      BY <2>6 DEF Fresh
    <3>3. QED
      BY <3>1, <3>2, IdsAreNumbers DEF Newest, Served
  <2>7. QED
    BY <2>1, <2>2, <2>4, <2>5, <2>6, MovesKeepFresh
<1>4. ASSUME NEW there \in Pcs \ {"resize", "finish"}, Goto(h, there),
             UNCHANGED <<camVars, newImage, jpegBuffer, stuck, seen, answer, faults>>,
             there \in {"lockImage", "lockBuffer", "encode"} => Encodes(h),
             there # "compress",
             there \in {"isErrorAgain", "lockBody", "body", "copy"} => Encoded(h)
      PROVE  Fresh'
  <2>1. pc'[h] = there
    BY <1>4 DEF Goto, TypeOK
  <2>2. ASSUME faults = 0, Encodes(h)' PROVE cameraImage # Null
    BY <1>4, <2>1, <2>2 DEF Encodes, Encoding, Fresh, Served
  <2>3. ASSUME faults = 0, Encoded(h)' PROVE jpegBuffer.id >= seen[h]
    BY <1>4, <2>1, <2>3 DEF Encoded, Fresh, Served
  <2>4. QED
    BY <1>4, <2>2, <2>3, MovesKeepFresh
<1>5. CASE LockImage(h)
  BY <1>4, <1>5 DEF LockImage, Encodes, Pcs
<1>6. CASE LockBuffer(h)
  BY <1>4, <1>6 DEF LockBuffer, Encodes, Pcs, Encoding
<1>7. CASE Encode(h)
  BY <1>7, EncodeKeepsFresh
<1>8. CASE CheckErrorAgain(h)
  BY <1>4, <1>8 DEF CheckErrorAgain, Encoded, Pcs
<1>9. ASSUME NEW s \in {0, 500}, Finish(h, bodiless(s)),
             UNCHANGED <<camVars, newImage, bufVars, seen, faults>>
      PROVE  Fresh'
  <2>1. ~IsBody(bodiless(s))
    BY DEF IsBody, bodiless
  <2>2. QED
    BY <1>9, <2>1, AnswersKeepFresh
<1>10. CASE ReportError(h)
  <2>1. UNCHANGED <<camVars, newImage, bufVars, seen, faults>>
    BY <1>10 DEF ReportError
  <2>2. CASE Finish(h, bodiless(500))
    BY <1>9, <2>1, <2>2
  <2>3. CASE Goto(h, "reportSource") /\ UNCHANGED answer
    BY <1>4, <2>1, <2>3 DEF Pcs
  <2>4. QED
    BY <1>10, <2>2, <2>3 DEF ReportError
<1>11. CASE TestSourceError(h)
  <2>1. UNCHANGED <<camVars, newImage, bufVars, seen, faults>>
    BY <1>11 DEF TestSourceError
  <2>2. CASE Finish(h, bodiless(0))
    BY <1>9, <2>1, <2>2
  <2>3. CASE Goto(h, "lockReport") /\ UNCHANGED answer
    BY <1>4, <2>1, <2>3 DEF Pcs
  <2>4. QED
    BY <1>11, <2>2, <2>3 DEF TestSourceError
<1>12. CASE ReportSourceError(h)
  BY <1>9, <1>12 DEF ReportSourceError
<1>13. CASE LockBody(h)
  BY <1>4, <1>13 DEF LockBody, Encoded, Pcs
<1>14. CASE MeasureBody(h)
  BY <1>4, <1>14 DEF MeasureBody, Encoded, Pcs
<1>15. CASE CopyBody(h)
  <2> DEFINE a == [status |-> 200, id |-> jpegBuffer.id, len |-> jpegBuffer.len,
                   size |-> measured[h], length |-> jpegSize]
  <2>1. /\ Finish(h, a)
        /\ UNCHANGED <<camVars, newImage, bufVars, seen, faults>>
        /\ pc[h] = "copy"
    BY <1>15 DEF CopyBody
  <2>2. faults = 0 => a.id >= seen[h]
    BY <2>1 DEF Fresh, Served, Encoded
  <2>3. QED
    BY <2>1, <2>2, AnswersKeepFresh
<1>16. CASE CopyNothing(h)
  BY <1>16 DEF CopyNothing, Fresh, Healthy, Newest, Served, Encodes, Encoded,
     IsBody, camVars
<1>17. QED
  BY <1>1, <1>2, <1>3, <1>5, <1>6, <1>7, <1>8, <1>10, <1>11, <1>12, <1>13, <1>14, <1>15, <1>16
     DEF HandlerStep, Answer

LEMMA FreshHolds == Safety => []Fresh
<1>1. Init => Fresh
  <2> SUFFICES ASSUME Init PROVE Healthy /\ Newest /\ Served
    BY DEF Fresh
  <2>1. /\ jpegBuffer = [id |-> 0, len |-> 0]
        /\ jpegBuffer \in [id : Ids, len : Lengths]
        /\ jpegSize = 0
        /\ cameraImage = Null
        /\ ~stuck /\ ~newImage
    BY DEF Init, Ids, Lengths
  <2>2. Healthy /\ Newest
    BY <2>1, NullIsNothingElse DEF Healthy, Newest
  <2>3. ASSUME NEW h \in IoThreads
        PROVE  /\ seen[h] <= IF cameraImage = Null THEN 0 ELSE cameraImage.id
               /\ ~Encodes(h) /\ ~Encoded(h) /\ ~IsBody(answer[h])
               /\ pc[h] = "idle"
    <3>1. pc[h] = "idle" /\ answer[h] = Null /\ seen[h] = 0
      BY DEF Init
    <3>2. cameraImage = Null
      BY <2>1
    <3>3. ~Encodes(h) /\ ~Encoded(h) /\ ~IsBody(answer[h])
      BY <3>1 DEF Encodes, Encoded, Encoding, IsBody
    <3>4. QED
      BY <3>1, <3>2, <3>3
  <2>4. Served
    BY <2>3 DEF Served
  <2>5. QED
    BY <2>2, <2>4
<1>2. TypeOK /\ Owners /\ Fresh /\ [Next]_vars => Fresh'
  <2> SUFFICES ASSUME TypeOK, Owners, Fresh, [Next]_vars PROVE Fresh'
    OBVIOUS
  <2>1. CASE UNCHANGED vars
    BY <2>1 DEF Fresh, Healthy, Newest, Served, Encodes, Encoded, IsBody,
       vars, camVars, bufVars, reqVars
  <2>2. QED
    BY <2>1, CameraKeepsFresh, RequestKeepsFresh DEF Next, Dead
<1>3. QED
  BY <1>1, <1>2, TypeCorrect, OwnersHolds, PTL DEF Safety

(* ServedFresh holds in every reachable state: without faults a request is *)
(* answered with the frame that was the newest when it began, or with one  *)
(* that came later.                                                        *)
THEOREM BodiesFresh == Safety => []ServedFresh
<1>1. Fresh => ServedFresh
  BY DEF Fresh, Served, ServedFresh
<1>2. QED
  BY <1>1, FreshHolds, PTL

-----------------------------------------------------------------------------
(***************************************************************************)
(* ServedWhole.  JpegSize fits the bytes in the buffer whenever nobody is  *)
(* between the two (Full), and a thread that reads them has BufferGuard,   *)
(* so that nobody is.  A timer has seen a JpegSize that was not 0, perhaps *)
(* while the first frame was compressed; it waits for that frame then.     *)
(***************************************************************************)
Compressing == \E g \in IoThreads : pc[g] = "compress"
Quiet == \A g \in IoThreads : pc[g] \notin {"compress", "resize"}
HasFrame == jpegBuffer.id # 0 \/ Compressing

Full ==
  /\ Quiet => /\ jpegSize = 0 <=> jpegBuffer.id = 0
              /\ format = "rgb" => jpegSize = jpegBuffer.len
  /\ jpegSize # 0 => HasFrame
  /\ \A h \in IoThreads :
       kind[h] = "timer" /\ pc[h] \in {"lockBody", "body", "copy"} => HasFrame
  /\ \A h \in IoThreads : pc[h] = "resize" => format = "jpeg"

Unfaulted(h) ==
  IsBody(answer[h]) =>
    /\ answer[h].size = 0 <=> answer[h].id = 0
    /\ kind[h] = "timer" => answer[h].id # 0
    /\ format = "rgb" => answer[h].size = answer[h].len

(* What was measured is what is announced, faults or not. *)
Measured ==
  \A h \in IoThreads :
    /\ pc[h] = "copy" => measured[h] = jpegSize
    /\ IsBody(answer[h]) => answer[h].length = answer[h].size

Whole ==
  /\ Measured
  /\ faults = 0 => Full
  /\ faults = 0 => \A h \in IoThreads : Unfaulted(h)

LEMMA CameraKeepsWhole ==
  ASSUME TypeOK, Whole, CameraStep
  PROVE  Whole'
<1>1. /\ UNCHANGED <<format, jpegBuffer, jpegSize, pc, kind, measured, answer>>
      /\ faults' = 0 => faults = 0
  BY DEF CameraStep, OnNewImage, OnNewImageNoMemory, OnNewImageEnd, OnError, bufVars, reqVars, TypeOK
<1>2. QED
  BY <1>1 DEF Whole, Measured, Full, Quiet, HasFrame, Compressing, Unfaulted, IsBody

(* A thread that encodes is alone with the buffer. *)
LEMMA EncodeKeepsWhole ==
  ASSUME TypeOK, Owners, Fresh, Whole, NEW h \in IoThreads, Encode(h)
  PROVE  Whole'
<1> USE DEF camVars, bufVars, reqVars
<1>1. /\ pc[h] \in Encoding
      /\ pc' = [pc EXCEPT ![h] = pc'[h]]
      /\ pc'[h] \in Encoding \union {"isErrorAgain"}
      /\ UNCHANGED <<cameraImage, format, kind, measured, answer>>
      /\ faults' = 0 => faults = 0
  BY DEF Encode, EncodeWithoutBuffer, EncodeNothing, CopyJpeg, CopyJpegNoMemory, NoteJpegSize,
     OfferBuffer, EncodeRgb, EncodeRgbFails, FinishEncode, encoding, compressing, Goto, Encoding,
     TypeOK
<1>2. \A g \in IoThreads : g # h => pc'[g] = pc[g] /\ pc[g] \notin Encoding \union {"body", "copy"}
  BY <1>1 DEF Owners, UsesBuffer, TypeOK
<1>3. Measured'
  BY <1>1, <1>2 DEF Whole, Measured, Encoding, IsBody
<1>4. ASSUME faults' = 0
      PROVE  \A g \in IoThreads : Unfaulted(g)'
  BY <1>1, <1>4 DEF Whole, Unfaulted, IsBody
<1>5. ASSUME faults' = 0 PROVE Full'
  <2>1. /\ Healthy /\ Newest /\ Served /\ Full
        /\ cameraImage # Null
    BY <1>1, <1>5 DEF Fresh, Whole, Served, Encodes
  <2>2. /\ cameraImage.id # 0
        /\ cameraImage.len # 0
        /\ cameraImage.width # 0
    BY <2>1 DEF Newest
  <2>3. /\ Quiet' <=> pc'[h] \notin {"compress", "resize"}
        /\ Compressing' <=> pc'[h] = "compress"
        /\ Quiet <=> pc[h] \notin {"compress", "resize"}
        /\ Compressing <=> pc[h] = "compress"
    BY <1>2 DEF Quiet, Compressing, Encoding
  <2>4. ASSUME HasFrame', pc'[h] = "resize" => format = "jpeg",
               Quiet' => jpegSize' # 0 /\ jpegBuffer'.id # 0
                         /\ (format = "rgb" => jpegSize' = jpegBuffer'.len)
        PROVE  Full'
    BY <1>1, <1>2, <2>4 DEF Full, Encoding
  <2>5. CASE CopyJpeg(h)
    <3>1. pc'[h] = "resize" /\ format = "jpeg" /\ jpegBuffer'.id = cameraImage.id
      BY <2>5 DEF CopyJpeg, Goto, TypeOK
    <3>2. QED
      BY <2>2, <2>3, <2>4, <3>1 DEF HasFrame
  <2>6. CASE NoteJpegSize(h)
    <3>1. /\ pc[h] = "resize" /\ pc'[h] = "finish"
          /\ jpegSize' = cameraImage.width
          /\ jpegBuffer' = jpegBuffer
      BY <2>6 DEF NoteJpegSize, Goto, TypeOK
    <3>2. jpegBuffer.id = cameraImage.id /\ format # "rgb"
      BY <2>1, <3>1 DEF Served, Full
    <3>3. QED
      BY <2>2, <2>4, <3>1, <3>2 DEF HasFrame
  <2>7. CASE OfferBuffer(h)
    <3>1. pc'[h] = "compress"
      BY <2>7 DEF OfferBuffer, Goto, encoding, TypeOK
    <3>2. QED
      BY <2>3, <2>4, <3>1 DEF HasFrame
  <2>8. CASE EncodeRgb(h)
    <3>1. /\ pc'[h] = "finish"
          /\ jpegSize' = cameraImage.len
          /\ jpegBuffer'.id = cameraImage.id
          /\ jpegBuffer'.len = cameraImage.len
      BY <2>8 DEF EncodeRgb, compressing, Goto, TypeOK
    <3>2. QED
      BY <2>2, <2>4, <3>1 DEF HasFrame
  <2>9. CASE FinishEncode(h)
    <3>1. /\ pc[h] = "finish" /\ pc'[h] = "isErrorAgain"
          /\ UNCHANGED <<jpegSize, jpegBuffer>>
      BY <2>9 DEF FinishEncode, Goto, TypeOK
    <3>2. Quiet /\ Quiet' /\ (HasFrame <=> HasFrame')
      BY <2>3, <3>1 DEF HasFrame
    <3>3. QED
      BY <1>1, <1>2, <2>1, <3>1, <3>2 DEF Full
  <2>10. ~EncodeWithoutBuffer(h) /\ ~EncodeNothing(h)
    BY <2>1 DEF EncodeWithoutBuffer, EncodeNothing, Healthy
  <2>11. ~CopyJpegNoMemory(h) /\ ~EncodeRgbFails(h)
    BY <1>5, <2>1 DEF CopyJpegNoMemory, EncodeRgbFails, Healthy, TypeOK
  <2>12. QED
    BY <2>5, <2>6, <2>7, <2>8, <2>9, <2>10, <2>11 DEF Encode
<1>6. QED
  BY <1>3, <1>4, <1>5 DEF Whole

(* Any other step of a request: it leaves the buffer as it is. *)
LEMMA MovesKeepWhole ==
  ASSUME TypeOK, Whole, NEW h \in IoThreads, pc[h] \notin {"compress", "resize"},
         NEW there \in Pcs \ {"compress", "resize"}, Goto(h, there),
         UNCHANGED <<format, jpegBuffer, jpegSize, faults>>,
         \A g \in IoThreads : g # h => /\ kind'[g] = kind[g]
                                      /\ answer'[g] = answer[g]
                                      /\ measured'[g] = measured[g],
         there = "copy" => measured'[h] = jpegSize,
         IsBody(answer[h])' => answer'[h].length = answer'[h].size,
         faults = 0 => Unfaulted(h)',
         faults = 0 /\ kind'[h] = "timer" /\ there \in {"lockBody", "body", "copy"} => HasFrame
  PROVE  Whole'
<1>1. \A g \in IoThreads : pc'[g] = IF g = h THEN there ELSE pc[g]
  BY DEF Goto, TypeOK
<1>2. /\ Quiet <=> Quiet'
      /\ Compressing <=> Compressing'
      /\ HasFrame <=> HasFrame'
  BY <1>1 DEF Quiet, Compressing, HasFrame
<1>3. Measured'
  <2>1. ASSUME NEW g \in IoThreads
        PROVE  /\ pc'[g] = "copy" => measured'[g] = jpegSize'
               /\ IsBody(answer[g])' => answer'[g].length = answer'[g].size
    <3>1. CASE g = h
      BY <1>1, <3>1
    <3>2. CASE g # h
      BY <1>1, <3>2 DEF Whole, Measured, IsBody
    <3>3. QED
      BY <3>1, <3>2
  <2>2. QED
    BY <2>1 DEF Measured
<1>4. ASSUME faults' = 0, NEW g \in IoThreads
      PROVE  Unfaulted(g)'
  BY <1>4 DEF Whole, Unfaulted, IsBody
<1>5. ASSUME faults' = 0 PROVE Full'
  BY <1>1, <1>2, <1>5 DEF Whole, Full
<1>6. QED
  BY <1>3, <1>4, <1>5 DEF Whole, IsBody

LEMMA RequestKeepsWhole ==
  ASSUME TypeOK, Owners, Fresh, Whole, NEW h \in IoThreads, Begin(h) \/ HandlerStep(h)
  PROVE  Whole'
<1> USE DEF camVars, bufVars, reqVars, onlyPc
<1>1. CASE Begin(h)
  <2>1. /\ Goto(h, "isError") /\ pc[h] = "idle"
        /\ UNCHANGED <<format, jpegBuffer, jpegSize, measured, faults>>
        /\ answer' = [answer EXCEPT ![h] = Null]
        /\ \A g \in IoThreads : g # h => kind'[g] = kind[g]
    BY <1>1 DEF Begin, TypeOK
  <2>2. ~IsBody(answer[h])' /\ Unfaulted(h)'
    BY <2>1 DEF IsBody, Unfaulted, TypeOK
  <2>3. QED
    BY <2>1, <2>2, MovesKeepWhole DEF TypeOK, Pcs, Encoding
<1>2. ASSUME NEW there \in Pcs \ {"compress", "resize", "copy"}, Goto(h, there),
             pc[h] \notin {"compress", "resize"},
             UNCHANGED <<format, jpegBuffer, jpegSize, kind, measured, answer, faults>>,
             faults = 0 /\ kind[h] = "timer" /\ there \in {"lockBody", "body"}
               => jpegSize # 0 \/ pc[h] = "lockBody"
      PROVE  Whole'
  <2>1. faults = 0 /\ kind[h] = "timer" /\ there \in {"lockBody", "body"} => HasFrame
    BY <1>2 DEF Whole, Full
  <2>2. IsBody(answer[h])' => answer'[h].length = answer'[h].size
    BY <1>2 DEF Whole, Measured, IsBody
  <2>3. faults = 0 => Unfaulted(h)'
    BY <1>2 DEF Whole, Unfaulted, IsBody
  <2>4. QED
    BY <1>2, <2>1, <2>2, <2>3, MovesKeepWhole
<1>3. CASE CheckError(h) \/ TestNewImage(h) \/ LockImage(h) \/ LockBuffer(h)
  BY <1>2, <1>3 DEF CheckError, TestNewImage, LockImage, LockBuffer, Pcs, Encoding
<1>4. CASE Encode(h)
  BY <1>4, EncodeKeepsWhole
<1>5. CASE CheckErrorAgain(h) \/ LockBody(h)
  BY <1>2, <1>5 DEF CheckErrorAgain, LockBody, Pcs, Encoding
<1>6. ASSUME NEW s \in {0, 500}, Finish(h, bodiless(s)), pc[h] \notin {"compress", "resize"},
             UNCHANGED <<format, jpegBuffer, jpegSize, kind, measured, faults>>
      PROVE  Whole'
  <2>1. /\ Goto(h, "idle")
        /\ answer'[h] = bodiless(s)
        /\ \A g \in IoThreads : g # h => answer'[g] = answer[g]
    BY <1>6 DEF Finish, TypeOK
  <2>2. ~IsBody(answer[h])' /\ Unfaulted(h)'
    BY <2>1 DEF IsBody, Unfaulted, bodiless
  <2>3. QED
    BY <1>6, <2>1, <2>2, MovesKeepWhole DEF Pcs, Encoding
<1>7. CASE ReportError(h)
  <2>1. CASE Finish(h, bodiless(500))
    BY <1>6, <1>7, <2>1 DEF ReportError
  <2>2. CASE Goto(h, "reportSource") /\ UNCHANGED answer
    BY <1>2, <1>7, <2>2 DEF ReportError, Pcs, Encoding
  <2>3. QED
    BY <1>7, <2>1, <2>2 DEF ReportError
<1>8. CASE TestSourceError(h)
  <2>1. CASE Finish(h, bodiless(0))
    BY <1>6, <1>8, <2>1 DEF TestSourceError
  <2>2. CASE Goto(h, "lockReport") /\ UNCHANGED answer
    BY <1>2, <1>8, <2>2 DEF TestSourceError, Pcs, Encoding
  <2>3. QED
    BY <1>8, <2>1, <2>2 DEF TestSourceError
<1>9. CASE ReportSourceError(h)
  BY <1>6, <1>9 DEF ReportSourceError
<1>10. CASE MeasureBody(h)
  <2>1. /\ Goto(h, "copy") /\ pc[h] = "body"
        /\ measured'[h] = jpegSize
        /\ \A g \in IoThreads : g # h => measured'[g] = measured[g]
        /\ UNCHANGED <<format, jpegBuffer, jpegSize, kind, answer, faults>>
    BY <1>10 DEF MeasureBody, TypeOK
  <2>2. faults = 0 /\ kind[h] = "timer" => HasFrame
    BY <2>1 DEF Whole, Full
  <2>3. IsBody(answer[h])' => answer'[h].length = answer'[h].size
    BY <2>1 DEF Whole, Measured, IsBody
  <2>4. faults = 0 => Unfaulted(h)'
    BY <2>1 DEF Whole, Unfaulted, IsBody
  <2>5. QED
    BY <2>1, <2>2, <2>3, <2>4, MovesKeepWhole DEF Pcs, Encoding
<1>11. CASE CopyBody(h)
  <2>1. /\ Goto(h, "idle") /\ pc[h] = "copy"
        /\ UNCHANGED <<format, jpegBuffer, jpegSize, kind, faults>>
        /\ \A g \in IoThreads : g # h => answer'[g] = answer[g] /\ measured'[g] = measured[g]
        /\ answer'[h].id = jpegBuffer.id
        /\ answer'[h].len = jpegBuffer.len
        /\ answer'[h].size = measured[h]
        /\ answer'[h].length = jpegSize
    BY <1>11 DEF CopyBody, Finish, TypeOK
  <2>2. measured[h] = jpegSize
    BY <2>1 DEF Whole, Measured
  <2>3. Quiet /\ ~Compressing
    BY <2>1 DEF Owners, UsesBuffer, Encoding, Quiet, Compressing
  <2>4. ASSUME faults = 0 PROVE Unfaulted(h)'
    BY <2>1, <2>2, <2>3, <2>4 DEF Whole, Full, HasFrame, Unfaulted
  <2>5. QED
    BY <2>1, <2>2, <2>4, MovesKeepWhole DEF Pcs, Encoding
<1>12. CASE CopyNothing(h)
  BY <1>12 DEF CopyNothing, Whole, Measured, Full, Quiet, HasFrame, Compressing, Unfaulted, IsBody
<1>13. QED
  BY <1>1, <1>3, <1>4, <1>5, <1>7, <1>8, <1>9, <1>10, <1>11, <1>12 DEF HandlerStep, Answer

LEMMA WholeHolds == Safety => []Whole
<1>1. Init => Whole
  <2> SUFFICES ASSUME Init PROVE Whole
    OBVIOUS
  <2>1. ASSUME NEW h \in IoThreads
        PROVE  pc[h] = "idle" /\ ~IsBody(answer[h])
    BY DEF Init, IsBody
  <2>2. jpegBuffer.id = 0 /\ jpegBuffer.len = 0 /\ jpegSize = 0
    BY DEF Init
  <2>3. Measured /\ \A h \in IoThreads : Unfaulted(h)
    BY <2>1 DEF Measured, Unfaulted
  <2>4. Full
    BY <2>1, <2>2 DEF Full
  <2>5. QED
    BY <2>3, <2>4 DEF Whole
<1>2. TypeOK /\ Owners /\ Fresh /\ Whole /\ [Next]_vars => Whole'
  <2> SUFFICES ASSUME TypeOK, Owners, Fresh, Whole, [Next]_vars PROVE Whole'
    OBVIOUS
  <2>1. CASE UNCHANGED vars
    BY <2>1 DEF Whole, Measured, Full, Quiet, HasFrame, Compressing, Unfaulted, IsBody,
       vars, camVars, bufVars, reqVars
  <2>2. QED
    BY <2>1, CameraKeepsWhole, RequestKeepsWhole DEF Next, Dead
<1>3. QED
  BY <1>1, <1>2, TypeCorrect, OwnersHolds, FreshHolds, PTL DEF Safety

(* ServedWhole holds in every reachable state, for any number of threads:  *)
(* what is announced is sent, and without faults a body is a whole frame,  *)
(* empty only for a request made before there was one.                     *)
THEOREM BodiesWhole == Safety => []ServedWhole
<1>1. Whole => ServedWhole
  BY DEF Whole, Measured, Unfaulted, ServedWhole
<1>2. QED
  BY <1>1, WholeHolds, PTL

=============================================================================

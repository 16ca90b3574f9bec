-------------------------- MODULE MCCameraControl --------------------------
(* CameraControl with its owner, one setter, two properties, two values. *)
EXTENDS CameraControl, TLC

CONSTANTS setter1, v1, v2

MCSetters == {setter1}
MCValues == {v1, v2}

=============================================================================

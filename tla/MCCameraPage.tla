---------------------------- MODULE MCCameraPage ----------------------------
(* CameraPage with a pause of four ticks, and every way to be late.       *)
EXTENDS CameraPage

MCRates == {0, 1, 2, 5}

=============================================================================

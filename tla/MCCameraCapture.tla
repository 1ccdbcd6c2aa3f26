-------------------------- MODULE MCCameraCapture --------------------------
(* Small instances of CameraCapture for TLC.                                  *)
EXTENDS CameraCapture
=============================================================================

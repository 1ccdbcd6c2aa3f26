-------------------------- MODULE MCCaptureRequests --------------------------
(* Small instances of CaptureRequests for TLC.                                *)
EXTENDS CaptureRequests

CONSTANT r1

\* The third picture of the request does not pass validation.
RefusedPictures == {<<r1, 3>>}

\* Each delivery of a command takes its picture later than the one before, but
\* their messages come in any order.
CaptureTimes == [p \in Pictures |-> p[2]]
=============================================================================

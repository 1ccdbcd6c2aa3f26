---------------------------- MODULE ImagePipeline ----------------------------
(* camera-capture and image-uploader on one volume and one MQTT broker: from  *)
(* a TakePicture command to the ImageUpload message of its picture.           *)
(*                                                                            *)
(* Both services run the actions of their own modules: this module extends    *)
(* the camera's and instantiates the uploader's.  The uploader's module       *)
(* knows the camera only through what it may leave on the volume; here the    *)
(* real camera writes, and the pipeline is shown to implement that module, so *)
(* that what is proved of the uploader alone holds of it beside the camera.   *)
EXTENDS CameraCapture

CONSTANTS NoImage, FailureThreshold, MaxFaults     \* of ImageUploader

ASSUME UploaderAssumption == /\ NoImage \notin Images
                             /\ FailureThreshold \in Nat \ {0} /\ MaxFaults \in Nat

\* The uploader's own; it shares jpegs, manifest, camera and events.
VARIABLES pending, known, arriving, toScan, pc, current, blobs, notified, faults,
          circuit, failures

Uploader == INSTANCE ImageUploader

uploaderVars == <<pending, known, arriving, toScan, pc, current, blobs,
                  notified, faults, circuit, failures>>
pipelineVars == <<vars, uploaderVars>>

PipelineInit == Init /\ Uploader!Init

CameraNext == Next /\ UNCHANGED uploaderVars

\* The uploader's steps, its network thread included; the camera's steps that
\* its module allows for are replaced by CameraNext.
UploaderNext ==
    /\ \/ \E i \in Images : \/ Uploader!HearEvent(i) \/ Uploader!DropEvent(i)
                            \/ Uploader!UploadStep(i) \/ Uploader!UploadError(i)
       \/ Uploader!PutArriving \/ Uploader!MinutePasses
       \/ Uploader!RunStep
       \/ Uploader!Crash
    /\ UNCHANGED <<session, step>>

PipelineNext == CameraNext \/ UploaderNext

PipelineSpec == PipelineInit /\ [][PipelineNext]_pipelineVars

\* Each service keeps running as in its own module.  The camera never delays
\* the uploader nor the uploader the camera, so their fairness is unchanged.
PipelineFairSpec == PipelineSpec /\ Fairness /\ Uploader!Fairness

-----------------------------------------------------------------------------
(* Properties.                                                                *)

\* Beside the real camera, the uploader is still the one of its own module:
\* the steps camera-capture takes on the volume are steps allowed for there.
UploaderRefined == Uploader!Spec

\* Completing a command hands its picture over for good: the picture is on the
\* volume with its manifest, or the cloud has been told (camera-capture lines
\* 186-191, image-uploader lines 214-215).
CompletedIsSafe ==
    \A c \in Commands : settled[c] = "completed"
        => LET i == <<c, deliveries[c]>>
           IN  i \in notified \/ (i \in jpegs /\ manifest[i] = "complete")

\* Every completed command ends in an ImageUpload message, although earlier
\* deliveries may have left truncated manifests in the uploader's queue and the
\* SendImage event may be lost.
CompletedIsNotified ==
    \A c \in Commands : settled[c] = "completed"
        ~> \E n \in 1..MaxDelivery : <<c, n>> \in notified
=============================================================================

--------------------------- MODULE CapturePipeline ---------------------------
(* A capture request from the browser's POST to the picture in the device's   *)
(* document: ImagePipeline at the edge and CaptureRequests in the cloud.      *)
(*                                                                            *)
(* Service Bus is all that joins them.  A command enters the session of the   *)
(* device some time after the API's send was accepted, and an ImageUpload     *)
(* message reaches the subscription some time after the topic accepted the    *)
(* uploader's send.  Otherwise neither side waits for, or sees, the other.    *)
EXTENDS ImagePipeline

\* Of CaptureRequests: the refused pictures, when each is taken, how many a
\* document keeps, max_delivery_count of the image-web subscription and the
\* restarts of the API.
CONSTANTS Invalid, CapturedAt, MaxImages, MaxHandOuts, MaxRestarts

VARIABLES post, accepted, message, handOuts, consumer, held, documentImages,
          recorded, status, shown, restarts

\* A request is known by its command's correlation id, a picture by its command
\* and the delivery that took it.
Cloud == INSTANCE CaptureRequests
             WITH Requests <- Commands, Takes <- MaxDelivery,
                  MaxDelivery <- MaxHandOuts, deliveries <- handOuts

cloudVars   == <<post, accepted, message, handOuts, consumer, held, documentImages,
                 recorded, status, shown, restarts>>
captureVars == <<pipelineVars, cloudVars>>

CaptureInit == PipelineInit /\ Cloud!Init

EdgeStep ==
    /\ PipelineNext
    /\ sent' \subseteq accepted
    /\ UNCHANGED cloudVars

CloudStep ==
    /\ Cloud!Next
    /\ \A p \in Images : message'[p] # "none" => p \in notified
    /\ UNCHANGED pipelineVars

CaptureNext == EdgeStep \/ CloudStep

CaptureSpec == CaptureInit /\ [][CaptureNext]_captureVars

-----------------------------------------------------------------------------
(* Properties.                                                                *)

\* The picture that an Uploaded request shows was taken for that request, has its
\* blob in storage and was added to the device's document, whatever was lost,
\* repeated or restarted on the way.  As long as fewer than MaxImages pictures not
\* older than it are there it is in the document, where the page and GET content
\* look it up, so that the link leads to the blob.
ShownIsStored ==
    \A r \in Commands : status[r] = "Uploaded"
        => LET p == shown[r]
           IN  /\ p[1] = r
               /\ camera[p] \in {"written", "announced"}
               /\ p \in recorded \cap blobs
               /\ p \in documentImages \/ Cloud!Displaced(p)

\* A picture is added to the document only after the whole way before it: its
\* command was accepted, was one for this device, and its blob was stored.
RecordedIsGenuine ==
    \A p \in recorded : p[1] \in accepted \cap Supported /\ p \in blobs \cap notified

\* A completed command is one the cloud sent, and its picture is not lost: it is
\* on the volume with its manifest, or the blob is stored and the cloud was told;
\* that message is completed only once the picture was added to the document.
CompletedArrives ==
    \A c \in Commands : settled[c] = "completed"
        => LET p == <<c, deliveries[c]>>
           IN  /\ c \in accepted
               /\ \/ p \in jpegs /\ manifest[p] = "complete"
                  \/ p \in notified /\ p \in blobs
               /\ message[p] = "completed" => p \in recorded
=============================================================================

--------------------------- MODULE CaptureRequests ---------------------------
(* Capture requests in the cloud API (cloud-cluster/apps/telemetry-api):      *)
(* TakePictureSender, CaptureRequestStore and ServiceBusImageConsumer.        *)
(*                                                                            *)
(* A POST sends a TakePicture command and then lists the request as Queued;   *)
(* the consumer adds each uploaded picture to the device's document, lists    *)
(* its request as Uploaded, and only then completes the message.  The list is *)
(* in memory: it is lost with the process, the documents are not.  A document *)
(* keeps only the newest pictures; a request is kept, and goes on naming its  *)
(* picture.  The requests are those of one device (documents of different     *)
(* devices share nothing).  The edge (see ImagePipeline) is seen here only as *)
(* the messages it sends: any number of pictures per command, at any time     *)
(* after the command was accepted.                                            *)
EXTENDS Integers, FiniteSets

CONSTANTS
    Requests,       \* the capture requests, by correlation id
    Takes,          \* the pictures a command may result in: 1..Takes
    Invalid,        \* the pictures whose message ImageStore.Validate refuses
    CapturedAt,     \* when the camera took each picture
    MaxImages,      \* Monitor:MaxImagesPerDevice
    MaxDelivery,    \* max_delivery_count of the image-web subscription
    MaxRestarts     \* how often the API process restarts

Pictures  == Requests \X (1..Takes)
NoPicture == <<>>

ASSUME TakesAssumption      == Takes \in Nat \ {0}
ASSUME InvalidAssumption    == Invalid \subseteq Pictures
ASSUME CapturedAtAssumption == CapturedAt \in [Pictures -> Int]
ASSUME MaxImagesAssumption  == MaxImages \in Nat \ {0}
ASSUME BoundsAssumption     == MaxDelivery \in Nat \ {0} /\ MaxRestarts \in Nat

VARIABLES
    post,           \* the POST of each request
    accepted,       \* the commands Service Bus has accepted
    message,        \* message[p]: the ImageUpload message of picture p
    deliveries,     \* how often that message was handed out
    consumer,       \* where ProcessMessageAsync is
    held,           \* the picture whose message it processes, or NoPicture
    documentImages, \* the pictures in the device's document
    recorded,       \* the pictures that were ever added to it
    status,         \* CaptureRequestStore: "absent", "Queued" or "Uploaded"
    shown,          \* the picture that an Uploaded request names
    restarts

store    == <<status, shown>>
document == <<documentImages, recorded>>
bus      == <<accepted, message, deliveries>>
vars     == <<post, bus, consumer, held, document, store, restarts>>

TypeOK ==
    /\ post \in [Requests -> {"new", "sending", "sent", "replied", "failed"}]
    /\ accepted \subseteq Requests
    /\ message \in [Pictures -> {"none", "queued", "completed", "dead"}]
    /\ deliveries \in [Pictures -> 0..MaxDelivery]
    /\ consumer \in {"idle", "add", "mark", "complete", "deadLetter"}
    /\ held \in Pictures \cup {NoPicture}
    /\ documentImages \subseteq Pictures
    /\ recorded \subseteq Pictures
    /\ status \in [Requests -> {"absent", "Queued", "Uploaded"}]
    /\ shown \in [Requests -> Pictures \cup {NoPicture}]
    /\ restarts \in 0..MaxRestarts

Init ==
    /\ post = [r \in Requests |-> "new"]
    /\ accepted = {}
    /\ message = [p \in Pictures |-> "none"]
    /\ deliveries = [p \in Pictures |-> 0]
    /\ consumer = "idle"
    /\ held = NoPicture
    /\ documentImages = {}
    /\ recorded = {}
    /\ status = [r \in Requests |-> "absent"]
    /\ shown = [r \in Requests |-> NoPicture]
    /\ restarts = 0

-----------------------------------------------------------------------------
(* POST /api/devices/{deviceName}/capture-requests: SendAsync.                *)

StartPost(r) ==
    /\ post[r] = "new"
    /\ post' = [post EXCEPT ![r] = "sending"]
    /\ UNCHANGED <<bus, consumer, held, document, store, restarts>>

\* Service Bus takes the command while SendMessageAsync is awaited.
CommandAccepted(r) ==
    /\ post[r] = "sending"
    /\ r \notin accepted
    /\ accepted' = accepted \cup {r}
    /\ UNCHANGED <<post, message, deliveries, consumer, held, document, store, restarts>>

\* Mutated form: the send is not awaited.
SendDoneEarly(r) ==
    /\ post[r] = "sending"
    /\ post' = [post EXCEPT ![r] = "sent"]
    /\ UNCHANGED <<bus, consumer, held, document, store, restarts>>

SendDone(r) ==
    /\ post[r] = "sending"
    /\ r \in accepted
    /\ post' = [post EXCEPT ![r] = "sent"]
    /\ UNCHANGED <<bus, consumer, held, document, store, restarts>>

\* SendMessageAsync throws: refused, timed out, or the browser went away.
SendFails(r) ==
    /\ post[r] = "sending"
    /\ post' = [post EXCEPT ![r] = "failed"]
    /\ UNCHANGED <<bus, consumer, held, document, store, restarts>>

\* Mutated form: the caller retries after the reply.
AddQueuedAgain(r) ==
    /\ post[r] \in {"sent", "replied"}
    /\ status' = [status EXCEPT ![r] = "Queued"]
    /\ shown' = [shown EXCEPT ![r] = NoPicture]
    /\ post' = [post EXCEPT ![r] = "replied"]
    /\ UNCHANGED <<bus, consumer, held, document, restarts>>

AddQueued(r) ==
    /\ post[r] = "sent"
    /\ status' = [status EXCEPT ![r] = "Queued"]
    /\ shown' = [shown EXCEPT ![r] = NoPicture]
    /\ post' = [post EXCEPT ![r] = "replied"]
    /\ UNCHANGED <<bus, consumer, held, document, restarts>>

-----------------------------------------------------------------------------
(* The edge: a picture was taken for the command and uploaded.                *)

ImageUploaded(p) ==
    /\ p[1] \in accepted
    /\ message[p] = "none"
    /\ message' = [message EXCEPT ![p] = "queued"]
    /\ UNCHANGED <<post, accepted, deliveries, consumer, held, document, store, restarts>>

\* The uploader never had the answer to its send and repeats it, when the topic
\* no longer recognises the copy (duplicates are detected for ten minutes).  A
\* copy that finds the first still queued is as good as one more delivery.
ImageUploadedAgain(p) ==
    /\ message[p] \in {"completed", "dead"}
    /\ message' = [message EXCEPT ![p] = "queued"]
    /\ deliveries' = [deliveries EXCEPT ![p] = 0]
    /\ UNCHANGED <<post, accepted, consumer, held, document, store, restarts>>

-----------------------------------------------------------------------------
(* ServiceBusImageConsumer.ProcessMessageAsync, one message at a time.        *)

\* Mutated form: deliveries are counted without end.
ReceiveUnbounded(p) ==
    /\ consumer = "idle"
    /\ message[p] = "queued"
    /\ deliveries' = [deliveries EXCEPT ![p] = @ + 1]
    /\ held' = p
    /\ consumer' = "add"
    /\ UNCHANGED <<post, accepted, message, document, store, restarts>>

Receive(p) ==
    /\ consumer = "idle"
    /\ message[p] = "queued"
    /\ deliveries[p] < MaxDelivery
    /\ deliveries' = [deliveries EXCEPT ![p] = @ + 1]
    /\ held' = p
    /\ consumer' = "add"
    /\ UNCHANGED <<post, accepted, message, document, store, restarts>>

\* The subscription's own dead-lettering.
Exhaust(p) ==
    /\ message[p] = "queued"
    /\ p # held
    /\ deliveries[p] = MaxDelivery
    /\ message' = [message EXCEPT ![p] = "dead"]
    /\ UNCHANGED <<post, accepted, deliveries, consumer, held, document, store, restarts>>

\* A message outlives its time to live, and is dropped.
Expire(p) ==
    /\ message[p] = "queued"
    /\ p # held
    /\ message' = [message EXCEPT ![p] = "dead"]
    /\ UNCHANGED <<post, accepted, deliveries, consumer, held, document, store, restarts>>

Reject ==
    /\ consumer = "add"
    /\ held \in Invalid
    /\ consumer' = "deadLetter"
    /\ UNCHANGED <<post, bus, held, document, store, restarts>>

\* Mutated form: the list is sorted the other way round.
TrimmedToOldest(pictures) ==
    {kept \in SUBSET pictures :
        /\ Cardinality(kept) = IF Cardinality(pictures) > MaxImages THEN MaxImages
                               ELSE Cardinality(pictures)
        /\ \A p \in kept, q \in pictures \ kept : CapturedAt[p] <= CapturedAt[q]}

\* Sort and Trim: the newest pictures stay, at most MaxImages.  The sort is not
\* stable, so any of those captured at the same time may be dropped.
Trimmed(pictures) ==
    {kept \in SUBSET pictures :
        /\ Cardinality(kept) = IF Cardinality(pictures) > MaxImages THEN MaxImages
                               ELSE Cardinality(pictures)
        /\ \A p \in kept, q \in pictures \ kept : CapturedAt[p] >= CapturedAt[q]}

\* The write of AddImageAsync (see CosmosDeviceDocumentStore).  A picture older
\* than all of a full list is dropped by the write that adds it.
AddToDocument ==
    /\ held \notin Invalid
    /\ documentImages' \in Trimmed(documentImages \cup {held})
    /\ recorded' = recorded \cup {held}

\* Mutated form: a failed write is logged, and the message handled further.
AddImageUnchecked ==
    /\ consumer = "add"
    /\ held \notin Invalid
    /\ UNCHANGED document \/ AddToDocument
    /\ consumer' = "mark"
    /\ UNCHANGED <<post, bus, held, store, restarts>>

AddImage ==
    /\ consumer = "add"
    /\ AddToDocument
    /\ consumer' = "mark"
    /\ UNCHANGED <<post, bus, held, store, restarts>>

\* Mutated form: the request is marked before the picture is recorded.
MarkUploadedEarly ==
    /\ consumer \in {"add", "mark"}
    /\ status' = [status EXCEPT ![held[1]] = "Uploaded"]
    /\ shown' = [shown EXCEPT ![held[1]] = held]
    /\ consumer' = IF consumer = "add" THEN "add" ELSE "complete"
    /\ UNCHANGED <<post, bus, held, document, restarts>>

MarkUploaded ==
    /\ consumer = "mark"
    /\ status' = [status EXCEPT ![held[1]] = "Uploaded"]
    /\ shown' = [shown EXCEPT ![held[1]] = held]
    /\ consumer' = "complete"
    /\ UNCHANGED <<post, bus, held, document, restarts>>

Settle(state) ==
    /\ message' = [message EXCEPT ![held] = state]
    /\ held' = NoPicture
    /\ consumer' = "idle"
    /\ UNCHANGED <<post, accepted, deliveries, document, store, restarts>>

\* Mutated form: the handler ends without completing the message.
CompleteForgotten ==
    /\ consumer = "complete"
    /\ held' = NoPicture
    /\ consumer' = "idle"
    /\ deliveries' = [deliveries EXCEPT ![held] = @ - 1]
    /\ UNCHANGED <<post, accepted, message, document, store, restarts>>

CompleteMessage == consumer = "complete" /\ Settle("completed")

DeadLetter == consumer = "deadLetter" /\ Settle("dead")

\* The handler throws: the processor abandons the message.  A write may have
\* reached the document although its answer was lost.
ProcessFails ==
    /\ consumer # "idle"
    /\ \/ UNCHANGED document
       \/ consumer = "add" /\ AddToDocument
    /\ held' = NoPicture
    /\ consumer' = "idle"
    /\ UNCHANGED <<post, bus, store, restarts>>

\* The API process restarts: the list is lost, the held message is handed out
\* again, the POSTs under way never reply.
Restart ==
    /\ restarts < MaxRestarts
    /\ restarts' = restarts + 1
    /\ post' = [r \in Requests |-> IF post[r] \in {"sending", "sent"} THEN "failed"
                                   ELSE post[r]]
    /\ status' = [r \in Requests |-> "absent"]
    /\ shown' = [r \in Requests |-> NoPicture]
    /\ held' = NoPicture
    /\ consumer' = "idle"
    /\ UNCHANGED <<bus, document>>

-----------------------------------------------------------------------------
Post(r) == StartPost(r) \/ CommandAccepted(r) \/ SendDone(r) \/ SendFails(r)
             \/ AddQueued(r)

Process == (\E p \in Pictures : Receive(p)) \/ Reject \/ AddImage \/ MarkUploaded
             \/ CompleteMessage \/ DeadLetter

Next == \/ \E r \in Requests : Post(r)
        \/ \E p \in Pictures : ImageUploaded(p) \/ ImageUploadedAgain(p) \/ Exhaust(p)
                               \/ Expire(p)
        \/ Process \/ ProcessFails \/ Restart

\* The consumer keeps receiving, and the subscription counts deliveries.
Fairness == /\ WF_vars(Process)
            /\ \A p \in Pictures : WF_vars(Exhaust(p)) /\ SF_vars(Receive(p))

Spec == Init /\ [][Next]_vars

FairSpec == Spec /\ Fairness

-----------------------------------------------------------------------------
(* Properties.                                                                *)

\* "shows it as `Queued` until the matching `ImageUpload` event marks it
\* `Uploaded`" (cloud-cluster/README.md:59-60): once Uploaded, a request is not
\* Queued again.
NeverQueuedAgain ==
    [][\A r \in Requests : ~(status[r] = "Uploaded" /\ status'[r] = "Queued")]_vars

\* The list shows a request only when Service Bus has its command: a failed or
\* unfinished send is not listed (TakePictureSender lines 52-53).
ListedWasSent == \A r \in Requests : status[r] # "absent" => r \in accepted

\* MaxImages pictures are in the document, and none is older than p.
Displaced(p) ==
    /\ Cardinality(documentImages) = MaxImages
    /\ \A q \in documentImages : CapturedAt[q] >= CapturedAt[p]

\* An Uploaded request names a picture of its own that was added to the device's
\* document, and the page finds it there (index.html lines 215-217) unless
\* MaxImages pictures not older than it are: however late, often or out of order
\* the messages come, a picture disappears for no other reason.
UploadedUnlessDisplaced ==
    \A r \in Requests : status[r] = "Uploaded"
        => /\ shown[r] \in recorded /\ shown[r][1] = r
           /\ shown[r] \in documentImages \/ Displaced(shown[r])

\* A message is completed only for a picture that was added to the document, and
\* a refused picture is never added: a failure at any await leads to another
\* delivery.
CompletedIsRecorded ==
    /\ \A p \in Pictures : message[p] = "completed" => p \in recorded
    /\ recorded \cap Invalid = {}

\* Once its POST has ended, a request that is shown as Uploaded stays so for
\* the life of the process: redeliveries and further pictures do not undo it.
UploadedIsFinal ==
    [][\A r \in Requests :
        /\ status[r] = "Uploaded"
        /\ post[r] \in {"replied", "failed"}
        /\ restarts' = restarts
        => status'[r] = "Uploaded"]_vars

\* Every ImageUpload message is completed, dead-lettered or dropped in the end;
\* no failing message keeps the others waiting for ever.
EveryMessageSettled ==
    \A p \in Pictures : message[p] = "queued" ~> message[p] \in {"completed", "dead"}
=============================================================================

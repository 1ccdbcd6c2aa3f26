---------------------------- MODULE ImageUploader ----------------------------
(* The image-uploader service of the remote cluster                          *)
(* (remote-cluster/apps/image-uploader/app.py) and the shared volume it      *)
(* drains.                                                                    *)
(*                                                                            *)
(* camera-capture leaves two files per picture on the volume, a JPEG and a    *)
(* JSON manifest, then publishes a SendImage event.  The uploader has two     *)
(* threads: paho's network thread hears SendImage (HearEvent, PutArriving);   *)
(* the main thread repeats: scan the directory, probe the link, and drain the *)
(* queue until it is empty or an upload fails.  Draining one manifest is a    *)
(* sequence of steps, and any of them may fail or be the last before a crash. *)
(* The camera appears here only through what it leaves behind: it may stop    *)
(* after any of its steps (see CameraCapture for its own control).            *)
EXTENDS Integers, Sequences, FiniteSets, SequencesExt

CONSTANTS
    Images,      \* the pictures taken; each names its JPEG, manifest and blob
    NoImage,     \* the absence of a picture
    FailureThreshold,    \* failed probes in a row that open the circuit
    MaxFaults    \* how many crashes, disk errors and duplicate deliveries happen

ASSUME NoImageAssumption   == NoImage \notin Images
ASSUME MaxFaultsAssumption == MaxFaults \in Nat
ASSUME FailureThresholdAssumption == FailureThreshold \in Nat \ {0}

VARIABLES
    jpegs,      \* the images on the volume
    manifest,   \* manifest[i]: "absent", "partial" (being written) or "complete"
    camera,     \* camera[i]: how far the camera got with picture i
    events,     \* SendImage events the broker holds for the uploader
    pending,    \* ImageUploader.pending, the FIFO of manifests to upload
    known,      \* ImageUploader._known, the manifests already queued
    arriving,   \* the manifest the MQTT thread has added to known, not yet put
    toScan,     \* what the running directory scan has still to enqueue
    circuit,    \* state of the ConnectivityCircuitBreaker
    failures,   \* its failures: failed probes in a row
    pc,         \* where the main thread is
    current,    \* the manifest process_pending holds
    blobs,      \* the images in blob storage
    notified,   \* the images whose ImageUpload message Service Bus accepted
    faults      \* crashes, disk errors and duplicate deliveries so far

volume  == <<jpegs, manifest, camera>>
queue   == <<pending, known, arriving>>
cloud   == <<blobs, notified>>
breaker == <<circuit, failures>>
others  == <<faults, breaker>>
vars    == <<volume, events, queue, toScan, pc, current, cloud, others>>

Stages  == {"read", "enrich", "upload", "notify", "unlinkImage",
            "unlinkManifest"}
Busy    == Stages \cup {"failed", "forget"}     \* current is a manifest

OnDisk  == {i \in Images : manifest[i] # "absent"}

TypeOK ==
    /\ jpegs \subseteq Images
    /\ manifest \in [Images -> {"absent", "partial", "complete"}]
    /\ camera \in [Images -> {"none", "jpeg", "opened", "written", "announced"}]
    /\ events \subseteq Images
    /\ pending \in Seq(Images)
    /\ known \subseteq Images
    /\ arriving \in Images \cup {NoImage}
    /\ toScan \subseteq Images
    /\ pc \in {"wait", "scan", "probe", "drain"} \cup Busy
    /\ current \in Images \cup {NoImage}
    /\ blobs \subseteq Images
    /\ notified \subseteq Images
    /\ faults \in 0..MaxFaults
    /\ circuit \in {"closed", "open", "half-open"}
    /\ failures \in 0..FailureThreshold

Init ==
    /\ jpegs = {}
    /\ manifest = [i \in Images |-> "absent"]
    /\ camera = [i \in Images |-> "none"]
    /\ events = {}
    /\ pending = <<>>
    /\ known = {}
    /\ arriving = NoImage
    /\ toScan = {}
    /\ pc = "wait"
    /\ current = NoImage
    /\ blobs = {}
    /\ notified = {}
    /\ faults = 0
    /\ circuit = "closed"
    /\ failures = 0

-----------------------------------------------------------------------------
(* What camera-capture leaves on the volume and on the bus.                   *)

\* capture_image: the JPEG is renamed into place in one step.
CaptureJpeg(i) ==
    /\ camera[i] = "none"
    /\ camera' = [camera EXCEPT ![i] = "jpeg"]
    /\ jpegs' = jpegs \cup {i}
    /\ UNCHANGED <<manifest, events, queue, toScan, pc, current, cloud, others>>

\* manifest.write_text opens the file (it now matches *.json) ...
OpenManifest(i) ==
    /\ camera[i] = "jpeg"
    /\ camera' = [camera EXCEPT ![i] = "opened"]
    /\ manifest' = [manifest EXCEPT ![i] = "partial"]
    /\ UNCHANGED <<jpegs, events, queue, toScan, pc, current, cloud, others>>

\* ... and the text reaches it later, or never when the camera stops here.
WriteManifest(i) ==
    /\ camera[i] = "opened"
    /\ camera' = [camera EXCEPT ![i] = "written"]
    /\ manifest' = [manifest EXCEPT ![i] = "complete"]
    /\ UNCHANGED <<jpegs, events, queue, toScan, pc, current, cloud, others>>

PublishSendImage(i) ==
    /\ camera[i] = "written"
    /\ camera' = [camera EXCEPT ![i] = "announced"]
    /\ events' = events \cup {i}
    /\ UNCHANGED <<jpegs, manifest, queue, toScan, pc, current, cloud, others>>

-----------------------------------------------------------------------------
(* The MQTT thread: on_message and enqueue_manifest.                          *)

\* QoS 1 without a persistent session: an event is delivered, delivered more
\* than once, or lost with the session (DropEvent).
Delivered(i) == events' = events \ {i} /\ faults' = faults
DeliveredAgain == events' = events /\ faults < MaxFaults /\ faults' = faults + 1

\* Mutated form: the membership test of enqueue_manifest is missing.
HearEventUnchecked(i) ==
    /\ i \in events
    /\ arriving = NoImage
    /\ Delivered(i) \/ DeliveredAgain
    /\ known' = known \cup {i}
    /\ arriving' = i
    /\ UNCHANGED <<volume, pending, toScan, pc, current, cloud, breaker>>

HearEvent(i) ==
    /\ i \in events
    /\ arriving = NoImage
    /\ i \notin known
    /\ Delivered(i) \/ DeliveredAgain
    /\ known' = known \cup {i}
    /\ arriving' = i
    /\ UNCHANGED <<volume, pending, toScan, pc, current, cloud, breaker>>

\* The event is lost, or names a manifest that is already known.
DropEvent(i) ==
    /\ i \in events
    /\ events' = events \ {i}
    /\ UNCHANGED <<volume, queue, toScan, pc, current, cloud, others>>

\* Mutated form: the slot is cleared before the put reads it.
PutArrivingCleared ==
    /\ arriving # NoImage
    /\ arriving' = NoImage
    /\ pending' = Append(pending, NoImage)
    /\ UNCHANGED <<volume, events, known, toScan, pc, current, cloud, others>>

\* self.pending.put runs after the lock was released.
PutArriving ==
    /\ arriving # NoImage
    /\ pending' = Append(pending, arriving)
    /\ arriving' = NoImage
    /\ UNCHANGED <<volume, events, known, toScan, pc, current, cloud, others>>

-----------------------------------------------------------------------------
(* The main thread: run, scan_pending and process_pending.                    *)

\* glob reads the whole directory before it yields the first manifest.
StartScan ==
    /\ pc = "wait"
    /\ pc' = "scan"
    /\ toScan' = OnDisk
    /\ UNCHANGED <<volume, events, queue, current, cloud, others>>

\* enqueue_manifest for one manifest of the scan.  No thread acts on what
\* lies between this thread's _known.add and its put, so they are one step.
ScanEnqueue(i) ==
    /\ pc = "scan"
    /\ i \in toScan
    /\ toScan' = toScan \ {i}
    /\ known' = known \cup {i}
    /\ pending' = IF i \in known THEN pending ELSE Append(pending, i)
    /\ UNCHANGED <<volume, events, arriving, pc, current, cloud, others>>

ScanDone ==
    /\ pc = "scan"
    /\ toScan = {}
    /\ pc' = "probe"
    /\ UNCHANGED <<volume, events, queue, toScan, current, cloud, others>>

(* The circuit breaker.  Its clock is not modelled: when a probe is due, and   *)
(* when the minute of an open circuit is over, is left open.                  *)

\* now < next_probe, or should_probe refuses.
NotDue ==
    /\ pc = "probe"
    /\ pc' = "wait"
    /\ UNCHANGED <<volume, events, queue, toScan, current, cloud, others>>

\* Mutated form: the open circuit is not dated, its minute is never over.
MinutePassesUndated == circuit = "open" /\ UNCHANGED vars

\* reset_seconds after it was opened the circuit is half open; should_probe
\* notes it at the next opportunity, and nothing looks at it before.
MinutePasses ==
    /\ circuit = "open"
    /\ circuit' = "half-open"
    /\ UNCHANGED <<volume, events, queue, toScan, pc, current, cloud, faults, failures>>

\* A failed probe: record(False).  A half-open circuit stays half open.
ProbeOffline ==
    /\ pc = "probe"
    /\ circuit # "open"
    /\ IF circuit = "half-open"
       THEN UNCHANGED breaker
       ELSE /\ failures' = failures + 1
            /\ circuit' = IF failures' >= FailureThreshold THEN "open" ELSE "closed"
    /\ pc' = "wait"
    /\ UNCHANGED <<volume, events, queue, toScan, current, cloud, faults>>

ProbeConnected ==
    /\ pc = "probe"
    /\ circuit # "open"
    /\ circuit' = "closed"
    /\ failures' = 0
    /\ pc' = "drain"
    /\ UNCHANGED <<volume, events, queue, toScan, current, cloud, faults>>

DrainEmpty ==
    /\ pc = "drain"
    /\ pending = <<>>
    /\ pc' = "wait"
    /\ UNCHANGED <<volume, events, queue, toScan, current, cloud, others>>

\* pending.get_nowait, then manifest.exists.
GetNext ==
    /\ pc = "drain"
    /\ pending # <<>>
    /\ current' = Head(pending)
    /\ pending' = Tail(pending)
    /\ pc' = IF Head(pending) \in OnDisk THEN "read" ELSE "forget"
    /\ UNCHANGED <<volume, events, known, arriving, toScan, cloud, others>>

-----------------------------------------------------------------------------
(* ImageUploader.upload, step by step.                                        *)

At(i, stage) == pc = stage /\ current = i

ReadManifest(i) ==
    /\ At(i, "read")
    /\ manifest[i] = "complete"
    /\ pc' = "enrich"
    /\ UNCHANGED <<volume, events, queue, toScan, current, cloud, others>>

\* The deviceInfo and location exchanges over MQTT (see CorrelatedClient).
RequestEnrichment(i) ==
    /\ At(i, "enrich")
    /\ pc' = "upload"
    /\ UNCHANGED <<volume, events, queue, toScan, current, cloud, others>>

\* Mutated form: an upload that failed does not stop the announcement.
UploadBlobUnchecked(i) ==
    /\ At(i, "upload")
    /\ blobs' \in {blobs, blobs \cup {i}}
    /\ pc' = "notify"
    /\ UNCHANGED <<volume, events, queue, toScan, current, notified, others>>

UploadBlob(i) ==
    /\ At(i, "upload")
    /\ i \in jpegs
    /\ blobs' = blobs \cup {i}
    /\ pc' = "notify"
    /\ UNCHANGED <<volume, events, queue, toScan, current, notified, others>>

SendImageUpload(i) ==
    /\ At(i, "notify")
    /\ notified' = notified \cup {i}
    /\ pc' = "unlinkImage"
    /\ UNCHANGED <<volume, events, queue, toScan, current, blobs, others>>

\* Mutated form: the JPEG is deleted once the blob is stored, before the send.
UnlinkImageEarly(i) ==
    /\ current = i
    /\ pc \in {"notify", "unlinkImage"}
    /\ jpegs' = jpegs \ {i}
    /\ pc' = IF pc = "notify" THEN pc ELSE "unlinkManifest"
    /\ UNCHANGED <<manifest, camera, events, queue, toScan, current, cloud, others>>

UnlinkImage(i) ==
    /\ At(i, "unlinkImage")
    /\ jpegs' = jpegs \ {i}
    /\ pc' = "unlinkManifest"
    /\ UNCHANGED <<manifest, camera, events, queue, toScan, current, cloud, others>>

\* Mutated form: the manifest is left on the volume.
UnlinkManifestSkipped(i) ==
    /\ At(i, "unlinkManifest")
    /\ pc' = "forget"
    /\ UNCHANGED <<volume, events, queue, toScan, current, cloud, others>>

UnlinkManifest(i) ==
    /\ At(i, "unlinkManifest")
    /\ manifest' = [manifest EXCEPT ![i] = "absent"]
    /\ pc' = "forget"
    /\ UNCHANGED <<jpegs, camera, events, queue, toScan, current, cloud, others>>

\* The manifest is truncated.
ManifestInvalid(i) ==
    /\ At(i, "read")
    /\ manifest[i] = "partial"
    /\ pc' = "failed"
    /\ UNCHANGED <<volume, events, queue, toScan, current, cloud, others>>

\* No answer on MQTT, a missing JPEG, the link or a cloud service gone.
RemoteFails(i) ==
    /\ current = i
    /\ pc \in {"enrich", "upload", "notify"}
    /\ pc' = "failed"
    /\ UNCHANGED <<volume, events, queue, toScan, current, cloud, others>>

\* The blob, or the message, was accepted although the client saw an error.
UploadBlobUnanswered(i) ==
    /\ At(i, "upload")
    /\ i \in jpegs
    /\ blobs' = blobs \cup {i}
    /\ pc' = "failed"
    /\ UNCHANGED <<volume, events, queue, toScan, current, notified, others>>

SendUnanswered(i) ==
    /\ At(i, "notify")
    /\ notified' = notified \cup {i}
    /\ pc' = "failed"
    /\ UNCHANGED <<volume, events, queue, toScan, current, blobs, others>>

\* Reading the manifest, or deleting a file, raises.
DiskFails(i) ==
    /\ current = i
    /\ pc \in {"read", "unlinkImage", "unlinkManifest"}
    /\ faults < MaxFaults
    /\ faults' = faults + 1
    /\ pc' = "failed"
    /\ UNCHANGED <<volume, events, queue, toScan, current, cloud, breaker>>

\* Mutated form: the failed manifest is not put back.
RequeueDropped ==
    /\ pc = "failed"
    /\ current' = NoImage
    /\ pc' = "wait"
    /\ UNCHANGED <<volume, events, queue, toScan, cloud, others>>

\* Mutated form: the failed manifest goes back to the front of the queue.
RequeueFirst ==
    /\ pc = "failed"
    /\ pending' = <<current>> \o pending
    /\ current' = NoImage
    /\ pc' = "wait"
    /\ UNCHANGED <<volume, events, known, arriving, toScan, cloud, others>>

\* The except branch: the manifest goes to the back, the round ends.
Requeue ==
    /\ pc = "failed"
    /\ pending' = Append(pending, current)
    /\ current' = NoImage
    /\ pc' = "wait"
    /\ UNCHANGED <<volume, events, known, arriving, toScan, cloud, others>>

\* The else branch: the manifest was uploaded, or no longer exists.
Forget ==
    /\ pc = "forget"
    /\ known' = known \ {current}
    /\ current' = NoImage
    /\ pc' = "drain"
    /\ UNCHANGED <<volume, events, pending, arriving, toScan, cloud, others>>

\* The pod restarts: memory is lost, the volume and the cloud remain.
Crash ==
    /\ faults < MaxFaults
    /\ faults' = faults + 1
    /\ pending' = <<>>
    /\ known' = {}
    /\ arriving' = NoImage
    /\ toScan' = {}
    /\ current' = NoImage
    /\ pc' = "wait"
    /\ circuit' = "closed"
    /\ failures' = 0
    /\ UNCHANGED <<volume, events, cloud>>

-----------------------------------------------------------------------------
CameraStep(i) == CaptureJpeg(i) \/ OpenManifest(i) \/ WriteManifest(i)
                   \/ PublishSendImage(i)

UploadStep(i) == ReadManifest(i) \/ RequestEnrichment(i) \/ UploadBlob(i)
                   \/ SendImageUpload(i) \/ UnlinkImage(i) \/ UnlinkManifest(i)

UploadError(i) == ManifestInvalid(i) \/ RemoteFails(i) \/ DiskFails(i)
                    \/ UploadBlobUnanswered(i) \/ SendUnanswered(i)

RunStep == \/ StartScan \/ ScanDone
           \/ \E i \in Images : ScanEnqueue(i)
           \/ NotDue \/ ProbeOffline \/ ProbeConnected
           \/ DrainEmpty \/ GetNext \/ Requeue \/ Forget

Next == \/ \E i \in Images : CameraStep(i)
        \/ \E i \in Images : HearEvent(i) \/ DropEvent(i)
        \/ PutArriving
        \/ MinutePasses
        \/ RunStep
        \/ \E i \in Images : UploadStep(i) \/ UploadError(i)
        \/ Crash

(* The two threads and the clock go on.  The link is up again and again when  *)
(* a probe runs, and an exchange with the outside that is tried again and     *)
(* again succeeds; nothing makes the camera go on or an event arrive.         *)
Fairness ==
    /\ WF_vars(PutArriving)
    /\ WF_vars(MinutePasses)
    /\ WF_vars(RunStep)
    /\ SF_vars(ProbeConnected)
    /\ \A i \in Images :
        /\ WF_vars(UploadStep(i) \/ UploadError(i))
        /\ SF_vars(RequestEnrichment(i))
        /\ SF_vars(UploadBlob(i))
        /\ SF_vars(SendImageUpload(i))

Spec == Init /\ [][Next]_vars

FairSpec == Spec /\ Fairness

-----------------------------------------------------------------------------
(* Properties.                                                                *)

\* Until Service Bus has accepted the ImageUpload message of a picture whose
\* manifest was completed, both its files stay on the volume, whatever fails
\* and wherever the pod is killed (lines 168-215, README.md:217 of
\* remote-cluster).
NoImageLost ==
    \A i \in Images : camera[i] \in {"written", "announced"}
                        => i \in notified \/ (i \in jpegs /\ manifest[i] = "complete")

\* A consumer of ImageUpload always finds the blob the message names: the
\* message is sent only after upload_blob, and a JPEG is never deleted first.
NotifiedHasBlob == notified \subseteq blobs

\* Two threads enqueue, one dequeues and puts back; a manifest is never queued
\* twice, and never queued while it is being uploaded (lines 150-155, 218-235).
QueuedOnce ==
    /\ IsInjective(pending)
    /\ {current, arriving} \cap ToSet(pending) = {}
    /\ current # NoImage => current # arriving

\* A manifest in _known is in the queue, on its way into it or being uploaded.
\* One that were only in _known would be skipped by every later scan and never
\* be uploaded before a restart.
KnownIsQueued ==
    known = (ToSet(pending) \cup {current, arriving}) \ {NoImage}

\* Every picture whose manifest was completed is announced to the cloud, in
\* spite of failed uploads, restarts, lost SendImage events and truncated
\* manifests ahead of it in the queue.
EventuallyNotified ==
    \A i \in Images : camera[i] = "written" ~> i \in notified

\* "After upload, it publishes ImageUpload to Service Bus and removes the local
\* image and manifest" (README.md:127 of the repository).
UploadedIsRemoved ==
    \A i \in Images : i \in notified ~> manifest[i] = "absent"

\* The same while no crash or disk error strikes: a send that has to be
\* repeated, or whose answer is lost, does not leave the files behind.
RemovedUnlessFaulty ==
    \A i \in Images : i \in notified ~> (manifest[i] = "absent" \/ faults > 0)
=============================================================================

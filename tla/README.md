# Verification of tactical-arc-demo

TLA+ models of the demo's own logic, the TLC runs that check them on small
instances, and TLAPS proofs of what matters most for instances of every size.
Paths below are relative to the repository.

## 1. The system

An edge cluster takes pictures and reports heartbeats; a cloud API shows them
and sends commands. Azure Service Bus lies between the two, Mosquitto between
the services of the edge, Cosmos DB and blob storage behind the API.

| Part | State it keeps | Operations | What makes it hard |
| --- | --- | --- | --- |
| camera-capture (`remote-cluster/apps/camera-capture/app.py`) | the message it holds; files on the shared volume | receive, parse, capture, write manifest, publish, complete / abandon / dead-letter | process exits between any two steps, redelivery, truncated manifests |
| image-uploader (`remote-cluster/apps/image-uploader/app.py`) | `pending`, `_known`, circuit breaker | scan, hear `SendImage`, upload, delete, put back | two threads, four outside systems per upload, crashes, poison manifests |
| correlated clients (`location_client.py`, `device_info_client.py`, in two apps) | event, answer, correlation id | `request`, `_on_message` | two threads without a common lock, late and duplicate responses |
| location-service | the location file | answer, apply an update, relay commands | completing before applying, restarts |
| device-service | none (reads a file) | answer | silence |
| edge-heartbeat | none | ask both services, send a heartbeat | skipped rounds |
| TakePictureSender, CaptureRequestStore | the list of requests, in memory | POST, list, mark | the consumer overtakes the POST, restarts |
| ServiceBusImageConsumer, ImageStore | the message it holds | validate, add, mark, complete | failures at each await, redelivery, late pictures |
| ServiceBusHeartbeatConsumer, HeartbeatStore | the message it holds | validate, record, complete | redelivery in another order |
| CosmosDeviceDocumentStore | one document per device | add heartbeat, add picture, queries | concurrent writers, bounded retries, trimming |
| UpdateLocationSender | none | POST | |
| `scripts/airgap.py` | staging directories, the bundle and its copy, the registry | download, validate, carry, upload | failing tools and killed commands, two downloads at once, damage on the way, reruns |
| web page, Terraform, Helm, shell scripts | | | configuration and rendering, not modelled |

Interactions: the API sends `TakePicture` to a session queue; camera-capture
answers by leaving a JPEG and a JSON manifest on a shared volume and publishing
`SendImage` on MQTT; image-uploader asks device-service and location-service
over MQTT, stores the blob, sends `ImageUpload` to a topic and deletes both
files; the API's image consumer adds the picture to the device's document, which
keeps only the newest ones, and marks the request. The other way round, a POSTed
location goes to the update-location session; location-service hands it over to
itself on MQTT and saves it; edge-heartbeat asks for it and reports it; the
API's heartbeat consumer writes it into the same document.

What must hold, per part: no finished picture is lost, and each is delivered in
the end (uploader, pipeline); a command is completed only for a picture and none
blocks its session (camera); an answer belongs to its question (clients); the
list of requests agrees with what happened (requests); no update of a document
is lost and the lists show the newest entries (store); the location shown is
the device's (heartbeats, location updates); probes that were suspended are
resumed (breaker); a bundle is whole or absent, and its chart is released last
(airgap). PROJECT.json lists the hazards
one by one, each at its line.

## 2. Modules

| Module | Models | Proofs |
| --- | --- | --- |
| `ImageUploader` | image-uploader with its circuit breaker, and its volume | `ImageUploaderProofs` |
| `CameraCapture` | camera-capture and the take-picture session | `CapturePipelineProofs` |
| `ImagePipeline` | both, composed | `CapturePipelineProofs` |
| `CorrelatedClient` | the MQTT request/response clients | `CorrelatedClientProofs` |
| `CaptureRequests` | POST, request list, image consumer | `CaptureRequestsProofs` |
| `CapturePipeline` | `ImagePipeline` and `CaptureRequests`, composed | `CapturePipelineProofs` |
| `DeviceDocuments` | what the document store promises (abstract) | `CosmosDeviceDocumentStoreProofs` |
| `CosmosDeviceDocumentStore` | how it keeps the promise (detailed) | `CosmosDeviceDocumentStoreProofs` |
| `LocationUpdates` | location-service, the update-location session, its file | `LocationUpdatesProofs` |
| `HeartbeatFlow` | edge-heartbeat, the topic, the heartbeat consumer, the location shown | `HeartbeatFlowProofs`, with the file's changes in `LocationUpdatesProofs` |
| `AirgapBundle` | the air-gap tool: download, the carried copy, upload | `AirgapBundleProofs` |

Each `MC*` module instantiates its namesake for TLC. Operators called "Mutated
form" are plausible bugs; none of them takes part in a specification. Each one
stands beside the definition it would replace, so that every property can be
seen to fail when the code is wrong.

### ImageUploader

`pending` and `known` are the fields of the class; `arriving` is the manifest
that the MQTT thread has added to `_known` and not yet put into the queue (the
lock covers only the first). `pc` follows the main thread: `wait`, `scan`,
`probe` (run), `drain` (process_pending), then one stage per step of `upload`:
`read`, `enrich`, `upload`, `notify`, `unlinkImage`, `unlinkManifest`. `failed`
is the `except` branch, `forget` the `else` branch. The main thread's own
`_known.add` and `put` are one step: nothing another thread does depends on the
moment between them. A scan takes a snapshot (`toScan`), as `glob` does.
`manifest[i]` tells a manifest being written, or truncated, from a whole one.
The camera is an environment that may stop after any step. An error after
`unlinkImage` has begun, a failing read of a whole manifest, a duplicate event
and a restart each use up one of `MaxFaults`; failures of the network and the
cloud do not, they may repeat for ever. A call may take effect although the
client sees an error (`UploadBlobUnanswered`, `SendUnanswered`). The circuit
breaker is part of the probe: `circuit` and `failures` are its fields, and
`ProbeOffline` and `ProbeConnected` are `record`. A half-open circuit ignores
failed probes and closes at the first that succeeds. Its clock is left open:
`NotDue` is a round without a probe, because the interval is not over or the
circuit is open, and `MinutePasses` is the end of `reset_seconds`, which
`should_probe` would notice at its next call; nothing reads the state before.
So the order of the breaker's steps is the code's, the lengths of the intervals
(5 s, 1 s, 60 s) are not modelled.

### CameraCapture and ImagePipeline

The head of `commands` is the message in hand while `step` is not `idle`. A
picture is named by its command and the delivery that took it, since `uuid4`
gives each attempt a fresh name. A settle call that raises, a lost session lock
and a killed pod all end the process (`Crash`); the message returns at the head
with its delivery counted. `Exhaust` and `Expire` are Service Bus's own
dead-lettering. In `ImagePipeline` the two services share `jpegs`, `manifest`,
`camera` and `events`; the uploader's own camera actions are replaced by the
real ones.

### CorrelatedClient

One action per statement of `request` that touches shared fields, against the
comparison, the store and the event of `_on_message`. All clients hear all
responses. Requests and responses may be lost, and responses delivered twice.

### CaptureRequests

`post` follows one POST, `consumer` the handler of the single concurrent call
of the processor. The edge is any number of pictures per accepted command. A
restart empties the list and keeps messages and documents. `documentImages` are
the pictures in the device's document, `recorded` those that were ever added to
it: a write keeps the newest `MaxImages` (`Trimmed`), so that a picture goes when
newer ones come, and one that comes late may be dropped by the write that adds
it. The list of requests is not trimmed with it, and a request goes on naming its
picture. `CapturedAt` is the camera's clock; pictures arrive in any order. The
requests are those of one device, since no step reads two documents. An uploader that
never had the answer to its send repeats it; the topic drops the copy for ten
minutes (`main.tf:70-76`), after which it is a second message
(`ImageUploadedAgain`). `Expire` is a message whose time to live is over.

### CapturePipeline

From the browser's POST to the picture in the document. The module extends
`ImagePipeline` and instantiates `CaptureRequests`, with the camera's commands
as requests and the camera's pictures as those of the messages. The two sides
share no variable; Service Bus joins them: a step of the edge lets a command
into the session only when the API's send of it was accepted (`EdgeStep`), and a
step of the cloud lets a message into the subscription only when the topic has
accepted the uploader's send of it (`CloudStep`). Delay between the two is any.
It has no run among those below: its states are the products of those of the
`pipeline` and `requests` runs, and its properties are proved instead, from what
is proved of each side.

### DeviceDocuments and CosmosDeviceDocumentStore

The document of one device, with its heartbeats, pictures, last heartbeat and
location. A picture is a natural number, its `capturedAt` (two pictures with
the same time would be ordered arbitrarily by the unstable sort, and are left
out). `NewestFirst` is what the sort returns: the one descending list of the
pictures. An ETag is a version number; 0 means that the item does not exist.
`history` and `recorded` record what was applied. Reads return the stored
version: a read of an older one would be refused at the write, like any race.

### LocationUpdates and HeartbeatFlow

`LocationUpdates` separates the two threads of location-service: `step` is the
main thread, whose command is the head of `commands`; `wire` holds what it has
published to itself over the broker; `saving` is the update in paho's thread.
`lost` holds the updates whose last published copy was destroyed by a broken
connection, a failed save or a crash (`Destroyed`); publishing an update again
takes it out, so that the loss of an abandoned delivery's copy excuses nothing
later. Updates carry numbers, so that "earlier" can be said of a location.

`HeartbeatFlow` takes location-service's file as an environment that only moves
forward (`FileUpdated`). That every change of the file by location-service is
such a step is a theorem about `LocationUpdates`
(`FileChangesAsHeartbeatsSuppose`), which composes the two without multiplying
their states; what holds of both with one file is proved in
`LocationUpdatesProofs`, as `Spec /\ Flow!Spec`. Answers come from the file;
what a correlated client may get wrong (`StaleOnlyWhenLate` in
`CorrelatedClient`) is `HearLateLocation`. The subscription hands messages out
in order, except those whose lock was lost. The location in the document is that
of the heartbeat applied last, which is `HeartbeatsAreLast` of
`DeviceDocuments`. The loop never ends: instead of heartbeats, the messages
under way are bounded (`MaxQueued`).

### AirgapBundle

One action per step of `download` and `upload`. A directory is its chart
package, its layouts and its manifest. An image layout is the source it was
copied from and whether it is whole, which abstracts checksums, digests and the
OCI format; that `validate_layout` notices every damage rests on SHA-256.
`stage[d]` is the directory that `mkdtemp` made for command `d`. A failing tool
runs the `finally` block (`Cleanup`); a killed command does not and leaves its
directory behind, where nothing looks at it again, since a rerun makes one with
a new name. `CheckAbsent` and `Rename` are two steps, and rename(2) refuses a
target that is another, non-empty directory (`RenameRefused`). `Carry` and
`CarryDamaged` are people; a copy is not replaced while an upload reads it,
which the tool does not enforce. A failed upload may have pushed what it was
pushing (`UploadFails`). One bundle and one registry are modelled: uploads of
different bundles to the same destinations would replace each other's images.

## 3. Runs

| Run | Instance | Shows |
| --- | --- | --- |
| `uploader` | 2 pictures, 1 fault, circuit opens at 2 failures, fair | nothing lost, no message without blob, queue and `_known` agree; every finished picture is announced, also behind a truncated manifest and after the circuit was open, and leaves the volume unless a fault struck |
| `uploader_poison` | 1 picture, 1 fault, fair | **violation**: a crash between the two deletions leaves a manifest for ever |
| `camera` | 3 commands (1 unsupported), 2 deliveries, fair | completed only for a picture, in order; each command is settled |
| `pipeline` | 1 command, 2 deliveries, no fault, circuit opens at 1 failure, fair | hand-over is safe; a completed command ends in an `ImageUpload` message; the composition implements `ImageUploader` |
| `clients` | 2 clients, 2 calls, 1 duplicate, fair | own answers only; stale ones need a failed call or a duplicate; `request` returns or raises |
| `client_stale` | 1 client, 2 calls | **violation**: a late response answers the next request |
| `requests` | 1 request, 3 pictures (1 refused), a document that keeps 1, 2 deliveries, 1 restart, fair | the list and the messages agree with what was added; an Uploaded request finds its picture unless a newer one displaced it; each message is settled |
| `requests_overtaken` | 1 request | **violation**: Uploaded becomes Queued again |
| `store` | 2 writers, 4 calls, 2 attempts | newest pictures, last heartbeats, honest failure; implements `DeviceDocuments` |
| `locations` | 3 updates (1 refused), 2 deliveries, fair | the location never falls back; a completed update is saved, or the copy published for its completion was destroyed; the service can start after every crash |
| `heartbeats` | 2 locations, 2 messages, 2 deliveries, fair, endless | the location shown falls back only by a redelivered heartbeat or a late answer, and settles on the device's |
| `airgap` | 2 downloads with one `--bundle`, 2 uploads, 3 image lists (1 refused), 2 faults, fair | a bundle appears once and whole; the chart follows all images; reruns release it in the end |

Safety and liveness of a part are checked in one run, so no symmetry is used.
The bounds are the smallest at which the interesting cases occur: a picture
queued behind one that fails for ever (2 pictures); a delivery that fails and
one that succeeds (2 deliveries); a response that is late for one call and
arrives in the next (2 calls); a message whose picture is added, that fails to
complete and comes again after a restart (2 deliveries, 1 restart); a picture
displaced by a newer one, and an older one that comes late and is trimmed by its
own write (1 kept of 2 valid ones); a circuit that counts one failure and opens
at the next (threshold 2, the code has 5); a second download between another's
check and its rename (2 downloads); a killed download followed by a damaged copy
or by an upload that fails halfway (2 faults, 2 uploads); a call that is
overtaken as often as it may be while another writer makes two calls (4 calls, 2
attempts where the code has 5); a list one shorter than the pictures (2 of 3).
The uploader and the heartbeats never stop; the other parts have bounded inputs
and may stop when these are used up, so their runs do not check for deadlock:
that they stop only then is what their liveness properties say.

### Fairness

Threads that exist keep running (weak fairness of the uploader's two threads,
the camera's loop, the client's caller, the consumer). The link is up at some
probe again and again, and a remote exchange that is tried again and again
succeeds (strong fairness of `ProbeConnected`, `RequestEnrichment`,
`UploadBlob`, `SendImageUpload` per picture): without it nothing can be
promised about delivery. Nothing is assumed about the camera's success, the
arrival of events, commands, updates or responses, except in `HeartbeatFlow`:
there each exchange of the endless loop (both requests, the answer, the send,
the receipt, the recording) succeeds again and again, since a device whose
heartbeats never arrive has no location to show. Service Bus hands out each message
again and again until it is settled, and dead-letters it when it has been
handed out too often. The minute of an open circuit ends. In `AirgapBundle` the
tools end, a failed or killed command is run again and a copy that does not
validate is carried again, as scripts/README.md:110 asks; faults are bounded, so
that this succeeds in the end.

## 4. Findings

1. `uploader_poison`: `app.py:214-215` deletes the JPEG before the manifest; a
   crash in between leaves a manifest that fails for ever. (README.md:127)
2. `client_stale`: `location_client.py:57-62` compares and stores without the
   lock; the same code is in `device_info_client.py`. (location_client.py:1)
3. `requests_overtaken`: `TakePictureSender.cs:52-53` lists the request after
   the send, and `CaptureRequestStore.cs:14` overwrites.
   (cloud-cluster/README.md:59)

Met while reading, not runs: `CosmosDeviceDocumentStore.cs:188` is never
reached, since the filter at line 182 lets the fifth refusal through as it is.
`location-service/app.py:238` completes an update that only the local broker
holds; `CompletedIsApplied` says that a completed update is missing only when the
copy published for its completion was destroyed. An Uploaded request whose
picture has left the document goes on offering it, and the page finds nothing
(`index.html:215-217`); no doc promises otherwise.

## 5. Proofs

Each theorem holds for every value of the constants that meets the assumptions
its module names: sets are arbitrary, bounds are numbers, and nothing is assumed
that the code or Service Bus does not fix.

### The picture's way

`ImageUploaderProofs` proves `TypeOK`, `NoImageLost`, `NotifiedHasBlob`,
`QueuedOnce` and `KnownIsQueued` for any set of pictures and any `MaxFaults`,
from `NoImageAssumption`, `MaxFaultsAssumption` and
`FailureThresholdAssumption`; and that the circuit is closed exactly below the
threshold (`OpensAtThreshold`), so that no failure of an earlier outage is left
over. None of the five is inductive alone: that the JPEG is deleted only after
the send needs what each stage of `upload` knows of its manifest
(`StageFacts`), and that a manifest reads as whole only when the camera is done
and the JPEG is there (`CameraFacts`). The queue's part rests on two lemmas
about sequences without duplicates (`AppendLemma`, `TailLemma`) and on `current`
being a manifest exactly while it is being handled.

`CapturePipelineProofs` goes from the camera to the whole way, in three parts.

*The camera.* `TypeOK`, `CompletedHasImage` and `SessionOrder` hold for any
commands and any delivery count (`SupportedAssumption`,
`MaxDeliveryAssumption`). Neither property survives a step alone: `QueueInv`
says that the session holds each unsettled command once, and `ShotInv` what the
loop's place says of the picture under way, and that every picture is of a
supported command and of no later delivery than its last. `Core` leaves out what
the uploader changes on the volume, so that it can be used in the compositions.

*The pipeline.* The two services on one volume implement `ImageUploader`
(`PipelineRefinesUploader`). No invariant is proved twice: the uploader's steps
leave the variables of `Core` alone (`UploaderLeavesCamera`), so `Core` holds
(`CameraInvariance`); with it each step of the real camera is one of the
camera's steps in `ImageUploader` or leaves the uploader's variables alone
(`CameraStepsAllowed`), which is the refinement; through it all that is proved of
the uploader holds of the real camera's files (`UploaderInvariance`), and with
`CompletedHasImage` gives `CompletedIsSafe`. `UploaderAssumption` repeats the
assumptions of the uploader's module.

*Edge and cloud.* Each side of `CapturePipeline` is the one checked alone: the
edge's part of every step is a step of `PipelineSpec` (`EdgeAloneIsPipeline`),
the cloud's part one of `CaptureRequests` (`CloudInvariance`), so both
invariants hold at once. What joins them is `Joined`: commands in the session
were accepted, messages in the cloud were announced, and neither is ever taken
back (`NotifiedGrows`). Reading the way backwards from a picture that was added
to the document (`WayBack`) needs a fact of each part in turn, and three of them
were added for it: such a picture has a message (`AcceptedFirst`), a stored blob
is of a picture the camera finished (`CameraFacts`), and a picture is of a
supported command (`ShotInv`). The results are the system's promises from end to
end:
- `ShownPicturesAreStored`: a request shown as Uploaded names a picture that was
  taken for this request, has its blob in storage and was added to the document;
  it is there still unless `MaxImages` pictures not older than it are, and then
  the page does not find it;
- `RecordedPicturesAreGenuine`: no picture was added to the document but by the
  whole way, for a command that was accepted and supported;
- `CompletedPicturesArrive`: when a command is completed its picture is on the
  volume with its manifest, or stored and announced, and that message is
  completed only when the picture was added to the document.

`CloudLimits` is their hypothesis: the limits of `CaptureRequests` are positive
numbers, the refused pictures are pictures, and each has a capture time; as an
instance takes over no assumption, the theorems say so. The first lemmas of the
last two parts (`SameUploader`, `SameCloud`, with `SameCardinality` under it)
say that an instance used by the specification and the one that comes with the
proofs are the same.

`CaptureRequestsProofs` proves `TypeOK`, `ListedWasSent`,
`UploadedUnlessDisplaced`, `CompletedIsRecorded` and the action property
`UploadedIsFinal` for any requests, pictures, capture times, deliveries,
restarts and length of the document's list. They become inductive with three
facts: a POST goes on, and pictures come, only for accepted commands
(`AcceptedFirst`); the handler holds a queued message whose picture was added,
from `mark` on (`HeldInv`); and every picture ever added is in the document or
displaced, in a list of at most `MaxImages` (`DocumentInv`). The last is the
argument about trimming, `AddKeepsDocument`: what a write drops is displaced by
what it keeps, and what was displaced stays so, when newer pictures come or an
old one is added again. `UploadedIsFinal` holds although a message may be sent,
and its picture added, once more at any time.

`CosmosDeviceDocumentStoreProofs` proves that the store implements
`DeviceDocuments` (`Implements`) and that it gives up only when overtaken
(`GivesUpLate`), for any number of writers, calls and attempts. The invariant is
that a copy whose version is still the stored one equals the stored document
with the call's update (`CopyInv`); with it an accepted write is the abstract
`Apply`, and every other step changes nothing abstract. What the document then
contains, `ImagesAreNewest` and `HeartbeatsAreLast`, holds for any limits
(`DocumentInv`). It needs that the sort always has a result (`SortedExists`): a
finite set of numbers has a descending list. The library's rule of induction
takes an operator as a parameter and cannot be used, so the lemma takes a
smallest set for which it would fail (`LeastNatural`, from the well-foundedness
of `<`) and removes its least element. `AddImageKeepsNewest` is the argument about
trimming: what is dropped is older than all that is kept, and stays so when
newer pictures come.

### The location's way

`LocationUpdatesProofs` proves `TypeOK` and `NeverBack` for any number of
updates and deliveries. `InOrder` makes it inductive: commands rise, published
copies do not fall and are no newer than the head of the queue, the update
being saved comes before them all, and the file before that.

`FileChangesAsHeartbeatsSuppose` discharges what the heartbeats suppose of their
environment: every change of the file is one to a later update.

`HeartbeatFlowProofs` proves `TypeOK` and `BackOnlyIfLate`, for any number of
locations, messages and hand-outs. The invariant `Inv` orders all places a
location passes on its way: at most one message is held (`OneHeld`); messages
are handed out for the first time in the order they were sent (`FirstInOrder`);
and, but for late answers, the location shown, the heartbeats not yet handed
out, the reading, the answer and the file do not fall in that order
(`PlacesInOrder`). A heartbeat that is recorded for the first time is `Fresh`,
so the location shown is no later than its own.

The two meet in `LocationUpdatesProofs`, which instantiates `HeartbeatFlow` over
its updates and with its file. No step of the flow makes a location up
(`PlacesFromFile`): each place holds a location that was in another, or in the
file. No refused update comes past `parse_request` into the file
(`NoneRefused`), and none that was not sent (`InOrder`). Together:
`ShownIsSentUpdate`, the location that the cloud shows is the installed one or
that of an update which the API sent and the device accepted. `FlowLimits` is
the hypothesis that `MaxQueued` and `MaxHandOuts` are positive.

`CorrelatedClientProofs` proves `TypeOK`, `OwnAnswers` and `StaleOnlyWhenLate`
for any clients, calls and duplicates. `OnlyOwn` is the filter of the callback.
`Orderly` is what the second needs: as long as no call of a client failed and no
response came twice, nothing of it is on its way outside `wait`, and in `wait`
its current id is in one place only: request, response, callback or answer
(`Awaited`). So the missing lock between the comparison and the store does no
harm before a call fails; after one it does (`client_stale`).

### The air-gap tool

`AirgapBundleProofs` proves `AppearsOnceWhole` and `ChartAfterImages` for any
number of commands, any image lists and any number of faults: of the lists they
need nothing, since what `validate_bundle` checks is enough. `StageFacts`
carries what each step of `download` knows of its directory up to the rename, so
that the bundle is `Whole`. A damaged copy does not validate
(`DamagedIsInvalid`), hence a copy that does is the bundle (`CopyFacts`), and
since no two images share a destination a push leaves the earlier ones in place
(`PushKeepsOthers`): `RegistryFacts` then holds from the first image to the
chart, also when uploads run side by side. `TypeOK` needs that the lists are
lists of images (`ListsAssumption`) and what `unique_images` returns
(`UniqueAreImages`). The loop is a recursive function; that it has a value at
every place, of the right type, are two inductions with a set in the place of
the predicate (`PlacesInduction`).

### Only model-checked

- Every liveness property (`EventuallyNotified`, `RemovedUnlessFaulty`,
  `EverySentSettled`, `CompletedIsNotified`, `RequestsEnd`,
  `EveryMessageSettled`, `CompletedIsApplied`, `StartsAgain`,
  `LocationSettles`, `EventuallyReleased`): the provers have no rules for
  fairness.
- The three findings, which are counterexamples.

Every invariant and action property, and each refinement, that a passing run
checks is also a theorem. The other way round, the properties of
`CapturePipeline` and `ShownIsSentUpdate` are theorems only.

## 6. Plan and what is not modelled

Done: the picture's way from the POST to the document, the location's way from
the POST to the file and on to the location shown, the circuit breaker, the
air-gap tool, and the proofs of their safety, alone and joined. What is left:

1. Lemmas that join the remaining parts' theorems: the heartbeat applied last in
   `DeviceDocuments` and the location shown in `HeartbeatFlow`; late answers in
   `CorrelatedClient` and `HearLateLocation`.
2. Liveness from end to end: a request that is completed at the edge is shown as
   Uploaded unless the API is restarted or its message is refused or expires.

Not modelled:

- the lengths of the breaker's intervals (see ImageUploader);
- the read endpoints and `BlobImageReader` (they change nothing), the web page
  (it polls and renders), the models of the API (records without behaviour);
- device-service's file and all start-up configuration: read once, then
  constant;
- Terraform, Helm and shell: what they fix (queues, delivery counts, sessions,
  one replica, the shared volume) is taken over by the modules;
- the wording and layout of messages, logs and files.

---------------------------- MODULE CameraCapture ----------------------------
(* The camera-capture service (remote-cluster/apps/camera-capture/app.py) and *)
(* the session of the take-picture queue it serves.                           *)
(*                                                                            *)
(* Service Bus delivers the commands of one device in order, one at a time,   *)
(* and a command it has handed out again and again without an answer goes to  *)
(* the dead-letter queue (infra/modules/messaging/main.tf).  The service      *)
(* answers a command by taking a picture: it renames the JPEG into place,     *)
(* writes the manifest, publishes SendImage, and only then completes the      *)
(* message.  Each attempt names its picture afresh (uuid4), so a picture is   *)
(* identified here by its command and the delivery that took it.  A settle    *)
(* call that raises (the session lock is never renewed) ends the process:     *)
(* that, too, is Crash.                                                       *)
EXTENDS Integers, Sequences, FiniteSets, SequencesExt

CONSTANTS
    Commands,      \* the messages sent to this device's session
    Supported,     \* those that parse_take_picture accepts
    MaxDelivery    \* max_delivery_count of the queue

ASSUME SupportedAssumption   == Supported \subseteq Commands
ASSUME MaxDeliveryAssumption == MaxDelivery \in Nat \ {0}

VARIABLES
    commands,    \* the session's messages, a FIFO; a locked one stays its head
    deliveries,  \* how often each message was handed out
    settled,     \* settled[c]: "no" (or not sent), "completed" or "dead"
    sent,        \* the commands sent so far
    step,        \* where the main loop is; its message is Head(commands)
    jpegs, manifest, camera, events      \* as in ImageUploader

session == <<commands, deliveries, settled, sent>>
volume  == <<jpegs, manifest, camera>>
vars    == <<session, step, volume, events>>

Images == Commands \X (1..MaxDelivery)

Handling == {"capture", "openManifest", "writeManifest", "publish"}

TypeOK ==
    /\ commands \in Seq(Commands)
    /\ deliveries \in [Commands -> 0..MaxDelivery]
    /\ settled \in [Commands -> {"no", "completed", "dead"}]
    /\ sent \subseteq Commands
    /\ step \in {"idle", "parse", "abandon", "complete"} \cup Handling
    /\ jpegs \subseteq Images
    /\ manifest \in [Images -> {"absent", "partial", "complete"}]
    /\ camera \in [Images -> {"none", "jpeg", "opened", "written", "announced"}]
    /\ events \subseteq Images

Init ==
    /\ commands = <<>>
    /\ deliveries = [c \in Commands |-> 0]
    /\ settled = [c \in Commands |-> "no"]
    /\ sent = {}
    /\ step = "idle"
    /\ jpegs = {}
    /\ manifest = [i \in Images |-> "absent"]
    /\ camera = [i \in Images |-> "none"]
    /\ events = {}

-----------------------------------------------------------------------------
(* The take-picture queue.                                                    *)

Send(c) ==
    /\ c \notin sent
    /\ sent' = sent \cup {c}
    /\ commands' = Append(commands, c)
    /\ UNCHANGED <<deliveries, settled, step, volume, events>>

\* The queue's own dead-lettering: the message outlived its time to live, or
\* was handed out as often as it may be.  A locked message is left alone.
Expire(i) ==
    /\ step = "idle" \/ i # 1
    /\ commands' = RemoveAt(commands, i)
    /\ settled' = [settled EXCEPT ![commands[i]] = "dead"]
    /\ UNCHANGED <<deliveries, sent, step, volume, events>>

Exhaust ==
    /\ step = "idle"
    /\ commands # <<>>
    /\ deliveries[Head(commands)] = MaxDelivery
    /\ commands' = Tail(commands)
    /\ settled' = [settled EXCEPT ![Head(commands)] = "dead"]
    /\ UNCHANGED <<deliveries, sent, step, volume, events>>

-----------------------------------------------------------------------------
(* The main loop.                                                             *)

\* The delivery in progress and the picture it takes.
Command == Head(commands)
Shot    == <<Command, deliveries[Command]>>

\* Mutated form: the broker hands a message out without end.
ReceiveUnbounded ==
    /\ step = "idle"
    /\ commands # <<>>
    /\ deliveries' = [deliveries EXCEPT ![Command] = @ + 1]
    /\ step' = "parse"
    /\ UNCHANGED <<commands, settled, sent, volume, events>>

Receive ==
    /\ step = "idle"
    /\ commands # <<>>
    /\ deliveries[Command] < MaxDelivery
    /\ deliveries' = [deliveries EXCEPT ![Command] = @ + 1]
    /\ step' = "parse"
    /\ UNCHANGED <<commands, settled, sent, volume, events>>

\* Not a TakePicture of this device with a GUID: no retry would help.
DeadLetter ==
    /\ step = "parse"
    /\ Command \notin Supported
    /\ commands' = Tail(commands)
    /\ settled' = [settled EXCEPT ![Command] = "dead"]
    /\ step' = "idle"
    /\ UNCHANGED <<deliveries, sent, volume, events>>

Accept ==
    /\ step = "parse"
    /\ Command \in Supported
    /\ step' = "capture"
    /\ UNCHANGED <<session, volume, events>>

Capture ==
    /\ step = "capture"
    /\ jpegs' = jpegs \cup {Shot}
    /\ camera' = [camera EXCEPT ![Shot] = "jpeg"]
    /\ step' = "openManifest"
    /\ UNCHANGED <<session, manifest, events>>

OpenManifest ==
    /\ step = "openManifest"
    /\ manifest' = [manifest EXCEPT ![Shot] = "partial"]
    /\ camera' = [camera EXCEPT ![Shot] = "opened"]
    /\ step' = "writeManifest"
    /\ UNCHANGED <<session, jpegs, events>>

\* Mutated form: a short write goes unnoticed.
WriteManifestShort ==
    /\ step = "writeManifest"
    /\ camera' = [camera EXCEPT ![Shot] = "written"]
    /\ step' = "publish"
    /\ UNCHANGED <<session, jpegs, manifest, events>>

WriteManifest ==
    /\ step = "writeManifest"
    /\ manifest' = [manifest EXCEPT ![Shot] = "complete"]
    /\ camera' = [camera EXCEPT ![Shot] = "written"]
    /\ step' = "publish"
    /\ UNCHANGED <<session, jpegs, events>>

\* paho queues the event even when the publish fails (the client is not
\* connected): it may still arrive.
Announce ==
    /\ step = "publish"
    /\ events' = events \cup {Shot}
    /\ camera' = [camera EXCEPT ![Shot] = "announced"]
    /\ step' \in {"complete", "abandon"}
    /\ UNCHANGED <<session, jpegs, manifest>>

\* Mutated form: the handler's exception is logged and the message completed.
HandleFailsQuietly ==
    /\ step \in Handling
    /\ step' = "complete"
    /\ UNCHANGED <<session, volume, events>>

\* handle_command raises: no camera, no frame, a full disk, a failed publish.
HandleFails ==
    /\ step \in Handling
    /\ step' = "abandon"
    /\ UNCHANGED <<session, volume, events>>

\* Mutated form: the message stays locked and the next one is received.
AbandonForgotten ==
    /\ step = "abandon"
    /\ commands' = Append(Tail(commands), Command)
    /\ step' = "idle"
    /\ UNCHANGED <<deliveries, settled, sent, volume, events>>

\* Mutated form: a fresh copy of the command is sent in its place.
AbandonByResend ==
    /\ step = "abandon"
    /\ deliveries' = [deliveries EXCEPT ![Command] = 0]
    /\ step' = "idle"
    /\ UNCHANGED <<commands, settled, sent, volume, events>>

Abandon ==
    /\ step = "abandon"
    /\ step' = "idle"
    /\ UNCHANGED <<session, volume, events>>

Complete ==
    /\ step = "complete"
    /\ commands' = Tail(commands)
    /\ settled' = [settled EXCEPT ![Command] = "completed"]
    /\ step' = "idle"
    /\ UNCHANGED <<deliveries, sent, volume, events>>

\* The process ends at any point; the lock expires and the message returns.
Crash ==
    /\ step # "idle"
    /\ step' = "idle"
    /\ UNCHANGED <<session, volume, events>>

-----------------------------------------------------------------------------
Queue == (\E c \in Commands : Send(c)) \/ (\E i \in DOMAIN commands : Expire(i)) \/ Exhaust

Loop == Receive \/ DeadLetter \/ Accept \/ Capture \/ OpenManifest
          \/ WriteManifest \/ Announce \/ HandleFails \/ Abandon \/ Complete

Next == Queue \/ Loop \/ Crash

\* The service keeps running, and Service Bus counts deliveries; that any
\* picture succeeds, or that no command expires, is not assumed.
Fairness == WF_vars(Loop) /\ WF_vars(Exhaust)

Spec == Init /\ [][Next]_vars

FairSpec == Spec /\ Fairness

-----------------------------------------------------------------------------
(* Properties.                                                                *)

\* A command is completed only for a picture that lies on the volume with its
\* whole manifest and was announced: completing comes after every step that
\* can fail, and a failure on any earlier delivery does not count (lines
\* 185-191).
CompletedHasImage ==
    \A c \in Commands : settled[c] = "completed"
        => /\ c \in Supported
           /\ camera[<<c, deliveries[c]>>] = "announced"

\* Commands are served in the order of the session: no picture is taken for a
\* command while an earlier one can still be delivered again.
SessionOrder ==
    \A i \in Images : camera[i] # "none"
        => settled[i[1]] # "no" \/ (commands # <<>> /\ i[1] = Head(commands))

\* Every command is completed or dead-lettered, however often the camera, the
\* disk or the process fails: none blocks its session for ever.
EverySentSettled ==
    \A c \in Commands : c \in sent ~> settled[c] # "no"
=============================================================================

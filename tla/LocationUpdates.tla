--------------------------- MODULE LocationUpdates ---------------------------
(* location-service (remote-cluster/apps/location-service/app.py), the        *)
(* session of the update-location queue that it serves, and the API's POST    *)
(* that fills it (UpdateLocationSender.cs).                                   *)
(*                                                                            *)
(* The service's main thread hands each command on to MQTT, on a topic that   *)
(* the service itself subscribes to, and completes it; paho's thread hears    *)
(* the update and saves it to the location file, later.  Between the two an   *)
(* update exists only at the broker, whose session with this client is clean: *)
(* it is gone when the connection breaks or the process ends.                 *)
(*                                                                            *)
(* Commands are numbered in the order of the session.  The location file is   *)
(* known by the number of the update it came from; 0 is the location it was   *)
(* installed with.  An update that MQTT delivers twice is saved twice in a    *)
(* row and leaves the same file: that is left out, and so are updates that    *)
(* other clients of the broker might publish.                                 *)
EXTENDS Integers, Sequences, SequencesExt

CONSTANTS
    NumUpdates,    \* how many updates the API sends
    Refused,       \* those that parse_request refuses (not sent by the API)
    MaxDelivery    \* max_delivery_count of the queue

Updates == 1..NumUpdates
Torn    == -1      \* a location file that cannot be read
None    == -2

ASSUME UpdatesAssumption     == NumUpdates \in Nat /\ Refused \subseteq Updates
ASSUME MaxDeliveryAssumption == MaxDelivery \in Nat \ {0}

VARIABLES
    commands,     \* the session's messages, a FIFO; a locked one stays its head
    deliveries,   \* how often each message was handed out
    settled,      \* settled[u]: "no" (or not sent), "completed" or "dead"
    sent,         \* how many updates were sent
    step,         \* where the main thread is; its message is Head(commands)
    wire,         \* updates published on MQTT and not yet heard
    saving,       \* the update paho's thread is saving, or None
    file,         \* the location file
    lost          \* updates whose last copy was destroyed, and which were not
                  \* published since

session == <<commands, deliveries, settled, sent>>
network == <<wire, saving, file, lost>>
vars    == <<session, step, network>>

TypeOK ==
    /\ commands \in Seq(Updates)
    /\ deliveries \in [Updates -> 0..MaxDelivery]
    /\ settled \in [Updates -> {"no", "completed", "dead"}]
    /\ sent \in 0..NumUpdates
    /\ step \in {"down", "idle", "parse", "publish", "complete", "abandon"}
    /\ wire \in Seq(Updates)
    /\ saving \in Updates \cup {None}
    /\ file \in 0..NumUpdates \cup {Torn}
    /\ lost \subseteq Updates

Init ==
    /\ commands = <<>>
    /\ deliveries = [u \in Updates |-> 0]
    /\ settled = [u \in Updates |-> "no"]
    /\ sent = 0
    /\ step = "down"
    /\ wire = <<>>
    /\ saving = None
    /\ file = 0
    /\ lost = {}

\* Updates of which a published copy is on its way to the file, and those of
\* which a step destroys the last such copy.
Published == ToSet(wire) \cup ({saving} \ {None})
Destroyed == Published \ Published'

-----------------------------------------------------------------------------
(* The API and the update-location queue.                                     *)

Send ==
    /\ sent < NumUpdates
    /\ sent' = sent + 1
    /\ commands' = Append(commands, sent + 1)
    /\ UNCHANGED <<deliveries, settled, step, network>>

Held == step \notin {"down", "idle"}

\* The queue's own dead-lettering; a locked message is left alone.
Expire(i) ==
    /\ ~(Held /\ i = 1)
    /\ commands' = RemoveAt(commands, i)
    /\ settled' = [settled EXCEPT ![commands[i]] = "dead"]
    /\ UNCHANGED <<deliveries, sent, step, network>>

Exhaust ==
    /\ ~Held
    /\ commands # <<>>
    /\ deliveries[Head(commands)] = MaxDelivery
    /\ commands' = Tail(commands)
    /\ settled' = [settled EXCEPT ![Head(commands)] = "dead"]
    /\ UNCHANGED <<deliveries, sent, step, network>>

-----------------------------------------------------------------------------
(* The main thread.                                                           *)

Command == Head(commands)

\* The service starts only with a location file that it can read.
Start ==
    /\ step = "down"
    /\ file # Torn
    /\ step' = "idle"
    /\ UNCHANGED <<session, network>>

\* Mutated form: the broker hands a message out without end.
ReceiveUnbounded ==
    /\ step = "idle"
    /\ commands # <<>>
    /\ deliveries' = [deliveries EXCEPT ![Command] = @ + 1]
    /\ step' = "parse"
    /\ UNCHANGED <<commands, settled, sent, network>>

Receive ==
    /\ step = "idle"
    /\ commands # <<>>
    /\ deliveries[Command] < MaxDelivery
    /\ deliveries' = [deliveries EXCEPT ![Command] = @ + 1]
    /\ step' = "parse"
    /\ UNCHANGED <<commands, settled, sent, network>>

DeadLetter ==
    /\ step = "parse"
    /\ Command \in Refused
    /\ commands' = Tail(commands)
    /\ settled' = [settled EXCEPT ![Command] = "dead"]
    /\ step' = "idle"
    /\ UNCHANGED <<deliveries, sent, network>>

Accept ==
    /\ step = "parse"
    /\ Command \notin Refused
    /\ step' = "publish"
    /\ UNCHANGED <<session, network>>

\* wait_for_publish returns after ten seconds, acknowledged or not; a publish
\* that is reported as failed stays in paho's queue.
Publish ==
    /\ step = "publish"
    /\ wire' = Append(wire, Command)
    /\ lost' = lost \ {Command}
    /\ step' \in {"complete", "abandon"}
    /\ UNCHANGED <<session, saving, file>>

\* Mutated form: the message is deferred, and the next one served first.
AbandonToTheEnd ==
    /\ step = "abandon"
    /\ commands' = Append(Tail(commands), Command)
    /\ step' = "idle"
    /\ UNCHANGED <<deliveries, settled, sent, network>>

Abandon ==
    /\ step = "abandon"
    /\ step' = "idle"
    /\ UNCHANGED <<session, network>>

Complete ==
    /\ step = "complete"
    /\ commands' = Tail(commands)
    /\ settled' = [settled EXCEPT ![Command] = "completed"]
    /\ step' = "idle"
    /\ UNCHANGED <<deliveries, sent, network>>

-----------------------------------------------------------------------------
(* paho's thread: on_message.                                                 *)

\* Mutated form: an update heard while the main thread publishes is ignored.
HearUpdateIfIdle ==
    /\ step # "down"
    /\ saving = None
    /\ wire # <<>>
    /\ saving' = IF step = "idle" THEN Head(wire) ELSE None
    /\ wire' = Tail(wire)
    /\ UNCHANGED <<session, step, file, lost>>

HearUpdate ==
    /\ step # "down"
    /\ saving = None
    /\ wire # <<>>
    /\ saving' = Head(wire)
    /\ wire' = Tail(wire)
    /\ UNCHANGED <<session, step, file, lost>>

\* Mutated form: the file is rewritten in place.
SaveInPlace ==
    /\ saving # None
    /\ \/ file' = saving /\ saving' = None
       \/ file' = Torn /\ UNCHANGED saving
    /\ UNCHANGED <<session, step, wire, lost>>

\* The temporary file is renamed over the old one.
SaveLocation ==
    /\ saving # None
    /\ file' = saving
    /\ saving' = None
    /\ UNCHANGED <<session, step, wire, lost>>

\* apply_update answers "rejected": nobody waits for that answer.
SaveFails ==
    /\ saving # None
    /\ saving' = None
    /\ UNCHANGED <<session, step, wire, file>>
    /\ lost' = lost \cup Destroyed

\* The connection breaks: what the broker held for this client is dropped.
Lose ==
    /\ wire # <<>>
    /\ wire' = Tail(wire)
    /\ UNCHANGED <<session, step, saving, file>>
    /\ lost' = lost \cup Destroyed

\* The process ends at any point: killed, or a settle call or wait_for_publish
\* raised.  The message in hand returns to its queue.
Crash ==
    /\ step # "down"
    /\ step' = "down"
    /\ wire' = <<>>
    /\ saving' = None
    /\ lost' = lost \cup Destroyed
    /\ UNCHANGED <<session, file>>

-----------------------------------------------------------------------------
Queue == Send \/ Exhaust \/ \E i \in DOMAIN commands : Expire(i)

Commands == Receive \/ DeadLetter \/ Accept \/ Publish \/ Abandon \/ Complete

OnMessage == HearUpdate \/ SaveLocation \/ SaveFails

Next == Queue \/ Start \/ Commands \/ OnMessage \/ Lose \/ Crash

\* The service is restarted when it ends, and its two threads keep running;
\* that it stays up, or that any update arrives, is not assumed.
Fairness ==
    /\ WF_vars(Start)
    /\ WF_vars(Commands)
    /\ WF_vars(OnMessage)
    /\ WF_vars(Exhaust)

Spec == Init /\ [][Next]_vars

FairSpec == Spec /\ Fairness

-----------------------------------------------------------------------------
(* Properties.                                                                *)

\* The location of the device never falls back to an earlier update, although
\* commands are handed out and published again after each failure (lines
\* 231-240): the session keeps its order and each thread works in order.
NeverBack == [][file' >= file]_vars

\* A completed update reaches the file, or a later one does, unless the copy that
\* was published for the delivery that completed it was destroyed on its way, by a
\* broken connection, a failed save or the end of the process (line 238 completes
\* what only the broker holds; remote-cluster/README.md:183).  A copy that was
\* destroyed before that publish, in an abandoned delivery, is no excuse.
CompletedIsApplied ==
    \A u \in Updates :
        settled[u] = "completed" ~> (file >= u \/ u \in lost)

\* No crash leaves a file that the service cannot start with (lines 62-69).
StartsAgain == step = "down" ~> step # "down"
=============================================================================

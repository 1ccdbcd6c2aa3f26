---------------------------- MODULE HeartbeatFlow ----------------------------
(* A device's heartbeats, from edge-heartbeat                                 *)
(* (remote-cluster/apps/edge-heartbeat/app.py) over the edge-heartbeat topic  *)
(* to the API's consumer (ServiceBusHeartbeatConsumer.cs, HeartbeatStore.cs)  *)
(* and the location shown for the device.                                     *)
(*                                                                            *)
(* A heartbeat carries the location that location-service answered with; of   *)
(* the document only the location is kept here, since DeviceDocuments says    *)
(* that the heartbeat applied last determines it.  Service Bus hands messages *)
(* out in the order they were sent, except that a message whose receiver      *)
(* vanished becomes available again only when its lock expires.               *)
EXTENDS Integers, Sequences, SequencesExt

CONSTANTS
    Locations,      \* the locations the device may have, numbers
    MaxQueued,      \* bound: messages of the subscription at one time
    MaxHandOuts     \* max_delivery_count of the subscription

None == -2

ASSUME LocationsAssumption   == Locations \subseteq Nat /\ 0 \in Locations
ASSUME MaxQueuedAssumption   == MaxQueued \in Nat \ {0}
ASSUME MaxHandOutsAssumption == MaxHandOuts \in Nat \ {0}

VARIABLES
    file,        \* location-service's file
    loop,        \* where edge-heartbeat's loop is
    answer,      \* the answer to the request under way, or None
    late,        \* an answer to the request before it, not yet stored, or None
    reading,     \* [location, late] of the heartbeat being built
    topic,       \* the subscription's messages, in the order they were sent
    consumer,    \* where ProcessMessageAsync is; its message is the held one
    shown        \* the location in the device's document, or None

edge  == <<loop, answer, late, reading>>
cloud == <<consumer, shown>>
vars  == <<file, edge, topic, cloud>>

Readings == [location : Locations, late : BOOLEAN]
Messages == [reading : Readings, handOuts : 0..MaxHandOuts,
             state : {"queued", "held", "locked"}]

Available == {i \in DOMAIN topic : topic[i].state = "queued"}
HeldOnes  == {i \in DOMAIN topic : topic[i].state = "held"}

TypeOK ==
    /\ file \in Locations
    /\ loop \in {"deviceInfo", "location", "wait", "send", "sleep"}
    /\ answer \in Locations \cup {None}
    /\ late \in Locations \cup {None}
    /\ reading \in Readings
    /\ topic \in Seq(Messages)
    /\ Len(topic) <= MaxQueued
    /\ consumer \in {"idle", "add", "complete", "deadLetter"}
    /\ shown \in Locations \cup {None}

Init ==
    /\ file = 0
    /\ loop = "deviceInfo"
    /\ answer = None
    /\ late = None
    /\ reading = [location |-> 0, late |-> FALSE]
    /\ topic = <<>>
    /\ consumer = "idle"
    /\ shown = None

-----------------------------------------------------------------------------
(* edge-heartbeat's main loop.                                                *)

HearDeviceInfo ==
    /\ loop = "deviceInfo"
    /\ loop' = "location"
    /\ UNCHANGED <<file, answer, late, reading, topic, cloud>>

RequestLocation ==
    /\ loop = "location"
    /\ loop' = "wait"
    /\ UNCHANGED <<file, answer, late, reading, topic, cloud>>

\* location-service hears the request and answers from its file.
Answer ==
    /\ loop = "wait"
    /\ answer = None
    /\ answer' = file
    /\ UNCHANGED <<file, loop, late, reading, topic, cloud>>

\* The end of a request: its answer may be left, accepted and not yet stored,
\* to be taken for the answer to the next one (see CorrelatedClient).
EndRequest ==
    /\ late' \in {None, answer}
    /\ answer' = None

HearLocation ==
    /\ loop = "wait"
    /\ answer # None
    /\ reading' = [location |-> answer, late |-> FALSE]
    /\ loop' = "send"
    /\ EndRequest
    /\ UNCHANGED <<file, topic, cloud>>

HearLateLocation ==
    /\ loop = "wait"
    /\ late # None
    /\ reading' = [location |-> late, late |-> TRUE]
    /\ loop' = "send"
    /\ EndRequest
    /\ UNCHANGED <<file, topic, cloud>>

\* "heartbeat skipped": a request could not be published or timed out.
Skip ==
    /\ loop \in {"deviceInfo", "location", "wait"}
    /\ loop' = "sleep"
    /\ IF loop = "wait" THEN EndRequest ELSE UNCHANGED <<answer, late>>
    /\ UNCHANGED <<file, reading, topic, cloud>>

SendHeartbeat ==
    /\ loop = "send"
    /\ Len(topic) < MaxQueued
    /\ topic' = Append(topic, [reading |-> reading, handOuts |-> 0, state |-> "queued"])
    /\ loop' = "sleep"
    /\ UNCHANGED <<file, answer, late, reading, cloud>>

\* "heartbeat send failed": the heartbeat is given up.
SendFails ==
    /\ loop = "send"
    /\ loop' = "sleep"
    /\ UNCHANGED <<file, answer, late, reading, topic, cloud>>

Sleep ==
    /\ loop = "sleep"
    /\ loop' = "deviceInfo"
    /\ UNCHANGED <<file, answer, late, reading, topic, cloud>>

\* The process ends and is restarted, with new clients.
CrashEdge ==
    /\ loop' = "deviceInfo"
    /\ answer' = None
    /\ late' = None
    /\ UNCHANGED <<file, reading, topic, cloud>>

-----------------------------------------------------------------------------
(* The consumer: ProcessMessageAsync, one message at a time.                  *)

\* Mutated form: deliveries are counted without end.
HandOutAgain(i) ==
    /\ topic' = [topic EXCEPT ![i].handOuts = @ + 1, ![i].state = "held"]
    /\ consumer' = "add"
    /\ UNCHANGED <<file, edge, shown>>

HandOut(i) ==
    /\ topic[i].handOuts < MaxHandOuts
    /\ topic' = [topic EXCEPT ![i].handOuts = @ + 1, ![i].state = "held"]
    /\ consumer' = "add"
    /\ UNCHANGED <<file, edge, shown>>

\* Mutated form: several messages are handed out at once, in any order.
ReceiveAny ==
    /\ consumer = "idle"
    /\ \E i \in Available : HandOut(i)

Receive ==
    /\ consumer = "idle"
    /\ \E i \in Available : (\A j \in Available : i <= j) /\ HandOut(i)

Held == CHOOSE i \in HeldOnes : TRUE

\* Mutated form: the first location known is kept.
AddFirstLocation ==
    /\ consumer = "add"
    /\ shown' = IF shown = None THEN topic[Held].reading.location ELSE shown
    /\ consumer' = "complete"
    /\ UNCHANGED <<file, edge, topic>>

AddHeartbeat ==
    /\ consumer = "add"
    /\ shown' = topic[Held].reading.location
    /\ consumer' = "complete"
    /\ UNCHANGED <<file, edge, topic>>

\* HeartbeatStore.Validate refuses what it carries.
Reject ==
    /\ consumer = "add"
    /\ consumer' = "deadLetter"
    /\ UNCHANGED <<file, edge, topic, shown>>

\* The message is completed or dead-lettered.
Settle ==
    /\ consumer \in {"complete", "deadLetter"}
    /\ topic' = RemoveAt(topic, Held)
    /\ consumer' = "idle"
    /\ UNCHANGED <<file, edge, shown>>

\* Cosmos or the settling call throws: the processor abandons the message.
ProcessFails ==
    /\ consumer # "idle"
    /\ topic' = [topic EXCEPT ![Held].state = "queued"]
    /\ consumer' = "idle"
    /\ UNCHANGED <<file, edge, shown>>

\* The API ends, or the lock is lost: nobody answers for the message until its
\* lock has expired.
LoseLock ==
    /\ consumer # "idle"
    /\ topic' = [topic EXCEPT ![Held].state = "locked"]
    /\ consumer' = "idle"
    /\ UNCHANGED <<file, edge, shown>>

LockExpires(i) ==
    /\ topic[i].state = "locked"
    /\ topic' = [topic EXCEPT ![i].state = "queued"]
    /\ UNCHANGED <<file, edge, cloud>>

\* The subscription's own dead-lettering.
Exhaust(i) ==
    /\ topic[i].state = "queued"
    /\ topic[i].handOuts = MaxHandOuts
    /\ topic' = RemoveAt(topic, i)
    /\ UNCHANGED <<file, edge, cloud>>

\* A message outlives its time to live, and is dropped.
Expire(i) ==
    /\ topic[i].state # "held"
    /\ topic' = RemoveAt(topic, i)
    /\ UNCHANGED <<file, edge, cloud>>

-----------------------------------------------------------------------------
\* location-service replaces its file by that of a later update.
FileUpdated ==
    /\ \E l \in Locations : l > file /\ file' = l
    /\ UNCHANGED <<edge, topic, cloud>>

Beat == HearDeviceInfo \/ RequestLocation \/ HearLocation \/ HearLateLocation
          \/ Skip \/ SendHeartbeat \/ SendFails \/ Sleep

Process == Receive \/ AddHeartbeat \/ Reject \/ Settle \/ ProcessFails

Subscription == \E i \in DOMAIN topic : LockExpires(i) \/ Exhaust(i)

Next == Beat \/ CrashEdge \/ Process \/ LoseLock \/ Subscription
          \/ (\E i \in DOMAIN topic : Expire(i)) \/ Answer \/ FileUpdated

\* Loop and consumer keep running and locks expire.  An exchange that is tried
\* again and again succeeds now and then: both services answer in time, a
\* heartbeat is sent, a message is received and recorded.
Fairness ==
    /\ WF_vars(Beat)
    /\ SF_vars(HearDeviceInfo)
    /\ SF_vars(RequestLocation)
    /\ SF_vars(Answer)
    /\ SF_vars(HearLocation)
    /\ SF_vars(SendHeartbeat)
    /\ WF_vars(Process)
    /\ WF_vars(Subscription)
    /\ SF_vars(Receive)
    /\ SF_vars(AddHeartbeat)

Spec == Init /\ [][Next]_vars

FairSpec == Spec /\ Fairness

-----------------------------------------------------------------------------
(* Properties.                                                                *)

\* The location shown falls back to an earlier one only when the heartbeat that
\* is recorded had been handed out before, or was built with the answer to an
\* earlier request.
BackOnlyIfLate ==
    [][shown' < shown
        => topic[Held].handOuts > 1 \/ topic[Held].reading.late]_vars

\* Once no more updates come, the location shown is that of the device, for
\* good, whatever was skipped, lost or recorded out of order before.
LocationSettles == <>[](shown = file)
=============================================================================

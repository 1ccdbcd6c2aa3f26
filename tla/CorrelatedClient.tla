--------------------------- MODULE CorrelatedClient ---------------------------
(* LocationClient and DeviceInfoClient (location_client.py and                *)
(* device_info_client.py, the same code in edge-heartbeat and image-uploader) *)
(* asking location-service or device-service over MQTT.                       *)
(*                                                                            *)
(* A client owns two threads.  The caller runs request(): it clears the event *)
(* and the answer, draws a correlation id, publishes, and waits for the event *)
(* for a limited time.  paho's thread runs _on_message for every response on  *)
(* the topic, the answers to other clients' requests included: it compares    *)
(* the correlation id, stores the answer, sets the event.  Only the caller    *)
(* takes the client's lock, so the two interleave at every statement.         *)
EXTENDS Integers, FiniteSets

CONSTANTS
    Clients,         \* the clients on one pair of topics
    MaxCalls,        \* how many requests each client makes
    MaxDuplicates    \* how many responses are delivered a second time

ASSUME MaxCallsAssumption      == MaxCalls \in Nat \ {0}
ASSUME MaxDuplicatesAssumption == MaxDuplicates \in Nat

\* A correlation id: uuid4 never repeats, so a client's n-th id is named <<c, n>>.
Ids  == Clients \X (1..MaxCalls)
None == <<>>

VARIABLES
    caller,       \* where each client's request() is
    calls,        \* how many requests each client has begun
    event,        \* _event: is it set
    answer,       \* _location: the id whose answer is stored, or None
    correlation,  \* _correlation_id
    callback,     \* the response _on_message has accepted and not yet acted on
    stored,       \* has _on_message stored that response (line 61)
    requests,     \* requests on their way to the service
    responses,    \* responses[c]: those the broker holds for client c
    outcome,      \* the id whose answer each client's last call returned, or None
    failed,       \* has a call of the client failed
    duplicates    \* how many responses were delivered twice

memory == <<event, answer, correlation>>
thread == <<callback, stored>>
broker == <<requests, responses, duplicates>>
vars   == <<caller, calls, memory, thread, broker, outcome, failed>>

TypeOK ==
    /\ caller \in [Clients -> {"idle", "clearAnswer", "newId", "publish", "wait"}]
    /\ calls \in [Clients -> 0..MaxCalls]
    /\ event \in [Clients -> BOOLEAN]
    /\ answer \in [Clients -> Ids \cup {None}]
    /\ correlation \in [Clients -> Ids \cup {None}]
    /\ callback \in [Clients -> Ids \cup {None}]
    /\ stored \in [Clients -> BOOLEAN]
    /\ requests \subseteq Ids
    /\ responses \in [Clients -> SUBSET Ids]
    /\ outcome \in [Clients -> Ids \cup {None}]
    /\ failed \in [Clients -> BOOLEAN]
    /\ duplicates \in 0..MaxDuplicates

Init ==
    /\ caller = [c \in Clients |-> "idle"]
    /\ calls = [c \in Clients |-> 0]
    /\ event = [c \in Clients |-> FALSE]
    /\ answer = [c \in Clients |-> None]
    /\ correlation = [c \in Clients |-> None]
    /\ callback = [c \in Clients |-> None]
    /\ stored = [c \in Clients |-> FALSE]
    /\ requests = {}
    /\ responses = [c \in Clients |-> {}]
    /\ outcome = [c \in Clients |-> None]
    /\ failed = [c \in Clients |-> FALSE]
    /\ duplicates = 0

-----------------------------------------------------------------------------
(* The caller: request().                                                     *)

ClearEvent(c) ==
    /\ caller[c] = "idle"
    /\ calls[c] < MaxCalls
    /\ calls' = [calls EXCEPT ![c] = @ + 1]
    /\ event' = [event EXCEPT ![c] = FALSE]
    /\ outcome' = [outcome EXCEPT ![c] = None]
    /\ caller' = [caller EXCEPT ![c] = "clearAnswer"]
    /\ UNCHANGED <<answer, correlation, thread, broker, failed>>

\* Mutated form: no id is drawn before the request is published.
ClearAnswerOnly(c) ==
    /\ caller[c] = "clearAnswer"
    /\ answer' = [answer EXCEPT ![c] = None]
    /\ caller' = [caller EXCEPT ![c] = "publish"]
    /\ UNCHANGED <<calls, event, correlation, thread, broker, outcome, failed>>

ClearAnswer(c) ==
    /\ caller[c] = "clearAnswer"
    /\ answer' = [answer EXCEPT ![c] = None]
    /\ caller' = [caller EXCEPT ![c] = "newId"]
    /\ UNCHANGED <<calls, event, correlation, thread, broker, outcome, failed>>

\* Mutated form: the id is drawn once and used for every request.
NewIdOnce(c) ==
    /\ caller[c] = "newId"
    /\ correlation' = [correlation EXCEPT ![c] = <<c, 1>>]
    /\ caller' = [caller EXCEPT ![c] = "publish"]
    /\ UNCHANGED <<calls, event, answer, thread, broker, outcome, failed>>

NewId(c) ==
    /\ caller[c] = "newId"
    /\ correlation' = [correlation EXCEPT ![c] = <<c, calls[c]>>]
    /\ caller' = [caller EXCEPT ![c] = "publish"]
    /\ UNCHANGED <<calls, event, answer, thread, broker, outcome, failed>>

Publish(c) ==
    /\ caller[c] = "publish"
    /\ requests' = requests \cup {correlation[c]}
    /\ caller' = [caller EXCEPT ![c] = "wait"]
    /\ UNCHANGED <<calls, memory, thread, responses, duplicates, outcome, failed>>

Fail(c) ==
    /\ caller' = [caller EXCEPT ![c] = "idle"]
    /\ failed' = [failed EXCEPT ![c] = TRUE]
    /\ UNCHANGED outcome

\* Not connected: paho raises, and may still send the queued request later.
PublishFails(c) ==
    /\ caller[c] = "publish"
    /\ requests' \in {requests, requests \cup {correlation[c]}}
    /\ Fail(c)
    /\ UNCHANGED <<calls, memory, thread, responses, duplicates>>

Return(c) ==
    /\ caller[c] = "wait"
    /\ event[c]
    /\ answer[c] # None
    /\ caller' = [caller EXCEPT ![c] = "idle"]
    /\ outcome' = [outcome EXCEPT ![c] = answer[c]]
    /\ UNCHANGED <<calls, memory, thread, broker, failed>>

\* The event is set and there is no answer: _on_message stored it just before
\* ClearAnswer and set the event afterwards.
ReturnEmpty(c) ==
    /\ caller[c] = "wait"
    /\ event[c]
    /\ answer[c] = None
    /\ Fail(c)
    /\ UNCHANGED <<calls, memory, thread, broker>>

\* Mutated form: the wait ends only when the event is set.
TimeoutNever(c) ==
    /\ caller[c] = "wait"
    /\ event[c]
    /\ Fail(c)
    /\ UNCHANGED <<calls, memory, thread, broker>>

Timeout(c) ==
    /\ caller[c] = "wait"
    /\ ~event[c]
    /\ Fail(c)
    /\ UNCHANGED <<calls, memory, thread, broker>>

-----------------------------------------------------------------------------
(* The service and the broker.                                                *)

\* The service answers with the request's correlation id, on one topic that
\* every client has subscribed to.
Answer(id) ==
    /\ id \in requests
    /\ requests' = requests \ {id}
    /\ responses' = [c \in Clients |-> responses[c] \cup {id}]
    /\ UNCHANGED <<caller, calls, memory, thread, duplicates, outcome, failed>>

\* The service is down or its file unreadable.
Unanswered(id) ==
    /\ id \in requests
    /\ requests' = requests \ {id}
    /\ UNCHANGED <<caller, calls, memory, thread, responses, duplicates, outcome, failed>>

Delivered(c, id) ==
    \/ /\ responses' = [responses EXCEPT ![c] = @ \ {id}]
       /\ UNCHANGED duplicates
    \/ /\ duplicates < MaxDuplicates
       /\ duplicates' = duplicates + 1
       /\ UNCHANGED responses

-----------------------------------------------------------------------------
(* The callback: _on_message.                                                 *)

\* Mutated form: the correlation id is not compared.
AcceptAny(c, id) ==
    /\ id \in responses[c]
    /\ callback[c] = None
    /\ Delivered(c, id)
    /\ callback' = [callback EXCEPT ![c] = id]
    /\ UNCHANGED <<caller, calls, memory, stored, requests, outcome, failed>>

Accept(c, id) ==
    /\ id \in responses[c]
    /\ callback[c] = None
    /\ correlation[c] = id
    /\ Delivered(c, id)
    /\ callback' = [callback EXCEPT ![c] = id]
    /\ UNCHANGED <<caller, calls, memory, stored, requests, outcome, failed>>

\* Another request's response, or one lost with the session.
Discard(c, id) ==
    /\ id \in responses[c]
    /\ callback[c] = None
    /\ responses' = [responses EXCEPT ![c] = @ \ {id}]
    /\ UNCHANGED <<caller, calls, memory, thread, requests, duplicates, outcome, failed>>

StoreAnswer(c) ==
    /\ callback[c] # None
    /\ ~stored[c]
    /\ answer' = [answer EXCEPT ![c] = callback[c]]
    /\ stored' = [stored EXCEPT ![c] = TRUE]
    /\ UNCHANGED <<caller, calls, event, correlation, callback, broker, outcome, failed>>

SetEvent(c) ==
    /\ stored[c]
    /\ event' = [event EXCEPT ![c] = TRUE]
    /\ stored' = [stored EXCEPT ![c] = FALSE]
    /\ callback' = [callback EXCEPT ![c] = None]
    /\ UNCHANGED <<caller, calls, answer, correlation, broker, outcome, failed>>

-----------------------------------------------------------------------------
Request(c) == ClearEvent(c) \/ ClearAnswer(c) \/ NewId(c) \/ Publish(c)
                \/ PublishFails(c) \/ Return(c) \/ ReturnEmpty(c) \/ Timeout(c)

OnMessage(c) == StoreAnswer(c) \/ SetEvent(c)

Next ==
    \/ \E c \in Clients : Request(c) \/ OnMessage(c)
    \/ \E id \in Ids : Answer(id) \/ Unanswered(id)
    \/ \E c \in Clients, id \in Ids : Accept(c, id) \/ Discard(c, id)

\* A request that has begun goes on; a wait ends by its timeout at the latest.
Fairness == \A c \in Clients : WF_vars(caller[c] # "idle" /\ Request(c))

Spec == Init /\ [][Next]_vars

FairSpec == Spec /\ Fairness

-----------------------------------------------------------------------------
(* Properties.                                                                *)

Answered(c) == outcome[c] # None

\* "Correlated request/response client" (location_client.py:1): what a call
\* returns is the answer to that call.
AnswersMatch == \A c \in Clients : Answered(c) => outcome[c] = <<c, calls[c]>>

\* All clients hear all responses; none returns what another asked for.
OwnAnswers == \A c \in Clients : Answered(c) => outcome[c][1] = c

\* A stale answer needs a late or a second response: while no call of the
\* client has failed and no response came twice, its answers match, whatever
\* the interleaving of its two threads.
StaleOnlyWhenLate ==
    \A c \in Clients : ~failed[c] /\ duplicates = 0
        => outcome[c] \in {None, <<c, calls[c]>>}

\* request() raises or returns, whether or not the service lives: the heartbeat
\* and the upload loops that call it are never stuck.
RequestsEnd == \A c \in Clients : caller[c] # "idle" ~> caller[c] = "idle"
=============================================================================

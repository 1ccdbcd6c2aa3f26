--------------------------- MODULE DeviceDocuments ---------------------------
(* What IDeviceDocumentStore promises to the two consumers that feed it       *)
(* (cloud-cluster/apps/telemetry-api): every heartbeat and every picture is   *)
(* applied to the device's document in one step, or the call fails.           *)
(*                                                                            *)
(* The document of one device is modelled: documents of different devices     *)
(* have different keys and share nothing.  CosmosDeviceDocumentStore shows    *)
(* how the code keeps this promise with optimistic concurrency.               *)
EXTENDS Integers, Sequences, FiniteSets, SequencesExt

CONSTANTS
    Writers,         \* the calls that may be under way at once
    Heartbeats,      \* the heartbeats received
    Located,         \* those of them that carry a location
    Images,          \* the pictures uploaded, each named by its capturedAt
    Idle,            \* what a writer does when it does nothing
    MaxHeartbeats,   \* Monitor:MaxHeartbeatsPerDevice
    MaxImages        \* Monitor:MaxImagesPerDevice

Updates == Heartbeats \cup Images

VARIABLES
    document,   \* the device's document
    update,     \* what each writer's call adds, or Idle
    applied,    \* has that call changed the document
    history,    \* every heartbeat applied, the last one first
    recorded    \* every picture applied

vars == <<document, update, applied, history, recorded>>

-----------------------------------------------------------------------------
(* The two mutations.                                                         *)

Trim(values, maximum) ==
    IF Len(values) > maximum THEN SubSeq(values, 1, maximum) ELSE values

Descending(s) == \A i, j \in DOMAIN s : i < j => s[i] > s[j]

NewestFirst(pictures) ==
    CHOOSE s \in [1..Cardinality(pictures) -> pictures] : Descending(s)

\* RemoveAll, Add and Sort leave each picture once, the newest first.
\* Mutated form: the list is trimmed in the order of arrival.
AddImageUnsorted(doc, image) ==
    [doc EXCEPT !.images = Trim(Append(SelectSeq(@, LAMBDA p : p # image), image), MaxImages)]

AddImage(doc, image) ==
    [doc EXCEPT !.images = Trim(NewestFirst(ToSet(@) \cup {image}), MaxImages)]

AddHeartbeat(doc, heartbeat) ==
    [doc EXCEPT !.heartbeats = Trim(<<heartbeat>> \o @, MaxHeartbeats),
                !.lastSeen = heartbeat,
                !.location = IF heartbeat \in Located THEN heartbeat ELSE @]

Mutation(doc, u) == IF u \in Images THEN AddImage(doc, u) ELSE AddHeartbeat(doc, u)

NewDocument == [heartbeats |-> <<>>, images |-> <<>>, lastSeen |-> Idle,
                location |-> Idle]

-----------------------------------------------------------------------------
TypeOK ==
    /\ update \in [Writers -> Updates \cup {Idle}]
    /\ applied \in [Writers -> BOOLEAN]
    /\ history \in Seq(Heartbeats)
    /\ recorded \subseteq Images

Init ==
    /\ document = NewDocument
    /\ update = [w \in Writers |-> Idle]
    /\ applied = [w \in Writers |-> FALSE]
    /\ history = <<>>
    /\ recorded = {}

Call(w, u) ==
    /\ update[w] = Idle
    /\ update' = [update EXCEPT ![w] = u]
    /\ UNCHANGED <<document, applied, history, recorded>>

Remember(u) ==
    /\ history' = IF u \in Heartbeats THEN <<u>> \o history ELSE history
    /\ recorded' = IF u \in Images THEN recorded \cup {u} ELSE recorded

Apply(w) ==
    /\ update[w] # Idle
    /\ ~applied[w]
    /\ document' = Mutation(document, update[w])
    /\ Remember(update[w])
    /\ applied' = [applied EXCEPT ![w] = TRUE]
    /\ UNCHANGED update

\* The call returns once the document was changed, or throws: then it may have
\* been changed or not.
Return(w) ==
    /\ update[w] # Idle
    /\ update' = [update EXCEPT ![w] = Idle]
    /\ applied' = [applied EXCEPT ![w] = FALSE]
    /\ UNCHANGED <<document, history, recorded>>

Next == \E w \in Writers :
          (\E u \in Updates : Call(w, u)) \/ Apply(w) \/ Return(w)

Spec == Init /\ [][Next]_vars

-----------------------------------------------------------------------------
(* Properties.                                                                *)

\* The pictures shown are the newest ones ever recorded, each of them once, in
\* whatever order and however often they were added: one that was recorded and
\* is not shown is older than each of the MaxImages shown.
ImagesAreNewest ==
    LET shown == document.images
    IN  /\ Descending(shown)
        /\ ToSet(shown) \subseteq recorded
        /\ Len(shown) <= MaxImages
        /\ \A p \in recorded \ ToSet(shown) :
              Len(shown) = MaxImages /\ \A q \in ToSet(shown) : p < q

\* The heartbeats shown are the last ones applied; lastSeen is the last of all,
\* and the location that of the last one that carried any, however long ago.
HeartbeatsAreLast ==
    /\ document.heartbeats = Trim(history, MaxHeartbeats)
    /\ document.lastSeen = IF history = <<>> THEN Idle ELSE Head(history)
    /\ \/ /\ document.location = Idle
          /\ ToSet(history) \cap Located = {}
       \/ \E n \in DOMAIN history :
             /\ document.location = history[n]
             /\ history[n] \in Located
             /\ \A m \in 1..(n - 1) : history[m] \notin Located
=============================================================================

----------------------- MODULE CosmosDeviceDocumentStore -----------------------
(* CosmosDeviceDocumentStore.MutateAsync: read the document, change the copy, *)
(* write it back if nobody wrote in between, and try again otherwise.         *)
(*                                                                            *)
(* Two consumers per API process (heartbeats, pictures) run against one       *)
(* container; each await lets the others in.                                  *)
EXTENDS Integers, Sequences, SequencesExt

CONSTANTS
    Writers, Heartbeats, Located, Images, Idle, MaxHeartbeats, MaxImages,
    MaxWriteAttempts,    \* how often MutateAsync tries to write
    MaxCalls             \* bound: how many calls are made

ASSUME ImagesAssumption  == Images \subseteq Nat
ASSUME UpdatesAssumption == /\ Located \subseteq Heartbeats
                            /\ Idle \notin Heartbeats \cup Images
                            /\ Heartbeats \cap Images = {}
ASSUME LimitsAssumption  == MaxHeartbeats \in Nat \ {0} /\ MaxImages \in Nat \ {0}

ASSUME AttemptsAssumption == MaxWriteAttempts \in Nat \ {0}
ASSUME CallsAssumption    == MaxCalls \in Nat

VARIABLES
    document,   \* the stored document
    etag,       \* its version; 0 while it does not exist
    update,     \* what each writer's call adds, or Idle
    step,       \* where its MutateAsync is
    attempt,    \* the running attempt
    copy,       \* the document it read and changed
    readTag,    \* the version it read, 0 when the item was not found
    began,      \* the version when the call began
    calls,      \* the calls made so far
    history, recorded    \* what was applied, as in DeviceDocuments

applied == [w \in Writers |-> step[w] = "written"]

Abstract == INSTANCE DeviceDocuments

stored == <<document, etag, history, recorded>>
call   == <<update, attempt, began, calls>>
vars   == <<stored, call, step, copy, readTag>>

Updates == Abstract!Updates

TypeOK ==
    /\ update \in [Writers -> Updates \cup {Idle}]
    /\ step \in [Writers -> {"idle", "read", "write", "written", "failed"}]
    /\ attempt \in [Writers -> 1..MaxWriteAttempts]
    /\ etag \in Nat
    /\ readTag \in [Writers -> Nat]
    /\ began \in [Writers -> Nat]
    /\ calls \in 0..MaxCalls
    /\ history \in Seq(Heartbeats)
    /\ recorded \subseteq Images

Init ==
    /\ document = Abstract!NewDocument
    /\ etag = 0
    /\ update = [w \in Writers |-> Idle]
    /\ step = [w \in Writers |-> "idle"]
    /\ attempt = [w \in Writers |-> 1]
    /\ copy = [w \in Writers |-> Abstract!NewDocument]
    /\ readTag = [w \in Writers |-> 0]
    /\ began = [w \in Writers |-> 0]
    /\ calls = 0
    /\ history = <<>>
    /\ recorded = {}

-----------------------------------------------------------------------------
\* AddHeartbeatAsync or AddImageAsync.
Call(w, u) ==
    /\ step[w] = "idle"
    /\ calls < MaxCalls
    /\ calls' = calls + 1
    /\ update' = [update EXCEPT ![w] = u]
    /\ attempt' = [attempt EXCEPT ![w] = 1]
    /\ began' = [began EXCEPT ![w] = etag]
    /\ step' = [step EXCEPT ![w] = "read"]
    /\ UNCHANGED <<stored, copy, readTag>>

\* GetDeviceAsync, then the mutation of what it returned or of a new document.
Read(w) ==
    /\ step[w] = "read"
    /\ copy' = [copy EXCEPT ![w] = Abstract!Mutation(document, update[w])]
    /\ readTag' = [readTag EXCEPT ![w] = etag]
    /\ step' = [step EXCEPT ![w] = "write"]
    /\ UNCHANGED <<stored, call>>

Store(w) ==
    /\ document' = copy[w]
    /\ etag' = etag + 1
    /\ Abstract!Remember(update[w])

\* Mutated form: UpsertItemAsync overwrites what another writer created.
CreateOverwriting(w) ==
    /\ step[w] = "write"
    /\ readTag[w] = 0
    /\ Store(w)
    /\ step' = [step EXCEPT ![w] = "written"]
    /\ UNCHANGED <<call, copy, readTag>>

\* CreateItemAsync: refused when the item exists by now.
Create(w) ==
    /\ step[w] = "write"
    /\ readTag[w] = 0
    /\ etag = 0
    /\ Store(w)
    /\ step' = [step EXCEPT ![w] = "written"]
    /\ UNCHANGED <<call, copy, readTag>>

\* Mutated form: ReplaceItemAsync without IfMatchEtag.
ReplaceUnconditionally(w) ==
    /\ step[w] = "write"
    /\ readTag[w] # 0
    /\ Store(w)
    /\ step' = [step EXCEPT ![w] = "written"]
    /\ UNCHANGED <<call, copy, readTag>>

\* ReplaceItemAsync with IfMatchEtag: refused when the item has changed.
Replace(w) ==
    /\ step[w] = "write"
    /\ readTag[w] # 0
    /\ readTag[w] = etag
    /\ Store(w)
    /\ step' = [step EXCEPT ![w] = "written"]
    /\ UNCHANGED <<call, copy, readTag>>

Refused(w) == step[w] = "write" /\ readTag[w] # etag

\* Mutated form: the document is read once, before the loop.
RetryWithoutReading(w) ==
    /\ Refused(w)
    /\ attempt[w] < MaxWriteAttempts
    /\ attempt' = [attempt EXCEPT ![w] = @ + 1]
    /\ UNCHANGED <<stored, update, began, calls, step, copy, readTag>>

\* Mutated form: the last refusal is retried as well.
RetryOnceMore(w) ==
    /\ Refused(w)
    /\ attempt' = [attempt EXCEPT ![w] = @ + 1]
    /\ step' = [step EXCEPT ![w] = "read"]
    /\ UNCHANGED <<stored, update, began, calls, copy, readTag>>

Retry(w) ==
    /\ Refused(w)
    /\ attempt[w] < MaxWriteAttempts
    /\ attempt' = [attempt EXCEPT ![w] = @ + 1]
    /\ step' = [step EXCEPT ![w] = "read"]
    /\ UNCHANGED <<stored, update, began, calls, copy, readTag>>

\* The filter of the catch clause lets the last refusal through.
GiveUp(w) ==
    /\ Refused(w)
    /\ attempt[w] = MaxWriteAttempts
    /\ step' = [step EXCEPT ![w] = "failed"]
    /\ UNCHANGED <<stored, call, copy, readTag>>

\* The call returns, or its exception reaches the consumer.  Any other error
\* of Cosmos, and a cancellation, end the call at the await they occur at.
Return(w) ==
    /\ step[w] # "idle"
    /\ update' = [update EXCEPT ![w] = Idle]
    /\ step' = [step EXCEPT ![w] = "idle"]
    /\ UNCHANGED <<stored, attempt, began, calls, copy, readTag>>

-----------------------------------------------------------------------------
Next == \E w \in Writers :
          \/ \E u \in Updates : Call(w, u)
          \/ Read(w) \/ Create(w) \/ Replace(w) \/ Retry(w) \/ GiveUp(w) \/ Return(w)

Spec == Init /\ [][Next]_vars

-----------------------------------------------------------------------------
(* Properties.                                                                *)

\* Every call changes the document in one step or not at all, as the interface
\* promises, although it reads and writes in two.
Atomic == Abstract!Spec

\* No picture is lost to a concurrent write, shown twice after a redelivery, or
\* displaced by an older one (lines 110-118 and 145-186).
ImagesAreNewest == Abstract!ImagesAreNewest

\* No heartbeat is lost to a concurrent write (lines 74-95 and 145-186).
HeartbeatsAreLast == Abstract!HeartbeatsAreLast

\* A call gives up only after it lost MaxWriteAttempts races, each to a write
\* that succeeded during the call: the store as a whole made progress.
GivesUpOnlyWhenOvertaken ==
    \A w \in Writers : step[w] = "failed" => etag >= began[w] + MaxWriteAttempts
=============================================================================

------------------------- MODULE CaptureRequestsProofs -------------------------
(* Proofs about CaptureRequests, for any number of requests, pictures,        *)
(* deliveries and restarts.                                                   *)
EXTENDS CaptureRequests, FiniteSetTheorems, TLAPS

\* A POST goes on, and the edge takes pictures, only after Service Bus took the
\* command; a picture is added only after its message was sent.
AcceptedFirst ==
    /\ \A r \in Requests : post[r] \in {"sent", "replied"} => r \in accepted
    /\ \A p \in Pictures : message[p] # "none" => p[1] \in accepted
    /\ \A p \in recorded : message[p] # "none"

\* The consumer holds a message exactly while it processes one.  The message is
\* queued until it is settled, and past AddImageAsync its picture was added.
HeldInv ==
    /\ consumer = "idle" <=> held = NoPicture
    /\ consumer # "idle" => message[held] = "queued" /\ held[1] \in accepted
    /\ consumer \in {"mark", "complete"} => held \in recorded

\* An Uploaded request names a picture of its own that was added.
UploadedWasAdded ==
    \A r \in Requests : status[r] = "Uploaded" => shown[r] \in recorded /\ shown[r][1] = r

\* The document holds at most MaxImages of the pictures ever added, and an added
\* picture is missing only when as many, none of them older, are there.
DocumentInv ==
    /\ documentImages \subseteq recorded
    /\ IsFiniteSet(documentImages) /\ Cardinality(documentImages) <= MaxImages
    /\ \A p \in recorded \ documentImages : Displaced(p)

Inv ==
    /\ TypeOK /\ AcceptedFirst /\ HeldInv
    /\ ListedWasSent /\ UploadedWasAdded /\ CompletedIsRecorded /\ DocumentInv

-----------------------------------------------------------------------------

\* A picture is not the absent one, and names its request.
LEMMA PictureFacts == \A p \in Pictures : p # NoPicture /\ p[1] \in Requests
BY TakesAssumption DEF Pictures, NoPicture

\* Every step keeps the variables' types.
LEMMA TypeStep ==
    ASSUME TypeOK, HeldInv, [Next]_vars
    PROVE  TypeOK'
<1> USE BoundsAssumption DEF TypeOK, bus, store, document
<1>0. consumer # "idle" => held \in Pictures /\ held[1] \in Requests
  BY PictureFacts DEF HeldInv
<1>1. ASSUME NEW r \in Requests, Post(r) PROVE TypeOK'
  BY <1>1 DEF Post, StartPost, CommandAccepted, SendDone, SendFails, AddQueued
<1>2. ASSUME NEW p \in Pictures,
             ImageUploaded(p) \/ ImageUploadedAgain(p) \/ Exhaust(p) \/ Expire(p)
      PROVE  TypeOK'
  BY <1>2 DEF ImageUploaded, ImageUploadedAgain, Exhaust, Expire
<1>3. ASSUME NEW p \in Pictures, Receive(p) PROVE TypeOK'
  BY <1>3 DEF Receive
<1>4. CASE Reject \/ AddImage
  BY <1>0, <1>4 DEF Reject, AddImage, AddToDocument, Trimmed
<1>5. CASE MarkUploaded
  BY <1>0, <1>5 DEF MarkUploaded
<1>6. CASE CompleteMessage \/ DeadLetter
  BY <1>0, <1>6 DEF CompleteMessage, DeadLetter, Settle
<1>7. CASE ProcessFails
  BY <1>0, <1>7 DEF ProcessFails, AddToDocument, Trimmed
<1>8. CASE Restart
  BY <1>8 DEF Restart
<1>9. CASE UNCHANGED vars
  BY <1>9 DEF vars
<1> QED
  BY <1>1, <1>2, <1>3, <1>4, <1>5, <1>6, <1>7, <1>8, <1>9 DEF Next, Process

\* Every step of a POST keeps the rest of the invariant.
LEMMA PostStep ==
    ASSUME Inv, NEW r \in Requests, Post(r)
    PROVE  AcceptedFirst' /\ HeldInv' /\ ListedWasSent' /\ UploadedWasAdded'
             /\ CompletedIsRecorded'
<1> USE DEF Inv, TypeOK, bus, store, document
<1>1. CASE StartPost(r) \/ CommandAccepted(r) \/ SendDone(r) \/ SendFails(r)
  <2>1. /\ UNCHANGED <<message, consumer, held, recorded, status, shown>>
        /\ accepted \subseteq accepted'
        /\ \A q \in Requests :
             post'[q] \in {"sent", "replied"} => post[q] \in {"sent", "replied"} \/ q \in accepted
    BY <1>1 DEF StartPost, CommandAccepted, SendDone, SendFails
  <2> QED
    BY <2>1 DEF AcceptedFirst, HeldInv, ListedWasSent, UploadedWasAdded, CompletedIsRecorded
<1>2. CASE AddQueued(r)
  <2>1. r \in accepted
    BY <1>2 DEF AddQueued, AcceptedFirst
  <2> QED
    BY <1>2, <2>1 DEF AddQueued, AcceptedFirst, HeldInv, ListedWasSent, UploadedWasAdded,
       CompletedIsRecorded
<1> QED
  BY <1>1, <1>2 DEF Post

\* So does every step of a message, of its handler and of the process.
LEMMA MessageStep ==
    ASSUME Inv,
           \/ \E p \in Pictures : ImageUploaded(p) \/ ImageUploadedAgain(p) \/ Exhaust(p)
                                  \/ Expire(p)
           \/ Process \/ ProcessFails \/ Restart
    PROVE  AcceptedFirst' /\ HeldInv' /\ ListedWasSent' /\ UploadedWasAdded'
             /\ CompletedIsRecorded'
<1> DEFINE Goal == AcceptedFirst /\ HeldInv /\ ListedWasSent /\ UploadedWasAdded
                     /\ CompletedIsRecorded
<1> USE DEF Inv, TypeOK, bus, store, document
<1>0. consumer # "idle" => held \in Pictures /\ held[1] \in Requests
  BY PictureFacts DEF HeldInv
<1> USE DEF AcceptedFirst, HeldInv, ListedWasSent, UploadedWasAdded, CompletedIsRecorded
<1>1. ASSUME NEW p \in Pictures,
             ImageUploaded(p) \/ ImageUploadedAgain(p) \/ Exhaust(p) \/ Expire(p)
      PROVE  Goal'
  BY <1>0, <1>1 DEF ImageUploaded, ImageUploadedAgain, Exhaust, Expire
<1>2. ASSUME NEW p \in Pictures, Receive(p) PROVE Goal'
  BY <1>2, PictureFacts DEF Receive
<1>3. CASE Reject \/ AddImage
  BY <1>0, <1>3 DEF Reject, AddImage, AddToDocument
<1>4. CASE MarkUploaded
  BY <1>0, <1>4 DEF MarkUploaded
<1>5. CASE CompleteMessage \/ DeadLetter
  BY <1>0, <1>5 DEF CompleteMessage, DeadLetter, Settle
<1>6. CASE ProcessFails
  BY <1>0, <1>6 DEF ProcessFails, AddToDocument
<1>7. CASE Restart
  BY <1>7 DEF Restart
<1> QED
  BY <1>1, <1>2, <1>3, <1>4, <1>5, <1>6, <1>7 DEF Process

\* Adding a picture and trimming keeps what is known of the document: what is
\* dropped is not newer than anything kept, and what was displaced before is not
\* newer than what the new picture displaces.
LEMMA AddKeepsDocument ==
    ASSUME TypeOK, DocumentInv, held \in Pictures, AddToDocument
    PROVE  DocumentInv'
<1> DEFINE all == documentImages \cup {held}
           limit == IF Cardinality(all) > MaxImages THEN MaxImages ELSE Cardinality(all)
<1>1. /\ documentImages' \subseteq all /\ Cardinality(documentImages') = limit
      /\ \A p \in documentImages', q \in all \ documentImages' :
            CapturedAt[p] >= CapturedAt[q]
      /\ recorded' = recorded \cup {held}
  BY DEF AddToDocument, Trimmed
<1>2. /\ IsFiniteSet(documentImages) /\ documentImages \subseteq recorded
      /\ recorded \subseteq Pictures
      /\ Cardinality(documentImages) <= MaxImages
      /\ \A p \in recorded \ documentImages : Displaced(p)
  BY DEF DocumentInv, TypeOK
<1>3. /\ IsFiniteSet(all) /\ Cardinality(all) \in Nat /\ Cardinality(documentImages) \in Nat
      /\ Cardinality(all) = IF held \in documentImages THEN Cardinality(documentImages)
                            ELSE Cardinality(documentImages) + 1
  BY <1>2, FS_AddElement, FS_CardinalityType
<1>4. /\ IsFiniteSet(documentImages') /\ Cardinality(documentImages') \in Nat
      /\ Cardinality(documentImages') <= Cardinality(all)
      /\ Cardinality(all) = Cardinality(documentImages') => documentImages' = all
  BY <1>1, <1>3, FS_Subset, FS_CardinalityType
<1> HIDE DEF all
<1>5. MaxImages \in Nat /\ limit <= MaxImages
  BY <1>3, MaxImagesAssumption
<1>6. \A p \in Pictures : CapturedAt[p] \in Int
  BY CapturedAtAssumption
<1>7. ASSUME NEW p \in recorded' \ documentImages'
      PROVE  Displaced(p)'
  <2>1. p \in Pictures /\ documentImages' \subseteq Pictures
    BY <1>1, <1>2 DEF all
  <2>2. CASE p \in all
    <3>1. documentImages' # all
      BY <1>7, <2>2
    <3>2. Cardinality(documentImages') = MaxImages
      BY <1>1, <1>3, <1>4, <1>5, <3>1
    <3> QED BY <1>1, <1>7, <2>2, <3>2 DEF Displaced
  <2>3. CASE p \notin all
    <3>1. p \in recorded \ documentImages
      BY <1>1, <1>7, <2>3 DEF all
    <3>2. /\ Cardinality(documentImages) = MaxImages
          /\ \A q \in documentImages : CapturedAt[q] >= CapturedAt[p]
      BY <1>2, <3>1 DEF Displaced
    <3>3. Cardinality(documentImages') = MaxImages
      BY <1>1, <1>3, <1>5, <3>2
    <3>4. ASSUME NEW q \in documentImages' PROVE CapturedAt[q] >= CapturedAt[p]
      <4>1. CASE q \in documentImages
        BY <3>2, <4>1
      <4>2. CASE q \notin documentImages
        <5>1. q = held /\ held \notin documentImages
          BY <1>1, <4>2 DEF all
        <5>2. documentImages' # all
          BY <1>3, <1>5, <3>2, <3>3, <5>1
        <5>3. PICK d \in all : d \notin documentImages'
          BY <1>1, <5>2
        <5>4. d \in documentImages
          BY <3>4, <5>1, <5>3 DEF all
        <5>5. CapturedAt[q] >= CapturedAt[d] /\ CapturedAt[d] >= CapturedAt[p]
          BY <1>1, <3>2, <5>3, <5>4
        <5>6. q \in Pictures /\ d \in Pictures
          BY <1>2, <2>1, <5>4
        <5> QED BY <1>6, <2>1, <5>5, <5>6
      <4> QED BY <4>1, <4>2
    <3> QED BY <3>3, <3>4 DEF Displaced
  <2> QED BY <2>2, <2>3
<1>8. documentImages' \subseteq recorded'
  BY <1>1, <1>2 DEF all
<1> QED BY <1>1, <1>4, <1>5, <1>7, <1>8 DEF DocumentInv

\* No other step changes the document.
LEMMA DocumentStep ==
    ASSUME Inv, [Next]_vars
    PROVE  DocumentInv'
<1>1. CASE AddImage \/ (ProcessFails /\ ~ UNCHANGED document)
  <2>1. held \in Pictures /\ AddToDocument
    BY <1>1 DEF Inv, HeldInv, TypeOK, AddImage, ProcessFails
  <2> QED BY <2>1, AddKeepsDocument DEF Inv
<1>2. CASE ~(AddImage \/ (ProcessFails /\ ~ UNCHANGED document))
  <2>1. UNCHANGED document
    BY <1>2 DEF Next, Post, Process, StartPost, CommandAccepted, SendDone, SendFails, AddQueued,
       ImageUploaded, ImageUploadedAgain, Exhaust, Expire, Receive, Reject, MarkUploaded,
       CompleteMessage, DeadLetter, Settle, Restart, vars
  <2> QED BY <2>1 DEF Inv, DocumentInv, Displaced, document
<1> QED BY <1>1, <1>2

-----------------------------------------------------------------------------

\* The inductive invariant: where the POSTs and the consumer stand, and what the
\* messages, the list and the documents then contain.
THEOREM Invariance == Spec => []Inv
<1>1. Init => Inv
  BY BoundsAssumption, MaxImagesAssumption, PictureFacts, FS_EmptySet
     DEF Init, Inv, TypeOK, AcceptedFirst, HeldInv, ListedWasSent, UploadedWasAdded,
     CompletedIsRecorded, DocumentInv
<1>2. Inv /\ [Next]_vars => Inv'
  <2> SUFFICES ASSUME Inv, [Next]_vars
               PROVE  Inv'
    OBVIOUS
  <2>1. TypeOK'
    BY TypeStep DEF Inv
  <2>2. CASE Next
    BY <2>1, <2>2, PostStep, MessageStep, DocumentStep DEF Inv, Next
  <2>3. CASE UNCHANGED vars
    BY <2>1, <2>3, DocumentStep DEF Inv, vars, bus, store, document, AcceptedFirst, HeldInv, ListedWasSent,
       UploadedWasAdded, CompletedIsRecorded
  <2> QED
    BY <2>2, <2>3
<1> QED
  BY <1>1, <1>2, PTL DEF Spec

\* Every variable keeps its type.
THEOREM TypeCorrect == Spec => []TypeOK
<1>1. Inv => TypeOK
  BY DEF Inv
<1> QED
  BY <1>1, Invariance, PTL

\* A request is listed only if Service Bus has its command: SendAsync lists it
\* after the awaited send, and MarkUploaded lists a request only for a picture
\* that was taken for an accepted command.
THEOREM ListedRequestsWereSent == Spec => []ListedWasSent
<1>1. Inv => ListedWasSent
  BY DEF Inv
<1> QED
  BY <1>1, Invariance, PTL

\* The picture an Uploaded request names is its own and was added to the device's
\* document; it is there still, unless MaxImages pictures not older than it are:
\* for any capture times and any order in which the messages come.
THEOREM UploadedPicturesAreFound == Spec => []UploadedUnlessDisplaced
<1>1. Inv => UploadedUnlessDisplaced
  BY DEF Inv, UploadedWasAdded, DocumentInv, UploadedUnlessDisplaced
<1> QED
  BY <1>1, Invariance, PTL

\* A message is completed only for a picture that was added, and no refused one
\* is added, wherever the handler fails or the process restarts.
THEOREM CompletedPicturesAreRecorded == Spec => []CompletedIsRecorded
<1>1. Inv => CompletedIsRecorded
  BY DEF Inv
<1> QED
  BY <1>1, Invariance, PTL

\* No step takes Uploaded back from a request whose POST has ended, except a
\* restart of the process, which empties the list.
THEOREM UploadedStays == Spec => UploadedIsFinal
<1>1. TypeOK /\ [Next]_vars => [\A r \in Requests :
                                  /\ status[r] = "Uploaded"
                                  /\ post[r] \in {"replied", "failed"}
                                  /\ restarts' = restarts
                                  => status'[r] = "Uploaded"]_vars
  <2> SUFFICES ASSUME TypeOK, Next, NEW r \in Requests, status[r] = "Uploaded",
                      post[r] \in {"replied", "failed"}, restarts' = restarts
               PROVE  status'[r] = "Uploaded"
    OBVIOUS
  <2> USE BoundsAssumption DEF TypeOK, bus, store, document
  <2>1. ASSUME NEW q \in Requests, Post(q) PROVE status'[r] = "Uploaded"
    BY <2>1 DEF Post, StartPost, CommandAccepted, SendDone, SendFails, AddQueued
  <2>2. ASSUME NEW p \in Pictures,
               \/ ImageUploaded(p) \/ ImageUploadedAgain(p)
               \/ Exhaust(p) \/ Expire(p) \/ Receive(p)
        PROVE  status'[r] = "Uploaded"
    BY <2>2 DEF ImageUploaded, ImageUploadedAgain, Exhaust, Expire, Receive
  <2>3. CASE Process
    BY <2>2, <2>3 DEF Process, Reject, AddImage, MarkUploaded, CompleteMessage, DeadLetter, Settle
  <2>4. CASE ProcessFails
    BY <2>4 DEF ProcessFails
  <2>5. ~Restart
    BY DEF Restart
  <2> QED
    BY <2>1, <2>2, <2>3, <2>4, <2>5 DEF Next
<1> QED
  BY <1>1, TypeCorrect, PTL DEF Spec, UploadedIsFinal
=============================================================================

------------------------ MODULE CorrelatedClientProofs ------------------------
(* Proofs about CorrelatedClient, for any number of clients, calls and        *)
(* duplicated responses.                                                      *)
EXTENDS CorrelatedClient, TLAPS

\* The id of the client's call under way, or of its last one.
Current(c) == <<c, calls[c]>>

OwnIds(c) == {<<c, n>> : n \in 1..MaxCalls}

\* A client stores and returns only ids that it drew itself: its callback drops
\* every other response of the topic.
OnlyOwn ==
    \A c \in Clients :
        {correlation[c], callback[c], answer[c], outcome[c]} \subseteq OwnIds(c) \cup {None}

\* What the program counters of the two threads say about their variables.
Threads ==
    \A c \in Clients :
        /\ caller[c] # "idle" => calls[c] # 0
        /\ caller[c] \in {"publish", "wait"} => correlation[c] = Current(c)
        /\ stored[c] => callback[c] # None

\* No call of the client has failed, and no response came twice.
Quiet(c) == ~failed[c] /\ duplicates = 0

\* Nothing of the client is on its way: no request, no response, no callback.
Silent(c) ==
    /\ \A id \in OwnIds(c) : id \notin requests /\ id \notin responses[c]
    /\ callback[c] = None

\* While the client waits, only its current id is on its way, in one place.
Awaited(c) ==
    /\ \A id \in OwnIds(c) : id # Current(c) => id \notin requests /\ id \notin responses[c]
    /\ {callback[c], answer[c]} \subseteq {Current(c), None}
    /\ Current(c) \in requests =>
           Current(c) \notin responses[c] /\ callback[c] = None /\ ~event[c]
    /\ Current(c) \in responses[c] => callback[c] = None /\ ~event[c]
    /\ callback[c] # None => ~event[c]

OrderlyFor(c) ==
    /\ caller[c] # "wait" => Silent(c)
    /\ caller[c] \in {"clearAnswer", "newId", "publish"} => ~event[c]
    /\ caller[c] \in {"newId", "publish"} => answer[c] = None
    /\ caller[c] = "wait" => Awaited(c)
    /\ outcome[c] \in {None, Current(c)}

\* A response is never late for a client that is quiet: the call that asked for
\* it has ended only after its callback was done with it.
Orderly == \A c \in Clients : Quiet(c) => OrderlyFor(c)

Inv == TypeOK /\ OnlyOwn /\ Threads /\ Orderly

-----------------------------------------------------------------------------

\* No correlation id is the absent one.
LEMMA IdsAreSome == \A id \in Ids : id # None
BY DEF Ids, None

\* A client's ids are ids, and two clients share none.
LEMMA OwnIdsFacts ==
    /\ \A c \in Clients : OwnIds(c) \subseteq Ids
    /\ \A c, d \in Clients : c # d => OwnIds(c) \cap OwnIds(d) = {}
    /\ \A c \in Clients : None \notin OwnIds(c)
BY MaxCallsAssumption DEF OwnIds, Ids, None

\* The id of a call that has begun is one of the client's ids.
LEMMA CurrentIsOwn ==
    ASSUME TypeOK, NEW c \in Clients, calls[c] # 0
    PROVE  Current(c) \in OwnIds(c) /\ Current(c) \in Ids
BY MaxCallsAssumption, OwnIdsFacts DEF TypeOK, Current, OwnIds, Ids

-----------------------------------------------------------------------------

\* The caller's steps keep the type invariant: each assigns values of its
\* variables' types, and an id published is one drawn before.
LEMMA RequestType ==
    ASSUME TypeOK, Threads, NEW c \in Clients, Request(c)
    PROVE  TypeOK'
<1> USE MaxCallsAssumption DEF TypeOK, vars, memory, thread, broker
<1>1. CASE ClearEvent(c)
  BY <1>1 DEF ClearEvent
<1>2. CASE ClearAnswer(c)
  BY <1>2 DEF ClearAnswer
<1>3. CASE NewId(c)
  <2>1. <<c, calls[c]>> \in Ids
    BY <1>3, CurrentIsOwn DEF NewId, Threads, Current
  <2> QED
    BY <1>3, <2>1 DEF NewId
<1>4. CASE Publish(c)
  <2>1. correlation[c] \in Ids
    BY <1>4, CurrentIsOwn DEF Publish, Threads
  <2> QED
    BY <1>4, <2>1 DEF Publish
<1>5. CASE PublishFails(c)
  <2>1. correlation[c] \in Ids
    BY <1>5, CurrentIsOwn DEF PublishFails, Threads
  <2> QED
    BY <1>5, <2>1 DEF PublishFails, Fail
<1>6. CASE Return(c)
  BY <1>6 DEF Return
<1>7. CASE ReturnEmpty(c)
  BY <1>7 DEF ReturnEmpty, Fail
<1>8. CASE Timeout(c)
  BY <1>8 DEF Timeout, Fail
<1> QED
  BY <1>1, <1>2, <1>3, <1>4, <1>5, <1>6, <1>7, <1>8 DEF Request

\* So do the steps of the service, the broker and the callback.
LEMMA OtherType ==
    ASSUME TypeOK,
           \/ \E c \in Clients : OnMessage(c)
           \/ \E id \in Ids : Answer(id) \/ Unanswered(id)
           \/ \E c \in Clients, id \in Ids : Accept(c, id) \/ Discard(c, id)
    PROVE  TypeOK'
<1> USE MaxDuplicatesAssumption DEF TypeOK, vars, memory, thread, broker
<1>1. ASSUME NEW c \in Clients, StoreAnswer(c) PROVE TypeOK'
  BY <1>1 DEF StoreAnswer
<1>2. ASSUME NEW c \in Clients, SetEvent(c) PROVE TypeOK'
  BY <1>2 DEF SetEvent
<1>3. ASSUME NEW id \in Ids, Answer(id) PROVE TypeOK'
  BY <1>3 DEF Answer
<1>4. ASSUME NEW id \in Ids, Unanswered(id) PROVE TypeOK'
  BY <1>4 DEF Unanswered
<1>5. ASSUME NEW c \in Clients, NEW id \in Ids, Accept(c, id) PROVE TypeOK'
  BY <1>5 DEF Accept, Delivered
<1>6. ASSUME NEW c \in Clients, NEW id \in Ids, Discard(c, id) PROVE TypeOK'
  BY <1>6 DEF Discard
<1> QED
  BY <1>1, <1>2, <1>3, <1>4, <1>5, <1>6 DEF OnMessage

\* The callback keeps only the id it compared with the client's own.
LEMMA OnlyOwnStep ==
    ASSUME TypeOK, Threads, OnlyOwn, [Next]_vars
    PROVE  OnlyOwn'
<1> SUFFICES ASSUME NEW d \in Clients
             PROVE  {correlation'[d], callback'[d], answer'[d], outcome'[d]}
                        \subseteq OwnIds(d) \cup {None}
  BY DEF OnlyOwn, OwnIds
<1>0. {correlation[d], callback[d], answer[d], outcome[d]} \subseteq OwnIds(d) \cup {None}
  BY DEF OnlyOwn
<1> USE DEF TypeOK
<1>1. ASSUME NEW c \in Clients, ClearEvent(c) \/ Return(c)
      PROVE  /\ outcome'[d] \in {outcome[d], answer[d], None}
             /\ UNCHANGED <<correlation, callback, answer>>
  BY <1>1 DEF ClearEvent, Return, memory, thread
<1>2. ASSUME NEW c \in Clients, ClearAnswer(c) \/ StoreAnswer(c)
      PROVE  /\ answer'[d] \in {answer[d], callback[d], None}
             /\ UNCHANGED <<correlation, callback, outcome>>
  BY <1>2 DEF ClearAnswer, StoreAnswer, memory, thread
<1>3. ASSUME NEW c \in Clients, NewId(c)
      PROVE  /\ correlation'[d] \in OwnIds(d) \cup {correlation[d]}
             /\ UNCHANGED <<callback, answer, outcome>>
  <2>1. Current(c) \in OwnIds(c)
    BY <1>3, CurrentIsOwn DEF NewId, Threads
  <2> QED
    BY <1>3, <2>1 DEF NewId, thread, Current
<1>4. ASSUME NEW c \in Clients, SetEvent(c)
      PROVE  callback'[d] \in {callback[d], None} /\ UNCHANGED <<correlation, answer, outcome>>
  BY <1>4 DEF SetEvent
<1>5. ASSUME NEW c \in Clients, NEW id \in Ids, Accept(c, id)
      PROVE  callback'[d] \in {callback[d], correlation[d]} /\ UNCHANGED <<correlation, answer, outcome>>
  BY <1>5 DEF Accept, memory
<1>6. ASSUME NEW c \in Clients,
             Publish(c) \/ PublishFails(c) \/ ReturnEmpty(c) \/ Timeout(c)
      PROVE  UNCHANGED <<correlation, callback, answer, outcome>>
  BY <1>6 DEF Publish, PublishFails, ReturnEmpty, Timeout, Fail, memory, thread
<1>7. ASSUME NEW c \in Clients, NEW id \in Ids, Answer(id) \/ Unanswered(id) \/ Discard(c, id)
      PROVE  UNCHANGED <<correlation, callback, answer, outcome>>
  BY <1>7 DEF Answer, Unanswered, Discard, memory, thread
<1>8. CASE UNCHANGED vars
  BY <1>0, <1>8 DEF vars, memory, thread
<1> QED
  BY <1>0, <1>1, <1>2, <1>3, <1>4, <1>5, <1>6, <1>7, <1>8 DEF Next, Request, OnMessage

\* The program counters keep their meaning.
LEMMA ThreadsStep ==
    ASSUME TypeOK, Threads, [Next]_vars
    PROVE  Threads'
<1> SUFFICES ASSUME NEW d \in Clients
             PROVE  /\ caller'[d] # "idle" => calls'[d] # 0
                    /\ caller'[d] \in {"publish", "wait"} => correlation'[d] = <<d, calls'[d]>>
                    /\ stored'[d] => callback'[d] # None
  BY DEF Threads, Current
<1>0. /\ caller[d] # "idle" => calls[d] # 0
      /\ caller[d] \in {"publish", "wait"} => correlation[d] = <<d, calls[d]>>
      /\ stored[d] => callback[d] # None
  BY DEF Threads, Current
<1> USE DEF TypeOK
<1>1. ASSUME NEW c \in Clients, Request(c)
      PROVE  /\ caller'[d] # "idle" => calls'[d] # 0
             /\ caller'[d] \in {"publish", "wait"} => correlation'[d] = <<d, calls'[d]>>
             /\ UNCHANGED thread
  BY <1>0, <1>1 DEF Request, ClearEvent, ClearAnswer, NewId, Publish, PublishFails,
     Return, ReturnEmpty, Timeout, Fail, memory
<1>2. ASSUME NEW c \in Clients, OnMessage(c)
      PROVE  (stored'[d] => callback'[d] # None) /\ UNCHANGED <<caller, calls, correlation>>
  BY <1>0, <1>2 DEF OnMessage, StoreAnswer, SetEvent
<1>3. ASSUME NEW c \in Clients, NEW id \in Ids, Accept(c, id)
      PROVE  (stored'[d] => callback'[d] # None) /\ UNCHANGED <<caller, calls, correlation>>
  BY <1>0, <1>3, IdsAreSome DEF Accept, memory
<1>4. ASSUME NEW c \in Clients, NEW id \in Ids, Answer(id) \/ Unanswered(id) \/ Discard(c, id)
      PROVE  UNCHANGED <<caller, calls, correlation, stored, callback>>
  BY <1>4 DEF Answer, Unanswered, Discard, memory, thread
<1>5. CASE UNCHANGED vars
  BY <1>0, <1>5 DEF vars, memory, thread
<1> QED
  BY <1>0, <1>1, <1>2, <1>3, <1>4, <1>5 DEF Next, thread

\* A quiet client stays orderly through its own caller's steps.
LEMMA OrderlyRequest ==
    ASSUME TypeOK, Threads, NEW d \in Clients, OrderlyFor(d), Quiet(d), Quiet(d)', Request(d)
    PROVE  OrderlyFor(d)'
<1> USE DEF TypeOK, OrderlyFor, Quiet, Silent, Awaited, Current
<1>1. CASE ClearEvent(d)
  BY <1>1 DEF ClearEvent, thread, broker, OwnIds
<1>2. CASE ClearAnswer(d)
  BY <1>2 DEF ClearAnswer, thread, broker, OwnIds
<1>3. CASE NewId(d)
  BY <1>3 DEF NewId, thread, broker, OwnIds
<1>4. CASE Publish(d)
  BY <1>4 DEF Publish, memory, thread, OwnIds, Threads
<1>5. CASE Return(d)
  BY <1>5 DEF Return, memory, thread, broker, OwnIds
<1>6. CASE PublishFails(d) \/ ReturnEmpty(d) \/ Timeout(d)
  BY <1>6 DEF PublishFails, ReturnEmpty, Timeout, Fail
<1> QED
  BY <1>1, <1>2, <1>3, <1>4, <1>5, <1>6 DEF Request

\* And through the steps of its callback.
LEMMA OrderlyCallback ==
    ASSUME TypeOK, OnlyOwn, Threads, NEW d \in Clients, OrderlyFor(d), Quiet(d), Quiet(d)',
           OnMessage(d) \/ \E id \in Ids : Accept(d, id) \/ Discard(d, id)
    PROVE  OrderlyFor(d)'
<1> USE DEF TypeOK, OrderlyFor, Quiet, Silent, Awaited, Current
<1>1. CASE StoreAnswer(d)
  BY <1>1 DEF StoreAnswer, broker, OwnIds
<1>2. CASE SetEvent(d)
  BY <1>2 DEF SetEvent, Threads, broker, OwnIds
<1>3. ASSUME NEW id \in Ids, Accept(d, id) PROVE OrderlyFor(d)'
  <2>1. correlation[d] = id /\ id \in OwnIds(d) /\ id # None
    BY <1>3, IdsAreSome DEF Accept, OnlyOwn
  <2>2. /\ id \in responses[d] /\ callback[d] = None
        /\ callback' = [callback EXCEPT ![d] = id]
        /\ responses' = [responses EXCEPT ![d] = @ \ {id}]
        /\ UNCHANGED <<caller, calls, event, answer, requests, outcome>>
    BY <1>3 DEF Accept, Delivered, memory
  <2>3. caller[d] = "wait" /\ id = Current(d) /\ Awaited(d)
    BY <2>1, <2>2
  <2> QED
    BY <2>1, <2>2, <2>3 DEF OwnIds
<1>4. ASSUME NEW id \in Ids, Discard(d, id) PROVE OrderlyFor(d)'
  BY <1>4 DEF Discard, memory, thread, OwnIds
<1> QED
  BY <1>1, <1>2, <1>3, <1>4 DEF OnMessage

\* The steps of the service may move the client's requests and responses; an
\* answer moves an id from the one to the other.
LEMMA OrderlyService ==
    ASSUME TypeOK, NEW d \in Clients, OrderlyFor(d), Quiet(d),
           NEW id \in Ids, Answer(id) \/ Unanswered(id)
    PROVE  OrderlyFor(d)'
<1> USE DEF TypeOK, OrderlyFor, Quiet, Silent, Awaited, Current
<1>1. CASE Answer(id)
  BY <1>1 DEF Answer, memory, thread, OwnIds
<1>2. CASE Unanswered(id)
  BY <1>2 DEF Unanswered, memory, thread, OwnIds
<1> QED
  BY <1>1, <1>2

\* The steps of another client send no request of this one and take none of its
\* responses.
LEMMA OrderlyOthers ==
    ASSUME TypeOK, OnlyOwn, Threads, NEW d \in Clients, OrderlyFor(d), NEW c \in Clients, c # d,
           \/ Request(c) \/ OnMessage(c)
           \/ \E id \in Ids : Accept(c, id) \/ Discard(c, id)
    PROVE  OrderlyFor(d)'
<1> USE DEF TypeOK
<1>1. correlation[c] \in OwnIds(c) \cup {None}
  BY DEF OnlyOwn
<1> DEFINE Untouched ==
      /\ caller'[d] = caller[d] /\ calls'[d] = calls[d] /\ event'[d] = event[d]
      /\ answer'[d] = answer[d] /\ callback'[d] = callback[d] /\ outcome'[d] = outcome[d]
      /\ responses'[d] = responses[d]
<1>2. Untouched
  <2>1. CASE Request(c)
    BY <2>1 DEF Request, ClearEvent, ClearAnswer, NewId, Publish, PublishFails, Return,
       ReturnEmpty, Timeout, Fail, memory, thread, broker
  <2>2. CASE OnMessage(c)
    BY <2>2 DEF OnMessage, StoreAnswer, SetEvent, broker
  <2>3. ASSUME NEW id \in Ids, Accept(c, id) \/ Discard(c, id)
        PROVE  Untouched
    BY <2>3 DEF Accept, Discard, Delivered, memory, thread
  <2> QED
    BY <2>1, <2>2, <2>3
<1>3. requests' \in {requests, requests \cup {correlation[c]}}
  BY DEF Request, ClearEvent, ClearAnswer, NewId, Publish, PublishFails, Return, ReturnEmpty,
     Timeout, Fail, broker, OnMessage, StoreAnswer, SetEvent, Accept, Discard
<1>4. ASSUME NEW id \in OwnIds(d)
      PROVE  id \in requests' <=> id \in requests
  <2>1. id # correlation[c]
    BY <1>1, OwnIdsFacts
  <2> QED
    BY <1>3, <2>1
<1>5. caller[d] = "wait" => Current(d) \in OwnIds(d)
  BY CurrentIsOwn DEF Threads
<1>6. Current(d)' = Current(d)
  BY <1>2 DEF Current
<1>7. Silent(d) => Silent(d)'
  BY <1>2, <1>4 DEF Silent, OwnIds
<1>8. caller[d] = "wait" /\ Awaited(d) => Awaited(d)'
  BY <1>2, <1>4, <1>5, <1>6 DEF Awaited, OwnIds
<1> QED
  BY <1>2, <1>6, <1>7, <1>8 DEF OrderlyFor

\* Every step keeps every quiet client orderly.
LEMMA OrderlyStep ==
    ASSUME TypeOK, OnlyOwn, Threads, Orderly, [Next]_vars
    PROVE  Orderly'
<1> SUFFICES ASSUME NEW d \in Clients, Quiet(d)'
             PROVE  OrderlyFor(d)'
  BY DEF Orderly
<1>1. Quiet(d)
  <2>1. ASSUME NEW c \in Clients, Request(c) \/ OnMessage(c) PROVE Quiet(d)
    BY <2>1 DEF Quiet, TypeOK, Request, ClearEvent, ClearAnswer, NewId, Publish, PublishFails,
       Return, ReturnEmpty, Timeout, Fail, OnMessage, StoreAnswer, SetEvent, broker
  <2>2. ASSUME NEW id \in Ids, Answer(id) \/ Unanswered(id) PROVE Quiet(d)
    BY <2>2 DEF Quiet, Answer, Unanswered
  <2>3. ASSUME NEW c \in Clients, NEW id \in Ids, Accept(c, id) \/ Discard(c, id)
        PROVE  Quiet(d)
    BY <2>3 DEF Quiet, TypeOK, Accept, Discard, Delivered
  <2>4. CASE UNCHANGED vars
    BY <2>4 DEF Quiet, vars, broker
  <2> QED
    BY <2>1, <2>2, <2>3, <2>4 DEF Next
<1>2. OrderlyFor(d)
  BY <1>1 DEF Orderly
<1>3. CASE \/ Request(d) \/ OnMessage(d)
           \/ \E id \in Ids : Accept(d, id) \/ Discard(d, id)
  BY <1>1, <1>2, <1>3, OrderlyRequest, OrderlyCallback
<1>4. CASE \E c \in Clients :
               /\ c # d
               /\ \/ Request(c) \/ OnMessage(c)
                  \/ \E id \in Ids : Accept(c, id) \/ Discard(c, id)
  BY <1>2, <1>4, OrderlyOthers
<1>5. CASE \E id \in Ids : Answer(id) \/ Unanswered(id)
  BY <1>1, <1>2, <1>5, OrderlyService
<1>6. CASE UNCHANGED vars
  BY <1>2, <1>6 DEF vars, memory, thread, broker, OrderlyFor, Silent, Awaited, Current, OwnIds
<1> QED
  BY <1>3, <1>4, <1>5, <1>6 DEF Next

-----------------------------------------------------------------------------

\* At the start no request is under way and no response on the wire.
LEMMA InitInv == Init => Inv
<1> SUFFICES ASSUME Init PROVE Inv
  OBVIOUS
<1>1. TypeOK
  BY MaxCallsAssumption, MaxDuplicatesAssumption DEF Init, TypeOK
<1>2. OnlyOwn /\ Threads
  BY DEF Init, OnlyOwn, Threads
<1>3. Orderly
  BY DEF Init, Orderly, OrderlyFor, Silent
<1> QED
  BY <1>1, <1>2, <1>3 DEF Inv

\* The inductive invariant: types, ownership of ids, the program counters and
\* the order of a quiet client's call.
THEOREM Invariance == Spec => []Inv
<1>1. Inv /\ [Next]_vars => Inv'
  <2> SUFFICES ASSUME Inv, [Next]_vars
               PROVE  Inv'
    OBVIOUS
  <2>1. TypeOK'
    <3>1. CASE UNCHANGED vars
      BY <3>1 DEF Inv, TypeOK, vars, memory, thread, broker
    <3>2. CASE Next
      BY <3>2, RequestType, OtherType DEF Inv, Next
    <3> QED
      BY <3>1, <3>2
  <2> QED
    BY <2>1, OnlyOwnStep, ThreadsStep, OrderlyStep DEF Inv
<1> QED
  BY <1>1, InitInv, PTL DEF Spec

\* The type invariant of the client and of the messages around it.
THEOREM TypeCorrect == Spec => []TypeOK
<1>1. Inv => TypeOK
  BY DEF Inv
<1> QED
  BY <1>1, Invariance, PTL

\* A call never returns the answer to another client's request, although every
\* client receives every response (_on_message compares the correlation id).
THEOREM AnswersAreOwn == Spec => []OwnAnswers
<1>1. Inv => OwnAnswers
  <2> SUFFICES ASSUME OnlyOwn, NEW c \in Clients, outcome[c] # None
               PROVE  outcome[c][1] = c
    BY DEF Inv, OwnAnswers, Answered
  <2> QED
    BY DEF OnlyOwn, OwnIds
<1> QED
  BY <1>1, Invariance, PTL

\* A call returns its own answer for as long as no call of the client has failed
\* and no response has come twice: only then can a response be late.
THEOREM AnswersAreCurrent == Spec => []StaleOnlyWhenLate
<1>1. Inv => StaleOnlyWhenLate
  BY DEF Inv, Orderly, OrderlyFor, Quiet, Current, StaleOnlyWhenLate
<1> QED
  BY <1>1, Invariance, PTL
=============================================================================

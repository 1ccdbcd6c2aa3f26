-------------------------- MODULE HeartbeatFlowProofs --------------------------
(* The location shown falls back only by a heartbeat that comes late: proofs  *)
(* about HeartbeatFlow for any locations, messages and hand-outs.             *)
EXTENDS HeartbeatFlow, SequenceTheorems, TLAPS

\* The location that message i carries.
Place(i) == topic[i].reading.location

\* Heartbeat i is built in time and not recorded yet, and its first hand-out
\* is the next to come or still under way.
Fresh(i) ==
    /\ ~topic[i].reading.late
    /\ \/ topic[i].handOuts = 0
       \/ topic[i].handOuts = 1 /\ topic[i].state = "held" /\ consumer = "add"

\* The consumer holds one message, or none.
OneHeld ==
    /\ consumer = "idle" <=> \A i \in DOMAIN topic : topic[i].state # "held"
    /\ \A i, j \in DOMAIN topic :
          topic[i].state = "held" /\ topic[j].state = "held" => i = j

\* Messages are handed out for the first time in the order they were sent.
FirstInOrder ==
    /\ \A i \in DOMAIN topic : topic[i].handOuts = 0 => topic[i].state = "queued"
    /\ \A i, j \in DOMAIN topic :
          i < j /\ topic[i].handOuts = 0 => topic[j].handOuts = 0

\* A location moves from the file over the answer and the reading to the topic
\* and the document, and only what comes late is older than what went before.
PlacesInOrder ==
    /\ \A i, j \in DOMAIN topic :
          i < j /\ ~topic[j].reading.late => Place(i) <= Place(j)
    /\ \A i \in DOMAIN topic : Place(i) <= file /\ (Fresh(i) => shown <= Place(i))
    /\ shown <= file /\ late <= file /\ reading.location <= file
    /\ answer # None =>
          /\ loop = "wait" /\ answer <= file /\ shown <= answer
          /\ \A i \in DOMAIN topic : Place(i) <= answer
    /\ loop = "send" /\ ~reading.late =>
          /\ shown <= reading.location
          /\ \A i \in DOMAIN topic : Place(i) <= reading.location

(* BackOnlyIfLate needs all of them: the location shown is no later than that *)
(* of any fresh heartbeat because messages are first handed out in the order  *)
(* they were sent, and sent in the order in which the file changed.           *)
Inv == TypeOK /\ OneHeld /\ FirstInOrder /\ PlacesInOrder

-----------------------------------------------------------------------------
(* What a topic's messages are, and what the steps do to their sequence.      *)

\* Every element of Append(s, x) is one of s or x, at its place.
LEMMA AppendElements ==
    ASSUME NEW S, NEW s \in Seq(S), NEW x \in S
    PROVE  /\ Append(s, x) \in Seq(S)
           /\ DOMAIN s = 1..Len(s) /\ DOMAIN Append(s, x) = 1..(Len(s) + 1)
           /\ Len(s) \in Nat
           /\ \A i \in DOMAIN s : Append(s, x)[i] = s[i]
           /\ Append(s, x)[Len(s) + 1] = x
  OBVIOUS

\* RemoveAt(s, k) closes the gap at k and keeps the order.
LEMMA RemoveElements ==
    ASSUME NEW S, NEW s \in Seq(S), NEW k \in DOMAIN s
    PROVE  /\ RemoveAt(s, k) \in Seq(S)
           /\ DOMAIN s = 1..Len(s) /\ DOMAIN RemoveAt(s, k) = 1..(Len(s) - 1)
           /\ Len(s) \in Nat /\ Len(RemoveAt(s, k)) = Len(s) - 1
           /\ \A i \in DOMAIN RemoveAt(s, k) :
                RemoveAt(s, k)[i] = IF i < k THEN s[i] ELSE s[i + 1]
<1>1. k \in 1..Len(s) /\ Len(s) \in Nat /\ DOMAIN s = 1..Len(s)
  BY LenProperties
<1> DEFINE front == SubSeq(s, 1, k - 1)
           back == SubSeq(s, k + 1, Len(s))
           rest == front \o back
<1>2. \A i \in 1..Len(s) : s[i] \in S
  BY <1>1
<1>3. ASSUME NEW low \in Int, NEW high \in Int, \A i \in low..high : s[i] \in S
      PROVE  /\ SubSeq(s, low, high) \in Seq(S)
             /\ Len(SubSeq(s, low, high)) = IF low <= high THEN high - low + 1 ELSE 0
             /\ \A i \in 1..(high - low + 1) : SubSeq(s, low, high)[i] = s[low + i - 1]
  BY <1>3, SubSeqProperties
<1>4. 1 \in Int /\ k - 1 \in Int /\ k + 1 \in Int /\ Len(s) \in Int
      /\ (\A i \in 1..(k - 1) : s[i] \in S) /\ (\A i \in (k + 1)..Len(s) : s[i] \in S)
  BY <1>1, <1>2
<1>5. /\ front \in Seq(S)
      /\ Len(front) = IF 1 <= k - 1 THEN (k - 1) - 1 + 1 ELSE 0
      /\ \A i \in 1..((k - 1) - 1 + 1) : front[i] = s[1 + i - 1]
  BY <1>3, <1>4
<1>6. /\ back \in Seq(S)
      /\ Len(back) = IF k + 1 <= Len(s) THEN Len(s) - (k + 1) + 1 ELSE 0
      /\ \A i \in 1..(Len(s) - (k + 1) + 1) : back[i] = s[(k + 1) + i - 1]
  <2>1. PICK low \in Int : low = k + 1
    BY <1>4
  <2>2. \A i \in low..Len(s) : s[i] \in S
    BY <1>4, <2>1
  <2>3. /\ SubSeq(s, low, Len(s)) \in Seq(S)
        /\ Len(SubSeq(s, low, Len(s))) = IF low <= Len(s) THEN Len(s) - low + 1 ELSE 0
        /\ \A i \in 1..(Len(s) - low + 1) : SubSeq(s, low, Len(s))[i] = s[low + i - 1]
    BY <1>3, <1>4, <2>2
  <2> QED BY <2>1, <2>3
<1> HIDE DEF front, back
<1>7. Len(front) = k - 1 /\ \A i \in 1..(k - 1) : front[i] = s[i]
  BY <1>1, <1>5
<1>8. Len(back) = Len(s) - k /\ \A i \in 1..(Len(s) - k) : back[i] = s[i + k]
  <2>1. Len(back) = Len(s) - k
    BY <1>1, <1>6
  <2>2. ASSUME NEW i \in 1..(Len(s) - k) PROVE back[i] = s[i + k]
    <3>1. i \in 1..(Len(s) - (k + 1) + 1) /\ (k + 1) + i - 1 = i + k
      BY <1>1
    <3> QED BY <1>6, <3>1
  <2> QED BY <2>1, <2>2
<1>9. /\ rest \in Seq(S) /\ Len(rest) = Len(front) + Len(back)
      /\ \A i \in 1..(Len(front) + Len(back)) :
            rest[i] = IF i <= Len(front) THEN front[i] ELSE back[i - Len(front)]
  BY <1>5, <1>6, ConcatProperties
<1>10. RemoveAt(s, k) = rest
  BY DEF RemoveAt, front, back
<1> HIDE DEF rest
<1>11. Len(rest) = Len(s) - 1 /\ DOMAIN rest = 1..(Len(s) - 1)
  BY <1>1, <1>7, <1>8, <1>9, LenProperties
<1>12. ASSUME NEW i \in 1..(Len(s) - 1)
       PROVE  rest[i] = IF i < k THEN s[i] ELSE s[i + 1]
  <2>1. rest[i] = IF i <= k - 1 THEN front[i] ELSE back[i - (k - 1)]
    BY <1>1, <1>7, <1>8, <1>9
  <2>2. CASE i < k
    BY <1>1, <1>7, <2>1, <2>2
  <2>3. CASE ~(i < k)
    <3>1. i - (k - 1) \in 1..(Len(s) - k) /\ (i - (k - 1)) + k = i + 1
      BY <1>1, <2>3
    <3>2. back[i - (k - 1)] = s[i + 1]
      BY <1>8, <3>1
    <3> QED BY <1>1, <2>1, <2>3, <3>2
  <2> QED BY <2>2, <2>3
<1> QED BY <1>1, <1>9, <1>10, <1>11, <1>12

\* What a message is made of.
LEMMA MessageParts ==
    ASSUME NEW m \in Messages
    PROVE  /\ m.reading \in Readings /\ m.handOuts \in 0..MaxHandOuts
           /\ m.reading.location \in Locations /\ m.reading.late \in BOOLEAN
           /\ m.state \in {"queued", "held", "locked"}
BY DEF Messages, Readings

\* Handing one message out.
LEMMA SetHandOut ==
    ASSUME NEW t \in Seq(Messages), NEW i \in DOMAIN t,
           t[i].handOuts < MaxHandOuts
    PROVE  LET u == [t EXCEPT ![i].handOuts = @ + 1, ![i].state = "held"]
           IN  /\ u \in Seq(Messages) /\ Len(u) = Len(t) /\ DOMAIN u = DOMAIN t
               /\ \A j \in DOMAIN t :
                     /\ u[j].reading = t[j].reading
                     /\ u[j].handOuts = IF j = i THEN t[j].handOuts + 1 ELSE t[j].handOuts
                     /\ u[j].state = IF j = i THEN "held" ELSE t[j].state
<1> DEFINE m == [t[i] EXCEPT !.handOuts = @ + 1, !.state = "held"]
           u == [t EXCEPT ![i] = m]
<1>1. t[i] \in Messages
  OBVIOUS
<1>2. /\ m \in Messages /\ m.reading = t[i].reading
      /\ m.handOuts = t[i].handOuts + 1 /\ m.state = "held"
  <2>1. /\ t[i] = [reading |-> t[i].reading, handOuts |-> t[i].handOuts,
                  state |-> t[i].state]
        /\ t[i].reading \in Readings /\ t[i].handOuts + 1 \in 0..MaxHandOuts
    BY <1>1, MaxHandOutsAssumption DEF Messages
  <2> DEFINE counted == [t[i] EXCEPT !.handOuts = @ + 1]
  <2>2. counted = [reading |-> t[i].reading, handOuts |-> t[i].handOuts + 1,
                   state |-> t[i].state]
    BY <2>1
  <2>3. m = [counted EXCEPT !.state = "held"]
    OBVIOUS
  <2> HIDE DEF counted, m
  <2>4. m = [reading |-> t[i].reading, handOuts |-> t[i].handOuts + 1, state |-> "held"]
    BY <2>2, <2>3
  <2> QED BY <2>1, <2>4 DEF Messages
<1>3. u = [t EXCEPT ![i].handOuts = @ + 1, ![i].state = "held"]
  OBVIOUS
<1> HIDE DEF m
<1>4. u \in Seq(Messages) /\ Len(u) = Len(t) /\ DOMAIN u = DOMAIN t
  BY <1>2
<1>5. \A j \in DOMAIN t : u[j] = IF j = i THEN m ELSE t[j]
  OBVIOUS
<1> HIDE DEF u
<1>6. \A j \in DOMAIN t :
         /\ u[j].reading = t[j].reading
         /\ u[j].handOuts = IF j = i THEN t[j].handOuts + 1 ELSE t[j].handOuts
         /\ u[j].state = IF j = i THEN "held" ELSE t[j].state
  BY <1>2, <1>5
<1> QED BY <1>3, <1>4, <1>6

\* Nothing is on its way at the start.
LEMMA InitInv == Init => Inv
<1> SUFFICES ASSUME Init PROVE Inv
  OBVIOUS
<1>1. DOMAIN topic = {} /\ topic \in Seq(Messages) /\ Len(topic) = 0
  BY DEF Init
<1>2. reading \in Readings /\ reading.location = 0
  BY LocationsAssumption DEF Init, Readings
<1> QED
  BY <1>1, <1>2, LocationsAssumption, MaxQueuedAssumption
  DEF Init, Inv, TypeOK, OneHeld, FirstInOrder, PlacesInOrder,
      None

\* The types of the numbers that PlacesInOrder compares.
LEMMA LocationNumbers ==
    ASSUME Inv
    PROVE  /\ file \in Int /\ shown \in Int /\ late \in Int /\ answer \in Int
           /\ reading.location \in Int /\ reading.late \in BOOLEAN
           /\ \A i \in DOMAIN topic : Place(i) \in Int /\ topic[i].handOuts \in Nat
                                      /\ topic[i].reading.late \in BOOLEAN
           /\ DOMAIN topic = 1..Len(topic) /\ Len(topic) \in Nat
           /\ \A i \in DOMAIN topic : i \in Nat
<1>0. Locations \subseteq Int /\ None \in Int /\ 0..MaxHandOuts \subseteq Nat
  BY LocationsAssumption, MaxHandOutsAssumption DEF None
<1>1. /\ file \in Locations /\ reading.location \in Locations
      /\ reading.late \in BOOLEAN
      /\ answer \in Locations \cup {None} /\ late \in Locations \cup {None}
      /\ shown \in Locations \cup {None}
  BY DEF Inv, TypeOK, Readings
<1>2. /\ topic \in Seq(Messages) /\ Len(topic) \in Nat
      /\ DOMAIN topic = 1..Len(topic) /\ \A i \in DOMAIN topic : i \in Nat
  BY DEF Inv, TypeOK
<1>3. ASSUME NEW i \in DOMAIN topic
      PROVE  /\ Place(i) \in Int /\ topic[i].handOuts \in Nat
             /\ topic[i].reading.late \in BOOLEAN
  <2>1. topic[i] \in Messages
    BY <1>2
  <2>2. topic[i].reading.late \in BOOLEAN
    BY <2>1, MessageParts
  <2>3. Place(i) \in Locations
    BY <2>1, MessageParts DEF Place
  <2>4. topic[i].handOuts \in 0..MaxHandOuts
    BY <2>1, MessageParts
  <2> QED BY <1>0, <2>2, <2>3, <2>4
<1>4. /\ file \in Int /\ shown \in Int /\ late \in Int /\ answer \in Int
      /\ reading.location \in Int
  BY <1>0, <1>1
<1> QED BY <1>1, <1>2, <1>3, <1>4

\* The steps of edge-heartbeat and of the file, short of a heartbeat sent.
LEMMA EdgeStep ==
    ASSUME Inv,
           \/ HearDeviceInfo \/ RequestLocation \/ Answer
           \/ HearLocation \/ HearLateLocation \/ Skip
           \/ SendFails \/ Sleep \/ CrashEdge \/ FileUpdated
           \/ UNCHANGED vars
    PROVE  Inv'
<1> USE DEF Inv
<1> DEFINE Numbers ==
             /\ file \in Int /\ shown \in Int /\ late \in Int /\ answer \in Int
             /\ reading.location \in Int /\ reading.late \in BOOLEAN
             /\ \A i \in DOMAIN topic : Place(i) \in Int
<1>0. Numbers
  BY LocationNumbers
<1>1. UNCHANGED <<topic, consumer, shown>>
  BY DEF HearDeviceInfo, RequestLocation, Answer, HearLocation,
         HearLateLocation, Skip, SendFails, Sleep, CrashEdge,
         FileUpdated, vars, cloud, edge
<1>2. /\ OneHeld' /\ FirstInOrder'
      /\ \A i \in DOMAIN topic : Place(i)' = Place(i) /\ (Fresh(i)' <=> Fresh(i))
  BY <1>1 DEF OneHeld, FirstInOrder, Place, Fresh
<1>3. CASE HearDeviceInfo \/ RequestLocation \/ SendFails \/ Sleep
  <2>1. UNCHANGED <<file, answer, late, reading>> /\ loop # "wait" /\ loop' # "send"
        /\ loop' \in {"location", "wait", "sleep", "deviceInfo"}
    BY <1>3 DEF HearDeviceInfo, RequestLocation, SendFails, Sleep
  <2>2. TypeOK'
    BY <1>1, <2>1 DEF TypeOK
  <2>3. PlacesInOrder'
    BY <1>1, <1>2, <2>1 DEF PlacesInOrder, Place
  <2> QED BY <1>2, <2>2, <2>3
<1>4. CASE Answer
  <2>1. UNCHANGED <<file, loop, late, reading>> /\ loop = "wait" /\ answer' = file
    BY <1>4 DEF Answer
  <2>2. TypeOK'
    BY <1>1, <2>1 DEF TypeOK
  <2>3. PlacesInOrder'
    BY <1>0, <1>1, <1>2, <2>1 DEF PlacesInOrder, Place
  <2> QED BY <1>2, <2>2, <2>3
<1>5. CASE HearLocation
  <2>1. /\ UNCHANGED file /\ loop = "wait" /\ answer # None
        /\ reading' = [location |-> answer, late |-> FALSE] /\ loop' = "send"
        /\ late' \in {None, answer} /\ answer' = None
    BY <1>5 DEF HearLocation, EndRequest
  <2>2. TypeOK' /\ file >= 0
    BY <1>1, <2>1, LocationsAssumption DEF TypeOK, Readings
  <2>3. reading'.location = answer /\ ~reading'.late /\ late' <= file
    BY <1>0, <2>1, <2>2 DEF PlacesInOrder, None
  <2>4. PlacesInOrder'
    BY <1>0, <1>1, <1>2, <2>1, <2>3 DEF PlacesInOrder, Place
  <2> QED BY <1>2, <2>2, <2>4
<1>6. CASE HearLateLocation
  <2>1. /\ UNCHANGED file /\ late # None
        /\ reading' = [location |-> late, late |-> TRUE] /\ loop' = "send"
        /\ late' \in {None, answer} /\ answer' = None
    BY <1>6 DEF HearLateLocation, EndRequest
  <2>2. TypeOK' /\ file >= 0
    BY <1>1, <2>1, LocationsAssumption DEF TypeOK, Readings
  <2>3. reading'.location = late /\ reading'.late /\ late' <= file
    BY <1>0, <2>1, <2>2 DEF PlacesInOrder, None
  <2>4. PlacesInOrder'
    BY <1>0, <1>1, <1>2, <2>1, <2>3 DEF PlacesInOrder, Place
  <2> QED BY <1>2, <2>2, <2>4
<1>7. CASE Skip \/ CrashEdge
  <2>1. /\ UNCHANGED <<file, reading>> /\ loop' \in {"sleep", "deviceInfo"}
        /\ \/ UNCHANGED <<answer, late>> /\ loop # "wait"
           \/ late' \in {None, answer} /\ answer' = None
    BY <1>7 DEF Skip, CrashEdge, EndRequest
  <2>2. TypeOK' /\ file >= 0
    BY <1>1, <2>1, LocationsAssumption DEF TypeOK
  <2>3. late' <= file /\ answer' = None
    BY <1>0, <2>1, <2>2 DEF PlacesInOrder, None
  <2>4. PlacesInOrder'
    BY <1>0, <1>1, <1>2, <2>1, <2>3 DEF PlacesInOrder, Place
  <2> QED BY <1>2, <2>2, <2>4
<1>8. CASE FileUpdated
  <2>1. /\ file' \in Locations /\ file' > file
        /\ UNCHANGED <<loop, answer, late, reading>>
    BY <1>8 DEF FileUpdated, edge
  <2>2. TypeOK'
    BY <1>1, <2>1 DEF TypeOK
  <2>3. file' \in Int
    BY <2>1, LocationsAssumption
  <2>4. PlacesInOrder'
    BY <1>0, <1>1, <1>2, <2>1, <2>3 DEF PlacesInOrder, Place
  <2> QED BY <1>2, <2>2, <2>4
<1>9. CASE UNCHANGED vars
  <2>1. UNCHANGED <<file, loop, answer, late, reading>>
    BY <1>9 DEF vars, edge
  <2>2. TypeOK'
    BY <1>1, <2>1 DEF TypeOK
  <2>3. PlacesInOrder'
    BY <1>1, <1>2, <2>1 DEF PlacesInOrder, Place
  <2> QED BY <1>2, <2>2, <2>3
<1> QED BY <1>3, <1>4, <1>5, <1>6, <1>7, <1>8, <1>9

\* A heartbeat is sent.
LEMMA SendStep == ASSUME Inv, SendHeartbeat PROVE Inv'
<1> USE DEF Inv
<1> DEFINE m == [reading |-> reading, handOuts |-> 0, state |-> "queued"]
           n == Len(topic) + 1
<1>0. /\ \A i \in DOMAIN topic : Place(i) \in Int /\ i \in Nat
      /\ DOMAIN topic = 1..Len(topic) /\ Len(topic) \in Nat
  BY LocationNumbers
<1>1. /\ loop = "send" /\ Len(topic) < MaxQueued /\ topic' = Append(topic, m)
      /\ loop' = "sleep" /\ UNCHANGED <<file, answer, late, reading, consumer, shown>>
  BY DEF SendHeartbeat, cloud
<1>2. m \in Messages /\ m.reading = reading /\ m.handOuts = 0 /\ m.state = "queued"
  BY MaxHandOutsAssumption DEF Messages, TypeOK
<1> HIDE DEF m
<1>3. /\ topic' \in Seq(Messages) /\ Len(topic') = n /\ DOMAIN topic' = 1..n
      /\ \A i \in DOMAIN topic : topic'[i] = topic[i]
      /\ topic'[n] = m
  BY <1>0, <1>1, <1>2, AppendElements DEF TypeOK
<1>4. /\ DOMAIN topic' = DOMAIN topic \cup {n}
      /\ \A i \in DOMAIN topic : i < n
  BY <1>0, <1>3
<1>5. \A i \in DOMAIN topic : Place(i)' = Place(i) /\ (Fresh(i)' <=> Fresh(i))
  BY <1>1, <1>3 DEF Place, Fresh
<1>6. TypeOK'
  BY <1>0, <1>1, <1>3, MaxQueuedAssumption DEF TypeOK
<1>7. OneHeld'
  <2>1. topic'[n].state = "queued"
    BY <1>2, <1>3
  <2> QED BY <1>1, <1>3, <1>4, <2>1 DEF OneHeld
<1>8. FirstInOrder'
  <2>1. topic'[n].state = "queued" /\ topic'[n].handOuts = 0
    BY <1>2, <1>3
  <2>2. \A i \in DOMAIN topic : ~(n < i)
    BY <1>0
  <2> QED BY <1>3, <1>4, <2>1, <2>2 DEF FirstInOrder
<1>9. PlacesInOrder'
  <2>1. topic'[n].reading = reading
    BY <1>2, <1>3
  <2>2. ~reading.late => shown <= reading.location
                         /\ \A i \in DOMAIN topic : Place(i) <= reading.location
    BY <1>1 DEF PlacesInOrder
  <2>3. answer = None
    BY <1>1 DEF PlacesInOrder
  <2>4. ASSUME NEW i \in DOMAIN topic', NEW j \in DOMAIN topic', i < j,
               ~topic'[j].reading.late
        PROVE  Place(i)' <= Place(j)'
    <3>1. CASE j = n
      <4>1. i \in DOMAIN topic /\ topic'[j].reading = reading
        BY <3>1, <2>1, <2>4, <1>0, <1>4
      <4>2. Place(j)' = reading.location
        BY <4>1 DEF Place
      <4> QED BY <4>1, <4>2, <2>2, <2>4, <1>5
    <3>2. CASE j # n
      <4>1. i \in DOMAIN topic /\ j \in DOMAIN topic
        BY <3>2, <2>4, <1>0, <1>4
      <4> QED BY <4>1, <2>4, <1>3, <1>5 DEF PlacesInOrder
    <3> QED BY <3>1, <3>2
  <2>5. ASSUME NEW i \in DOMAIN topic'
        PROVE  Place(i)' <= file /\ (Fresh(i)' => shown <= Place(i)')
    <3>1. CASE i = n
      <4>1. topic'[i].reading = reading
        BY <3>1, <2>1
      <4>2. Place(i)' = reading.location /\ (Fresh(i)' => ~reading.late)
        BY <4>1 DEF Place, Fresh
      <4> QED BY <4>2, <2>2 DEF PlacesInOrder
    <3>2. CASE i # n
      BY <3>2, <1>4, <1>5 DEF PlacesInOrder
    <3> QED BY <3>1, <3>2
  <2>6. PlacesInOrder
    OBVIOUS
  <2> QED BY <1>1, <2>3, <2>4, <2>5, <2>6 DEF PlacesInOrder
<1> QED BY <1>6, <1>7, <1>8, <1>9

\* While the consumer is busy, Held is the message in its hand.
LEMMA HeldIsThere ==
    ASSUME Inv, consumer # "idle"
    PROVE  Held \in DOMAIN topic /\ topic[Held].state = "held"
<1>1. \E i \in DOMAIN topic : topic[i].state = "held"
  BY DEF Inv, OneHeld
<1>2. \E i \in HeldOnes : TRUE
  BY <1>1 DEF HeldOnes
<1>3. Held \in HeldOnes
  BY <1>2 DEF Held
<1> QED BY <1>3 DEF HeldOnes

\* A message leaves the topic, whether the one in hand or another.
LEMMA RemoveStep ==
    ASSUME Inv, NEW k \in DOMAIN topic, topic' = RemoveAt(topic, k),
           UNCHANGED <<file, loop, answer, late, reading, shown>>,
           \/ topic[k].state = "held" /\ consumer' = "idle"
           \/ topic[k].state # "held" /\ consumer' = consumer
    PROVE  Inv'
<1> USE DEF Inv
<1> DEFINE n == Len(topic)
           from(i) == IF i < k THEN i ELSE i + 1
<1>0. /\ topic \in Seq(Messages) /\ n \in Nat /\ DOMAIN topic = 1..n /\ k \in 1..n
      /\ \A i \in DOMAIN topic : Place(i) \in Int
  BY LocationNumbers DEF TypeOK
<1>1. /\ topic' \in Seq(Messages) /\ DOMAIN topic' = 1..(n - 1) /\ Len(topic') <= n
      /\ \A i \in DOMAIN topic' : topic'[i] = topic[from(i)]
  <2>1. /\ topic' \in Seq(Messages) /\ DOMAIN topic' = 1..(n - 1)
        /\ Len(topic') = n - 1
        /\ \A i \in DOMAIN topic' : topic'[i] = IF i < k THEN topic[i] ELSE topic[i + 1]
    BY <1>0, RemoveElements
  <2> QED BY <2>1, <1>0
<1>2. /\ \A i \in DOMAIN topic' : from(i) \in DOMAIN topic /\ from(i) # k
      /\ \A i, j \in DOMAIN topic' : i < j => from(i) < from(j)
      /\ \A i, j \in DOMAIN topic' : from(i) = from(j) => i = j
      /\ \A a \in DOMAIN topic : a # k => \E i \in DOMAIN topic' : from(i) = a
  <2>1. \A i \in DOMAIN topic' : from(i) \in DOMAIN topic /\ from(i) # k
    BY <1>0, <1>1
  <2>2. \A i, j \in DOMAIN topic' : (i < j => from(i) < from(j)) /\ (from(i) = from(j) => i = j)
    BY <1>0, <1>1
  <2>3. ASSUME NEW a \in DOMAIN topic, a # k PROVE \E i \in DOMAIN topic' : from(i) = a
    <3>1. CASE a < k
      BY <3>1, <1>0, <1>1
    <3>2. CASE a > k
      <4>1. a - 1 \in DOMAIN topic' /\ from(a - 1) = a
        BY <3>2, <1>0, <1>1
      <4> QED BY <4>1
    <3> QED BY <3>1, <3>2, <2>3, <1>0
  <2> QED BY <2>1, <2>2, <2>3
<1> HIDE DEF from
<1>3. \A i \in DOMAIN topic' : Place(i)' = Place(from(i)) /\ (Fresh(i)' => Fresh(from(i)))
  <2> SUFFICES ASSUME NEW i \in DOMAIN topic'
               PROVE  Place(i)' = Place(from(i)) /\ (Fresh(i)' => Fresh(from(i)))
    OBVIOUS
  <2>1. topic'[i] = topic[from(i)]
    BY <1>1
  <2>2. consumer' = "add" => consumer = "add"
    OBVIOUS
  <2> QED BY <2>1, <2>2 DEF Place, Fresh
<1>4. TypeOK'
  BY <1>0, <1>1, MaxQueuedAssumption DEF TypeOK
<1>5. OneHeld'
  <2>1. \A i, j \in DOMAIN topic' :
           topic'[i].state = "held" /\ topic'[j].state = "held" => i = j
    BY <1>1, <1>2 DEF OneHeld
  <2>2. CASE topic[k].state = "held" /\ consumer' = "idle"
    <3>1. \A i \in DOMAIN topic' : topic'[i].state # "held"
      BY <2>2, <1>1, <1>2 DEF OneHeld
    <3> QED BY <2>1, <2>2, <3>1 DEF OneHeld
  <2>3. CASE topic[k].state # "held" /\ consumer' = consumer
    <3>1. (\A i \in DOMAIN topic' : topic'[i].state # "held")
            <=> (\A a \in DOMAIN topic : topic[a].state # "held")
      BY <2>3, <1>1, <1>2
    <3> QED BY <2>1, <2>3, <3>1 DEF OneHeld
  <2> QED BY <2>2, <2>3
<1>6. FirstInOrder'
  BY <1>1, <1>2 DEF FirstInOrder
<1>7. PlacesInOrder'
  <2>1. \A i, j \in DOMAIN topic' :
          i < j /\ ~topic'[j].reading.late => Place(i)' <= Place(j)'
    BY <1>1, <1>2, <1>3 DEF PlacesInOrder
  <2>2. \A i \in DOMAIN topic' : Place(i)' <= file /\ (Fresh(i)' => shown <= Place(i)')
    BY <1>2, <1>3 DEF PlacesInOrder
  <2>3. answer # None => \A i \in DOMAIN topic' : Place(i)' <= answer
    BY <1>2, <1>3 DEF PlacesInOrder
  <2>4. loop = "send" /\ ~reading.late
          => \A i \in DOMAIN topic' : Place(i)' <= reading.location
    BY <1>2, <1>3 DEF PlacesInOrder
  <2>5. PlacesInOrder
    OBVIOUS
  <2> QED BY <2>1, <2>2, <2>3, <2>4, <2>5 DEF PlacesInOrder
<1> QED BY <1>4, <1>5, <1>6, <1>7

\* A message that was handed out changes hands: it is queued again, or locked.
LEMMA StateStep ==
    ASSUME Inv, NEW k \in DOMAIN topic, NEW new \in {"queued", "locked"},
           topic' = [topic EXCEPT ![k].state = new], topic[k].state # "queued",
           UNCHANGED <<file, loop, answer, late, reading, shown>>,
           \/ topic[k].state = "held" /\ consumer' = "idle"
           \/ topic[k].state # "held" /\ consumer' = consumer
    PROVE  Inv'
<1> USE DEF Inv
<1>1. /\ topic' \in Seq(Messages) /\ Len(topic') = Len(topic)
      /\ DOMAIN topic' = DOMAIN topic
      /\ \A i \in DOMAIN topic :
            /\ topic'[i].reading = topic[i].reading /\ topic'[i].handOuts = topic[i].handOuts
            /\ topic'[i].state = IF i = k THEN new ELSE topic[i].state
  <2>1. topic \in Seq(Messages) /\ new \in {"queued", "held", "locked"}
    BY DEF TypeOK
  <2> DEFINE m == [topic[k] EXCEPT !.state = new]
  <2>2. topic' = [topic EXCEPT ![k] = m]
    OBVIOUS
  <2>3. topic[k] \in Messages
    BY <2>1
  <2>4. /\ m \in Messages /\ m.reading = topic[k].reading
        /\ m.handOuts = topic[k].handOuts /\ m.state = new
    BY <2>1, <2>3 DEF Messages
  <2> HIDE DEF m
  <2>5. /\ topic' \in Seq(Messages) /\ Len(topic') = Len(topic)
        /\ DOMAIN topic' = DOMAIN topic
        /\ \A i \in DOMAIN topic : topic'[i] = IF i = k THEN m ELSE topic[i]
    BY <2>1, <2>2, <2>4
  <2> QED BY <2>4, <2>5
<1>2. topic[k].handOuts # 0
  BY DEF FirstInOrder
<1>3. \A i \in DOMAIN topic : Place(i)' = Place(i) /\ (Fresh(i)' => Fresh(i))
  <2> SUFFICES ASSUME NEW i \in DOMAIN topic
               PROVE  Place(i)' = Place(i) /\ (Fresh(i)' => Fresh(i))
    OBVIOUS
  <2>1. /\ topic'[i].reading = topic[i].reading /\ topic'[i].handOuts = topic[i].handOuts
        /\ topic'[i].state = IF i = k THEN new ELSE topic[i].state
    BY <1>1
  <2>2. consumer' = "add" => consumer = "add"
    OBVIOUS
  <2> QED BY <2>1, <2>2 DEF Place, Fresh
<1>4. TypeOK'
  BY <1>1 DEF TypeOK
<1>5. OneHeld'
  <2>1. \A i \in DOMAIN topic' : topic'[i].state = "held" => topic[i].state = "held" /\ i # k
    BY <1>1
  <2>2. \A i \in DOMAIN topic : topic[i].state = "held" /\ i # k => topic'[i].state = "held"
    BY <1>1
  <2> QED BY <1>1, <2>1, <2>2 DEF OneHeld
<1>6. FirstInOrder'
  BY <1>1, <1>2 DEF FirstInOrder
<1>7. PlacesInOrder'
  <2>1. \A i, j \in DOMAIN topic' :
          i < j /\ ~topic'[j].reading.late => Place(i)' <= Place(j)'
    BY <1>1, <1>3 DEF PlacesInOrder
  <2>2. \A i \in DOMAIN topic' : Place(i)' <= file /\ (Fresh(i)' => shown <= Place(i)')
    BY <1>1, <1>3 DEF PlacesInOrder
  <2>3. PlacesInOrder
    OBVIOUS
  <2> QED BY <1>1, <1>3, <2>1, <2>2, <2>3 DEF PlacesInOrder
<1> QED BY <1>4, <1>5, <1>6, <1>7

\* The first available message is handed out.
LEMMA ReceiveStep == ASSUME Inv, Receive PROVE Inv'
<1> USE DEF Inv
<1>0. PICK k \in Available : (\A j \in Available : k <= j) /\ HandOut(k)
  BY DEF Receive
<1>1. /\ consumer = "idle" /\ k \in DOMAIN topic /\ topic[k].state = "queued"
      /\ topic[k].handOuts < MaxHandOuts
      /\ topic' = [topic EXCEPT ![k].handOuts = @ + 1, ![k].state = "held"]
      /\ consumer' = "add" /\ UNCHANGED <<file, loop, answer, late, reading, shown>>
  BY <1>0 DEF Receive, HandOut, Available, edge
<1>2. /\ topic' \in Seq(Messages) /\ Len(topic') = Len(topic)
      /\ DOMAIN topic' = DOMAIN topic
      /\ \A i \in DOMAIN topic :
            /\ topic'[i].reading = topic[i].reading
            /\ topic'[i].handOuts =
                 IF i = k THEN topic[i].handOuts + 1 ELSE topic[i].handOuts
            /\ topic'[i].state = IF i = k THEN "held" ELSE topic[i].state
  BY <1>1, SetHandOut DEF TypeOK
<1>3. /\ \A i \in DOMAIN topic : topic[i].handOuts \in Nat /\ i \in Nat
      /\ \A i \in DOMAIN topic : topic[i].state # "held"
  BY <1>1, LocationNumbers DEF OneHeld
<1>4. \A i \in DOMAIN topic : Place(i)' = Place(i) /\ (Fresh(i)' => Fresh(i))
  <2> SUFFICES ASSUME NEW i \in DOMAIN topic
               PROVE  Place(i)' = Place(i) /\ (Fresh(i)' => Fresh(i))
    OBVIOUS
  <2>1. topic'[i].reading = topic[i].reading
    BY <1>2
  <2>2. Fresh(i)' => topic[i].handOuts = 0
    BY <1>2, <1>3 DEF Fresh
  <2> QED BY <2>1, <2>2 DEF Place, Fresh
<1>5. TypeOK'
  BY <1>1, <1>2 DEF TypeOK
<1>6. OneHeld'
  BY <1>1, <1>2, <1>3 DEF OneHeld
<1>7. FirstInOrder'
  <2>1. \A i \in DOMAIN topic : i < k => topic[i].handOuts # 0
    <3> SUFFICES ASSUME NEW i \in DOMAIN topic, i < k, topic[i].handOuts = 0 PROVE FALSE
      OBVIOUS
    <3>1. i \in Available
      BY DEF FirstInOrder, Available
    <3>2. k <= i
      BY <1>0, <3>1
    <3> QED BY <3>2, <1>1, <1>3
  <2>2. topic'[k].handOuts # 0
    <3>1. topic'[k].handOuts = topic[k].handOuts + 1 /\ topic[k].handOuts \in Nat
      BY <1>1, <1>2, <1>3
    <3> QED BY <3>1
  <2>3. \A i \in DOMAIN topic : i # k => topic'[i].handOuts = topic[i].handOuts
                                       /\ topic'[i].state = topic[i].state
    BY <1>2
  <2> QED BY <1>2, <2>1, <2>2, <2>3 DEF FirstInOrder
<1>8. PlacesInOrder'
  <2>1. \A i, j \in DOMAIN topic' :
          i < j /\ ~topic'[j].reading.late => Place(i)' <= Place(j)'
    BY <1>2, <1>4 DEF PlacesInOrder
  <2>2. \A i \in DOMAIN topic' : Place(i)' <= file /\ (Fresh(i)' => shown <= Place(i)')
    BY <1>2, <1>4 DEF PlacesInOrder
  <2>3. PlacesInOrder
    OBVIOUS
  <2> QED BY <1>1, <1>2, <1>4, <2>1, <2>2, <2>3 DEF PlacesInOrder
<1> QED BY <1>5, <1>6, <1>7, <1>8

\* The heartbeat in hand is recorded or refused.
LEMMA RecordStep == ASSUME Inv, AddHeartbeat \/ Reject PROVE Inv'
<1> USE DEF Inv
<1> DEFINE h == Held
<1>1. /\ consumer = "add" /\ consumer' \in {"complete", "deadLetter"}
      /\ UNCHANGED <<file, loop, answer, late, reading, topic>>
      /\ shown' = shown \/ shown' = topic[h].reading.location
  BY DEF AddHeartbeat, Reject, edge
<1>2. h \in DOMAIN topic /\ topic[h].state = "held"
  BY <1>1, HeldIsThere
<1> HIDE DEF h
<1>3. /\ \A i \in DOMAIN topic : Place(i) \in Int /\ topic[i].reading.late \in BOOLEAN
      /\ \A i \in DOMAIN topic : i \in Nat
  BY LocationNumbers
<1>4. TypeOK'
  <2>1. topic[h] \in Messages
    BY <1>2 DEF TypeOK
  <2>2. topic[h].reading.location \in Locations
    BY <2>1, MessageParts
  <2> QED BY <1>1, <2>2 DEF TypeOK
<1>5. OneHeld' /\ FirstInOrder'
  BY <1>1 DEF OneHeld, FirstInOrder
<1>6. \A i \in DOMAIN topic : Place(i)' = Place(i)
  BY <1>1 DEF Place
<1>7. \A i \in DOMAIN topic : Fresh(i)' => Fresh(i) /\ topic[i].handOuts = 0
  BY <1>1 DEF Fresh
<1>8. \A i \in DOMAIN topic : Fresh(i)' => Place(h) <= Place(i)
  <2> SUFFICES ASSUME NEW i \in DOMAIN topic, Fresh(i)' PROVE Place(h) <= Place(i)
    OBVIOUS
  <2>1. topic[i].handOuts = 0 /\ ~topic[i].reading.late
    BY <1>7 DEF Fresh
  <2>2. topic[h].handOuts # 0
    BY <1>2 DEF FirstInOrder
  <2>3. h < i
    BY <1>2, <1>3, <2>1, <2>2 DEF FirstInOrder
  <2> QED BY <1>2, <2>1, <2>3 DEF PlacesInOrder
<1>9. shown' = shown \/ shown' = Place(h)
  BY <1>1 DEF Place
<1>10. PlacesInOrder'
  <2>1. \A i, j \in DOMAIN topic' :
          i < j /\ ~topic'[j].reading.late => Place(i)' <= Place(j)'
    BY <1>1, <1>6 DEF PlacesInOrder
  <2>2. \A i \in DOMAIN topic' : Place(i)' <= file' /\ (Fresh(i)' => shown' <= Place(i)')
    BY <1>1, <1>6, <1>7, <1>8, <1>9 DEF PlacesInOrder
  <2>3. shown' <= file' /\ late' <= file' /\ reading'.location <= file'
    BY <1>1, <1>2, <1>9 DEF PlacesInOrder
  <2>4. answer' # None =>
          /\ loop' = "wait" /\ answer' <= file' /\ shown' <= answer'
          /\ \A i \in DOMAIN topic' : Place(i)' <= answer'
    BY <1>1, <1>2, <1>6, <1>9 DEF PlacesInOrder
  <2>5. loop' = "send" /\ ~reading'.late =>
          /\ shown' <= reading'.location
          /\ \A i \in DOMAIN topic' : Place(i)' <= reading'.location
    BY <1>1, <1>2, <1>6, <1>9 DEF PlacesInOrder
  <2> QED BY <2>1, <2>2, <2>3, <2>4, <2>5 DEF PlacesInOrder
<1> QED BY <1>4, <1>5, <1>10

\* Every step of the flow keeps the invariant.
LEMMA NextStep == Inv /\ [Next]_vars => Inv'
<1> SUFFICES ASSUME Inv, [Next]_vars PROVE Inv'
  OBVIOUS
<1>1. CASE SendHeartbeat
  BY <1>1, SendStep
<1>2. CASE Receive
  BY <1>2, ReceiveStep
<1>3. CASE AddHeartbeat \/ Reject
  BY <1>3, RecordStep
<1>4. CASE Settle
  <2>1. consumer # "idle" /\ consumer' = "idle" /\ topic' = RemoveAt(topic, Held)
        /\ UNCHANGED <<file, loop, answer, late, reading, shown>>
    BY <1>4 DEF Settle, edge
  <2> QED BY <2>1, HeldIsThere, RemoveStep
<1>5. CASE ProcessFails \/ LoseLock
  <2>1. PICK new \in {"queued", "locked"} :
          consumer # "idle" /\ consumer' = "idle"
          /\ topic' = [topic EXCEPT ![Held].state = new]
          /\ UNCHANGED <<file, loop, answer, late, reading, shown>>
    BY <1>5 DEF ProcessFails, LoseLock, edge
  <2>2. Held \in DOMAIN topic /\ topic[Held].state = "held"
    BY <2>1, HeldIsThere
  <2> QED BY <2>1, <2>2, StateStep
<1>6. ASSUME NEW i \in DOMAIN topic, LockExpires(i) PROVE Inv'
  <2>1. topic[i].state = "locked" /\ topic' = [topic EXCEPT ![i].state = "queued"]
        /\ UNCHANGED <<file, loop, answer, late, reading, shown, consumer>>
    BY <1>6 DEF LockExpires, edge, cloud
  <2> QED BY <2>1, StateStep
<1>7. ASSUME NEW i \in DOMAIN topic, Exhaust(i) \/ Expire(i) PROVE Inv'
  <2>1. topic[i].state # "held" /\ topic' = RemoveAt(topic, i)
        /\ UNCHANGED <<file, loop, answer, late, reading, shown, consumer>>
    BY <1>7 DEF Exhaust, Expire, edge, cloud
  <2> QED BY <2>1, RemoveStep
<1> QED
  BY <1>1, <1>2, <1>3, <1>4, <1>5, <1>6, <1>7, EdgeStep
  DEF Next, Beat, Process, Subscription

\* Every location on its way, or shown.
Places == {answer, late, reading.location, shown} \cup {Place(i) : i \in DOMAIN topic}

\* A step puts the reading into the topic, or none that was not there.
LEMMA ReadingsKept ==
    ASSUME Inv,
           \/ SendHeartbeat \/ Receive \/ Settle \/ ProcessFails \/ LoseLock
           \/ \E i \in DOMAIN topic : LockExpires(i) \/ Exhaust(i) \/ Expire(i)
    PROVE  \A j \in DOMAIN topic' :
             \/ topic'[j].reading = reading
             \/ \E i \in DOMAIN topic : topic'[j].reading = topic[i].reading
<1> DEFINE Kept == \A j \in DOMAIN topic' :
                     \/ topic'[j].reading = reading
                     \/ \E i \in DOMAIN topic : topic'[j].reading = topic[i].reading
<1>0. topic \in Seq(Messages) /\ DOMAIN topic = 1..Len(topic) /\ Len(topic) \in Nat
  BY DEF Inv, TypeOK
<1>1. CASE SendHeartbeat
  <2> DEFINE m == [reading |-> reading, handOuts |-> 0, state |-> "queued"]
  <2>1. m \in Messages /\ m.reading = reading /\ topic' = Append(topic, m)
    BY <1>1, MaxHandOutsAssumption DEF SendHeartbeat, Inv, TypeOK, Messages
  <2> HIDE DEF m
  <2>2. /\ DOMAIN topic' = 1..(Len(topic) + 1) /\ topic'[Len(topic) + 1] = m
        /\ \A j \in DOMAIN topic : topic'[j] = topic[j]
    BY <1>0, <2>1, AppendElements
  <2>3. DOMAIN topic' = DOMAIN topic \cup {Len(topic) + 1}
    BY <1>0, <2>2
  <2> QED BY <2>1, <2>2, <2>3
<1>2. CASE Receive
  <2>1. PICK i \in DOMAIN topic : HandOut(i)
    BY <1>2 DEF Receive, Available
  <2> QED BY <1>0, <2>1, SetHandOut DEF HandOut
<1>3. ASSUME NEW i \in DOMAIN topic, topic' = RemoveAt(topic, i)
      PROVE  Kept
  <2>1. /\ DOMAIN topic' = 1..(Len(topic) - 1)
        /\ \A j \in DOMAIN topic' : topic'[j] = IF j < i THEN topic[j] ELSE topic[j + 1]
    BY <1>0, <1>3, RemoveElements
  <2> QED BY <1>0, <2>1
<1>4. ASSUME NEW i \in DOMAIN topic, NEW new \in {"queued", "locked"},
             topic' = [topic EXCEPT ![i].state = new]
      PROVE  Kept
  <2>1. \A j \in DOMAIN topic : topic[j] \in Messages
    BY <1>0
  <2>2. DOMAIN topic' = DOMAIN topic
    BY <1>0, <1>4
  <2>3. \A j \in DOMAIN topic : topic'[j].reading = topic[j].reading
    BY <1>0, <1>4, <2>1 DEF Messages
  <2> QED BY <2>2, <2>3
<1>5. CASE Settle \/ ProcessFails \/ LoseLock
  <2>1. consumer # "idle"
    BY <1>5 DEF Settle, ProcessFails, LoseLock
  <2>2. Held \in DOMAIN topic
    BY <2>1, HeldIsThere
  <2> DEFINE h == Held
  <2>3. h \in DOMAIN topic
    BY <2>2
  <2>4. \/ topic' = RemoveAt(topic, h)
        \/ topic' = [topic EXCEPT ![h].state = "queued"]
        \/ topic' = [topic EXCEPT ![h].state = "locked"]
    BY <1>5 DEF Settle, ProcessFails, LoseLock
  <2> HIDE DEF Kept, h
  <2>5. Kept
    BY <1>3, <1>4, <2>3, <2>4
  <2> QED BY <2>5 DEF Kept
<1>6. CASE \E i \in DOMAIN topic : LockExpires(i) \/ Exhaust(i) \/ Expire(i)
  <2>1. PICK i \in DOMAIN topic : LockExpires(i) \/ Exhaust(i) \/ Expire(i)
    BY <1>6
  <2>2. \/ topic' = RemoveAt(topic, i)
        \/ topic' = [topic EXCEPT ![i].state = "queued"]
    BY <2>1 DEF LockExpires, Exhaust, Expire
  <2> HIDE DEF Kept
  <2>3. Kept
    BY <1>3, <1>4, <2>2
  <2> QED BY <2>3 DEF Kept
<1> QED BY <1>1, <1>2, <1>5, <1>6

\* No step makes a location up: each is one that was there, or the file's.
LEMMA PlacesFromFile ==
    ASSUME Inv, [Next]_vars
    PROVE  Places' \subseteq Places \cup {file, None}
<1> USE DEF Places, Place
<1>1. CASE \/ SendHeartbeat \/ Receive \/ Settle \/ ProcessFails \/ LoseLock
           \/ \E i \in DOMAIN topic : LockExpires(i) \/ Exhaust(i) \/ Expire(i)
  <2>1. UNCHANGED <<answer, late, reading, shown>>
    BY <1>1 DEF SendHeartbeat, Receive, HandOut, Settle, ProcessFails, LoseLock,
       LockExpires, Exhaust, Expire, cloud, edge
  <2> QED BY <1>1, <2>1, ReadingsKept
<1>2. CASE AddHeartbeat
  <2>1. consumer # "idle" /\ shown' = Place(Held)
        /\ UNCHANGED <<answer, late, reading, topic>>
    BY <1>2 DEF AddHeartbeat, edge
  <2>2. Held \in DOMAIN topic
    BY <2>1, HeldIsThere
  <2> QED BY <2>1, <2>2
<1>3. CASE HearLocation \/ HearLateLocation
  <2>1. /\ reading'.location \in {answer, late} /\ answer' = None
        /\ late' \in {None, answer} /\ UNCHANGED <<topic, shown>>
    BY <1>3 DEF HearLocation, HearLateLocation, EndRequest, cloud
  <2> QED BY <2>1
<1>4. CASE Answer \/ Skip \/ CrashEdge
  <2>1. /\ answer' \in {answer, file, None} /\ late' \in {late, answer, None}
        /\ UNCHANGED <<reading, topic, shown>>
    BY <1>4 DEF Answer, Skip, CrashEdge, EndRequest, cloud
  <2> QED BY <2>1
<1>5. CASE \/ HearDeviceInfo \/ RequestLocation \/ SendFails \/ Sleep \/ Reject
           \/ FileUpdated \/ UNCHANGED vars
  <2>1. UNCHANGED <<answer, late, reading, topic, shown>>
    BY <1>5 DEF HearDeviceInfo, RequestLocation, SendFails, Sleep, Reject, FileUpdated,
       vars, cloud, edge
  <2> QED BY <2>1
<1> QED
  BY <1>1, <1>2, <1>3, <1>4, <1>5 DEF Next, Beat, Process, Subscription

\* The inductive invariant of the heartbeats' way to the cloud.
THEOREM Invariance == Spec => []Inv
BY InitInv, NextStep, PTL DEF Spec

\* HeartbeatFlow.TypeOK, the bound on the topic included.
THEOREM TypeCorrect == Spec => []TypeOK
<1>1. Inv => TypeOK
  BY DEF Inv
<1> QED BY <1>1, Invariance, PTL

\* HeartbeatFlow.BackOnlyIfLate: the location shown falls back only by a
\* heartbeat that was handed out before, or that carries a late answer.
THEOREM ShownFallsBackOnlyIfLate == Spec => BackOnlyIfLate
<1>1. Inv /\ [Next]_vars
        => [shown' < shown => topic[Held].handOuts > 1
                              \/ topic[Held].reading.late]_vars
  <2> SUFFICES ASSUME Inv, Next, shown' < shown
               PROVE  topic[Held].handOuts > 1 \/ topic[Held].reading.late
    OBVIOUS
  <2> DEFINE h == Held
  <2>1. shown \in Int /\ \A i \in DOMAIN topic :
          topic[i].handOuts \in Nat /\ topic[i].reading.late \in BOOLEAN
    BY LocationNumbers
  <2>2. AddHeartbeat
    <3>1. shown' # shown
      BY <2>1
    <3> QED
      BY <3>1
      DEF Next, Beat, Process, Subscription, HearDeviceInfo,
          RequestLocation, Answer, HearLocation, HearLateLocation,
          Skip, SendHeartbeat, SendFails, Sleep, CrashEdge,
          Receive, HandOut, Reject, Settle, ProcessFails,
          LoseLock, LockExpires, Exhaust, Expire, FileUpdated,
          cloud
  <2>3. consumer = "add" /\ shown' = Place(h)
    BY <2>2 DEF AddHeartbeat, Place
  <2>4. h \in DOMAIN topic /\ topic[h].state = "held"
    BY <2>3, HeldIsThere
  <2> HIDE DEF h
  <2>5. topic[h].handOuts # 0
    BY <2>4 DEF Inv, FirstInOrder
  <2>6. ~(shown <= Place(h))
    <3>1. Place(h) \in Int
      BY <2>4, LocationNumbers
    <3> QED BY <2>1, <2>3, <3>1
  <2>7. ~Fresh(h)
    BY <2>4, <2>6 DEF Inv, PlacesInOrder
  <2>8. topic[h].handOuts > 1 \/ topic[h].reading.late
    BY <2>1, <2>3, <2>4, <2>5, <2>7 DEF Fresh
  <2> QED BY <2>8 DEF h
<1> QED BY <1>1, Invariance, PTL DEF Spec, BackOnlyIfLate
=============================================================================

------------------------ MODULE LocationUpdatesProofs ------------------------
(* The location of a device never falls back to an earlier update, for any    *)
(* number of updates and deliveries, which is what HeartbeatFlow supposes; so *)
(* the location shown in the cloud is one that was sent, and not refused.     *)
EXTENDS LocationUpdates, SequenceTheorems, TLAPS

CONSTANTS MaxQueued, MaxHandOuts     \* of HeartbeatFlow
VARIABLES loop, answer, late, reading, topic, consumer, shown

\* The heartbeats of the device, which read the same file.
Flow == INSTANCE HeartbeatFlowProofs WITH Locations <- 0..NumUpdates

(* NeverBack is not inductive: what is saved next must be no older than the   *)
(* file, and so on back to the queue.  InOrder says that an update moves      *)
(* along queue, wire and saving in the order of the session, where a copy     *)
(* published early is as old as the command at the head.                      *)
AllFrom(low, s) == \A i \in DOMAIN s : low <= s[i]

Rising(s)     == \A i, j \in DOMAIN s : i < j => s[i] < s[j]
NotFalling(s) == \A i, j \in DOMAIN s : i < j => s[i] <= s[j]

InOrder ==
    /\ Rising(commands)
    /\ \A i \in DOMAIN commands : commands[i] <= sent
    /\ NotFalling(wire)
    /\ \A i \in DOMAIN wire : wire[i] <= sent /\ AllFrom(wire[i], commands)
    /\ saving # None => saving <= sent /\ file <= saving
                        /\ AllFrom(saving, wire) /\ AllFrom(saving, commands)
    /\ file <= sent /\ AllFrom(file, wire) /\ AllFrom(file, commands)

IInv ==
    /\ TypeOK
    /\ file # Torn
    /\ Held => commands # <<>>
    /\ InOrder

-----------------------------------------------------------------------------
(* What the three ways of changing a sequence do to its elements.             *)

\* Every element of Append(s, x) is one of s or x, at its place.
LEMMA AppendElements ==
    ASSUME NEW S, NEW s \in Seq(S), NEW x \in S
    PROVE  /\ Append(s, x) \in Seq(S)
           /\ DOMAIN s = 1..Len(s) /\ DOMAIN Append(s, x) = 1..(Len(s) + 1)
           /\ Len(s) \in Nat
           /\ \A i \in DOMAIN s : Append(s, x)[i] = s[i]
           /\ Append(s, x)[Len(s) + 1] = x
  OBVIOUS

\* Tail(s) is s without its first place.
LEMMA TailElements ==
    ASSUME NEW S, NEW s \in Seq(S), s # <<>>
    PROVE  /\ Head(s) \in S /\ Head(s) = s[1] /\ 1 \in DOMAIN s
           /\ Tail(s) \in Seq(S)
           /\ DOMAIN s = 1..Len(s) /\ DOMAIN Tail(s) = 1..(Len(s) - 1)
           /\ Len(s) \in Nat \ {0}
           /\ \A i \in DOMAIN Tail(s) : i + 1 \in DOMAIN s /\ Tail(s)[i] = s[i + 1]
  OBVIOUS

\* RemoveAt(s, k) closes the gap at k and keeps the order.
LEMMA RemoveElements ==
    ASSUME NEW S, NEW s \in Seq(S), NEW k \in DOMAIN s
    PROVE  /\ RemoveAt(s, k) \in Seq(S)
           /\ DOMAIN s = 1..Len(s) /\ DOMAIN RemoveAt(s, k) = 1..(Len(s) - 1)
           /\ Len(s) \in Nat /\ Len(RemoveAt(s, k)) = Len(s) - 1
           /\ \A i \in DOMAIN RemoveAt(s, k) :
                RemoveAt(s, k)[i] = IF i < k THEN s[i] ELSE s[i + 1]
<1>1. k \in 1..Len(s) /\ Len(s) \in Nat /\ DOMAIN s = 1..Len(s)
  BY LenProperties
<1> DEFINE front == SubSeq(s, 1, k - 1)
           back == SubSeq(s, k + 1, Len(s))
           rest == front \o back
<1>2. \A i \in 1..Len(s) : s[i] \in S
  BY <1>1
<1>3. ASSUME NEW low \in Int, NEW high \in Int, \A i \in low..high : s[i] \in S
      PROVE  /\ SubSeq(s, low, high) \in Seq(S)
             /\ Len(SubSeq(s, low, high)) = IF low <= high THEN high - low + 1 ELSE 0
             /\ \A i \in 1..(high - low + 1) : SubSeq(s, low, high)[i] = s[low + i - 1]
  BY <1>3, SubSeqProperties
<1>4. 1 \in Int /\ k - 1 \in Int /\ k + 1 \in Int /\ Len(s) \in Int
      /\ (\A i \in 1..(k - 1) : s[i] \in S) /\ (\A i \in (k + 1)..Len(s) : s[i] \in S)
  BY <1>1, <1>2
<1>5. /\ front \in Seq(S)
      /\ Len(front) = IF 1 <= k - 1 THEN (k - 1) - 1 + 1 ELSE 0
      /\ \A i \in 1..((k - 1) - 1 + 1) : front[i] = s[1 + i - 1]
  BY <1>3, <1>4
<1>6. /\ back \in Seq(S)
      /\ Len(back) = IF k + 1 <= Len(s) THEN Len(s) - (k + 1) + 1 ELSE 0
      /\ \A i \in 1..(Len(s) - (k + 1) + 1) : back[i] = s[(k + 1) + i - 1]
  <2>1. PICK low \in Int : low = k + 1
    BY <1>4
  <2>2. \A i \in low..Len(s) : s[i] \in S
    BY <1>4, <2>1
  <2>3. /\ SubSeq(s, low, Len(s)) \in Seq(S)
        /\ Len(SubSeq(s, low, Len(s))) = IF low <= Len(s) THEN Len(s) - low + 1 ELSE 0
        /\ \A i \in 1..(Len(s) - low + 1) : SubSeq(s, low, Len(s))[i] = s[low + i - 1]
    BY <1>3, <1>4, <2>2
  <2> QED BY <2>1, <2>3
<1> HIDE DEF front, back
<1>7. Len(front) = k - 1 /\ \A i \in 1..(k - 1) : front[i] = s[i]
  BY <1>1, <1>5
<1>8. Len(back) = Len(s) - k /\ \A i \in 1..(Len(s) - k) : back[i] = s[i + k]
  <2>1. Len(back) = Len(s) - k
    BY <1>1, <1>6
  <2>2. ASSUME NEW i \in 1..(Len(s) - k) PROVE back[i] = s[i + k]
    <3>1. i \in 1..(Len(s) - (k + 1) + 1) /\ (k + 1) + i - 1 = i + k
      BY <1>1
    <3> QED BY <1>6, <3>1
  <2> QED BY <2>1, <2>2
<1>9. /\ rest \in Seq(S) /\ Len(rest) = Len(front) + Len(back)
      /\ \A i \in 1..(Len(front) + Len(back)) :
            rest[i] = IF i <= Len(front) THEN front[i] ELSE back[i - Len(front)]
  BY <1>5, <1>6, ConcatProperties
<1>10. RemoveAt(s, k) = rest
  BY DEF RemoveAt, front, back
<1> HIDE DEF rest
<1>11. Len(rest) = Len(s) - 1 /\ DOMAIN rest = 1..(Len(s) - 1)
  BY <1>1, <1>7, <1>8, <1>9, LenProperties
<1>12. ASSUME NEW i \in 1..(Len(s) - 1)
       PROVE  rest[i] = IF i < k THEN s[i] ELSE s[i + 1]
  <2>1. rest[i] = IF i <= k - 1 THEN front[i] ELSE back[i - (k - 1)]
    BY <1>1, <1>7, <1>8, <1>9
  <2>2. CASE i < k
    BY <1>1, <1>7, <2>1, <2>2
  <2>3. CASE ~(i < k)
    <3>1. i - (k - 1) \in 1..(Len(s) - k) /\ (i - (k - 1)) + k = i + 1
      BY <1>1, <2>3
    <3>2. back[i - (k - 1)] = s[i + 1]
      BY <1>8, <3>1
    <3> QED BY <1>1, <2>1, <2>3, <3>2
  <2> QED BY <2>2, <2>3
<1> QED BY <1>1, <1>9, <1>10, <1>11, <1>12

-----------------------------------------------------------------------------
(* The initial state and the steps.                                           *)

HeldHasCommand == Held => commands # <<>>

\* At the start nothing is under way and the file is the one installed.
LEMMA InitIInv == Init => IInv
<1> SUFFICES ASSUME Init PROVE IInv
  OBVIOUS
<1>1. DOMAIN commands = {} /\ DOMAIN wire = {}
  BY DEF Init
<1> QED
  BY <1>1, UpdatesAssumption, MaxDeliveryAssumption
  DEF Init, IInv, TypeOK, InOrder, Rising, NotFalling, AllFrom, Updates, Torn, None, Held

\* What a step leaves of the types, and that a message in hand is there.
LEMMA TypeStep ==
    ASSUME IInv, [Next]_vars
    PROVE  TypeOK' /\ file' # Torn /\ HeldHasCommand'
<1> USE UpdatesAssumption, MaxDeliveryAssumption
<1>0. TypeOK /\ file # Torn /\ (Held => commands # <<>>)
  BY DEF IInv
<1>1. CASE Send
  <2>1. sent + 1 \in Updates
    BY <1>0, <1>1 DEF Send, TypeOK, Updates
  <2>2. commands' \in Seq(Updates) /\ commands' # <<>>
    <3>1. commands \in Seq(Updates) /\ commands' = Append(commands, sent + 1)
      BY <1>0, <1>1 DEF Send, TypeOK
    <3>2. Append(commands, sent + 1) \in Seq(Updates)
          /\ Append(commands, sent + 1) # <<>>
      BY <2>1, <3>1
    <3> QED BY <3>1, <3>2
  <2> QED BY <1>0, <1>1, <2>1, <2>2 DEF Send, TypeOK, network, Held, HeldHasCommand, Updates
<1>2. CASE \E i \in DOMAIN commands : Expire(i)
  <2>1. PICK i \in DOMAIN commands : Expire(i)
    BY <1>2
  <2>2. commands' \in Seq(Updates) /\ commands[i] \in Updates
        /\ DOMAIN commands = 1..Len(commands) /\ Len(commands) \in Nat
        /\ DOMAIN commands' = 1..(Len(commands) - 1)
    BY <1>0, <2>1, RemoveElements DEF Expire, TypeOK
  <2>3. Held => commands' # <<>>
    <3> SUFFICES ASSUME Held PROVE commands' # <<>>
      OBVIOUS
    <3>1. i # 1
      BY <2>1 DEF Expire
    <3>2. 1 \in DOMAIN commands'
      BY <2>2, <3>1
    <3> QED BY <3>2
  <2> QED BY <1>0, <2>1, <2>2, <2>3 DEF Expire, TypeOK, network, Held, HeldHasCommand
<1>3. CASE Exhaust \/ DeadLetter \/ Complete
  <2>1. commands # <<>>
    BY <1>0, <1>3 DEF Exhaust, DeadLetter, Complete, Held
  <2>2. Tail(commands) \in Seq(Updates) /\ Head(commands) \in Updates
    BY <1>0, <2>1 DEF TypeOK
  <2> QED
    BY <1>0, <1>3, <2>1, <2>2
    DEF Exhaust, DeadLetter, Complete, TypeOK, network, Held, HeldHasCommand, Command
<1>4. CASE Start \/ Accept \/ Abandon
  BY <1>0, <1>4
  DEF Start, Accept, Abandon, TypeOK, session, network, Held, HeldHasCommand
<1>5. CASE Receive
  <2>1. Command \in Updates
    BY <1>0, <1>5 DEF Receive, TypeOK, Command
  <2>2. deliveries[Command] + 1 \in 0..MaxDelivery
    BY <1>0, <1>5, <2>1 DEF Receive, TypeOK
  <2> QED
    BY <1>0, <1>5, <2>1, <2>2 DEF Receive, TypeOK, network, Held, HeldHasCommand
<1>6. CASE Publish
  <2>1. Command \in Updates
    BY <1>0, <1>6 DEF Publish, TypeOK, Command, Held
  <2>2. wire' \in Seq(Updates)
    BY <1>0, <1>6, <2>1 DEF Publish, TypeOK
  <2> QED
    BY <1>0, <1>6, <2>2 DEF Publish, TypeOK, session, Held, HeldHasCommand
<1>7. CASE HearUpdate
  <2>1. Tail(wire) \in Seq(Updates) /\ Head(wire) \in Updates
    BY <1>0, <1>7 DEF HearUpdate, TypeOK
  <2> QED
    BY <1>0, <1>7, <2>1 DEF HearUpdate, TypeOK, session, Held, HeldHasCommand
<1>8. CASE SaveLocation
  <2>1. saving \in 1..NumUpdates
    BY <1>0, <1>8 DEF SaveLocation, TypeOK, Updates
  <2>2. file' \in 0..NumUpdates /\ file' # Torn
    BY <1>8, <2>1 DEF SaveLocation, Torn
  <2> QED
    BY <1>0, <1>8, <2>2 DEF SaveLocation, TypeOK, session, Held, HeldHasCommand
<1>d. Destroyed \subseteq Updates
  BY <1>0 DEF TypeOK, Destroyed, Published, ToSet
<1>9. CASE SaveFails
  BY <1>0, <1>d, <1>9 DEF SaveFails, TypeOK, session, Held, HeldHasCommand
<1>10. CASE Lose
  <2>1. Tail(wire) \in Seq(Updates) /\ Head(wire) \in Updates
    BY <1>0, <1>10 DEF Lose, TypeOK
  <2> QED
    BY <1>0, <1>d, <1>10, <2>1 DEF Lose, TypeOK, session, Held, HeldHasCommand
<1>11. CASE Crash
  <2>1. lost' \subseteq Updates
    BY <1>0, <1>d, <1>11 DEF Crash, TypeOK
  <2> QED
    BY <1>0, <1>11, <2>1 DEF Crash, TypeOK, session, Held, HeldHasCommand
<1>12. CASE UNCHANGED vars
  BY <1>0, <1>12 DEF TypeOK, vars, session, network, Held, HeldHasCommand
<1> QED
  BY <1>1, <1>2, <1>3, <1>4, <1>5, <1>6, <1>7, <1>8, <1>9, <1>10, <1>11, <1>12
  DEF Next, Queue, Commands, OnMessage

\* A step keeps the order of queue, wire, saving and file.
LEMMA OrderStep ==
    ASSUME IInv, [Next]_vars
    PROVE  InOrder'
<1>0. TypeOK /\ InOrder /\ (Held => commands # <<>>)
  BY DEF IInv
<1>a. /\ commands \in Seq(Updates) /\ wire \in Seq(Updates)
      /\ \A i \in DOMAIN commands : commands[i] \in Int
      /\ \A i \in DOMAIN wire : wire[i] \in Int
      /\ sent \in Int /\ file \in Int
      /\ saving # None => saving \in Int
  BY <1>0, UpdatesAssumption DEF TypeOK, Updates, Torn
<1>1. CASE Send
  <2>1. sent' = sent + 1 /\ commands' = Append(commands, sent + 1)
        /\ UNCHANGED <<wire, saving, file>>
    BY <1>1 DEF Send, network
  <2>2. /\ DOMAIN commands = 1..Len(commands) /\ Len(commands) \in Nat
        /\ DOMAIN commands' = 1..(Len(commands) + 1)
        /\ \A i \in DOMAIN commands : commands'[i] = commands[i]
        /\ commands'[Len(commands) + 1] = sent + 1
    BY <1>a, <1>1, <2>1 DEF Send
  <2>3. \A i \in DOMAIN commands' :
          (i \in DOMAIN commands /\ commands'[i] = commands[i]) \/ commands'[i] = sent + 1
    BY <2>2
  <2>4. Rising(commands)'
    BY <1>0, <1>a, <2>2 DEF InOrder, Rising
  <2>5. \A i \in DOMAIN commands' : commands'[i] <= sent'
    BY <1>0, <1>a, <2>1, <2>3 DEF InOrder
  <2>6. ASSUME NEW low \in Int, low <= sent, AllFrom(low, commands)
        PROVE  AllFrom(low, commands')
    BY <1>a, <2>3, <2>6 DEF AllFrom
  <2>7. \A i \in DOMAIN wire : wire[i] <= sent' /\ AllFrom(wire[i], commands')
    BY <1>0, <1>a, <2>1, <2>6 DEF InOrder
  <2> QED BY <1>0, <1>a, <2>1, <2>4, <2>5, <2>6, <2>7 DEF InOrder, NotFalling
<1>2. CASE \E i \in DOMAIN commands : Expire(i)
  <2>1. PICK k \in DOMAIN commands : Expire(k)
    BY <1>2
  <2>2. commands' = RemoveAt(commands, k) /\ UNCHANGED <<sent, wire, saving, file>>
    BY <2>1 DEF Expire, network
  <2>3. /\ DOMAIN commands = 1..Len(commands) /\ Len(commands) \in Nat
        /\ DOMAIN commands' = 1..(Len(commands) - 1)
        /\ \A i \in DOMAIN commands' :
             commands'[i] = IF i < k THEN commands[i] ELSE commands[i + 1]
    BY <1>a, <2>2, RemoveElements
  <2>4. \A i \in DOMAIN commands' : \E j \in DOMAIN commands : commands'[i] = commands[j]
    BY <2>3
  <2>5. Rising(commands)'
    <3> SUFFICES ASSUME NEW i \in DOMAIN commands', NEW j \in DOMAIN commands', i < j
                 PROVE  commands'[i] < commands'[j]
      BY DEF Rising
    <3>1. PICK a \in {i, i + 1}, b \in {j, j + 1} :
            /\ a \in DOMAIN commands /\ b \in DOMAIN commands /\ a < b
            /\ commands'[i] = commands[a] /\ commands'[j] = commands[b]
      BY <2>3
    <3> QED BY <1>0, <3>1 DEF InOrder, Rising
  <2>6. ASSUME NEW low \in Int, AllFrom(low, commands)
        PROVE  AllFrom(low, commands')
    BY <2>4, <2>6 DEF AllFrom
  <2>7. \A i \in DOMAIN commands' : commands'[i] <= sent
    BY <1>0, <2>4 DEF InOrder
  <2> QED BY <1>0, <1>a, <2>2, <2>5, <2>6, <2>7 DEF InOrder, NotFalling
<1>3. CASE Exhaust \/ DeadLetter \/ Complete
  <2>1. commands # <<>> /\ commands' = Tail(commands) /\ UNCHANGED <<sent, wire, saving, file>>
    BY <1>0, <1>3 DEF Exhaust, DeadLetter, Complete, Held, network
  <2>3. /\ DOMAIN commands = 1..Len(commands) /\ Len(commands) \in Nat
        /\ DOMAIN commands' = 1..(Len(commands) - 1)
        /\ \A i \in DOMAIN commands' : i + 1 \in DOMAIN commands
                                       /\ commands'[i] = commands[i + 1]
    BY <1>a, <2>1, TailElements
  <2>5. Rising(commands)'
    BY <1>0, <1>a, <2>3 DEF InOrder, Rising
  <2>6. ASSUME NEW low \in Int, AllFrom(low, commands)
        PROVE  AllFrom(low, commands')
    BY <2>3, <2>6 DEF AllFrom
  <2>7. \A i \in DOMAIN commands' : commands'[i] <= sent
    BY <1>0, <2>3 DEF InOrder
  <2> QED BY <1>0, <1>a, <2>1, <2>5, <2>6, <2>7 DEF InOrder, NotFalling
<1>4. CASE Start \/ Accept \/ Abandon \/ Receive \/ UNCHANGED vars
  <2>1. UNCHANGED <<commands, sent, wire, saving, file>>
    BY <1>4 DEF Start, Accept, Abandon, Receive, vars, session, network
  <2> QED BY <1>0, <2>1 DEF InOrder, Rising, NotFalling, AllFrom
<1>5. CASE Publish
  <2>1. commands # <<>> /\ wire' = Append(wire, Command)
        /\ UNCHANGED <<commands, sent, saving, file>>
    BY <1>0, <1>5 DEF Publish, Held, session
  <2>2. /\ Command \in Int /\ Command = commands[1] /\ 1 \in DOMAIN commands
        /\ AllFrom(Command, commands) /\ Command <= sent
    <3>1. Command = commands[1] /\ DOMAIN commands = 1..Len(commands)
          /\ Len(commands) \in Nat /\ 1 \in DOMAIN commands
      BY <1>a, <2>1, TailElements DEF Command
    <3>2. AllFrom(Command, commands)
      BY <1>0, <1>a, <3>1 DEF InOrder, Rising, AllFrom
    <3> QED BY <1>0, <1>a, <3>1, <3>2 DEF InOrder
  <2>3. /\ DOMAIN wire = 1..Len(wire) /\ Len(wire) \in Nat
        /\ DOMAIN wire' = 1..(Len(wire) + 1)
        /\ \A i \in DOMAIN wire : wire'[i] = wire[i]
        /\ wire'[Len(wire) + 1] = Command
    <3>1. Command \in Updates
      BY <1>a, <2>1, TailElements DEF Command
    <3> QED BY <1>a, <2>1, <3>1, AppendElements
  <2>4. \A i \in DOMAIN wire' :
          (i \in DOMAIN wire /\ wire'[i] = wire[i]) \/ wire'[i] = Command
    BY <2>3
  <2>5. \A i \in DOMAIN wire : wire[i] <= Command
    BY <1>0, <2>2 DEF InOrder, AllFrom
  <2>6. NotFalling(wire)'
    BY <1>0, <1>a, <2>2, <2>3, <2>5 DEF InOrder, NotFalling
  <2>7. \A i \in DOMAIN wire' : wire'[i] <= sent /\ AllFrom(wire'[i], commands)
    BY <1>0, <2>2, <2>4 DEF InOrder
  <2>8. ASSUME NEW low \in Int, AllFrom(low, wire), AllFrom(low, commands)
        PROVE  AllFrom(low, wire')
    BY <2>2, <2>4, <2>8 DEF AllFrom
  <2> QED BY <1>0, <1>a, <2>1, <2>6, <2>7, <2>8 DEF InOrder
<1>6. CASE HearUpdate \/ Lose
  <2>1. wire # <<>> /\ wire' = Tail(wire) /\ UNCHANGED <<commands, sent, file>>
        /\ (saving' = saving \/ saving' = wire[1])
    BY <1>a, <1>6, TailElements DEF HearUpdate, Lose, session
  <2>2. /\ DOMAIN wire = 1..Len(wire) /\ Len(wire) \in Nat /\ 1 \in DOMAIN wire
        /\ DOMAIN wire' = 1..(Len(wire) - 1)
        /\ \A i \in DOMAIN wire' : i + 1 \in DOMAIN wire /\ wire'[i] = wire[i + 1]
    BY <1>a, <2>1, TailElements
  <2>3. NotFalling(wire)'
    BY <1>0, <1>a, <2>2 DEF InOrder, NotFalling
  <2>4. \A i \in DOMAIN wire' : wire'[i] <= sent /\ AllFrom(wire'[i], commands)
    BY <1>0, <2>2 DEF InOrder
  <2>5. ASSUME NEW low \in Int, AllFrom(low, wire)
        PROVE  AllFrom(low, wire')
    BY <2>2, <2>5 DEF AllFrom
  <2>6. AllFrom(wire[1], wire')
    BY <1>0, <1>a, <2>2 DEF InOrder, NotFalling, AllFrom
  <2>7. file <= wire[1] /\ wire[1] <= sent /\ AllFrom(wire[1], commands)
    BY <1>0, <2>2 DEF InOrder, AllFrom
  <2>8. saving' # None => saving' <= sent /\ file <= saving'
                          /\ AllFrom(saving', wire') /\ AllFrom(saving', commands)
    BY <1>0, <1>a, <2>1, <2>5, <2>6, <2>7 DEF InOrder
  <2> QED BY <1>0, <1>a, <2>1, <2>3, <2>4, <2>5, <2>8 DEF InOrder
<1>7. CASE SaveLocation \/ SaveFails
  <2>1. saving # None /\ saving' = None /\ file' \in {file, saving}
        /\ UNCHANGED <<commands, sent, wire>>
    BY <1>7 DEF SaveLocation, SaveFails, session
  <2> QED BY <1>0, <2>1 DEF InOrder
<1>8. CASE Crash
  <2>1. wire' = <<>> /\ saving' = None /\ UNCHANGED <<commands, sent, file>>
    BY <1>8 DEF Crash, session
  <2>2. DOMAIN wire' = {}
    BY <2>1
  <2> QED BY <1>0, <2>1, <2>2 DEF InOrder, NotFalling, AllFrom
<1> QED
  BY <1>1, <1>2, <1>3, <1>4, <1>5, <1>6, <1>7, <1>8
  DEF Next, Queue, Commands, OnMessage

-----------------------------------------------------------------------------
(* The theorems.                                                              *)

\* The inductive invariant holds in every reachable state.
THEOREM Invariance == Spec => []IInv
<1>1. IInv /\ [Next]_vars => IInv'
  BY TypeStep, OrderStep DEF IInv, HeldHasCommand
<1> QED BY <1>1, InitIInv, PTL DEF Spec

\* Every variable keeps its type, whatever is lost, repeated or restarted.
THEOREM TypeCorrect == Spec => []TypeOK
<1>1. IInv => TypeOK
  BY DEF IInv
<1> QED BY <1>1, Invariance, PTL

\* The location of the device never falls back to an earlier update (lines
\* 166-183 and 219-240 of location-service).
THEOREM NeverFallsBack == Spec => NeverBack
<1>1. IInv /\ [Next]_vars => [file' >= file]_vars
  <2> SUFFICES ASSUME IInv, Next PROVE file' >= file \/ UNCHANGED vars
    OBVIOUS
  <2>1. file \in Int /\ (saving # None => saving \in Int /\ file <= saving)
    BY UpdatesAssumption DEF IInv, TypeOK, InOrder, Updates, Torn
  <2>2. file' = file \/ (saving # None /\ file' = saving)
    BY DEF Next, Queue, Commands, OnMessage, Send, Exhaust, Expire, Start, Receive,
           DeadLetter, Accept, Publish, Abandon, Complete, HearUpdate,
           SaveLocation, SaveFails, Lose, Crash, session, network
  <2> QED BY <2>1, <2>2
<1> QED BY <1>1, Invariance, PTL DEF Spec, NeverBack

-----------------------------------------------------------------------------
\* All that location-service does to its file is what HeartbeatFlow supposes of
\* it: it keeps it, or replaces it by that of a later update (FileUpdated).
THEOREM FileChangesAsHeartbeatsSuppose ==
    Spec => [][\E l \in 0..NumUpdates : l > file /\ file' = l]_file
<1>1. IInv /\ [Next]_vars => [\E l \in 0..NumUpdates : l > file /\ file' = l]_file
  <2> SUFFICES ASSUME IInv, [Next]_vars, file' # file
               PROVE  \E l \in 0..NumUpdates : l > file /\ file' = l
    OBVIOUS
  <2>1. saving # None /\ file' = saving
    BY DEF Next, Queue, Commands, OnMessage, Send, Exhaust, Expire, Start, Receive,
           DeadLetter, Accept, Publish, Abandon, Complete, HearUpdate,
           SaveLocation, SaveFails, Lose, Crash, session, network, vars
  <2>2. saving \in 1..NumUpdates /\ file \in Int /\ file <= saving /\ NumUpdates \in Nat
    BY <2>1, UpdatesAssumption DEF IInv, TypeOK, InOrder, Updates, Torn
  <2> QED BY <2>1, <2>2
<1> QED BY <1>1, Invariance, PTL DEF Spec

-----------------------------------------------------------------------------
(* From a POST to the location shown in the cloud.                            *)

\* What the service has parsed, published, or saved was not refused.
NoneRefused ==
    /\ step = "publish" => commands[1] \notin Refused
    /\ \A i \in DOMAIN wire : wire[i] \notin Refused
    /\ saving \notin Refused /\ file \notin Refused

LEMMA NoneRefusedStep ==
    ASSUME IInv, NoneRefused, [Next]_vars
    PROVE  NoneRefused'
<1> USE DEF NoneRefused
<1>0. /\ commands \in Seq(Updates) /\ wire \in Seq(Updates)
      /\ step = "publish" => commands # <<>>
      /\ None \notin Refused /\ DOMAIN << >> = {}
  BY UpdatesAssumption DEF IInv, TypeOK, Held, None, Updates
<1>1. CASE Send \/ \E i \in DOMAIN commands : Expire(i)
  <2>1. UNCHANGED <<step, wire, saving, file>>
    BY <1>1 DEF Send, Expire, network
  <2>2. step = "publish" => commands'[1] = commands[1]
    <3> SUFFICES ASSUME step = "publish" PROVE commands'[1] = commands[1]
      OBVIOUS
    <3>1. 1 \in DOMAIN commands /\ DOMAIN commands = 1..Len(commands)
          /\ Len(commands) \in Nat
      BY <1>0
    <3>2. CASE Send
      <4>1. sent + 1 \in Updates
        BY <3>2, UpdatesAssumption DEF Send, IInv, TypeOK, Updates
      <4>2. commands' = Append(commands, sent + 1)
        BY <3>2 DEF Send
      <4>3. \A i \in DOMAIN commands : Append(commands, sent + 1)[i] = commands[i]
        BY <1>0, <4>1, AppendElements
      <4> QED BY <3>1, <4>2, <4>3
    <3>3. CASE \E i \in DOMAIN commands : Expire(i)
      <4>1. PICK i \in DOMAIN commands : Expire(i)
        BY <3>3
      <4>2. i # 1 /\ commands' = RemoveAt(commands, i)
        BY <4>1 DEF Expire, Held
      <4>3. 1 \in 1..(Len(commands) - 1)
        BY <3>1, <4>2
      <4> QED BY <1>0, <3>1, <4>2, <4>3, RemoveElements
    <3> QED BY <1>1, <3>2, <3>3
  <2> QED BY <2>1, <2>2
<1>2. CASE Exhaust \/ Start \/ Receive \/ DeadLetter \/ Abandon \/ Complete \/ UNCHANGED vars
  <2>1. UNCHANGED <<wire, saving, file>>
        /\ (step' = "publish" => UNCHANGED <<step, commands>>)
    BY <1>2 DEF Exhaust, Start, Receive, DeadLetter, Abandon, Complete, vars, session,
       network, Held
  <2> QED BY <2>1
<1>3. CASE Accept
  <2>1. commands # <<>> /\ Head(commands) = commands[1]
    BY <1>0, <1>3, TailElements DEF Accept, IInv, Held
  <2> QED BY <1>3, <2>1 DEF Accept, Command, session, network
<1>4. CASE Publish
  <2>1. /\ commands # <<>> /\ Head(commands) = commands[1] /\ Head(commands) \in Updates
        /\ wire' = Append(wire, Head(commands)) /\ step' # "publish"
        /\ UNCHANGED <<saving, file>>
    BY <1>0, <1>4, TailElements DEF Publish, Command
  <2>2. Head(commands) \notin Refused
    BY <1>4, <2>1 DEF Publish
  <2>3. /\ \A i \in DOMAIN wire : wire'[i] = wire[i]
        /\ wire'[Len(wire) + 1] = Head(commands)
        /\ DOMAIN wire' = 1..(Len(wire) + 1) /\ DOMAIN wire = 1..Len(wire)
        /\ Len(wire) \in Nat
    BY <1>0, <2>1, AppendElements
  <2>4. DOMAIN wire' = DOMAIN wire \cup {Len(wire) + 1}
    BY <2>3
  <2> QED BY <2>1, <2>2, <2>3, <2>4
<1>5. CASE HearUpdate \/ Lose
  <2>1. /\ wire # <<>> /\ wire' = Tail(wire) /\ saving' \in {saving, Head(wire)}
        /\ UNCHANGED <<commands, step, file>>
    BY <1>5 DEF HearUpdate, Lose, session
  <2>2. /\ Head(wire) = wire[1] /\ 1 \in DOMAIN wire
        /\ \A i \in DOMAIN Tail(wire) : i + 1 \in DOMAIN wire /\ Tail(wire)[i] = wire[i + 1]
    BY <1>0, <2>1, TailElements
  <2> QED BY <2>1, <2>2
<1>6. CASE SaveLocation \/ SaveFails \/ Crash
  BY <1>0, <1>6 DEF SaveLocation, SaveFails, Crash, session
<1> QED
  BY <1>1, <1>2, <1>3, <1>4, <1>5, <1>6 DEF Next, Queue, Commands, OnMessage

\* The device's location is the one installed, or that of an update which was
\* sent and passed parse_request (lines 72-82 of location-service).
THEOREM FileIsSentUpdate == Spec => [](file \in {0} \cup (1..sent \ Refused))
<1>1. Init => NoneRefused
  BY UpdatesAssumption DEF Init, NoneRefused, None, Updates
<1>2. IInv /\ NoneRefused => file \in {0} \cup (1..sent \ Refused)
  BY UpdatesAssumption DEF IInv, TypeOK, InOrder, NoneRefused, Torn, Updates
<1> QED BY <1>1, <1>2, Invariance, NoneRefusedStep, PTL DEF Spec

FlowLimits == MaxQueued \in Nat \ {0} /\ MaxHandOuts \in Nat \ {0}

\* The location shown for a device is the one installed, or that of an update
\* which the API sent and the device accepted: whatever was repeated, late, or
\* overtaken on the way, the cloud shows no other.
THEOREM ShownIsSentUpdate ==
    ASSUME FlowLimits
    PROVE  Spec /\ Flow!Spec => [](shown \in {None, 0} \cup (1..sent \ Refused))
<1> DEFINE Accepted == 0..NumUpdates \ Refused
           Sound == Flow!Places \subseteq Accepted \cup {None}
<1>0. Flow!None = None
  BY DEF Flow!None, None
<1>1. Flow!Init => Sound
  BY <1>0, UpdatesAssumption DEF Flow!Init, Flow!Places, Updates
<1>2. Flow!Inv /\ file \in {0} \cup (1..sent \ Refused) /\ IInv /\ Sound
        /\ [Flow!Next]_(Flow!vars) => Sound'
  <2> SUFFICES ASSUME Flow!Inv, file \in {0} \cup (1..sent \ Refused), IInv, Sound,
                      [Flow!Next]_(Flow!vars)
               PROVE  Sound'
    OBVIOUS
  <2>1. Flow!Places' \subseteq Flow!Places \cup {file, None}
    BY <1>0, Flow!PlacesFromFile, UpdatesAssumption DEF FlowLimits
  <2>2. file \in Accepted
    BY UpdatesAssumption DEF IInv, TypeOK, Updates
  <2> QED BY <2>1, <2>2
<1>3. Flow!Inv /\ file \in {0} \cup (1..sent \ Refused) /\ Sound
        /\ IInv => shown \in {None, 0} \cup (1..sent \ Refused)
  <2> SUFFICES ASSUME Flow!Inv, file \in {0} \cup (1..sent \ Refused), Sound, IInv
               PROVE  shown \in {None, 0} \cup (1..sent \ Refused)
    OBVIOUS
  <2>1. shown \in Accepted \cup {None}
    BY DEF Flow!Places
  <2>2. shown <= file
    BY DEF Flow!Inv, Flow!PlacesInOrder
  <2>3. sent \in Nat /\ NumUpdates \in Nat
    BY UpdatesAssumption DEF IInv, TypeOK
  <2> QED BY <2>1, <2>2, <2>3
<1>4. Flow!Spec => []Flow!Inv
  BY Flow!Invariance, UpdatesAssumption DEF FlowLimits
<1> QED
  BY <1>1, <1>2, <1>3, <1>4, FileIsSentUpdate, Invariance, PTL DEF Flow!Spec
=============================================================================

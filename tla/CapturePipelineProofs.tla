------------------------ MODULE CapturePipelineProofs ------------------------
(* From a command to the picture in the device's document: proofs about the   *)
(* camera and its session, about the pipeline the camera forms with the       *)
(* uploader, and about the pipeline and the cloud together.  Any commands,    *)
(* pictures and numbers of deliveries, faults and restarts.                   *)
EXTENDS CapturePipeline, SequenceTheorems, TLAPS

UploaderProofs == INSTANCE ImageUploaderProofs

CloudProofs == INSTANCE CaptureRequestsProofs
                   WITH Requests <- Commands, Takes <- MaxDelivery,
                        MaxDelivery <- MaxHandOuts, deliveries <- handOuts

-----------------------------------------------------------------------------
(* CameraCapture: its inductive invariant.                                    *)

\* The session's variables and the camera's progress have their types.
SessionType ==
    /\ commands \in Seq(Commands)
    /\ deliveries \in [Commands -> 0..MaxDelivery]
    /\ settled \in [Commands -> {"no", "completed", "dead"}]
    /\ sent \subseteq Commands
    /\ step \in {"idle", "parse", "abandon", "complete"} \cup Handling
    /\ camera \in [Images -> {"none", "jpeg", "opened", "written", "announced"}]

\* The session holds each command that was sent and not settled, once.
QueueInv ==
    /\ \A m, n \in DOMAIN commands : commands[m] = commands[n] => m = n
    /\ \A n \in DOMAIN commands : commands[n] \in sent /\ settled[commands[n]] = "no"
    /\ \A c \in Commands : settled[c] # "no" => c \in sent
    /\ \A c \in sent : settled[c] = "no" => \E n \in DOMAIN commands : commands[n] = c

\* How far the camera got with a picture follows from where the loop is; the
\* delivery under way is the command's last, and no picture is of a later one.
ShotInv ==
    /\ step # "idle" => commands # <<>> /\ deliveries[Command] # 0
    /\ step \notin {"idle", "parse", "abandon"} => Command \in Supported
    /\ step \in {"parse", "capture"} => camera[Shot] = "none"
    /\ step = "openManifest" => camera[Shot] = "jpeg"
    /\ step = "writeManifest" => camera[Shot] = "opened"
    /\ step = "publish" => camera[Shot] = "written"
    /\ step = "complete" => camera[Shot] = "announced"
    /\ \A i \in Images : camera[i] # "none"
                           => i[2] <= deliveries[i[1]] /\ i[1] \in Supported
    /\ \A c \in Commands : settled[c] = "completed" => deliveries[c] # 0

\* The invariant of the camera, without what the uploader changes on the volume.
Core == SessionType /\ QueueInv /\ ShotInv /\ CompletedHasImage /\ SessionOrder

-----------------------------------------------------------------------------
(* What the three ways of changing a sequence do to its elements.             *)

\* Every element of Append(s, x) is one of s or x, at its place.
LEMMA AppendElements ==
    ASSUME NEW S, NEW s \in Seq(S), NEW x \in S
    PROVE  /\ Append(s, x) \in Seq(S)
           /\ DOMAIN s = 1..Len(s) /\ DOMAIN Append(s, x) = 1..(Len(s) + 1)
           /\ Len(s) \in Nat
           /\ \A i \in DOMAIN s : Append(s, x)[i] = s[i]
           /\ Append(s, x)[Len(s) + 1] = x
  OBVIOUS

\* Tail(s) is s without its first place.
LEMMA TailElements ==
    ASSUME NEW S, NEW s \in Seq(S), s # <<>>
    PROVE  /\ Head(s) \in S /\ Head(s) = s[1] /\ 1 \in DOMAIN s
           /\ Tail(s) \in Seq(S)
           /\ DOMAIN s = 1..Len(s) /\ DOMAIN Tail(s) = 1..(Len(s) - 1)
           /\ Len(s) \in Nat \ {0}
           /\ \A i \in DOMAIN Tail(s) : i + 1 \in DOMAIN s /\ Tail(s)[i] = s[i + 1]
  OBVIOUS

\* RemoveAt(s, k) closes the gap at k and keeps the order.
LEMMA RemoveElements ==
    ASSUME NEW S, NEW s \in Seq(S), NEW k \in DOMAIN s
    PROVE  /\ RemoveAt(s, k) \in Seq(S)
           /\ DOMAIN s = 1..Len(s) /\ DOMAIN RemoveAt(s, k) = 1..(Len(s) - 1)
           /\ Len(s) \in Nat
           /\ \A i \in DOMAIN RemoveAt(s, k) :
                RemoveAt(s, k)[i] = IF i < k THEN s[i] ELSE s[i + 1]
<1>1. k \in 1..Len(s) /\ Len(s) \in Nat /\ DOMAIN s = 1..Len(s)
  BY LenProperties
<1> DEFINE front == SubSeq(s, 1, k - 1)
           back == SubSeq(s, k + 1, Len(s))
           rest == front \o back
<1>2. \A i \in 1..Len(s) : s[i] \in S
  BY <1>1
<1>3. ASSUME NEW low \in Int, NEW high \in Int, \A i \in low..high : s[i] \in S
      PROVE  /\ SubSeq(s, low, high) \in Seq(S)
             /\ Len(SubSeq(s, low, high)) = IF low <= high THEN high - low + 1 ELSE 0
             /\ \A i \in 1..(high - low + 1) : SubSeq(s, low, high)[i] = s[low + i - 1]
  BY <1>3, SubSeqProperties
<1>4. 1 \in Int /\ k - 1 \in Int /\ k + 1 \in Int /\ Len(s) \in Int
      /\ (\A i \in 1..(k - 1) : s[i] \in S) /\ (\A i \in (k + 1)..Len(s) : s[i] \in S)
  BY <1>1, <1>2
<1>5. /\ front \in Seq(S)
      /\ Len(front) = IF 1 <= k - 1 THEN (k - 1) - 1 + 1 ELSE 0
      /\ \A i \in 1..((k - 1) - 1 + 1) : front[i] = s[1 + i - 1]
  BY <1>3, <1>4
<1>6. /\ back \in Seq(S)
      /\ Len(back) = IF k + 1 <= Len(s) THEN Len(s) - (k + 1) + 1 ELSE 0
      /\ \A i \in 1..(Len(s) - (k + 1) + 1) : back[i] = s[(k + 1) + i - 1]
  <2>1. PICK low \in Int : low = k + 1
    BY <1>4
  <2>2. \A i \in low..Len(s) : s[i] \in S
    BY <1>4, <2>1
  <2>3. /\ SubSeq(s, low, Len(s)) \in Seq(S)
        /\ Len(SubSeq(s, low, Len(s))) = IF low <= Len(s) THEN Len(s) - low + 1 ELSE 0
        /\ \A i \in 1..(Len(s) - low + 1) : SubSeq(s, low, Len(s))[i] = s[low + i - 1]
    BY <1>3, <1>4, <2>2
  <2> QED BY <2>1, <2>3
<1> HIDE DEF front, back
<1>7. Len(front) = k - 1 /\ \A i \in 1..(k - 1) : front[i] = s[i]
  BY <1>1, <1>5
<1>8. Len(back) = Len(s) - k /\ \A i \in 1..(Len(s) - k) : back[i] = s[i + k]
  <2>1. Len(back) = Len(s) - k
    BY <1>1, <1>6
  <2>2. ASSUME NEW i \in 1..(Len(s) - k) PROVE back[i] = s[i + k]
    <3>1. i \in 1..(Len(s) - (k + 1) + 1) /\ (k + 1) + i - 1 = i + k
      BY <1>1
    <3> QED BY <1>6, <3>1
  <2> QED BY <2>1, <2>2
<1>9. /\ rest \in Seq(S) /\ Len(rest) = Len(front) + Len(back)
      /\ \A i \in 1..(Len(front) + Len(back)) :
            rest[i] = IF i <= Len(front) THEN front[i] ELSE back[i - Len(front)]
  BY <1>5, <1>6, ConcatProperties
<1>10. RemoveAt(s, k) = rest
  BY DEF RemoveAt, front, back
<1> HIDE DEF rest
<1>11. Len(rest) = Len(s) - 1 /\ DOMAIN rest = 1..(Len(s) - 1)
  BY <1>1, <1>7, <1>8, <1>9, LenProperties
<1>12. ASSUME NEW i \in 1..(Len(s) - 1)
       PROVE  rest[i] = IF i < k THEN s[i] ELSE s[i + 1]
  <2>1. rest[i] = IF i <= k - 1 THEN front[i] ELSE back[i - (k - 1)]
    BY <1>1, <1>7, <1>8, <1>9
  <2>2. CASE i < k
    BY <1>1, <1>7, <2>1, <2>2
  <2>3. CASE ~(i < k)
    <3>1. i - (k - 1) \in 1..(Len(s) - k) /\ (i - (k - 1)) + k = i + 1
      BY <1>1, <2>3
    <3>2. back[i - (k - 1)] = s[i + 1]
      BY <1>8, <3>1
    <3> QED BY <1>1, <2>1, <2>3, <3>2
  <2> QED BY <2>2, <2>3
<1> QED BY <1>1, <1>9, <1>10, <1>11, <1>12

-----------------------------------------------------------------------------

\* The command under way is a command, and its picture one of the pictures.
LEMMA ShotFacts ==
    ASSUME SessionType, commands # <<>>
    PROVE  /\ Command \in Commands /\ Command = commands[1] /\ 1 \in DOMAIN commands
           /\ deliveries[Command] # 0 => Shot \in Images
           /\ Shot[1] = Command /\ Shot[2] = deliveries[Command]
<1>1. Command \in Commands /\ Command = commands[1] /\ 1 \in DOMAIN commands
  BY TailElements DEF SessionType, Command
<1> QED
  BY <1>1, MaxDeliveryAssumption DEF SessionType, Shot, Images

\* At the start session and volume are empty and the loop waits.
LEMMA InitCore == Init => Core
<1> SUFFICES ASSUME Init PROVE Core
  OBVIOUS
<1>1. SessionType
  BY MaxDeliveryAssumption DEF Init, SessionType
<1>2. DOMAIN commands = {}
  BY DEF Init
<1> QED
  BY <1>1, <1>2, MaxDeliveryAssumption
     DEF Init, Core, QueueInv, ShotInv, CompletedHasImage, SessionOrder

\* Sending puts a new command at the end: the head stays, or becomes the new
\* command, of which there is no picture.
LEMMA SendStep ==
    ASSUME Core, NEW c \in Commands, Send(c)
    PROVE  Core'
<1> USE DEF Core
<1>1. /\ commands' = Append(commands, c) /\ sent' = sent \cup {c} /\ c \notin sent
      /\ UNCHANGED <<deliveries, settled, step, camera>>
  BY DEF Send, volume
<1>2. /\ commands' \in Seq(Commands)
      /\ DOMAIN commands = 1..Len(commands) /\ Len(commands) \in Nat
      /\ DOMAIN commands' = 1..(Len(commands) + 1)
      /\ \A n \in DOMAIN commands : commands'[n] = commands[n]
      /\ commands'[Len(commands) + 1] = c
  BY <1>1, AppendElements DEF SessionType
<1>3. SessionType'
  BY <1>1, <1>2 DEF SessionType
<1>4. commands # <<>> => commands' # <<>> /\ Command' = Command
  BY <1>2, <1>3, ShotFacts DEF SessionType, Command
<1>5. settled[c] = "no"
  BY <1>1 DEF QueueInv
<1>6. QueueInv'
  <2> USE DEF QueueInv
  <2>1. \A n \in DOMAIN commands' :
          \/ n \in DOMAIN commands /\ commands'[n] = commands[n]
          \/ n = Len(commands) + 1 /\ commands'[n] = c
    BY <1>2
  <2>2. \A m, n \in DOMAIN commands' : commands'[m] = commands'[n] => m = n
    BY <1>1, <2>1
  <2>3. \A n \in DOMAIN commands' : commands'[n] \in sent' /\ settled'[commands'[n]] = "no"
    BY <1>1, <1>5, <2>1
  <2>4. \A d \in sent' : settled'[d] = "no" => \E n \in DOMAIN commands' : commands'[n] = d
    BY <1>1, <1>2
  <2> QED
    BY <1>1, <2>2, <2>3, <2>4
<1>7. ShotInv'
  BY <1>1, <1>4 DEF ShotInv, Shot
<1>8. CompletedHasImage' /\ SessionOrder'
  BY <1>1, <1>4 DEF CompletedHasImage, SessionOrder, Command
<1> QED
  BY <1>3, <1>6, <1>7, <1>8

\* A command that leaves the session at place k is settled; the others stay in
\* their order, and the loop is idle or works on another one, the head.
LEMMA LeaveStep ==
    ASSUME Core, NEW k \in DOMAIN commands, NEW state \in {"completed", "dead"},
           commands' \in Seq(Commands),
           DOMAIN commands' = 1..(Len(commands) - 1),
           \A n \in DOMAIN commands' :
               commands'[n] = IF n < k THEN commands[n] ELSE commands[n + 1],
           settled' = [settled EXCEPT ![commands[k]] = state],
           UNCHANGED <<deliveries, sent, camera>>,
           \/ step' = "idle"
           \/ k # 1 /\ step' = step,
           state = "completed" =>
               commands[k] \in Supported /\ deliveries[commands[k]] # 0
                 /\ camera[<<commands[k], deliveries[commands[k]]>>] = "announced"
    PROVE  Core'
<1> DEFINE c == commands[k]
<1> USE DEF Core
<1>1. /\ DOMAIN commands = 1..Len(commands) /\ Len(commands) \in Nat
      /\ c \in Commands /\ k \in 1..Len(commands) /\ settled[c] = "no"
  BY DEF SessionType, QueueInv
<1>2. SessionType'
  BY <1>1 DEF SessionType
<1>3. QueueInv'
  <2> USE DEF QueueInv
  <2>1. \A n \in DOMAIN commands' : \E m \in DOMAIN commands :
          m # k /\ m \in {n, n + 1} /\ (m = n <=> n < k) /\ commands'[n] = commands[m]
    BY <1>1
  <2>2. \A m \in DOMAIN commands : m # k => commands[m] # c
    OBVIOUS
  <2>3. \A n \in DOMAIN commands' : commands'[n] \in sent' /\ settled'[commands'[n]] = "no"
    BY <2>1, <2>2 DEF SessionType
  <2>4. \A m, n \in DOMAIN commands' : commands'[m] = commands'[n] => m = n
    BY <1>1, <2>1
  <2>5. ASSUME NEW d \in sent, settled'[d] = "no"
        PROVE  \E n \in DOMAIN commands' : commands'[n] = d
    <3>1. d # c /\ settled[d] = "no"
      BY <1>1, <2>5 DEF SessionType
    <3>2. PICK m \in DOMAIN commands : commands[m] = d
      BY <3>1
    <3>3. CASE m < k
      BY <1>1, <3>2, <3>3
    <3>4. CASE m > k
      <4>1. m - 1 \in DOMAIN commands' /\ ~(m - 1 < k) /\ (m - 1) + 1 = m
        BY <1>1, <3>4
      <4> QED
        BY <3>2, <4>1
    <3> QED
      BY <1>1, <3>1, <3>2, <3>3, <3>4
  <2>6. \A d \in Commands : settled'[d] # "no" => d \in sent
    BY <1>1 DEF SessionType
  <2> QED
    BY <2>3, <2>4, <2>5, <2>6
<1>4. k # 1 => commands # <<>> /\ commands' # <<>> /\ Command' = Command /\ c # Command
  <2> SUFFICES ASSUME k # 1
               PROVE  commands # <<>> /\ commands' # <<>> /\ Command' = Command /\ c # Command
    OBVIOUS
  <2>1. 1 \in DOMAIN commands /\ 1 \in DOMAIN commands' /\ commands'[1] = commands[1]
    BY <1>1
  <2>2. commands # <<>> /\ commands' # <<>>
    BY <2>1
  <2> QED
    BY <1>1, <1>2, <2>1, <2>2, TailElements DEF SessionType, QueueInv, Command
<1>5. ShotInv'
  <2>0. \A d \in Commands : settled'[d] = "completed" => deliveries[d] # 0
    BY <1>1 DEF ShotInv, SessionType
  <2>1. CASE step' = "idle"
    BY <2>0, <2>1 DEF ShotInv
  <2>2. CASE k # 1 /\ step' = step
    BY <1>4, <2>0, <2>2 DEF ShotInv, Shot
  <2> QED
    BY <2>1, <2>2
<1>6. CompletedHasImage'
  BY <1>1 DEF CompletedHasImage, SessionType
<1>7. SessionOrder'
  <2> SUFFICES ASSUME NEW i \in Images, camera[i] # "none", settled'[i[1]] = "no"
               PROVE  commands' # <<>> /\ i[1] = Command'
    BY DEF SessionOrder, Command
  <2>1. i[1] # c /\ settled[i[1]] = "no"
    BY <1>1 DEF SessionType, Images
  <2>2. commands # <<>> /\ i[1] = Command
    BY <2>1 DEF SessionOrder, Command
  <2>3. k # 1
    BY <2>1, <2>2, ShotFacts
  <2> QED
    BY <1>4, <2>2, <2>3
<1> QED
  BY <1>2, <1>3, <1>5, <1>6, <1>7

\* The queue's dead-lettering of an expired command.
LEMMA ExpireStep ==
    ASSUME Core, NEW k \in DOMAIN commands, Expire(k)
    PROVE  Core'
<1>1. /\ commands' \in Seq(Commands)
      /\ DOMAIN commands' = 1..(Len(commands) - 1)
      /\ \A n \in DOMAIN commands' :
           commands'[n] = IF n < k THEN commands[n] ELSE commands[n + 1]
  BY RemoveElements DEF Core, SessionType, Expire
<1> QED
  BY <1>1, LeaveStep DEF Expire, volume

\* The three ways in which the head leaves the session.
LEMMA HeadStep ==
    ASSUME Core, Exhaust \/ DeadLetter \/ Complete
    PROVE  Core'
<1>0. commands # <<>>
  BY DEF Core, ShotInv, Exhaust, DeadLetter, Complete
<1>1. Command = commands[1] /\ Command \in Commands /\ 1 \in DOMAIN commands
  BY <1>0, ShotFacts DEF Core
<1>2. /\ commands' = Tail(commands) /\ step' = "idle"
      /\ UNCHANGED <<deliveries, sent, camera>>
      /\ settled' = [settled EXCEPT ![commands[1]] = IF Complete THEN "completed" ELSE "dead"]
  BY <1>1 DEF Exhaust, DeadLetter, Complete, volume, Command
<1>3. /\ commands' \in Seq(Commands)
      /\ DOMAIN commands' = 1..(Len(commands) - 1)
      /\ \A n \in DOMAIN commands' :
           commands'[n] = IF n < 1 THEN commands[n] ELSE commands[n + 1]
  BY <1>0, <1>2, TailElements DEF Core, SessionType
<1>4. Complete => commands[1] \in Supported /\ deliveries[commands[1]] # 0
                    /\ camera[<<commands[1], deliveries[commands[1]]>>] = "announced"
  BY <1>1 DEF Core, ShotInv, Complete, Shot
<1> QED
  BY <1>1, <1>2, <1>3, <1>4, LeaveStep

\* A delivery is counted before its command is looked at, so the picture it
\* would take is a new one.
LEMMA ReceiveStep ==
    ASSUME Core, Receive
    PROVE  Core'
<1> USE DEF Core
<1>1. /\ commands # <<>> /\ step' = "parse" /\ deliveries[Command] < MaxDelivery
      /\ deliveries' = [deliveries EXCEPT ![Command] = @ + 1]
      /\ UNCHANGED <<commands, settled, sent, camera>>
  BY DEF Receive, volume
<1>2. Command \in Commands /\ Command = commands[1] /\ 1 \in DOMAIN commands
  BY <1>1, ShotFacts
<1>3. deliveries[Command] \in Nat /\ deliveries'[Command] = deliveries[Command] + 1
  BY <1>1, <1>2, MaxDeliveryAssumption DEF SessionType
<1>4. SessionType'
  BY <1>1, <1>2, MaxDeliveryAssumption DEF SessionType
<1>5. Shot' = <<Command, deliveries[Command] + 1>> /\ Command' = Command
  BY <1>1, <1>3 DEF Shot, Command
<1>6. camera[<<Command, deliveries[Command] + 1>>] = "none"
  BY <1>1, <1>2, <1>3, MaxDeliveryAssumption DEF SessionType, ShotInv, Images
<1>7. \A i \in Images : camera[i] # "none" => i[2] <= deliveries'[i[1]]
  <2> SUFFICES ASSUME NEW i \in Images, camera[i] # "none"
               PROVE  i[2] <= deliveries'[i[1]]
    OBVIOUS
  <2>1. i[1] \in Commands /\ i[2] \in Nat /\ i[2] <= deliveries[i[1]]
    BY MaxDeliveryAssumption DEF ShotInv, Images
  <2>2. deliveries[i[1]] \in Nat /\ deliveries'[i[1]] \in Nat
    BY <2>1, <1>4, MaxDeliveryAssumption DEF SessionType
  <2> QED
    BY <1>1, <1>3, <2>1, <2>2 DEF SessionType
<1>8. ShotInv'
  BY <1>1, <1>3, <1>5, <1>6, <1>7 DEF ShotInv
<1>9. settled[Command] = "no"
  BY <1>2 DEF QueueInv
<1> QED
  BY <1>1, <1>4, <1>8, <1>9 DEF QueueInv, CompletedHasImage, SessionOrder, SessionType

\* The steps of handle_command move the picture of the delivery under way, and
\* none of another command.
LEMMA HandleStep ==
    ASSUME Core, Capture \/ OpenManifest \/ WriteManifest \/ Announce
    PROVE  Core'
<1> USE DEF Core
<1>1. /\ commands # <<>> /\ deliveries[Command] # 0 /\ Command \in Supported
      /\ UNCHANGED <<commands, deliveries, settled, sent>>
  BY DEF ShotInv, Capture, OpenManifest, WriteManifest, Announce, session
<1>2. PICK progress \in {"jpeg", "opened", "written", "announced"} :
        /\ camera' = [camera EXCEPT ![Shot] = progress]
        /\ \/ step' = "openManifest" /\ progress = "jpeg"
           \/ step' = "writeManifest" /\ progress = "opened"
           \/ step' = "publish" /\ progress = "written"
           \/ step' \in {"complete", "abandon"} /\ progress = "announced"
  BY DEF Capture, OpenManifest, WriteManifest, Announce
<1>3. Command \in Commands /\ Shot \in Images /\ settled[Command] = "no"
      /\ Shot[1] = Command /\ Shot[2] = deliveries[Command]
  BY <1>1, ShotFacts DEF QueueInv
<1>4. Command' = Command /\ Shot' = Shot
  BY <1>1 DEF Command, Shot
<1>5. SessionType'
  BY <1>1, <1>2, <1>3 DEF SessionType, Handling
<1>6. camera'[Shot] = progress /\ \A i \in Images : i # Shot => camera'[i] = camera[i]
  BY <1>2, <1>3 DEF SessionType
<1>7. ShotInv'
  <2>0. \A c \in Commands : settled'[c] = "completed" => deliveries'[c] # 0
    BY <1>1 DEF ShotInv
  <2>1. ASSUME NEW i \in Images, camera'[i] # "none"
        PROVE  i[2] <= deliveries[i[1]]
    <3>1. CASE i = Shot
      BY <1>3, <3>1, MaxDeliveryAssumption DEF SessionType
    <3>2. CASE i # Shot
      BY <1>6, <2>1, <3>2 DEF ShotInv
    <3> QED
      BY <3>1, <3>2
  <2>2. camera'[Shot'] = progress /\ Command' \in Supported
    BY <1>1, <1>4, <1>6
  <2>3. commands' # <<>> /\ deliveries'[Command'] # 0
    BY <1>1, <1>4
  <2>4. \A i \in Images : camera'[i] # "none"
                             => i[2] <= deliveries'[i[1]] /\ i[1] \in Supported
    BY <1>1, <1>3, <1>6, <2>1 DEF ShotInv
  <2> QED
    BY <1>2, <2>0, <2>2, <2>3, <2>4 DEF ShotInv
<1>8. CompletedHasImage'
  <2> SUFFICES ASSUME NEW c \in Commands, settled[c] = "completed"
               PROVE  c \in Supported /\ camera'[<<c, deliveries[c]>>] = "announced"
    BY <1>1 DEF CompletedHasImage
  <2>1. c \in Supported /\ camera[<<c, deliveries[c]>>] = "announced" /\ c # Command
    BY <1>3 DEF CompletedHasImage
  <2>2. <<c, deliveries[c]>> # Shot
    BY <1>3, <2>1
  <2> QED
    BY <1>2, <2>1, <2>2 DEF SessionType
<1>9. SessionOrder'
  <2> SUFFICES ASSUME NEW i \in Images, camera'[i] # "none"
               PROVE  settled[i[1]] # "no" \/ i[1] = Command
    BY <1>1, <1>4 DEF SessionOrder, Command
  <2>1. CASE i = Shot
    BY <1>3, <2>1
  <2>2. CASE i # Shot
    BY <1>6, <2>2 DEF SessionOrder, Command
  <2> QED
    BY <2>1, <2>2
<1> QED
  BY <1>1, <1>5, <1>7, <1>8, <1>9 DEF QueueInv

\* The remaining steps move the loop only.
LEMMA LoopStep ==
    ASSUME Core, \/ Accept \/ HandleFails \/ Abandon \/ Crash
                 \/ UNCHANGED <<session, step, camera>>
    PROVE  Core'
<1>1. /\ UNCHANGED <<commands, deliveries, settled, sent, camera>>
      /\ \/ step' = "capture" /\ step = "parse" /\ Command \in Supported
         \/ step' = "abandon" /\ step # "idle"
         \/ step' = "idle"
         \/ step' = step
  BY DEF Accept, HandleFails, Abandon, Crash, session, volume, Handling
<1>2. Command' = Command /\ Shot' = Shot
  BY <1>1 DEF Command, Shot
<1>3. SessionType'
  BY <1>1 DEF Core, SessionType, Handling
<1>4. ShotInv'
  BY <1>1, <1>2 DEF Core, ShotInv
<1> QED
  BY <1>1, <1>3, <1>4 DEF Core, QueueInv, CompletedHasImage, SessionOrder

\* Core is inductive.  What happens to the files and events does not matter.
LEMMA CoreStep ==
    ASSUME Core, Next \/ UNCHANGED <<session, step, camera>>
    PROVE  Core'
BY SendStep, ExpireStep, HeadStep, ReceiveStep, HandleStep, LoopStep DEF Next, Queue, Loop

-----------------------------------------------------------------------------

\* Session, volume and settlement agree in every reachable state, whatever
\* fails, is handed out again or is interrupted.
THEOREM CoreInvariance == Spec => []Core
<1>1. Core /\ [Next]_vars => Core'
  BY CoreStep DEF vars, volume
<1> QED
  BY <1>1, InitCore, PTL DEF Spec

\* Every variable keeps its type: a picture left on the volume or announced is
\* one of a delivery that the queue may make.
THEOREM TypeCorrect == Spec => []TypeOK
<1> DEFINE Files == /\ jpegs \subseteq Images
                    /\ manifest \in [Images -> {"absent", "partial", "complete"}]
                    /\ events \subseteq Images
<1>1. Init => Files
  BY DEF Init
<1>2. Core /\ Files /\ [Next]_vars => Files'
  <2> SUFFICES ASSUME Core, Files, [Next]_vars
               PROVE  Files'
    OBVIOUS
  <2>1. step \in Handling => Shot \in Images
    BY ShotFacts DEF Core, ShotInv, Handling
  <2>2. CASE Capture \/ OpenManifest \/ WriteManifest \/ Announce
    BY <2>1, <2>2 DEF Capture, OpenManifest, WriteManifest, Announce, Handling, volume
  <2>3. CASE Queue
    BY <2>3 DEF Queue, Send, Expire, Exhaust, volume
  <2>4. CASE Receive \/ DeadLetter \/ Accept \/ HandleFails \/ Abandon \/ Complete \/ Crash
               \/ UNCHANGED vars
    BY <2>4 DEF Receive, DeadLetter, Accept, HandleFails, Abandon, Complete, Crash, vars, volume
  <2> QED
    BY <2>2, <2>3, <2>4 DEF Next, Loop
<1>3. Core /\ Files => TypeOK
  BY DEF Core, SessionType, TypeOK
<1> QED
  BY <1>1, <1>2, <1>3, CoreInvariance, PTL DEF Spec

\* A command is completed only for the announced picture of its last delivery.
THEOREM CompletedCommandsHaveImages == Spec => []CompletedHasImage
<1>1. Core => CompletedHasImage
  BY DEF Core
<1> QED
  BY <1>1, CoreInvariance, PTL

\* No picture is taken for a command while an earlier one of the session may
\* still be delivered again.
THEOREM SessionOrderIsKept == Spec => []SessionOrder
<1>1. Core => SessionOrder
  BY DEF Core
<1> QED
  BY <1>1, CoreInvariance, PTL

-----------------------------------------------------------------------------
(* ImagePipeline: the camera beside the uploader.                             *)

\* Init, Next and vars of the uploader's two instances, the pipeline's and the one
\* that brings its proofs, are the same.
LEMMA SameUploader ==
    /\ Uploader!Init <=> UploaderProofs!Init
    /\ Uploader!Next <=> UploaderProofs!Next
    /\ UNCHANGED Uploader!vars <=> UNCHANGED UploaderProofs!vars
<1> USE DEF Uploader!volume, UploaderProofs!volume, Uploader!queue, UploaderProofs!queue,
Uploader!cloud, UploaderProofs!cloud, Uploader!breaker, UploaderProofs!breaker,
Uploader!others, UploaderProofs!others
<1>1. \A i \in Images : Uploader!CameraStep(i) <=> UploaderProofs!CameraStep(i)
  BY DEF Uploader!CameraStep, UploaderProofs!CameraStep, Uploader!CaptureJpeg,
  UploaderProofs!CaptureJpeg, Uploader!OpenManifest, UploaderProofs!OpenManifest,
  Uploader!WriteManifest, UploaderProofs!WriteManifest, Uploader!PublishSendImage,
  UploaderProofs!PublishSendImage
<1>2. \A i \in Images : /\ Uploader!HearEvent(i) <=> UploaderProofs!HearEvent(i)
                        /\ Uploader!DropEvent(i) <=> UploaderProofs!DropEvent(i)
  BY DEF Uploader!HearEvent, UploaderProofs!HearEvent, Uploader!DropEvent,
  UploaderProofs!DropEvent, Uploader!Delivered, UploaderProofs!Delivered,
  Uploader!DeliveredAgain, UploaderProofs!DeliveredAgain
<1>3. \A i \in Images : Uploader!UploadStep(i) <=> UploaderProofs!UploadStep(i)
  BY DEF Uploader!UploadStep, UploaderProofs!UploadStep, Uploader!ReadManifest,
  UploaderProofs!ReadManifest, Uploader!RequestEnrichment,
  UploaderProofs!RequestEnrichment, Uploader!UploadBlob, UploaderProofs!UploadBlob,
  Uploader!SendImageUpload, UploaderProofs!SendImageUpload, Uploader!UnlinkImage,
  UploaderProofs!UnlinkImage, Uploader!UnlinkManifest, UploaderProofs!UnlinkManifest,
  Uploader!At, UploaderProofs!At
<1>4. \A i \in Images : Uploader!UploadError(i) <=> UploaderProofs!UploadError(i)
  BY DEF Uploader!UploadError, UploaderProofs!UploadError, Uploader!ManifestInvalid,
  UploaderProofs!ManifestInvalid, Uploader!RemoteFails, UploaderProofs!RemoteFails,
  Uploader!DiskFails, UploaderProofs!DiskFails, Uploader!UploadBlobUnanswered,
  UploaderProofs!UploadBlobUnanswered, Uploader!SendUnanswered,
  UploaderProofs!SendUnanswered, Uploader!At, UploaderProofs!At
<1>5. \A i \in Images : Uploader!ScanEnqueue(i) <=> UploaderProofs!ScanEnqueue(i)
  BY DEF Uploader!ScanEnqueue, UploaderProofs!ScanEnqueue
<1>6. /\ Uploader!StartScan <=> UploaderProofs!StartScan
      /\ Uploader!ScanDone <=> UploaderProofs!ScanDone
      /\ Uploader!GetNext <=> UploaderProofs!GetNext
  BY DEF Uploader!StartScan, UploaderProofs!StartScan, Uploader!ScanDone,
  UploaderProofs!ScanDone, Uploader!GetNext, UploaderProofs!GetNext, Uploader!OnDisk,
  UploaderProofs!OnDisk
<1>7. /\ Uploader!NotDue <=> UploaderProofs!NotDue
      /\ Uploader!ProbeOffline <=> UploaderProofs!ProbeOffline
      /\ Uploader!ProbeConnected <=> UploaderProofs!ProbeConnected
      /\ Uploader!MinutePasses <=> UploaderProofs!MinutePasses
  BY DEF Uploader!NotDue, UploaderProofs!NotDue, Uploader!ProbeOffline,
  UploaderProofs!ProbeOffline, Uploader!ProbeConnected, UploaderProofs!ProbeConnected,
  Uploader!MinutePasses, UploaderProofs!MinutePasses
<1>8. /\ Uploader!DrainEmpty <=> UploaderProofs!DrainEmpty
      /\ Uploader!Requeue <=> UploaderProofs!Requeue
      /\ Uploader!Forget <=> UploaderProofs!Forget
  BY DEF Uploader!DrainEmpty, UploaderProofs!DrainEmpty, Uploader!Requeue,
  UploaderProofs!Requeue, Uploader!Forget, UploaderProofs!Forget
<1>9. /\ Uploader!PutArriving <=> UploaderProofs!PutArriving
      /\ Uploader!Crash <=> UploaderProofs!Crash
  BY DEF Uploader!PutArriving, UploaderProofs!PutArriving, Uploader!Crash,
  UploaderProofs!Crash
<1>10. Uploader!Next <=> UploaderProofs!Next
  BY <1>1, <1>2, <1>3, <1>4, <1>5, <1>6, <1>7, <1>8, <1>9 DEF Uploader!Next,
  UploaderProofs!Next, Uploader!RunStep, UploaderProofs!RunStep
<1>11. Uploader!Init <=> UploaderProofs!Init
  BY DEF Uploader!Init, UploaderProofs!Init
<1>12. UNCHANGED Uploader!vars <=> UNCHANGED UploaderProofs!vars
  BY DEF Uploader!vars, UploaderProofs!vars
<1> QED
  BY ONLY <1>10, <1>11, <1>12

\* The uploader never touches what the camera's control depends on: of the
\* camera's variables it changes only the files, and the events it takes.
LEMMA UploaderLeavesCamera ==
    ASSUME UploaderNext
    PROVE  UNCHANGED <<session, step, camera>>
<1>1. UNCHANGED <<session, step>>
  BY DEF UploaderNext
<1> USE DEF Uploader!volume
<1>2. ASSUME NEW i \in Images,
             Uploader!HearEvent(i) \/ Uploader!DropEvent(i)
      PROVE  UNCHANGED camera
  BY <1>2 DEF Uploader!HearEvent, Uploader!DropEvent
<1>3. ASSUME NEW i \in Images, Uploader!UploadStep(i)
      PROVE  UNCHANGED camera
  BY <1>3 DEF Uploader!UploadStep, Uploader!ReadManifest, Uploader!RequestEnrichment,
     Uploader!UploadBlob, Uploader!SendImageUpload, Uploader!UnlinkImage, Uploader!UnlinkManifest
<1>4. ASSUME NEW i \in Images, Uploader!UploadError(i)
      PROVE  UNCHANGED camera
  BY <1>4 DEF Uploader!UploadError, Uploader!ManifestInvalid, Uploader!RemoteFails,
     Uploader!DiskFails, Uploader!UploadBlobUnanswered, Uploader!SendUnanswered
<1>5. Uploader!RunStep => UNCHANGED camera
  BY DEF Uploader!RunStep, Uploader!StartScan, Uploader!ScanDone, Uploader!ScanEnqueue,
     Uploader!NotDue, Uploader!ProbeOffline, Uploader!ProbeConnected, Uploader!DrainEmpty,
     Uploader!GetNext, Uploader!Requeue, Uploader!Forget
<1>6. Uploader!PutArriving \/ Uploader!MinutePasses \/ Uploader!Crash => UNCHANGED camera
  BY DEF Uploader!PutArriving, Uploader!MinutePasses, Uploader!Crash
<1>7. UNCHANGED camera
  BY <1>2, <1>3, <1>4, <1>5, <1>6 DEF UploaderNext, Images, Images
<1> QED
  BY <1>1, <1>7

\* The camera's inductive invariant is one of the pipeline.
THEOREM CameraInvariance == PipelineSpec => []Core
<1>1. Core /\ [PipelineNext]_pipelineVars => Core'
  BY CoreStep, UploaderLeavesCamera DEF PipelineNext, CameraNext, pipelineVars, vars, volume
<1> QED
  BY <1>1, InitCore, PTL DEF PipelineSpec, PipelineInit

-----------------------------------------------------------------------------
(* The refinement.                                                            *)

\* What the camera does to the volume and the broker, the uploader's module
\* allows: each step of handle_command is one of CameraStep for the picture of
\* the delivery under way, and the others are stuttering steps.
LEMMA CameraStepsAllowed ==
    ASSUME Core, CameraNext
    PROVE  Uploader!Next \/ UNCHANGED Uploader!vars
<1> USE DEF CameraNext, session, volume, uploaderVars, Uploader!vars, Uploader!volume,
        Uploader!queue, Uploader!cloud, Uploader!breaker, Uploader!others
<1>1. step \in Handling
        => /\ Shot \in Images
           /\ step = "capture" => camera[Shot] = "none"
           /\ step = "openManifest" => camera[Shot] = "jpeg"
           /\ step = "writeManifest" => camera[Shot] = "opened"
           /\ step = "publish" => camera[Shot] = "written"
  BY ShotFacts DEF Core, ShotInv, Handling
<1>2. CASE Capture
  <2>1. Uploader!CaptureJpeg(Shot)
    BY <1>1, <1>2 DEF Capture, Handling, Uploader!CaptureJpeg
  <2> QED
    BY <1>1, <1>2, <2>1 DEF Capture, Handling, Uploader!Next, Uploader!CameraStep
<1>3. CASE OpenManifest
  <2>1. Uploader!OpenManifest(Shot)
    BY <1>1, <1>3 DEF OpenManifest, Handling, Uploader!OpenManifest
  <2> QED
    BY <1>1, <1>3, <2>1 DEF OpenManifest, Handling, Uploader!Next, Uploader!CameraStep
<1>4. CASE WriteManifest
  <2>1. Uploader!WriteManifest(Shot)
    BY <1>1, <1>4 DEF WriteManifest, Handling, Uploader!WriteManifest
  <2> QED
    BY <1>1, <1>4, <2>1 DEF WriteManifest, Handling, Uploader!Next, Uploader!CameraStep
<1>5. CASE Announce
  <2>1. Uploader!PublishSendImage(Shot)
    BY <1>1, <1>5 DEF Announce, Handling, Uploader!PublishSendImage
  <2> QED
    BY <1>1, <1>5, <2>1 DEF Announce, Handling, Uploader!Next, Uploader!CameraStep
<1>6. CASE \/ Queue \/ Receive \/ DeadLetter \/ Accept \/ HandleFails \/ Abandon
           \/ Complete \/ Crash
  BY <1>6 DEF Queue, Send, Expire, Exhaust, Receive, DeadLetter, Accept, HandleFails, Abandon,
     Complete, Crash
<1> QED
  BY <1>2, <1>3, <1>4, <1>5, <1>6 DEF Next, Loop

\* UploaderRefined: every step of the pipeline is one of the uploader's module.
THEOREM PipelineRefinesUploader == PipelineSpec => UploaderRefined
<1>1. PipelineInit => Uploader!Init
  BY DEF PipelineInit
<1>2. Core /\ [PipelineNext]_pipelineVars => [Uploader!Next]_(Uploader!vars)
  <2>1. UploaderNext => Uploader!Next
    BY DEF UploaderNext, Uploader!Next
  <2>2. UNCHANGED pipelineVars => UNCHANGED Uploader!vars
    BY DEF pipelineVars, vars, volume, uploaderVars, Uploader!vars, Uploader!volume,
       Uploader!queue, Uploader!cloud, Uploader!breaker, Uploader!others
  <2> QED
    BY <2>1, <2>2, CameraStepsAllowed DEF PipelineNext
<1> QED
  BY <1>1, <1>2, CameraInvariance, PTL DEF PipelineSpec, UploaderRefined, Uploader!Spec

\* What was proved of the uploader alone holds beside the real camera: its whole
\* inductive invariant, so that no finished picture is lost, none is queued twice
\* and no message names a missing blob.
THEOREM UploaderInvariance == PipelineSpec => []UploaderProofs!IInv
<1>1. UploaderProofs!Spec => []UploaderProofs!IInv
  BY UploaderProofs!Invariance, UploaderAssumption
<1>2. /\ Uploader!Init <=> UploaderProofs!Init
      /\ [Uploader!Next]_(Uploader!vars) <=> [UploaderProofs!Next]_(UploaderProofs!vars)
  BY SameUploader
<1> QED
  BY <1>1, <1>2, PipelineRefinesUploader, PTL
     DEF UploaderRefined, Uploader!Spec, UploaderProofs!Spec

\* CompletedIsSafe: the picture of a completed command is on the volume with its
\* manifest until the cloud was told of it.
THEOREM CompletedPicturesAreSafe == PipelineSpec => []CompletedIsSafe
<1>1. Core /\ UploaderProofs!IInv => CompletedIsSafe
  BY MaxDeliveryAssumption
     DEF Core, SessionType, ShotInv, CompletedHasImage, Images, UploaderProofs!IInv,
     UploaderProofs!FilesInv, UploaderProofs!NoImageLost, CompletedIsSafe
<1> QED
  BY <1>1, CameraInvariance, UploaderInvariance, PTL

-----------------------------------------------------------------------------
(* CapturePipeline: the edge and the cloud together.                          *)

\* The limits that the cloud's own module assumes.
CloudLimits == /\ Invalid \subseteq Images
               /\ CapturedAt \in [Images -> Int] /\ MaxImages \in Nat \ {0}
               /\ MaxHandOuts \in Nat \ {0} /\ MaxRestarts \in Nat

\* Each of the cloud's two instances has its own name for Cardinality.
LEMMA SameCardinality == \A S : Cloud!Cardinality(S) = CloudProofs!Cardinality(S)
BY DEF Cloud!Cardinality, CloudProofs!Cardinality

\* Init, Next and vars of the cloud's two instances are the same.
LEMMA SameCloud ==
    /\ Cloud!Init <=> CloudProofs!Init
    /\ Cloud!Next <=> CloudProofs!Next
    /\ UNCHANGED Cloud!vars <=> UNCHANGED CloudProofs!vars
<1>0. Cloud!AddToDocument <=> CloudProofs!AddToDocument
  <2>1. ASSUME NEW S PROVE Cloud!Trimmed(S) = CloudProofs!Trimmed(S)
    BY SameCardinality DEF Cloud!Trimmed, CloudProofs!Trimmed
  <2> QED
    BY <2>1 DEF Cloud!AddToDocument, CloudProofs!AddToDocument
<1> USE DEF Cloud!store, CloudProofs!store, Cloud!bus, CloudProofs!bus, Cloud!document,
        CloudProofs!document, Cloud!Pictures, CloudProofs!Pictures, Cloud!NoPicture,
        CloudProofs!NoPicture
<1>1. ASSUME NEW r \in Commands PROVE Cloud!Post(r) <=> CloudProofs!Post(r)
  BY DEF Cloud!Post, CloudProofs!Post, Cloud!StartPost, CloudProofs!StartPost,
     Cloud!CommandAccepted, CloudProofs!CommandAccepted, Cloud!SendDone, CloudProofs!SendDone,
     Cloud!SendFails, CloudProofs!SendFails, Cloud!AddQueued, CloudProofs!AddQueued
<1>2. ASSUME NEW p \in Images
      PROVE  /\ Cloud!ImageUploaded(p) <=> CloudProofs!ImageUploaded(p)
             /\ Cloud!ImageUploadedAgain(p) <=> CloudProofs!ImageUploadedAgain(p)
             /\ Cloud!Exhaust(p) <=> CloudProofs!Exhaust(p)
             /\ Cloud!Expire(p) <=> CloudProofs!Expire(p)
             /\ Cloud!Receive(p) <=> CloudProofs!Receive(p)
  BY DEF Cloud!ImageUploaded, CloudProofs!ImageUploaded, Cloud!ImageUploadedAgain,
     CloudProofs!ImageUploadedAgain, Cloud!Exhaust, CloudProofs!Exhaust, Cloud!Expire,
     CloudProofs!Expire, Cloud!Receive, CloudProofs!Receive
<1>3. /\ Cloud!Reject <=> CloudProofs!Reject
      /\ Cloud!AddImage <=> CloudProofs!AddImage
      /\ Cloud!MarkUploaded <=> CloudProofs!MarkUploaded
      /\ Cloud!CompleteMessage <=> CloudProofs!CompleteMessage
      /\ Cloud!DeadLetter <=> CloudProofs!DeadLetter
  BY <1>0 DEF Cloud!Reject, CloudProofs!Reject, Cloud!AddImage, CloudProofs!AddImage,
     Cloud!MarkUploaded, CloudProofs!MarkUploaded, Cloud!CompleteMessage,
     CloudProofs!CompleteMessage, Cloud!DeadLetter, CloudProofs!DeadLetter, Cloud!Settle,
     CloudProofs!Settle
<1>4. /\ Cloud!ProcessFails <=> CloudProofs!ProcessFails
      /\ Cloud!Restart <=> CloudProofs!Restart
  BY <1>0 DEF Cloud!ProcessFails, CloudProofs!ProcessFails, Cloud!Restart, CloudProofs!Restart
<1>5. Cloud!Next <=> CloudProofs!Next
  BY <1>1, <1>2, <1>3, <1>4
     DEF Cloud!Next, CloudProofs!Next, Cloud!Process, CloudProofs!Process, Images
<1>6. Cloud!Init <=> CloudProofs!Init
  BY DEF Cloud!Init, CloudProofs!Init
<1>7. UNCHANGED Cloud!vars <=> UNCHANGED CloudProofs!vars
  BY DEF Cloud!vars, CloudProofs!vars
<1> QED
  BY ONLY <1>5, <1>6, <1>7

\* What is joined only by messages is, seen from either side, that side alone.
THEOREM EdgeAloneIsPipeline == CaptureSpec => PipelineSpec
<1>1. CaptureInit => PipelineInit
  BY DEF CaptureInit
<1>2. [CaptureNext]_captureVars => [PipelineNext]_pipelineVars
  BY DEF CaptureNext, EdgeStep, CloudStep, captureVars
<1> QED
  BY <1>1, <1>2, PTL DEF CaptureSpec, PipelineSpec

\* The invariant of the cloud's module, proved there, holds behind the real edge.
THEOREM CloudInvariance ==
    ASSUME CloudLimits
    PROVE  CaptureSpec => []CloudProofs!Inv
<1>1. CaptureInit => CloudProofs!Init
  BY SameCloud DEF CaptureInit
<1>2. [CaptureNext]_captureVars => [CloudProofs!Next]_(CloudProofs!vars)
  <2>1. UNCHANGED cloudVars => UNCHANGED CloudProofs!vars
    BY DEF cloudVars, CloudProofs!vars, CloudProofs!bus, CloudProofs!store, CloudProofs!document
  <2> QED
    BY <2>1, SameCloud DEF CaptureNext, EdgeStep, CloudStep, captureVars
<1>3. CloudProofs!Spec => []CloudProofs!Inv
  BY CloudProofs!Invariance, MaxDeliveryAssumption DEF CloudLimits, Images, CloudProofs!Pictures
<1> QED
  BY <1>1, <1>2, <1>3, PTL DEF CaptureSpec, CloudProofs!Spec

\* What the edge has announced stays announced.
LEMMA NotifiedGrows ==
    ASSUME PipelineNext
    PROVE  notified \subseteq notified'
<1> USE DEF Uploader!cloud
<1>1. CASE CameraNext
  BY <1>1 DEF CameraNext, uploaderVars
<1>2. ASSUME NEW i \in Images, \/ Uploader!HearEvent(i) \/ Uploader!DropEvent(i)
                               \/ Uploader!ScanEnqueue(i)
      PROVE  notified \subseteq notified'
  BY <1>2 DEF Uploader!HearEvent, Uploader!DropEvent, Uploader!ScanEnqueue
<1>3. ASSUME NEW i \in Images, Uploader!UploadStep(i)
      PROVE  notified \subseteq notified'
  BY <1>3 DEF Uploader!UploadStep, Uploader!ReadManifest, Uploader!RequestEnrichment,
     Uploader!UploadBlob, Uploader!SendImageUpload, Uploader!UnlinkImage, Uploader!UnlinkManifest
<1>4. ASSUME NEW i \in Images, Uploader!UploadError(i)
      PROVE  notified \subseteq notified'
  BY <1>4 DEF Uploader!UploadError, Uploader!ManifestInvalid, Uploader!RemoteFails,
     Uploader!DiskFails, Uploader!UploadBlobUnanswered, Uploader!SendUnanswered
<1>5. Uploader!RunStep => notified \subseteq notified'
  BY <1>2 DEF Uploader!RunStep, Uploader!StartScan, Uploader!ScanDone, Uploader!NotDue,
     Uploader!ProbeOffline, Uploader!ProbeConnected, Uploader!DrainEmpty, Uploader!GetNext,
     Uploader!Requeue, Uploader!Forget
<1>6. Uploader!PutArriving \/ Uploader!MinutePasses \/ Uploader!Crash
        => notified \subseteq notified'
  BY DEF Uploader!PutArriving, Uploader!MinutePasses, Uploader!Crash
<1> QED
  BY <1>1, <1>2, <1>3, <1>4, <1>5, <1>6 DEF PipelineNext, UploaderNext

\* Commands and messages flow one way each: the session has only accepted
\* commands, the subscription only messages the uploader sent.
Joined ==
    /\ sent \subseteq accepted
    /\ \A p \in Images : message[p] # "none" => p \in notified

\* No step breaks the join: acceptance and announcement are never taken back.
THEOREM JoinedInvariance == CaptureSpec => []Joined
<1>1. CaptureInit => Joined
  BY DEF CaptureInit, PipelineInit, Init, Cloud!Init, Cloud!Pictures, Images, Joined
<1>2. Joined /\ [CaptureNext]_captureVars => Joined'
  <2> SUFFICES ASSUME Joined, [CaptureNext]_captureVars
               PROVE  Joined'
    OBVIOUS
  <2>1. CASE EdgeStep
    BY <2>1, NotifiedGrows DEF EdgeStep, cloudVars, Joined
  <2>2. CASE CloudStep
    <3>1. accepted \subseteq accepted'
      BY <2>2 DEF CloudStep, Cloud!Next, Cloud!Post, Cloud!StartPost, Cloud!CommandAccepted,
         Cloud!SendDone, Cloud!SendFails, Cloud!AddQueued, Cloud!ImageUploaded,
         Cloud!ImageUploadedAgain, Cloud!Exhaust, Cloud!Expire, Cloud!Process,
         Cloud!Receive, Cloud!Reject, Cloud!AddImage, Cloud!MarkUploaded,
         Cloud!CompleteMessage, Cloud!DeadLetter, Cloud!Settle, Cloud!ProcessFails,
         Cloud!Restart, Cloud!bus, Cloud!store, Cloud!document
    <3> QED
      BY <2>2, <3>1 DEF CloudStep, pipelineVars, vars, session, uploaderVars, Joined
  <2>3. CASE UNCHANGED captureVars
    BY <2>3 DEF captureVars, cloudVars, pipelineVars, vars, session, uploaderVars, Joined
  <2> QED
    BY <2>1, <2>2, <2>3 DEF CaptureNext
<1> QED
  BY <1>1, <1>2, PTL DEF CaptureSpec

\* The whole way of a picture, read backwards from its being added to the document.
LEMMA WayBack ==
    ASSUME Core, UploaderProofs!IInv, CloudProofs!Inv, Joined, NEW p \in recorded
    PROVE  /\ p \in Images /\ p[1] \in accepted \cap Supported
           /\ p \in blobs \cap notified
           /\ camera[p] \in {"written", "announced"}
<1>1. p \in Images /\ message[p] # "none"
  BY DEF CloudProofs!Inv, CloudProofs!TypeOK, CloudProofs!AcceptedFirst, CloudProofs!Pictures,
     Images
<1>2. p[1] \in accepted
  BY <1>1 DEF CloudProofs!Inv, CloudProofs!AcceptedFirst, CloudProofs!Pictures, Images
<1>3. p \in notified /\ p \in blobs
  BY <1>1 DEF Joined, UploaderProofs!IInv, UploaderProofs!FilesInv,
     UploaderProofs!NotifiedHasBlob
<1>4. camera[p] \in {"written", "announced"}
  BY <1>1, <1>3 DEF UploaderProofs!IInv, UploaderProofs!FilesInv, UploaderProofs!CameraFacts
<1>5. p[1] \in Supported
  BY <1>1, <1>4 DEF Core, ShotInv
<1> QED
  BY <1>1, <1>2, <1>3, <1>4, <1>5

\* The invariants of the parts hold together.
LEMMA PartsInvariance ==
    ASSUME CloudLimits
    PROVE  CaptureSpec => [](Core /\ UploaderProofs!IInv /\ CloudProofs!Inv /\ Joined)
BY EdgeAloneIsPipeline, CameraInvariance, UploaderInvariance, CloudInvariance,
   JoinedInvariance, PTL

\* The picture of an Uploaded request is its own, was stored and added, and is in
\* the document until MaxImages pictures not older than it are, however the
\* messages were repeated and whichever process was restarted.
THEOREM ShownPicturesAreStored ==
    ASSUME CloudLimits
    PROVE  CaptureSpec => []ShownIsStored
<1>1. Core /\ UploaderProofs!IInv /\ CloudProofs!Inv /\ Joined => ShownIsStored
  <2> SUFFICES ASSUME Core, UploaderProofs!IInv, CloudProofs!Inv, Joined,
                      NEW r \in Commands, status[r] = "Uploaded"
               PROVE  /\ shown[r][1] = r
                      /\ camera[shown[r]] \in {"written", "announced"}
                      /\ shown[r] \in recorded \cap blobs
                      /\ shown[r] \in documentImages \/ Cloud!Displaced(shown[r])
    BY DEF ShownIsStored
  <2>1. shown[r] \in recorded /\ shown[r][1] = r
    BY DEF CloudProofs!Inv, CloudProofs!UploadedWasAdded
  <2>2. shown[r] \in blobs /\ camera[shown[r]] \in {"written", "announced"}
    BY <2>1, WayBack
  <2>3. shown[r] \in documentImages \/ CloudProofs!Displaced(shown[r])
    BY <2>1 DEF CloudProofs!Inv, CloudProofs!DocumentInv
  <2>4. CloudProofs!Displaced(shown[r]) => Cloud!Displaced(shown[r])
    BY SameCardinality DEF CloudProofs!Displaced, Cloud!Displaced
  <2> QED
    BY <2>1, <2>2, <2>3, <2>4
<1> QED
  BY <1>1, PartsInvariance, PTL

\* Each picture ever added to the document was taken for an accepted command of
\* this device, was uploaded, and was announced.
THEOREM RecordedPicturesAreGenuine ==
    ASSUME CloudLimits
    PROVE  CaptureSpec => []RecordedIsGenuine
<1>1. Core /\ UploaderProofs!IInv /\ CloudProofs!Inv /\ Joined => RecordedIsGenuine
  BY WayBack DEF RecordedIsGenuine
<1> QED
  BY <1>1, PartsInvariance, PTL

\* The picture of a completed command is on the volume or stored and announced,
\* and its message is completed only for a picture that was added to the document.
THEOREM CompletedPicturesArrive ==
    ASSUME CloudLimits
    PROVE  CaptureSpec => []CompletedArrives
<1>1. /\ Core /\ UploaderProofs!IInv /\ CloudProofs!Inv /\ Joined
      /\ CompletedIsSafe
      => CompletedArrives
  <2> SUFFICES ASSUME Core, UploaderProofs!IInv, CloudProofs!Inv, Joined, CompletedIsSafe,
                      NEW c \in Commands, settled[c] = "completed"
               PROVE  LET p == <<c, deliveries[c]>>
                      IN  /\ c \in accepted
                          /\ \/ p \in jpegs /\ manifest[p] = "complete"
                             \/ p \in notified /\ p \in blobs
                          /\ message[p] = "completed" => p \in recorded
    BY DEF CompletedArrives
  <2> DEFINE p == <<c, deliveries[c]>>
  <2>1. p \in Images
    BY MaxDeliveryAssumption DEF Core, SessionType, ShotInv, Images
  <2>2. c \in accepted
    BY DEF Core, QueueInv, Joined
  <2>3. notified \subseteq blobs
    BY DEF UploaderProofs!IInv, UploaderProofs!FilesInv, UploaderProofs!NotifiedHasBlob
  <2>4. p \in notified \/ (p \in jpegs /\ manifest[p] = "complete")
    BY DEF CompletedIsSafe
  <2>5. message[p] = "completed" => p \in recorded
    BY <2>1 DEF CloudProofs!Inv, CloudProofs!CompletedIsRecorded, CloudProofs!Pictures, Images
  <2> QED
    BY <2>2, <2>3, <2>4, <2>5
<1> QED
  BY <1>1, PartsInvariance, EdgeAloneIsPipeline, CompletedPicturesAreSafe, PTL
=============================================================================

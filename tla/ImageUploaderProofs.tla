------------------------- MODULE ImageUploaderProofs -------------------------
(* The safety properties of ImageUploader, for any number of pictures and     *)
(* faults.                                                                    *)
EXTENDS ImageUploader, TLAPS

-----------------------------------------------------------------------------
(* Queues without duplicates.                                                 *)

\* Put adds its argument to the elements, and a new one keeps them distinct.
LEMMA AppendLemma ==
    ASSUME NEW S, NEW s \in Seq(S), NEW x \in S
    PROVE  /\ Append(s, x) \in Seq(S)
           /\ ToSet(Append(s, x)) = ToSet(s) \cup {x}
           /\ IsInjective(s) /\ x \notin ToSet(s) => IsInjective(Append(s, x))
<1> DEFINE t == Append(s, x)
<1>1. /\ t \in Seq(S) /\ DOMAIN s = 1..Len(s) /\ DOMAIN t = 1..(Len(s) + 1)
      /\ Len(s) \in Nat
      /\ \A n \in 1..Len(s) : t[n] = s[n]
      /\ t[Len(s) + 1] = x
  OBVIOUS
<1>2. ToSet(t) = ToSet(s) \cup {x}
  <2> HIDE DEF t
  <2>1. ASSUME NEW y \in ToSet(t) PROVE y \in ToSet(s) \cup {x}
    BY <1>1 DEF ToSet
  <2>2. ASSUME NEW y \in ToSet(s) PROVE y \in ToSet(t)
    <3>1. PICK n \in 1..Len(s) : y = s[n]
      BY <1>1 DEF ToSet
    <3>2. n \in DOMAIN t /\ t[n] = y
      BY <1>1, <3>1
    <3> QED BY <3>2 DEF ToSet
  <2>3. x \in ToSet(t)
    BY <1>1 DEF ToSet
  <2> QED BY <2>1, <2>2, <2>3
<1>3. IsInjective(s) /\ x \notin ToSet(s) => IsInjective(t)
  <2> HIDE DEF t
  <2> SUFFICES ASSUME IsInjective(s), x \notin ToSet(s),
                      NEW a \in DOMAIN t, NEW b \in DOMAIN t, t[a] = t[b]
               PROVE  a = b
    BY DEF IsInjective
  <2>1. \A n \in 1..Len(s) : s[n] # x
    BY <1>1 DEF ToSet
  <2> QED BY <1>1, <2>1 DEF IsInjective
<1> QED BY <1>1, <1>2, <1>3

\* Get removes the head, which is not elsewhere in a queue without duplicates.
LEMMA TailLemma ==
    ASSUME NEW S, NEW s \in Seq(S), s # <<>>
    PROVE  /\ Head(s) \in S /\ Tail(s) \in Seq(S)
           /\ ToSet(s) = {Head(s)} \cup ToSet(Tail(s))
           /\ IsInjective(s) => IsInjective(Tail(s)) /\ Head(s) \notin ToSet(Tail(s))
<1> DEFINE t == Tail(s)
<1>1. /\ t \in Seq(S) /\ DOMAIN s = 1..Len(s) /\ DOMAIN t = 1..(Len(s) - 1)
      /\ Len(s) \in Nat \ {0}
      /\ Head(s) = s[1] /\ Head(s) \in S
      /\ \A n \in 1..(Len(s) - 1) : t[n] = s[n + 1]
  OBVIOUS
<1> DEFINE h == Head(s)
<1> HIDE DEF t, h
<1>2. ASSUME NEW y \in ToSet(s) PROVE y \in {h} \cup ToSet(t)
  <2>1. PICK n \in 1..Len(s) : y = s[n]
    BY <1>1 DEF ToSet
  <2>2. CASE n = 1
    BY <1>1, <2>1, <2>2 DEF h
  <2>3. CASE n # 1
    <3>1. n - 1 \in DOMAIN t /\ t[n - 1] = y
      BY <1>1, <2>1, <2>3
    <3> QED BY <3>1 DEF ToSet
  <2> QED BY <2>2, <2>3
<1>3. ASSUME NEW y \in ToSet(t) PROVE y \in ToSet(s)
  <2>1. PICK n \in 1..(Len(s) - 1) : y = t[n]
    BY <1>1 DEF ToSet
  <2>2. n + 1 \in DOMAIN s /\ s[n + 1] = y
    BY <1>1, <2>1
  <2> QED BY <2>2 DEF ToSet
<1>4. h \in ToSet(s)
  BY <1>1 DEF ToSet, h
<1>5. IsInjective(s) => IsInjective(t) /\ h \notin ToSet(t)
  <2> HAVE IsInjective(s)
  <2>1. IsInjective(t)
    <3> SUFFICES ASSUME NEW a \in DOMAIN t, NEW b \in DOMAIN t, t[a] = t[b]
                 PROVE  a = b
      BY DEF IsInjective
    <3>1. a + 1 \in DOMAIN s /\ b + 1 \in DOMAIN s /\ s[a + 1] = s[b + 1]
      BY <1>1
    <3>2. a + 1 = b + 1
      BY <3>1 DEF IsInjective
    <3> QED BY <1>1, <3>2
  <2>2. h \notin ToSet(t)
    <3> SUFFICES ASSUME NEW n \in DOMAIN t, t[n] = h PROVE FALSE
      BY DEF ToSet
    <3>1. 1 \in DOMAIN s /\ n + 1 \in DOMAIN s /\ s[n + 1] = s[1] /\ n + 1 # 1
      BY <1>1 DEF h
    <3> QED BY <3>1 DEF IsInjective
  <2> QED BY <2>1, <2>2
<1> QED BY <1>1, <1>2, <1>3, <1>4, <1>5 DEF h, t

-----------------------------------------------------------------------------
(* The inductive invariant.  NoImageLost is not inductive: that the JPEG is   *)
(* deleted only after the send needs what each stage of upload knows of the   *)
(* manifest it holds (StageFacts), and that only a manifest the camera has    *)
(* finished reads as complete, beside its JPEG, or is uploaded (CameraFacts). *)
(* BreakerFacts says that failures are counted while the circuit is closed    *)
(* only, and that it opens exactly at the threshold.                          *)

StageFacts ==
    /\ current = NoImage <=> pc \notin Busy
    /\ pc \in Stages \ {"read"} => manifest[current] = "complete"
    /\ pc = "notify" => current \in blobs
    /\ pc \in {"unlinkImage", "unlinkManifest"} => current \in notified

CameraFacts ==
    \A i \in Images :
        /\ manifest[i] = "complete" => camera[i] \in {"written", "announced"}
        /\ camera[i] \in {"jpeg", "opened"} => i \in jpegs
        /\ i \in blobs => camera[i] \in {"written", "announced"}

BreakerFacts == circuit = "closed" <=> failures < FailureThreshold

FilesInv == TypeOK /\ StageFacts /\ CameraFacts /\ BreakerFacts
              /\ NoImageLost /\ NotifiedHasBlob

QueueInv == QueuedOnce /\ KnownIsQueued

IInv == FilesInv /\ QueueInv

\* At the start volume, queue and memory are empty.
LEMMA InitIInv == Init => IInv
<1> SUFFICES ASSUME Init PROVE IInv
  OBVIOUS
<1> USE NoImageAssumption, MaxFaultsAssumption, FailureThresholdAssumption DEF Init
<1>1. TypeOK
  BY DEF TypeOK, Busy, Stages
<1>2. StageFacts /\ CameraFacts /\ BreakerFacts
  BY DEF StageFacts, CameraFacts, BreakerFacts, Busy, Stages
<1>3. NoImageLost /\ NotifiedHasBlob
  BY DEF NoImageLost, NotifiedHasBlob
<1>4. ToSet(pending) = {} /\ IsInjective(pending)
  BY DEF ToSet, IsInjective
<1>5. QueueInv
  BY <1>4 DEF QueueInv, QueuedOnce, KnownIsQueued
<1> QED BY <1>1, <1>2, <1>3, <1>5 DEF IInv, FilesInv

-----------------------------------------------------------------------------
(* What is on the volume and in the cloud.                                    *)

\* Every step keeps the variables in their types.
LEMMA TypeStep == TypeOK /\ StageFacts /\ BreakerFacts /\ [Next]_vars => TypeOK'
<1> SUFFICES ASSUME TypeOK, StageFacts, BreakerFacts, [Next]_vars PROVE TypeOK'
  OBVIOUS
<1> USE NoImageAssumption, MaxFaultsAssumption, FailureThresholdAssumption
        DEF TypeOK, volume, queue, cloud, breaker, others, Busy, Stages
<1>1. ASSUME NEW i \in Images, CameraStep(i) PROVE TypeOK'
  BY <1>1 DEF CameraStep, CaptureJpeg, OpenManifest, WriteManifest, PublishSendImage
<1>2. ASSUME NEW i \in Images, HearEvent(i) \/ DropEvent(i) PROVE TypeOK'
  BY <1>2 DEF HearEvent, DropEvent, Delivered, DeliveredAgain
<1>3. CASE PutArriving
  BY <1>3, AppendLemma DEF PutArriving
<1>4. ASSUME NEW i \in Images, ScanEnqueue(i) PROVE TypeOK'
  BY <1>4, AppendLemma DEF ScanEnqueue
<1>5. CASE StartScan \/ ScanDone \/ NotDue \/ DrainEmpty
  BY <1>5 DEF StartScan, ScanDone, NotDue, DrainEmpty, OnDisk
<1>13. CASE MinutePasses \/ ProbeOffline \/ ProbeConnected
  BY <1>13 DEF MinutePasses, ProbeOffline, ProbeConnected, BreakerFacts
<1>6. CASE GetNext
  BY <1>6, TailLemma DEF GetNext
<1>7. CASE Requeue
  <2>1. current \in Images
    BY <1>7 DEF Requeue, StageFacts
  <2> QED BY <1>7, <2>1, AppendLemma DEF Requeue
<1>8. CASE Forget
  BY <1>8 DEF Forget
<1>12. CASE Crash
  <2>1. pending' \in Seq(Images) /\ arriving' \in Images \cup {NoImage}
    BY <1>12 DEF Crash
  <2>2. faults' \in 0..MaxFaults
    BY <1>12 DEF Crash
  <2> QED BY <1>12, <2>1, <2>2 DEF Crash
<1>9. ASSUME NEW i \in Images, UploadStep(i) PROVE TypeOK'
  BY <1>9 DEF UploadStep, ReadManifest, RequestEnrichment, UploadBlob,
              SendImageUpload, UnlinkImage, UnlinkManifest
<1>10. ASSUME NEW i \in Images, UploadError(i) PROVE TypeOK'
  BY <1>10 DEF UploadError, ManifestInvalid, RemoteFails, DiskFails,
               UploadBlobUnanswered, SendUnanswered
<1>11. CASE UNCHANGED vars
  BY <1>11 DEF vars
<1> QED BY <1>1, <1>2, <1>3, <1>4, <1>5, <1>6, <1>7, <1>8, <1>9, <1>10, <1>11,
           <1>12, <1>13 DEF Next, RunStep

\* No step loses a picture the cloud has not been told of, or announces one
\* whose blob is missing.
LEMMA FilesStep == FilesInv /\ [Next]_vars => FilesInv'
<1> SUFFICES ASSUME FilesInv, [Next]_vars PROVE FilesInv'
  OBVIOUS
<1>0. TypeOK'
  BY TypeStep DEF FilesInv
<1> DEFINE Rest == StageFacts /\ CameraFacts /\ BreakerFacts
              /\ NoImageLost /\ NotifiedHasBlob
<1> SUFFICES Rest'
  BY <1>0 DEF FilesInv
<1> USE NoImageAssumption, FailureThresholdAssumption
        DEF FilesInv, TypeOK, StageFacts, CameraFacts, BreakerFacts, NoImageLost,
            NotifiedHasBlob, volume, queue, cloud, breaker, others, Busy, Stages, At
<1>1. ASSUME NEW i \in Images, CameraStep(i) PROVE Rest'
  <2>1. CASE CaptureJpeg(i)
    BY <2>1 DEF CaptureJpeg
  <2>2. CASE OpenManifest(i)
    BY <2>2 DEF OpenManifest
  <2>3. CASE WriteManifest(i)
    BY <2>3 DEF WriteManifest
  <2>4. CASE PublishSendImage(i)
    BY <2>4 DEF PublishSendImage
  <2> QED BY <1>1, <2>1, <2>2, <2>3, <2>4 DEF CameraStep
<1>2. ASSUME NEW i \in Images, HearEvent(i) \/ DropEvent(i) PROVE Rest'
  BY <1>2 DEF HearEvent, DropEvent
<1>3. CASE PutArriving
  BY <1>3 DEF PutArriving
<1>4. ASSUME NEW i \in Images, ScanEnqueue(i) PROVE Rest'
  BY <1>4 DEF ScanEnqueue
<1>5. CASE StartScan \/ ScanDone \/ NotDue \/ DrainEmpty
  BY <1>5 DEF StartScan, ScanDone, NotDue, DrainEmpty
<1>11. CASE MinutePasses \/ ProbeOffline \/ ProbeConnected
  BY <1>11 DEF MinutePasses, ProbeOffline, ProbeConnected
<1>6. CASE GetNext
  <2>1. Head(pending) \in Images
    BY <1>6, TailLemma DEF GetNext
  <2> QED BY <1>6, <2>1 DEF GetNext
<1>7. CASE Requeue \/ Forget \/ Crash
  BY <1>7 DEF Requeue, Forget, Crash
<1>8. ASSUME NEW i \in Images, UploadStep(i) PROVE Rest'
  <2>1. CASE ReadManifest(i) \/ RequestEnrichment(i)
    BY <2>1 DEF ReadManifest, RequestEnrichment
  <2>2. CASE UploadBlob(i) \/ SendImageUpload(i)
    BY <2>2 DEF UploadBlob, SendImageUpload
  <2>3. CASE UnlinkImage(i)
    BY <2>3 DEF UnlinkImage
  <2>4. CASE UnlinkManifest(i)
    BY <2>4 DEF UnlinkManifest
  <2> QED BY <1>8, <2>1, <2>2, <2>3, <2>4 DEF UploadStep
<1>9. ASSUME NEW i \in Images, UploadError(i) PROVE Rest'
  <2>1. CASE ManifestInvalid(i) \/ RemoteFails(i) \/ DiskFails(i)
    BY <2>1 DEF ManifestInvalid, RemoteFails, DiskFails
  <2>2. CASE UploadBlobUnanswered(i) \/ SendUnanswered(i)
    BY <2>2 DEF UploadBlobUnanswered, SendUnanswered
  <2> QED BY <1>9, <2>1, <2>2 DEF UploadError
<1>10. CASE UNCHANGED vars
  BY <1>10 DEF vars
<1> HIDE DEF Rest
<1> QED BY <1>1, <1>2, <1>3, <1>4, <1>5, <1>6, <1>7, <1>8, <1>9, <1>10,
           <1>11 DEF Next, RunStep

-----------------------------------------------------------------------------
(* What is queued.                                                            *)

\* No step queues a manifest twice or leaves one in known that is not queued.
LEMMA QueueStep == FilesInv /\ QueueInv /\ [Next]_vars => QueueInv'
<1> SUFFICES ASSUME FilesInv, QueueInv, [Next]_vars PROVE QueueInv'
  OBVIOUS
<1>0. /\ TypeOK /\ StageFacts
      /\ pending \in Seq(Images) /\ known \subseteq Images
      /\ arriving \in Images \cup {NoImage} /\ current \in Images \cup {NoImage}
      /\ NoImage \notin ToSet(pending)
  <2>1. ToSet(pending) \subseteq Images
    BY DEF FilesInv, TypeOK, ToSet
  <2> QED BY <2>1, NoImageAssumption DEF FilesInv, TypeOK
<1> USE NoImageAssumption DEF QueueInv, QueuedOnce, KnownIsQueued, volume, queue, cloud,
                                 breaker, others
<1> HIDE DEF ToSet, IsInjective
<1>1. ASSUME NEW i \in Images, CameraStep(i) \/ DropEvent(i) PROVE QueueInv'
  BY <1>1 DEF CameraStep, CaptureJpeg, OpenManifest, WriteManifest,
              PublishSendImage, DropEvent
<1>2. ASSUME NEW i \in Images, HearEvent(i) PROVE QueueInv'
  BY <1>0, <1>2 DEF HearEvent
<1>3. CASE PutArriving
  BY <1>0, <1>3, AppendLemma DEF PutArriving
<1>4. ASSUME NEW i \in Images, ScanEnqueue(i) PROVE QueueInv'
  BY <1>0, <1>4, AppendLemma DEF ScanEnqueue
<1>5. CASE StartScan \/ ScanDone \/ NotDue \/ DrainEmpty
  BY <1>5 DEF StartScan, ScanDone, NotDue, DrainEmpty
<1>13. CASE MinutePasses \/ ProbeOffline \/ ProbeConnected
  BY <1>13 DEF MinutePasses, ProbeOffline, ProbeConnected
<1>6. CASE GetNext
  <2>1. current = NoImage
    BY <1>0, <1>6 DEF GetNext, StageFacts, Busy, Stages
  <2> QED BY <1>0, <1>6, <2>1, TailLemma DEF GetNext
<1>7. CASE Requeue
  <2>1. current \in Images
    BY <1>0, <1>7 DEF Requeue, StageFacts, Busy, Stages
  <2> QED BY <1>0, <1>7, <2>1, AppendLemma DEF Requeue
<1>8. CASE Forget
  BY <1>0, <1>8 DEF Forget, StageFacts, Busy, Stages
<1>9. CASE Crash
  <2>1. ToSet(<<>>) = {} /\ IsInjective(<<>>)
    BY DEF ToSet, IsInjective
  <2> QED BY <1>9, <2>1 DEF Crash
<1>10. ASSUME NEW i \in Images, UploadStep(i) PROVE QueueInv'
  BY <1>10 DEF UploadStep, ReadManifest, RequestEnrichment, UploadBlob,
               SendImageUpload, UnlinkImage, UnlinkManifest
<1>11. ASSUME NEW i \in Images, UploadError(i) PROVE QueueInv'
  BY <1>11 DEF UploadError, ManifestInvalid, RemoteFails, DiskFails,
               UploadBlobUnanswered, SendUnanswered
<1>12. CASE UNCHANGED vars
  BY <1>12 DEF vars
<1> QED BY <1>1, <1>2, <1>3, <1>4, <1>5, <1>6, <1>7, <1>8, <1>9, <1>10, <1>11,
           <1>12, <1>13 DEF Next, RunStep

-----------------------------------------------------------------------------
\* The inductive invariant holds of every behaviour of the uploader.
THEOREM Invariance == Spec => []IInv
<1>1. IInv /\ [Next]_vars => IInv'
  BY FilesStep, QueueStep DEF IInv
<1> QED BY InitIInv, <1>1, PTL DEF Spec

\* TypeOK: every variable keeps its type.
THEOREM TypeCorrect == Spec => []TypeOK
<1>1. IInv => TypeOK
  BY DEF IInv, FilesInv
<1> QED BY Invariance, <1>1, PTL

\* BreakerFacts: the uploader stops draining exactly after FailureThreshold
\* failed probes in a row, and no counter of an earlier outage is left over.
THEOREM OpensAtThreshold == Spec => []BreakerFacts
<1>1. IInv => BreakerFacts
  BY DEF IInv, FilesInv
<1> QED BY Invariance, <1>1, PTL

\* NoImageLost: whatever fails and wherever the pod is killed, a picture whose
\* manifest was completed keeps both files until Service Bus has its message.
THEOREM NoImageIsLost == Spec => []NoImageLost
<1>1. IInv => NoImageLost
  BY DEF IInv, FilesInv
<1> QED BY Invariance, <1>1, PTL

\* NotifiedHasBlob: no ImageUpload message names a blob that is not there.
THEOREM MessageNamesBlob == Spec => []NotifiedHasBlob
<1>1. IInv => NotifiedHasBlob
  BY DEF IInv, FilesInv
<1> QED BY Invariance, <1>1, PTL

\* QueuedOnce: the two threads never queue a manifest twice.
THEOREM NoDoubleQueueing == Spec => []QueuedOnce
<1>1. IInv => QueuedOnce
  BY DEF IInv, QueueInv
<1> QED BY Invariance, <1>1, PTL

\* KnownIsQueued: no manifest is stuck in _known and skipped by every scan.
THEOREM NoStuckManifest == Spec => []KnownIsQueued
<1>1. IInv => KnownIsQueued
  BY DEF IInv, QueueInv
<1> QED BY Invariance, <1>1, PTL
=============================================================================

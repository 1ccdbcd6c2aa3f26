------------------- MODULE CosmosDeviceDocumentStoreProofs -------------------
(* The store implements its interface, and its document shows the last        *)
(* heartbeats and the newest pictures, for any number of writers, attempts    *)
(* and updates.                                                               *)
EXTENDS CosmosDeviceDocumentStore, FiniteSetTheorems, WellFoundedInduction,
        SequenceTheorems, TLAPS

(* A copy whose version is still the stored one is the stored document with   *)
(* the call's own update: this is what makes the conditional write atomic.    *)
CopyInv ==
    \A w \in Writers : step[w] = "write"
        => /\ readTag[w] <= etag
           /\ readTag[w] = etag => copy[w] = Abstract!Mutation(document, update[w])

\* Each refusal is answered by a version written since the call began.
AttemptInv ==
    \A w \in Writers :
        /\ step[w] = "read" => etag >= began[w] + attempt[w] - 1
        /\ step[w] = "write" => readTag[w] >= began[w] + attempt[w] - 1
        /\ step[w] = "failed" => etag >= began[w] + MaxWriteAttempts

CallInv ==
    /\ step \in [Writers -> {"idle", "read", "write", "written", "failed"}]
    /\ update \in [Writers -> Updates \cup {Idle}]
    /\ \A w \in Writers : update[w] = Idle <=> step[w] = "idle"
    /\ attempt \in [Writers -> 1..MaxWriteAttempts]
    /\ etag \in Nat
    /\ readTag \in [Writers -> Nat]
    /\ began \in [Writers -> Nat]
    /\ copy = [w \in Writers |-> copy[w]]

IInv == CallInv /\ CopyInv /\ AttemptInv

\* At the start no call is under way.
LEMMA InitIInv == Init => IInv
BY AttemptsAssumption DEF Init, IInv, CallInv, CopyInv, AttemptInv

\* A write that another writer got in first makes every copy read before it
\* out of date; no other step changes the stored version.
LEMMA StepIInv == IInv /\ [Next]_vars => IInv'
<1> SUFFICES ASSUME IInv, [Next]_vars PROVE IInv'
  OBVIOUS
<1> USE AttemptsAssumption DEF IInv, CallInv, CopyInv, AttemptInv, stored, call
<1>1. ASSUME NEW w \in Writers, NEW u \in Updates, Call(w, u) PROVE IInv'
  <2>1. u # Idle
    BY UpdatesAssumption DEF Updates, Abstract!Updates
  <2> QED BY <1>1, <2>1 DEF Call
<1>2. ASSUME NEW w \in Writers, Read(w) PROVE IInv'
  BY <1>2 DEF Read
<1>3. ASSUME NEW w \in Writers, Create(w) PROVE IInv'
  BY <1>3 DEF Create, Store
<1>4. ASSUME NEW w \in Writers, Replace(w) PROVE IInv'
  BY <1>4 DEF Replace, Store
<1>5. ASSUME NEW w \in Writers, Retry(w) PROVE IInv'
  BY <1>5 DEF Retry, Refused
<1>6. ASSUME NEW w \in Writers, GiveUp(w) PROVE IInv'
  BY <1>6 DEF GiveUp, Refused
<1>7. ASSUME NEW w \in Writers, Return(w) PROVE IInv'
  BY <1>7 DEF Return
<1>8. CASE UNCHANGED vars
  BY <1>8 DEF vars
<1> QED BY <1>1, <1>2, <1>3, <1>4, <1>5, <1>6, <1>7, <1>8 DEF Next

\* A copy of the present version is the document with the call's update, and
\* a refused attempt was overtaken by a write, for any number of writers.
THEOREM Invariance == Spec => []IInv
BY InitIInv, StepIInv, PTL DEF Spec

\* GivesUpOnlyWhenOvertaken: a call that fails for conflicts lost each of its
\* attempts to a write that succeeded while it ran.
THEOREM GivesUpLate == Spec => []GivesUpOnlyWhenOvertaken
<1>1. IInv => GivesUpOnlyWhenOvertaken
  BY DEF IInv, AttemptInv, GivesUpOnlyWhenOvertaken
<1> QED BY Invariance, <1>1, PTL

-----------------------------------------------------------------------------
(* The refinement.  A write that is accepted is the step at which the         *)
(* abstract document changes; reads, refusals and retries change nothing.     *)

\* The initial states map to those of the atomic store.
LEMMA InitRefines == Init => Abstract!Init
BY DEF Init, Abstract!Init, applied

\* Every step of MutateAsync is an atomic change, or changes nothing the
\* interface shows.
LEMMA StepRefines == IInv /\ [Next]_vars => [Abstract!Next]_(Abstract!vars)
<1> SUFFICES ASSUME IInv, [Next]_vars PROVE [Abstract!Next]_(Abstract!vars)
  OBVIOUS
<1> USE DEF IInv, CallInv, stored, call
<1> DEFINE Same == UNCHANGED <<document, update, applied, history, recorded>>
<1>0. Same => UNCHANGED Abstract!vars
  BY DEF Abstract!vars
<1>1. ASSUME NEW w \in Writers, NEW u \in Updates, Call(w, u)
      PROVE  Abstract!Call(w, u)
  BY <1>1 DEF Call, Abstract!Call, applied
<1>2. ASSUME NEW w \in Writers, Read(w) \/ Retry(w) \/ GiveUp(w) PROVE Same
  BY <1>2 DEF Read, Retry, GiveUp, Refused, applied
<1>3. ASSUME NEW w \in Writers, Create(w) \/ Replace(w) PROVE Abstract!Apply(w)
  <2>1. /\ step[w] = "write" /\ readTag[w] = etag /\ Store(w)
        /\ step' = [step EXCEPT ![w] = "written"] /\ UNCHANGED update
    BY <1>3 DEF Create, Replace
  <2>2. document' = Abstract!Mutation(document, update[w])
    BY <2>1 DEF CopyInv, Store
  <2>3. applied' = [applied EXCEPT ![w] = TRUE] /\ ~applied[w]
    BY <2>1 DEF applied
  <2> QED BY <2>1, <2>2, <2>3 DEF Abstract!Apply, Store
<1>4. ASSUME NEW w \in Writers, Return(w) PROVE Abstract!Return(w)
  BY <1>4 DEF Return, Abstract!Return, applied
<1>5. CASE UNCHANGED vars
  BY <1>5, <1>0 DEF vars, applied
<1> HIDE DEF Same, IInv
<1> QED BY <1>0, <1>1, <1>2, <1>3, <1>4, <1>5
        DEF Next, Abstract!Next, Updates

\* Atomic: reading, changing and writing back in two steps looks to everyone
\* like one atomic change, or like a failed call.
THEOREM Implements == Spec => Atomic
<1> QED BY InitRefines, StepRefines, Invariance, PTL DEF Spec, Atomic, Abstract!Spec

-----------------------------------------------------------------------------
(* What the document shows.  The list operators first.                        *)

\* Trim keeps a prefix.
LEMMA TrimIsPrefix ==
    ASSUME NEW X, NEW s \in Seq(X), NEW M \in Nat \ {0}
    PROVE  LET t == Abstract!Trim(s, M)
           IN  /\ t \in Seq(X)
               /\ Len(t) = IF Len(s) > M THEN M ELSE Len(s)
               /\ \A i \in 1..Len(t) : t[i] = s[i]
BY DEF Abstract!Trim

\* Trimming before a value is put in front does not change what is left.
LEMMA TrimThenPrepend ==
    ASSUME NEW X, NEW s \in Seq(X), NEW x \in X, NEW M \in Nat \ {0}
    PROVE  Abstract!Trim(<<x>> \o Abstract!Trim(s, M), M) = Abstract!Trim(<<x>> \o s, M)
<1> DEFINE t == Abstract!Trim(s, M)
           a == <<x>> \o t
           b == <<x>> \o s
<1>1. /\ t \in Seq(X)
      /\ Len(t) = IF Len(s) > M THEN M ELSE Len(s)
      /\ \A i \in 1..Len(t) : t[i] = s[i]
  BY TrimIsPrefix
<1> HIDE DEF t
<1>2. /\ a \in Seq(X) /\ Len(a) = Len(t) + 1
      /\ b \in Seq(X) /\ Len(b) = Len(s) + 1
  BY <1>1
<1>3. \A i \in 1..Len(a) : a[i] = b[i]
  BY <1>1, <1>2
<1> DEFINE ta == Abstract!Trim(a, M)
           tb == Abstract!Trim(b, M)
<1> HIDE DEF a, b
<1>4. /\ ta \in Seq(X) /\ Len(ta) = (IF Len(a) > M THEN M ELSE Len(a))
      /\ \A i \in 1..Len(ta) : ta[i] = a[i]
  BY <1>2, TrimIsPrefix
<1>5. /\ tb \in Seq(X) /\ Len(tb) = (IF Len(b) > M THEN M ELSE Len(b))
      /\ \A i \in 1..Len(tb) : tb[i] = b[i]
  BY <1>2, TrimIsPrefix
<1> HIDE DEF ta, tb
<1>6. Len(ta) = Len(tb)
  BY <1>1, <1>2, <1>4, <1>5
<1>7. \A i \in 1..Len(ta) : ta[i] = tb[i]
  BY <1>1, <1>2, <1>3, <1>4, <1>5, <1>6
<1>8. ta = tb
  BY <1>4, <1>5, <1>6, <1>7, SeqEqual
<1> QED BY <1>8 DEF ta, tb, a, b, t

\* The abstract specification's instance has symbols of its own.
LEMMA SameCardinality == ASSUME NEW S PROVE Abstract!Cardinality(S) = Cardinality(S)
BY Zenon DEF Cardinality, Abstract!Cardinality

\* The same for the elements of a list.
LEMMA SameToSet == ASSUME NEW s PROVE Abstract!ToSet(s) = ToSet(s)
BY Zenon DEF ToSet, Abstract!ToSet

\* A set of naturals that has an element has a least one.
LEMMA LeastNatural ==
    ASSUME NEW T \in SUBSET Nat, T # {}
    PROVE  \E least \in T : \A p \in T : least <= p
<1> DEFINE R == OpToRel(<, Nat)
<1>1. IsWellFoundedOn(R, Nat)
  BY NatLessThanWellFounded
<1>2. \A x, y \in Nat : <<x, y>> \in R <=> x < y
  BY DEF OpToRel
<1> HIDE DEF R
<1>3. \E x \in T : \A y \in T : ~(<<y, x>> \in R)
  BY <1>1, WFMin
<1>4. \A x, y \in T : ~(<<y, x>> \in R) => x <= y
  <2>1. \A x, y \in T : <<y, x>> \in R <=> y < x
    BY <1>2
  <2>2. \A x, y \in T : ~(y < x) => x <= y
    OBVIOUS
  <2> QED BY <2>1, <2>2
<1> QED BY <1>3, <1>4

\* The lists of all elements of S, the greatest first.
SortedOf(S) ==
    {s \in [1..Cardinality(S) -> S] : Abstract!Descending(s)}

\* Every finite set of capture times can be listed in descending order: without
\* its least element, a smallest set that could not would be a smaller one.
LEMMA SortedExists ==
    ASSUME NEW S \in SUBSET Nat, IsFiniteSet(S)
    PROVE  SortedOf(S) # {}
<1> DEFINE Bad == {n \in Nat : \E T \in SUBSET Nat :
                    IsFiniteSet(T) /\ Cardinality(T) = n /\ SortedOf(T) = {}}
<1> SUFFICES ASSUME Bad # {} PROVE FALSE
  <2>1. Cardinality(S) \in Nat
    BY FS_CardinalityType
  <2> QED BY <2>1
<1>1. PICK n \in Bad : \A m \in Bad : n <= m
  <2>1. Bad \in SUBSET Nat
    OBVIOUS
  <2> HIDE DEF Bad
  <2> QED BY <2>1, LeastNatural
<1>2. PICK T \in SUBSET Nat :
        IsFiniteSet(T) /\ Cardinality(T) = n /\ SortedOf(T) = {}
  OBVIOUS
<1>3. T # {}
  <2> SUFFICES ASSUME T = {} PROVE FALSE
    OBVIOUS
  <2>1. Cardinality(T) = 0
    BY FS_EmptySet
  <2>2. [i \in 1..0 |-> 0] \in SortedOf(T)
    BY <2>1 DEF SortedOf, Abstract!Descending
  <2> QED BY <2>2, <1>2
<1>4. PICK least \in T : \A p \in T : least <= p
  BY <1>3, LeastNatural
<1> DEFINE U == T \ {least}
<1>5. /\ U \in SUBSET Nat /\ IsFiniteSet(U)
      /\ Cardinality(U) = n - 1 /\ n - 1 \in Nat
  <2>1. IsFiniteSet(U) /\ Cardinality(U) = n - 1
    BY <1>2, <1>4, FS_RemoveElement
  <2>2. Cardinality(U) \in Nat
    BY <2>1, FS_CardinalityType
  <2> QED BY <2>1, <2>2
<1>6. PICK s \in [1..(n - 1) -> U] : Abstract!Descending(s)
  <2>1. (n - 1) \notin Bad
    BY <1>1
  <2> QED BY <1>5, <2>1 DEF SortedOf
<1> DEFINE r == [i \in 1..n |-> IF i < n THEN s[i] ELSE least]
<1>7. n \in Nat
  OBVIOUS
<1>8. r \in [1..n -> T]
  BY <1>6, <1>7
<1>9. Abstract!Descending(r)
  <2> SUFFICES ASSUME NEW i \in 1..n, NEW j \in 1..n, i < j PROVE r[i] > r[j]
    BY <1>8 DEF Abstract!Descending
  <2>1. r[i] = s[i] /\ s[i] \in U /\ i \in 1..(n - 1)
    BY <1>6, <1>7
  <2>2. CASE j < n
    BY <2>1, <2>2, <1>6, <1>7 DEF Abstract!Descending
  <2>3. CASE j = n
    <3>1. s[i] \in Nat /\ least \in Nat /\ least <= s[i] /\ least # s[i]
      BY <2>1, <1>4
    <3>2. r[j] = least
      BY <2>3, <1>7
    <3> QED BY <2>1, <3>1, <3>2
  <2> QED BY <2>2, <2>3, <1>7
<1>10. r \in SortedOf(T)
  BY <1>2, <1>8, <1>9 DEF SortedOf
<1> QED BY <1>10, <1>2

\* NewestFirst lists each element of a finite set once, the greatest first.
LEMMA NewestFirstSorts ==
    ASSUME NEW S \in SUBSET Nat, IsFiniteSet(S)
    PROVE  LET s == Abstract!NewestFirst(S)
           IN  /\ s \in Seq(Nat)
               /\ Len(s) = Cardinality(S)
               /\ Abstract!Descending(s)
               /\ ToSet(s) = S
<1> DEFINE s == Abstract!NewestFirst(S)
           n == Cardinality(S)
<1>0. n \in Nat
  BY FS_CardinalityType
<1>1. s \in [1..n -> S] /\ Abstract!Descending(s)
  <2>1. s = CHOOSE t \in [1..n -> S] : Abstract!Descending(t)
    BY SameCardinality DEF Abstract!NewestFirst
  <2> HIDE DEF s
  <2>2. \E t \in [1..n -> S] : Abstract!Descending(t)
    BY SortedExists DEF SortedOf
  <2> QED BY <2>1, <2>2
<1> HIDE DEF s
<1>2. s \in Seq(Nat) /\ Len(s) = n
  <2> HIDE DEF n
  <2>1. s \in [1..n -> Nat]
    BY <1>1
  <2> QED BY <1>0, <2>1
<1>3. s \in Injection(1..n, S)
  <2>1. \A i \in 1..n : s[i] \in Nat
    BY <1>1
  <2>2. \A i, j \in 1..n : s[i] = s[j] => i = j
    BY <1>0, <1>1, <2>1 DEF Abstract!Descending
  <2> QED BY <1>1, <2>2 DEF Injection, IsInjective
<1>4. s \in Surjection(1..n, S)
  <2>1. Cardinality(1..n) = n
    BY <1>0, FS_Interval
  <2> QED BY <1>3, <2>1, FS_Injection
<1>5. ToSet(s) = S
  BY <1>2, <1>4, <1>1 DEF Surjection, ToSet
<1> QED BY <1>1, <1>2, <1>5 DEF s

\* A descending list has as many elements as entries.
LEMMA DescendingCardinality ==
    ASSUME NEW s \in Seq(Nat), Abstract!Descending(s)
    PROVE  /\ IsFiniteSet(ToSet(s))
           /\ Cardinality(ToSet(s)) = Len(s)
<1> DEFINE n == Len(s)
           S == ToSet(s)
<1>1. n \in Nat /\ s \in [1..n -> S] /\ DOMAIN s = 1..n
  BY DEF ToSet
<1>2. \A i \in 1..n : s[i] \in Nat
  OBVIOUS
<1>3. \A i, j \in 1..n : s[i] = s[j] => i = j
  BY <1>1, <1>2 DEF Abstract!Descending
<1>4. s \in Surjection(1..n, S)
  BY <1>1 DEF Surjection, ToSet
<1>5. s \in Injection(1..n, S)
  BY <1>1, <1>3 DEF Injection, IsInjective
<1>6. IsFiniteSet(1..n) /\ Cardinality(1..n) = n
  BY <1>1, FS_Interval
<1> QED BY <1>4, <1>5, <1>6, FS_Surjection

-----------------------------------------------------------------------------
(* The two lists and the location, one update later.                          *)

\* ImagesAreNewest of a list and of the pictures recorded.
Newest(shown, taken) ==
    /\ Abstract!Descending(shown)
    /\ ToSet(shown) \subseteq taken
    /\ Len(shown) <= MaxImages
    /\ \A p \in taken \ ToSet(shown) :
          Len(shown) = MaxImages /\ \A q \in ToSet(shown) : p < q

\* Putting one picture among those shown, sorting and trimming keeps the newest,
\* although the pictures trimmed earlier are not looked at again.
LEMMA AddImageKeepsNewest ==
    ASSUME NEW shown \in Seq(Nat), NEW taken \in SUBSET Nat, NEW image \in Nat,
           Newest(shown, taken)
    PROVE  LET t == Abstract!Trim(Abstract!NewestFirst(ToSet(shown) \cup {image}), MaxImages)
           IN  t \in Seq(Nat) /\ Newest(t, taken \cup {image})
<1> DEFINE S == ToSet(shown) \cup {image}
           s == Abstract!NewestFirst(S)
           t == Abstract!Trim(s, MaxImages)
<1>1. /\ IsFiniteSet(ToSet(shown)) /\ Cardinality(ToSet(shown)) = Len(shown)
      /\ ToSet(shown) \subseteq Nat
  BY DescendingCardinality DEF Newest, ToSet
<1>2. /\ S \in SUBSET Nat /\ IsFiniteSet(S)
      /\ Cardinality(S) = IF image \in ToSet(shown) THEN Len(shown) ELSE Len(shown) + 1
  BY <1>1, FS_AddElement
<1>3. /\ s \in Seq(Nat)
      /\ Len(s) = IF image \in ToSet(shown) THEN Len(shown) ELSE Len(shown) + 1
      /\ Abstract!Descending(s)
      /\ ToSet(s) = S
  <2> HIDE DEF S
  <2> QED BY <1>2, NewestFirstSorts
<1> HIDE DEF s
<1>4. /\ t \in Seq(Nat)
      /\ Len(t) = IF Len(s) > MaxImages THEN MaxImages ELSE Len(s)
      /\ \A i \in 1..Len(t) : t[i] = s[i]
  BY <1>3, LimitsAssumption, TrimIsPrefix
<1> HIDE DEF t
<1>5. /\ \A i \in 1..Len(s) : s[i] \in S /\ s[i] \in Nat
      /\ \A p \in S : \E i \in 1..Len(s) : p = s[i]
      /\ \A i, j \in 1..Len(s) : i < j => s[i] > s[j]
      /\ \A q \in ToSet(t) : \E i \in 1..Len(t) : q = s[i]
      /\ \A i \in 1..Len(t) : s[i] \in ToSet(t)
  <2> HIDE DEF S
  <2>1. DOMAIN s = 1..Len(s) /\ DOMAIN t = 1..Len(t)
    BY <1>3, <1>4
  <2>2. \A i \in 1..Len(s) : s[i] \in S /\ s[i] \in Nat
    <3>1. \A i \in 1..Len(s) : s[i] \in ToSet(s)
      BY <2>1 DEF ToSet
    <3> QED BY <1>2, <1>3, <3>1
  <2>3. \A p \in S : \E i \in 1..Len(s) : p = s[i]
    BY <1>3, <2>1 DEF ToSet
  <2>4. \A i, j \in 1..Len(s) : i < j => s[i] > s[j]
    BY <1>3, <2>1 DEF Abstract!Descending
  <2>5. \A q \in ToSet(t) : \E i \in 1..Len(t) : q = s[i]
    BY <1>4, <2>1 DEF ToSet
  <2>6. \A i \in 1..Len(t) : s[i] \in ToSet(t)
    BY <1>4, <2>1 DEF ToSet
  <2> QED BY <2>2, <2>3, <2>4, <2>5, <2>6
<1>6. Len(s) \in Nat /\ Len(t) \in Nat /\ Len(t) <= Len(s)
      /\ Len(t) <= MaxImages /\ MaxImages \in Nat
      /\ (Len(t) < Len(s) => Len(t) = MaxImages)
  BY <1>3, <1>4, LimitsAssumption
<1>7. Abstract!Descending(t)
  <2>1. DOMAIN t = 1..Len(t)
    BY <1>4
  <2>2. \A i, j \in 1..Len(t) : i < j => t[i] > t[j]
    BY <1>4, <1>5, <1>6
  <2> QED BY <2>1, <2>2 DEF Abstract!Descending
<1>8. ToSet(t) \subseteq taken \cup {image}
  BY <1>5, <1>6 DEF Newest
<1>9. ASSUME NEW p \in (taken \cup {image}) \ ToSet(t)
      PROVE  Len(t) = MaxImages /\ \A q \in ToSet(t) : p < q
  <2>1. CASE p \in S
    <3>1. PICK k \in 1..Len(s) : p = s[k]
      BY <2>1, <1>5
    <3>2. k > Len(t)
      BY <3>1, <1>5, <1>6, <1>9
    <3>3. ASSUME NEW q \in ToSet(t) PROVE p < q
      BY <3>1, <3>2, <1>5, <1>6
    <3> QED BY <3>2, <3>3, <1>6
  <2>2. CASE p \notin S
    <3>1. /\ p \in Nat /\ p \in taken \ ToSet(shown)
          /\ Len(shown) = MaxImages /\ \A q \in ToSet(shown) : p < q
      BY <2>2, <1>9 DEF Newest
    <3>2. Len(t) = MaxImages
      BY <3>1, <1>3, <1>4, <1>6
    <3>3. ASSUME NEW q \in ToSet(t) PROVE p < q
      <4>1. PICK i \in 1..Len(t) : q = s[i]
        BY <1>5
      <4>2. CASE q \in ToSet(shown)
        BY <4>2, <3>1
      <4>3. CASE q \notin ToSet(shown)
        <5>1. q = image /\ q \in Nat
          BY <4>1, <4>3, <1>5, <1>6
        <5>2. Len(s) = MaxImages + 1
          BY <5>1, <4>3, <3>1, <1>3
        <5> DEFINE last == s[Len(s)]
        <5>3. last \in S /\ last \in Nat /\ q > last
          BY <5>2, <4>1, <3>2, <1>5, <1>6
        <5>4. p < last
          BY <5>1, <5>3, <3>1
        <5> QED BY <5>1, <5>3, <5>4, <3>1
      <4> QED BY <4>2, <4>3
    <3> QED BY <3>2, <3>3
  <2> QED BY <2>1, <2>2
<1> QED BY <1>4, <1>6, <1>7, <1>8, <1>9 DEF Newest, t, s

\* The location is that of the last heartbeat that carried one.
LocationOf(location, past) ==
    \/ location = Idle /\ ToSet(past) \cap Located = {}
    \/ \E n \in DOMAIN past : /\ location = past[n]
                              /\ past[n] \in Located
                              /\ \A m \in 1..(n - 1) : past[m] \notin Located

\* The location of the last heartbeat that carried one, one heartbeat later.
LEMMA LocationFollows ==
    ASSUME NEW past \in Seq(Heartbeats), NEW h \in Heartbeats, NEW location,
           LocationOf(location, past)
    PROVE  LocationOf(IF h \in Located THEN h ELSE location, <<h>> \o past)
<1> DEFINE new == <<h>> \o past
<1>1. /\ new \in Seq(Heartbeats) /\ Len(new) = Len(past) + 1
      /\ DOMAIN new = 1..(Len(past) + 1) /\ DOMAIN past = 1..Len(past)
      /\ new[1] = h
      /\ \A i \in 1..Len(past) : new[i + 1] = past[i]
  OBVIOUS
<1>2. Len(past) \in Nat
  OBVIOUS
<1> HIDE DEF new
<1>3. CASE h \in Located
  BY <1>1, <1>2, <1>3 DEF LocationOf, new
<1>4. CASE h \notin Located
  <2>1. CASE location = Idle /\ ToSet(past) \cap Located = {}
    <3>1. \A i \in 1..(Len(past) + 1) : new[i] \notin Located
      <4> SUFFICES ASSUME NEW i \in 1..(Len(past) + 1) PROVE new[i] \notin Located
        OBVIOUS
      <4>1. CASE i = 1
        BY <4>1, <1>1, <1>4
      <4>2. CASE i # 1
        <5>1. i - 1 \in 1..Len(past) /\ (i - 1) + 1 = i
          BY <4>2, <1>2
        <5>2. new[i] = past[i - 1] /\ past[i - 1] \in ToSet(past)
          BY <5>1, <1>1 DEF ToSet
        <5> QED BY <5>2, <2>1
      <4> QED BY <4>1, <4>2
    <3>2. ToSet(new) \cap Located = {}
      BY <3>1, <1>1 DEF ToSet
    <3> QED BY <3>2, <2>1, <1>4 DEF LocationOf, new
  <2>2. ASSUME NEW n \in DOMAIN past, location = past[n], past[n] \in Located,
               \A m \in 1..(n - 1) : past[m] \notin Located
        PROVE  LocationOf(location, new)
    <3>1. n + 1 \in DOMAIN new /\ new[n + 1] = past[n] /\ n \in Nat
      BY <1>1, <1>2
    <3>2. ASSUME NEW m \in 1..((n + 1) - 1) PROVE new[m] \notin Located
      <4>1. CASE m = 1
        BY <4>1, <1>1, <1>4
      <4>2. CASE m # 1
        <5>1. m - 1 \in 1..(n - 1) /\ m - 1 \in 1..Len(past) /\ (m - 1) + 1 = m
          BY <4>2, <3>1, <1>1, <1>2
        <5> QED BY <5>1, <2>2, <1>1
      <4> QED BY <4>1, <4>2
    <3> QED BY <3>1, <3>2, <2>2 DEF LocationOf
  <2> QED BY <2>1, <2>2, <1>4 DEF LocationOf, new
<1> QED BY <1>3, <1>4

-----------------------------------------------------------------------------
(* The document agrees with what was applied to it.                           *)

DocumentInv ==
    /\ document \in [heartbeats : Seq(Heartbeats), images : Seq(Nat),
                     lastSeen : Heartbeats \cup {Idle}, location : Heartbeats \cup {Idle}]
    /\ calls \in 0..MaxCalls
    /\ history \in Seq(Heartbeats)
    /\ recorded \subseteq Images
    /\ Newest(document.images, recorded)
    /\ document.heartbeats = Abstract!Trim(history, MaxHeartbeats)
    /\ document.lastSeen = IF history = <<>> THEN Idle ELSE Head(history)
    /\ LocationOf(document.location, history)

\* The new document shows nothing, and nothing was applied.
LEMMA InitDocumentInv == Init => DocumentInv
<1> SUFFICES ASSUME Init PROVE DocumentInv
  OBVIOUS
<1>1. /\ document = [heartbeats |-> <<>>, images |-> <<>>, lastSeen |-> Idle, location |-> Idle]
      /\ calls = 0 /\ history = <<>> /\ recorded = {}
  BY DEF Init, Abstract!NewDocument
<1>2. ToSet(<<>>) = {} /\ Len(<<>>) = 0 /\ Abstract!Descending(<<>>)
  BY DEF ToSet, Abstract!Descending
<1>3. Newest(document.images, recorded)
  BY <1>1, <1>2, LimitsAssumption DEF Newest
<1>4. Abstract!Trim(<<>>, MaxHeartbeats) = <<>>
  BY <1>2, LimitsAssumption DEF Abstract!Trim
<1>5. LocationOf(document.location, history)
  BY <1>1, <1>2 DEF LocationOf
<1> QED BY <1>1, <1>3, <1>4, <1>5, CallsAssumption DEF DocumentInv

\* The two mutations on a document that agrees with what was applied.
LEMMA ApplyDocumentInv ==
    ASSUME DocumentInv, NEW u \in Updates,
           document' = Abstract!Mutation(document, u), Abstract!Remember(u),
           calls' \in 0..MaxCalls
    PROVE  DocumentInv'
<1> USE DEF DocumentInv
<1>1. CASE u \in Images
  <2> DEFINE t == Abstract!Trim(Abstract!NewestFirst(ToSet(document.images) \cup {u}), MaxImages)
  <2>1. document' = [document EXCEPT !.images = t]
    BY <1>1, SameToSet DEF Abstract!Mutation, Abstract!AddImage
  <2>2. history' = history /\ recorded' = recorded \cup {u}
    BY <1>1, UpdatesAssumption DEF Abstract!Remember
  <2>3. t \in Seq(Nat) /\ Newest(t, recorded \cup {u})
    BY <1>1, ImagesAssumption, AddImageKeepsNewest
  <2> HIDE DEF t
  <2>4. document'.images = t /\ document'.heartbeats = document.heartbeats
        /\ document'.lastSeen = document.lastSeen /\ document'.location = document.location
    BY <2>1
  <2>5. document' \in [heartbeats : Seq(Heartbeats), images : Seq(Nat),
                       lastSeen : Heartbeats \cup {Idle}, location : Heartbeats \cup {Idle}]
    BY <2>1, <2>3
  <2> QED BY <2>2, <2>3, <2>4, <2>5, <1>1
<1>2. CASE u \notin Images
  <2>1. u \in Heartbeats
    BY <1>2 DEF Updates, Abstract!Updates
  <2>2. document' = [document EXCEPT !.heartbeats = Abstract!Trim(<<u>> \o @, MaxHeartbeats),
                                    !.lastSeen = u,
                                    !.location = IF u \in Located THEN u ELSE @]
    BY <1>2 DEF Abstract!Mutation, Abstract!AddHeartbeat
  <2>3. history' = <<u>> \o history /\ recorded' = recorded
    BY <1>2, <2>1 DEF Abstract!Remember
  <2> DEFINE t == Abstract!Trim(<<u>> \o document.heartbeats, MaxHeartbeats)
             l == IF u \in Located THEN u ELSE document.location
  <2>4. t = Abstract!Trim(<<u>> \o history, MaxHeartbeats)
    BY <2>1, LimitsAssumption, TrimThenPrepend
  <2>5. <<u>> \o history \in Seq(Heartbeats) /\ <<u>> \o history # <<>>
        /\ Head(<<u>> \o history) = u
    BY <2>1
  <2>6. t \in Seq(Heartbeats)
    BY <2>4, <2>5, LimitsAssumption, TrimIsPrefix
  <2>7. LocationOf(l, <<u>> \o history) /\ l \in Heartbeats \cup {Idle}
    BY <2>1, LocationFollows
  <2>8. document' = [document EXCEPT !.heartbeats = t, !.lastSeen = u, !.location = l]
    BY <2>2
  <2> HIDE DEF t, l
  <2>9. document'.images = document.images /\ document'.heartbeats = t
        /\ document'.lastSeen = u /\ document'.location = l
    BY <2>8
  <2>10. document' \in [heartbeats : Seq(Heartbeats), images : Seq(Nat),
                        lastSeen : Heartbeats \cup {Idle}, location : Heartbeats \cup {Idle}]
    BY <2>1, <2>6, <2>7, <2>8
  <2> QED BY <2>3, <2>4, <2>5, <2>7, <2>9, <2>10
<1> QED BY <1>1, <1>2

\* Only an accepted write changes the document, by the call's own update.
LEMMA StepDocumentInv == IInv /\ DocumentInv /\ [Next]_vars => DocumentInv'
<1> SUFFICES ASSUME IInv, DocumentInv, [Next]_vars PROVE DocumentInv'
  OBVIOUS
<1>1. ASSUME UNCHANGED stored, calls' \in 0..MaxCalls PROVE DocumentInv'
  BY <1>1 DEF DocumentInv, stored
<1>2. calls \in 0..MaxCalls /\ calls \in Nat
  BY CallsAssumption DEF DocumentInv
<1>3. ASSUME NEW w \in Writers, NEW u \in Updates, Call(w, u) PROVE DocumentInv'
  <2>1. calls' \in 0..MaxCalls
    BY <1>2, <1>3, CallsAssumption DEF Call
  <2> QED BY <1>1, <1>3, <2>1 DEF Call
<1>4. ASSUME NEW w \in Writers, Read(w) \/ Retry(w) \/ GiveUp(w) \/ Return(w)
      PROVE  DocumentInv'
  BY <1>1, <1>2, <1>4 DEF Read, Retry, GiveUp, Return, call
<1>5. ASSUME NEW w \in Writers, Create(w) \/ Replace(w) PROVE DocumentInv'
  <2>1. /\ step[w] = "write" /\ readTag[w] = etag /\ Store(w) /\ UNCHANGED calls
    BY <1>5 DEF Create, Replace, call
  <2>2. document' = Abstract!Mutation(document, update[w])
    BY <2>1 DEF IInv, CopyInv, Store
  <2>3. update[w] \in Updates
    BY <2>1 DEF IInv, CallInv
  <2> QED BY <1>2, <2>1, <2>2, <2>3, ApplyDocumentInv DEF Store
<1>6. CASE UNCHANGED vars
  BY <1>1, <1>2, <1>6 DEF vars, call
<1> QED BY <1>3, <1>4, <1>5, <1>6 DEF Next

\* The document agrees with what was applied to it, whatever the interleaving
\* of the writers' reads, conditional writes and retries.
THEOREM DocumentInvariance == Spec => []DocumentInv
BY InitDocumentInv, StepDocumentInv, Invariance, PTL DEF Spec

\* TypeOK: every variable of the store keeps its type.
THEOREM TypeCorrect == Spec => []TypeOK
<1>1. IInv /\ DocumentInv => TypeOK
  BY DEF IInv, CallInv, DocumentInv, TypeOK
<1> QED BY Invariance, DocumentInvariance, <1>1, PTL

\* ImagesAreNewest: whatever the order, repetitions and races of the writers,
\* the pictures shown are the newest ever recorded, each of them once.
THEOREM NewestImagesAreShown == Spec => []ImagesAreNewest
<1>1. DocumentInv => ImagesAreNewest
  BY SameToSet DEF DocumentInv, Newest, ImagesAreNewest, Abstract!ImagesAreNewest
<1> QED BY DocumentInvariance, <1>1, PTL

\* HeartbeatsAreLast: no heartbeat is lost to a concurrent write, and status,
\* specs and location are those of the last ones applied.
THEOREM LastHeartbeatsAreShown == Spec => []HeartbeatsAreLast
<1>1. DocumentInv => HeartbeatsAreLast
  BY SameToSet DEF DocumentInv, LocationOf, HeartbeatsAreLast, Abstract!HeartbeatsAreLast
<1> QED BY DocumentInvariance, <1>1, PTL
=============================================================================

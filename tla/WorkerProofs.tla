---------------------------- MODULE WorkerProofs -----------------------------
(***************************************************************************)
(* What the worker does to the jobs of its clients, for the proofs about   *)
(* the modules that extend NetWorker: the rings hold jobs and no more than *)
(* fit, a result is handed out before the next job runs, and every step    *)
(* keeps count of the jobs a client has with the worker.                   *)
(***************************************************************************)
EXTENDS NetWorker, FiniteSetTheorems, TLAPS

\* The jobs of source s in queue q, and how many they are; the same of the
\* results.
QueueJobs(q, s) == {q[k] : k \in JobsOf(q, s)}
QueueFlights(q, s) == Cardinality(JobsOf(q, s))
ResultPlaces(q, s) == {k \in DOMAIN q : q[k].job.src = s}
ResultJobs(q, s) == {q[k].job : k \in ResultPlaces(q, s)}
ResultFlights(q, s) == Cardinality(ResultPlaces(q, s))

One(j, s) == IF j.src = s THEN 1 ELSE 0
Own(j, s) == IF j.src = s THEN {j} ELSE {}

\* The rings of the worker hold jobs of Js, and at most one result waits, of
\* the job that was run in this turn.
WorkerOK(Js) ==
  /\ hiQ \in Seq(Js) /\ loQ \in Seq(Js)
  /\ Len(hiQ) <= JobQDepth /\ Len(loQ) <= JobQDepth
  /\ at \in {"front", "poll"}
  /\ \/ resQ = <<>>
     \/ at = "poll" /\ \E j \in Js : \E r \in Outcomes(j) : resQ = <<r>>

-----------------------------------------------------------------------------
LEMMA OutcomeOf ==
  ASSUME NEW j, NEW r \in Outcomes(j)
  PROVE  r.job = j /\ r.ok \in BOOLEAN /\ r.deferred \in BOOLEAN /\ r.blocked \in BOOLEAN
<1>1. CASE \E ok \in BOOLEAN : r = Result(j, ok, FALSE, FALSE)
  BY <1>1 DEF Result
<1>2. CASE r = Result(j, FALSE, TRUE, FALSE)
  BY <1>2 DEF Result
<1>3. CASE r = Result(j, FALSE, j.src # "monitor", TRUE)
  <2>1. (j.src # "monitor") \in BOOLEAN
    OBVIOUS
  <2>2. QED
    BY <1>3, <2>1 DEF Result
<1>4. QED
  BY <1>1, <1>2, <1>3 DEF Outcomes, Attempts, NoMemory

(***************************************************************************)
(* Counting the members of a set of jobs in a queue.                       *)
(***************************************************************************)
Places(q, S) == {k \in DOMAIN q : q[k] \in S}
HowMany(q, S) == Cardinality(Places(q, S))
OneIn(j, S) == IF j \in S THEN 1 ELSE 0

LEMMA PlacesFinite ==
  ASSUME NEW Js, NEW q \in Seq(Js), NEW S
  PROVE  IsFiniteSet(Places(q, S)) /\ HowMany(q, S) \in Nat
<1>1. IsFiniteSet(1 .. Len(q))
  BY FS_Interval
<1>2. Places(q, S) \in SUBSET (1 .. Len(q))
  BY DEF Places
<1>3. QED
  BY <1>1, <1>2, FS_Subset, FS_CardinalityType DEF HowMany

LEMMA AppendPlaces ==
  ASSUME NEW Js, NEW q \in Seq(Js), NEW j \in Js, NEW S
  PROVE  HowMany(Append(q, j), S) = HowMany(q, S) + OneIn(j, S)
<1> DEFINE n == Len(q) + 1
<1>1. /\ Append(q, j) \in Seq(Js) /\ Len(Append(q, j)) = n /\ Append(q, j)[n] = j
      /\ \A k \in 1 .. Len(q) : Append(q, j)[k] = q[k]
      /\ Len(q) \in Nat
  OBVIOUS
<1>2. Places(Append(q, j), S) = Places(q, S) \cup (IF j \in S THEN {n} ELSE {})
  BY <1>1 DEF Places
<1>3. n \notin Places(q, S)
  BY <1>1 DEF Places
<1>4. CASE j \in S
  BY <1>2, <1>3, <1>4, PlacesFinite, FS_AddElement DEF HowMany, OneIn
<1>5. CASE j \notin S
  BY <1>2, <1>5, PlacesFinite DEF HowMany, OneIn
<1>6. QED
  BY <1>4, <1>5

LEMMA TailPlaces ==
  ASSUME NEW Js, NEW q \in Seq(Js), q # <<>>, NEW S
  PROVE  HowMany(q, S) = HowMany(Tail(q), S) + OneIn(Head(q), S)
<1>1. /\ Tail(q) \in Seq(Js) /\ Len(Tail(q)) = Len(q) - 1 /\ Len(q) \in Nat \ {0}
      /\ Head(q) = q[1]
      /\ \A k \in 1 .. Len(q) - 1 : Tail(q)[k] = q[k + 1]
  OBVIOUS
<1> DEFINE A == Places(q, S) \ {1}
           B == Places(Tail(q), S)
           f == [k \in A |-> k - 1]
<1>2. A \in SUBSET (2 .. Len(q)) /\ B \in SUBSET (1 .. Len(q) - 1)
  BY <1>1 DEF Places
<1>3. \A k \in 1 .. Len(q) - 1 : k \in B <=> k + 1 \in A
  BY <1>1 DEF Places
<1>4. ExistsBijection(A, B)
  <2>1. f \in [A -> B]
    BY <1>1, <1>2, <1>3
  <2>2. \A k, m \in A : f[k] = f[m] => k = m
    BY <1>2
  <2>3. \A b \in B : \E k \in A : f[k] = b
    <3>1. ASSUME NEW b \in B PROVE b + 1 \in A /\ f[b + 1] = b
      BY <1>1, <1>2, <1>3
    <3>2. QED
      BY <3>1
  <2> HIDE DEF f, A, B
  <2>4. f \in Bijection(A, B)
    BY <2>1, <2>2, <2>3 DEF Bijection, Injection, Surjection, IsInjective
  <2>5. QED
    BY <2>4 DEF ExistsBijection
<1>5. IsFiniteSet(Places(q, S)) /\ IsFiniteSet(A) /\ HowMany(q, S) \in Nat
  BY PlacesFinite, FS_RemoveElement
<1>6. Cardinality(B) = Cardinality(A)
  BY <1>4, <1>5, FS_Bijection
<1>7. 1 \in Places(q, S) <=> Head(q) \in S
  BY <1>1 DEF Places
<1>8. QED
  BY <1>5, <1>6, <1>7, FS_RemoveElement DEF HowMany, OneIn

LEMMA ConcatPlaces ==
  ASSUME NEW Js, NEW q \in Seq(Js), NEW p \in Seq(Js), NEW S
  PROVE  HowMany(q \o p, S) = HowMany(q, S) + HowMany(p, S)
<1>1. /\ q \o p \in Seq(Js) /\ Len(q \o p) = Len(q) + Len(p) /\ Len(q) \in Nat /\ Len(p) \in Nat
      /\ \A k \in 1 .. Len(q) : (q \o p)[k] = q[k]
      /\ \A k \in 1 .. Len(p) : (q \o p)[Len(q) + k] = p[k]
  OBVIOUS
<1> DEFINE A == Places(p, S)
           B == Places(q \o p, S) \ Places(q, S)
           f == [k \in A |-> Len(q) + k]
<1>2. A \in SUBSET (1 .. Len(p))
  BY <1>1 DEF Places
<1>3. Places(q, S) \in SUBSET (1 .. Len(q)) /\ Places(q, S) \subseteq Places(q \o p, S)
  BY <1>1 DEF Places
<1>4. B \in SUBSET (Len(q) + 1 .. Len(q) + Len(p))
  BY <1>1 DEF Places
<1>5. \A k \in 1 .. Len(p) : k \in A <=> Len(q) + k \in B
  BY <1>1 DEF Places
<1>6. ExistsBijection(A, B)
  <2>1. f \in [A -> B]
    BY <1>2, <1>5
  <2>2. \A k, m \in A : f[k] = f[m] => k = m
    BY <1>1, <1>2
  <2>3. \A b \in B : \E k \in A : f[k] = b
    <3>1. ASSUME NEW b \in B PROVE b - Len(q) \in A /\ f[b - Len(q)] = b
      BY <1>1, <1>4, <1>5
    <3>2. QED
      BY <3>1
  <2> HIDE DEF f, A, B
  <2>4. f \in Bijection(A, B)
    BY <2>1, <2>2, <2>3 DEF Bijection, Injection, Surjection, IsInjective
  <2>5. QED
    BY <2>4 DEF ExistsBijection
<1>7. /\ IsFiniteSet(A) /\ IsFiniteSet(Places(q, S)) /\ HowMany(q, S) \in Nat
      /\ HowMany(p, S) \in Nat
  BY PlacesFinite
<1>8. IsFiniteSet(B) /\ Cardinality(B) = HowMany(p, S)
  BY <1>6, <1>7, FS_Bijection DEF HowMany
<1>9. Places(q \o p, S) = Places(q, S) \cup B /\ Places(q, S) \cap B = {}
  BY <1>3
<1> HIDE DEF A, B
<1>10. Cardinality(Places(q, S) \cup B) = Cardinality(Places(q, S)) + Cardinality(B)
                                          - Cardinality(Places(q, S) \cap B)
  BY <1>7, <1>8, FS_Union
<1>11. Cardinality(Places(q, S) \cap B) = 0
  BY <1>9, FS_EmptySet
<1>12. QED
  BY <1>7, <1>8, <1>9, <1>10, <1>11 DEF HowMany

LEMMA AllOrNone ==
  ASSUME NEW Js, NEW q \in Seq(Js), NEW S
  PROVE  /\ (\A k \in DOMAIN q : q[k] \in S) => HowMany(q, S) = Len(q)
         /\ (\A k \in DOMAIN q : q[k] \notin S) => HowMany(q, S) = 0
<1>1. DOMAIN q = 1 .. Len(q) /\ Len(q) \in Nat
  OBVIOUS
<1>2. ASSUME \A k \in DOMAIN q : q[k] \in S PROVE HowMany(q, S) = Len(q)
  <2>1. Places(q, S) = 1 .. Len(q)
    BY <1>1, <1>2 DEF Places
  <2>2. Cardinality(1 .. Len(q)) = Len(q)
    BY <1>1, FS_Interval
  <2>3. QED
    BY <2>1, <2>2 DEF HowMany
<1>3. ASSUME \A k \in DOMAIN q : q[k] \notin S PROVE HowMany(q, S) = 0
  BY <1>3, FS_EmptySet DEF HowMany, Places
<1>4. QED
  BY <1>2, <1>3

-----------------------------------------------------------------------------
(***************************************************************************)
(* The same for the jobs of one source.                                    *)
(***************************************************************************)
SourceJobs(Js, s) == {j \in Js : j.src = s}

LEMMA JobsArePlaces ==
  ASSUME NEW Js, NEW q \in Seq(Js), NEW s
  PROVE  /\ JobsOf(q, s) = Places(q, SourceJobs(Js, s))
         /\ QueueFlights(q, s) = HowMany(q, SourceJobs(Js, s))
<1>1. \A k \in DOMAIN q : q[k] \in Js
  OBVIOUS
<1>2. JobsOf(q, s) = Places(q, SourceJobs(Js, s))
  BY <1>1 DEF JobsOf, Places, SourceJobs
<1>3. QED
  BY <1>2 DEF QueueFlights, HowMany

LEMMA FlightsFinite ==
  ASSUME NEW Js, NEW q \in Seq(Js), NEW s
  PROVE  IsFiniteSet(JobsOf(q, s)) /\ QueueFlights(q, s) \in Nat
BY JobsArePlaces, PlacesFinite

\* Nothing in flight in a queue means no job in it.
LEMMA NoFlights ==
  ASSUME NEW Js, NEW q \in Seq(Js), NEW s
  PROVE  QueueFlights(q, s) = 0 <=> QueueJobs(q, s) = {}
BY FlightsFinite, FS_EmptySet DEF QueueFlights, QueueJobs

LEMMA AppendCounts ==
  ASSUME NEW Js, NEW q \in Seq(Js), NEW j \in Js, NEW s
  PROVE  /\ QueueFlights(Append(q, j), s) = QueueFlights(q, s) + One(j, s)
         /\ QueueJobs(Append(q, j), s) = QueueJobs(q, s) \cup Own(j, s)
<1> DEFINE n == Len(q) + 1
<1>1. /\ Append(q, j) \in Seq(Js) /\ Len(Append(q, j)) = n /\ Append(q, j)[n] = j
      /\ \A k \in 1 .. Len(q) : Append(q, j)[k] = q[k]
      /\ Len(q) \in Nat
  OBVIOUS
<1>2. OneIn(j, SourceJobs(Js, s)) = One(j, s)
  BY DEF OneIn, One, SourceJobs
<1>3. QueueFlights(Append(q, j), s) = QueueFlights(q, s) + One(j, s)
  <2>1. HowMany(Append(q, j), SourceJobs(Js, s)) = HowMany(q, SourceJobs(Js, s)) + One(j, s)
    BY <1>2, AppendPlaces
  <2>2. /\ QueueFlights(q, s) = HowMany(q, SourceJobs(Js, s))
        /\ QueueFlights(Append(q, j), s) = HowMany(Append(q, j), SourceJobs(Js, s))
    BY <1>1, JobsArePlaces
  <2>3. QED
    BY <2>1, <2>2
<1>4. JobsOf(Append(q, j), s) = JobsOf(q, s) \cup (IF j.src = s THEN {n} ELSE {})
  BY <1>1 DEF JobsOf
<1>5. QueueJobs(Append(q, j), s) = QueueJobs(q, s) \cup Own(j, s)
  BY <1>1, <1>4 DEF QueueJobs, Own, JobsOf
<1>6. QED
  BY <1>3, <1>5

LEMMA TailCounts ==
  ASSUME NEW Js, NEW q \in Seq(Js), q # <<>>, NEW s
  PROVE  /\ QueueFlights(q, s) = QueueFlights(Tail(q), s) + One(Head(q), s)
         /\ QueueJobs(q, s) = QueueJobs(Tail(q), s) \cup Own(Head(q), s)
<1>1. /\ Tail(q) \in Seq(Js) /\ Len(Tail(q)) = Len(q) - 1 /\ Len(q) \in Nat \ {0}
      /\ Head(q) = q[1] /\ Head(q) \in Js
      /\ \A k \in 1 .. Len(q) - 1 : Tail(q)[k] = q[k + 1]
  OBVIOUS
<1>2. OneIn(Head(q), SourceJobs(Js, s)) = One(Head(q), s)
  BY <1>1 DEF OneIn, One, SourceJobs
<1>3. QueueFlights(q, s) = QueueFlights(Tail(q), s) + One(Head(q), s)
  BY <1>1, <1>2, JobsArePlaces, TailPlaces
<1>4. /\ \A k \in JobsOf(q, s) : k = 1 \/ (k \in 2 .. Len(q) /\ k - 1 \in JobsOf(Tail(q), s))
      /\ \A k \in JobsOf(Tail(q), s) : k \in 1 .. Len(q) - 1 /\ k + 1 \in JobsOf(q, s)
      /\ 1 \in JobsOf(q, s) <=> Head(q).src = s
  BY <1>1 DEF JobsOf
<1>5. QueueJobs(q, s) = QueueJobs(Tail(q), s) \cup Own(Head(q), s)
  <2>1. ASSUME NEW k \in JobsOf(q, s) PROVE q[k] \in QueueJobs(Tail(q), s) \cup Own(Head(q), s)
    <3>1. CASE k = 1
      BY <1>1, <1>4, <2>1, <3>1 DEF Own
    <3>2. CASE k # 1
      <4>1. k - 1 \in JobsOf(Tail(q), s) /\ Tail(q)[k - 1] = q[k]
        BY <1>1, <1>4, <3>2
      <4>2. QED
        BY <4>1 DEF QueueJobs
    <3>3. QED
      BY <3>1, <3>2
  <2>2. \A k \in JobsOf(Tail(q), s) : Tail(q)[k] \in QueueJobs(q, s)
    BY <1>1, <1>4 DEF QueueJobs
  <2>3. Own(Head(q), s) \subseteq QueueJobs(q, s)
    BY <1>1, <1>4 DEF Own, QueueJobs
  <2>4. QED
    BY <2>1, <2>2, <2>3 DEF QueueJobs
<1>6. QED
  BY <1>3, <1>5

-----------------------------------------------------------------------------
\* The same counts of the at most one result that waits.
LEMMA ResultCounts ==
  ASSUME NEW s
  PROVE  /\ ResultFlights(<<>>, s) = 0 /\ ResultJobs(<<>>, s) = {}
         /\ \A r : /\ ResultFlights(<<r>>, s) = One(r.job, s)
                  /\ ResultJobs(<<r>>, s) = Own(r.job, s)
<1>1. ResultPlaces(<<>>, s) = {}
  BY DEF ResultPlaces
<1>2. ASSUME NEW r
      PROVE  /\ ResultFlights(<<r>>, s) = One(r.job, s)
             /\ ResultJobs(<<r>>, s) = Own(r.job, s)
  <2>1. DOMAIN <<r>> = {1} /\ <<r>>[1] = r
    OBVIOUS
  <2>2. CASE r.job.src = s
    <3>1. ResultPlaces(<<r>>, s) = {1}
      BY <2>1, <2>2 DEF ResultPlaces
    <3>2. QED
      BY <2>1, <2>2, <3>1, FS_Singleton DEF ResultFlights, ResultJobs, One, Own
  <2>3. CASE r.job.src # s
    <3>1. ResultPlaces(<<r>>, s) = {}
      BY <2>1, <2>3 DEF ResultPlaces
    <3>2. QED
      BY <2>1, <2>3, <3>1, FS_EmptySet DEF ResultFlights, ResultJobs, One, Own
  <2>4. QED
    BY <2>2, <2>3
<1>3. QED
  BY <1>1, <1>2, FS_EmptySet DEF ResultFlights, ResultJobs

\* Flights and InFlight by queues.
LEMMA FlightsAre ==
  ASSUME NEW s
  PROVE  /\ Flights(s) = QueueFlights(hiQ, s) + QueueFlights(loQ, s) + ResultFlights(resQ, s)
         /\ InFlight(s) = QueueJobs(hiQ, s) \cup QueueJobs(loQ, s) \cup ResultJobs(resQ, s)
BY DEF Flights, InFlight, QueueFlights, QueueJobs, ResultFlights, ResultJobs, ResultPlaces,
   ResultsOf

LEMMA ResultsCounted ==
  ASSUME NEW Js, WorkerOK(Js), NEW s
  PROVE  ResultFlights(resQ, s) \in {0, 1} /\ (ResultFlights(resQ, s) = 0 <=> ResultJobs(resQ, s) = {})
<1>1. CASE resQ = <<>>
  BY <1>1, ResultCounts
<1>2. ASSUME NEW r, resQ = <<r>>
      PROVE  ResultFlights(resQ, s) \in {0, 1} /\ (ResultFlights(resQ, s) = 0 <=> ResultJobs(resQ, s) = {})
  <2>1. ResultFlights(resQ, s) = One(r.job, s) /\ ResultJobs(resQ, s) = Own(r.job, s)
    BY <1>2, ResultCounts
  <2>2. QED
    BY <2>1 DEF One, Own
<1>3. QED
  BY <1>1, <1>2 DEF WorkerOK

\* A client without flights has no job with the worker, and the other way round.
LEMMA FlightsType ==
  ASSUME NEW Js, WorkerOK(Js), NEW s
  PROVE  Flights(s) \in Nat /\ (Flights(s) = 0 <=> InFlight(s) = {})
<1>1. hiQ \in Seq(Js) /\ loQ \in Seq(Js)
  BY DEF WorkerOK
<1> DEFINE a == QueueFlights(hiQ, s)
           b == QueueFlights(loQ, s)
           c == ResultFlights(resQ, s)
<1>2. a \in Nat /\ b \in Nat /\ c \in Nat
  BY <1>1, FlightsFinite, ResultsCounted
<1>3. a = 0 <=> QueueJobs(hiQ, s) = {}
  BY <1>1, NoFlights
<1>4. b = 0 <=> QueueJobs(loQ, s) = {}
  BY <1>1, NoFlights
<1>5. c = 0 <=> ResultJobs(resQ, s) = {}
  BY ResultsCounted
<1>6. Flights(s) = a + b + c
  BY FlightsAre
<1>7. InFlight(s) = {} <=> (QueueJobs(hiQ, s) = {} /\ QueueJobs(loQ, s) = {} /\ ResultJobs(resQ, s) = {})
  BY FlightsAre
<1> HIDE DEF a, b, c
<1>8. QED
  BY <1>2, <1>3, <1>4, <1>5, <1>6, <1>7

\* The same in the state behind a step.
LEMMA FlightsTypeNext ==
  ASSUME NEW Js, WorkerOK(Js)', NEW s
  PROVE  Flights(s)' \in Nat /\ (Flights(s)' = 0 <=> InFlight(s)' = {})
<1>1. hiQ' \in Seq(Js) /\ loQ' \in Seq(Js) /\ (resQ' = <<>> \/ \E r : resQ' = <<r>>)
  BY DEF WorkerOK
<1> DEFINE a == QueueFlights(hiQ', s)
           b == QueueFlights(loQ', s)
           c == ResultFlights(resQ', s)
<1>2. a \in Nat /\ b \in Nat /\ (a = 0 <=> QueueJobs(hiQ', s) = {})
      /\ (b = 0 <=> QueueJobs(loQ', s) = {})
  BY <1>1, FlightsFinite, NoFlights
<1>3. c \in {0, 1} /\ (c = 0 <=> ResultJobs(resQ', s) = {})
  <2>1. CASE resQ' = <<>>
    BY <2>1, ResultCounts
  <2>2. ASSUME NEW r, resQ' = <<r>> PROVE c \in {0, 1} /\ (c = 0 <=> ResultJobs(resQ', s) = {})
    <3>1. c = One(r.job, s) /\ ResultJobs(resQ', s) = Own(r.job, s)
      BY <2>2, ResultCounts
    <3>2. QED
      BY <3>1 DEF One, Own
  <2>3. QED
    BY <1>1, <2>1, <2>2
<1>4. Flights(s)' = a + b + c
      /\ InFlight(s)' = QueueJobs(hiQ', s) \cup QueueJobs(loQ', s) \cup ResultJobs(resQ', s)
  BY DEF Flights, InFlight, QueueFlights, QueueJobs, ResultFlights, ResultJobs, ResultPlaces,
     ResultsOf
<1>5. InFlight(s)' = {} <=> (QueueJobs(hiQ', s) = {} /\ QueueJobs(loQ', s) = {} /\ ResultJobs(resQ', s) = {})
  BY <1>4
<1> HIDE DEF a, b, c
<1>6. QED
  BY <1>2, <1>3, <1>4, <1>5

-----------------------------------------------------------------------------
(***************************************************************************)
(* The worker's steps.                                                     *)
(***************************************************************************)

\* A push, refused or not.
LEMMA PushCounts ==
  ASSUME NEW Js, NEW q \in Seq(Js), NEW j \in Js, NEW depth \in Nat, Len(q) <= depth, NEW s
  PROVE  /\ Pushed(q, j, depth) \in Seq(Js) /\ Len(Pushed(q, j, depth)) <= depth
         /\ HasRoom(q, depth) =>
              /\ QueueFlights(Pushed(q, j, depth), s) = QueueFlights(q, s) + One(j, s)
              /\ QueueJobs(Pushed(q, j, depth), s) = QueueJobs(q, s) \cup Own(j, s)
         /\ ~HasRoom(q, depth) => Pushed(q, j, depth) = q
<1>1. CASE HasRoom(q, depth)
  <2>1. Pushed(q, j, depth) = Append(q, j) /\ Len(q) < depth
    BY <1>1 DEF Pushed, HasRoom
  <2>2. QED
    BY <1>1, <2>1, AppendCounts
<1>2. CASE ~HasRoom(q, depth)
  BY <1>2 DEF Pushed
<1>3. QED
  BY <1>1, <1>2

\* A client's push, in a handler or while results are handed out: what is
\* with the worker grows by that job, or stays as it was.
LEMMA EnqueueCounts ==
  ASSUME NEW Js, WorkerOK(Js), NEW j \in Js,
         \/ EnqueueHi(j) /\ CanEnqueueHi
         \/ EnqueueLo(j) /\ CanEnqueueLo,
         NEW s
  PROVE  /\ hiQ' \in Seq(Js) /\ Len(hiQ') <= JobQDepth
         /\ loQ' \in Seq(Js) /\ Len(loQ') <= JobQDepth
         /\ QueueFlights(hiQ', s) + QueueFlights(loQ', s)
              = QueueFlights(hiQ, s) + QueueFlights(loQ, s) + One(j, s)
         /\ QueueJobs(hiQ', s) \cup QueueJobs(loQ', s)
              = QueueJobs(hiQ, s) \cup QueueJobs(loQ, s) \cup Own(j, s)
<1>1. hiQ \in Seq(Js) /\ loQ \in Seq(Js) /\ Len(hiQ) <= JobQDepth /\ Len(loQ) <= JobQDepth
  BY DEF WorkerOK
<1>2. QueueFlights(hiQ, s) \in Nat /\ QueueFlights(loQ, s) \in Nat /\ One(j, s) \in Nat
  BY <1>1, FlightsFinite DEF One
<1>3. CASE EnqueueHi(j) /\ CanEnqueueHi
  <2>1. /\ hiQ' \in Seq(Js) /\ Len(hiQ') <= JobQDepth /\ loQ' = loQ
        /\ QueueFlights(hiQ', s) = QueueFlights(hiQ, s) + One(j, s)
        /\ QueueJobs(hiQ', s) = QueueJobs(hiQ, s) \cup Own(j, s)
    BY <1>1, <1>3, PushCounts, DepthAssumption DEF EnqueueHi, CanEnqueueHi
  <2>2. QED
    BY <1>1, <1>2, <2>1
<1>4. CASE EnqueueLo(j) /\ CanEnqueueLo
  <2>1. /\ loQ' \in Seq(Js) /\ Len(loQ') <= JobQDepth /\ hiQ' = hiQ
        /\ QueueFlights(loQ', s) = QueueFlights(loQ, s) + One(j, s)
        /\ QueueJobs(loQ', s) = QueueJobs(loQ, s) \cup Own(j, s)
    BY <1>1, <1>4, PushCounts, DepthAssumption DEF EnqueueLo, CanEnqueueLo
  <2>2. QED
    BY <1>1, <1>2, <2>1
<1>5. QED
  BY <1>3, <1>4

LEMMA EnqueueRefused ==
  ASSUME NEW j, \/ EnqueueHi(j) /\ ~CanEnqueueHi
                \/ EnqueueLo(j) /\ ~CanEnqueueLo
  PROVE  UNCHANGED queueVars
BY DEF EnqueueHi, EnqueueLo, CanEnqueueHi, CanEnqueueLo, Pushed, queueVars

\* Pushes of other clients.
LEMMA OthersCount ==
  ASSUME NEW Js, WorkerOK(Js), NEW hiJobs, NEW loJobs, hiJobs \cup loJobs \subseteq Js,
         OthersEnqueue(hiJobs, loJobs),
         NEW s, \A j \in hiJobs \cup loJobs : j.src # s
  PROVE  /\ hiQ' \in Seq(Js) /\ Len(hiQ') <= JobQDepth
         /\ loQ' \in Seq(Js) /\ Len(loQ') <= JobQDepth
         /\ QueueFlights(hiQ', s) + QueueFlights(loQ', s)
              = QueueFlights(hiQ, s) + QueueFlights(loQ, s)
         /\ QueueJobs(hiQ', s) \cup QueueJobs(loQ', s) = QueueJobs(hiQ, s) \cup QueueJobs(loQ, s)
<1>1. PICK j \in hiJobs \cup loJobs : EnqueueHi(j) \/ EnqueueLo(j)
  BY DEF OthersEnqueue
<1>2. j \in Js /\ One(j, s) = 0 /\ Own(j, s) = {}
  BY <1>1 DEF One, Own
<1>3. /\ hiQ \in Seq(Js) /\ loQ \in Seq(Js) /\ Len(hiQ) <= JobQDepth /\ Len(loQ) <= JobQDepth
      /\ QueueFlights(hiQ, s) \in Nat /\ QueueFlights(loQ, s) \in Nat
  BY FlightsFinite DEF WorkerOK
<1>4. CASE \/ EnqueueHi(j) /\ CanEnqueueHi
           \/ EnqueueLo(j) /\ CanEnqueueLo
  BY <1>2, <1>3, <1>4, EnqueueCounts
<1>5. CASE \/ EnqueueHi(j) /\ ~CanEnqueueHi
           \/ EnqueueLo(j) /\ ~CanEnqueueLo
  BY <1>3, <1>5, EnqueueRefused DEF queueVars
<1>6. QED
  BY <1>1, <1>4, <1>5

\* A job leaves its queue.
LEMMA TakeCounts ==
  ASSUME NEW Js, WorkerOK(Js), NEW j, Take(j), NEW s
  PROVE  /\ j \in Js
         /\ hiQ' \in Seq(Js) /\ Len(hiQ') <= JobQDepth
         /\ loQ' \in Seq(Js) /\ Len(loQ') <= JobQDepth
         /\ QueueFlights(hiQ, s) + QueueFlights(loQ, s)
              = QueueFlights(hiQ', s) + QueueFlights(loQ', s) + One(j, s)
         /\ QueueJobs(hiQ, s) \cup QueueJobs(loQ, s)
              = QueueJobs(hiQ', s) \cup QueueJobs(loQ', s) \cup Own(j, s)
<1>1. hiQ \in Seq(Js) /\ loQ \in Seq(Js) /\ Len(hiQ) <= JobQDepth /\ Len(loQ) <= JobQDepth
  BY DEF WorkerOK
<1>2. ASSUME NEW q \in Seq(Js), q # <<>>, Len(q) <= JobQDepth
      PROVE  Tail(q) \in Seq(Js) /\ Len(Tail(q)) <= JobQDepth /\ Head(q) \in Js
  BY <1>2, DepthAssumption
<1>3. CASE HiTurn /\ j = Head(hiQ) /\ hiQ' = Tail(hiQ) /\ loQ' = loQ
  <2>1. /\ hiQ # <<>> /\ hiQ' \in Seq(Js) /\ Len(hiQ') <= JobQDepth /\ j \in Js
        /\ QueueFlights(hiQ, s) = QueueFlights(hiQ', s) + One(j, s)
        /\ QueueJobs(hiQ, s) = QueueJobs(hiQ', s) \cup Own(j, s)
    BY <1>1, <1>2, <1>3, TailCounts DEF HiTurn
  <2>2. QueueFlights(hiQ', s) \in Nat /\ QueueFlights(loQ, s) \in Nat /\ One(j, s) \in Nat
    BY <1>1, <2>1, FlightsFinite DEF One
  <2>3. QED
    BY <1>1, <1>3, <2>1, <2>2
<1>4. CASE LoTurn /\ j = Head(loQ) /\ loQ' = Tail(loQ) /\ hiQ' = hiQ
  <2>1. /\ loQ # <<>> /\ loQ' \in Seq(Js) /\ Len(loQ') <= JobQDepth /\ j \in Js
        /\ QueueFlights(loQ, s) = QueueFlights(loQ', s) + One(j, s)
        /\ QueueJobs(loQ, s) = QueueJobs(loQ', s) \cup Own(j, s)
    BY <1>1, <1>2, <1>4, TailCounts DEF LoTurn
  <2>2. QueueFlights(loQ', s) \in Nat /\ QueueFlights(hiQ, s) \in Nat /\ One(j, s) \in Nat
    BY <1>1, <2>1, FlightsFinite DEF One
  <2>3. QED
    BY <1>1, <1>4, <2>1, <2>2
<1>5. QED
  BY <1>3, <1>4 DEF Take

\* The worker runs a job: it has become the one result.
LEMMA RunCounts ==
  ASSUME NEW Js, WorkerOK(Js), NEW r, RunJob(r), NEW s
  PROVE  /\ WorkerOK(Js)' /\ resQ' = <<r>> /\ r.job \in Js
         /\ Flights(s)' = Flights(s) /\ InFlight(s)' = InFlight(s)
<1>1. at = "front" /\ Take(r.job) /\ r \in Outcomes(r.job) /\ at' = "poll"
  BY DEF RunJob
<1>2. resQ = <<>>
  BY <1>1 DEF WorkerOK
<1>3. resQ' = <<r>>
  BY <1>2, DepthAssumption DEF RunJob, Pushed, HasRoom
<1>4. /\ r.job \in Js
      /\ hiQ' \in Seq(Js) /\ Len(hiQ') <= JobQDepth
      /\ loQ' \in Seq(Js) /\ Len(loQ') <= JobQDepth
      /\ QueueFlights(hiQ, s) + QueueFlights(loQ, s)
           = QueueFlights(hiQ', s) + QueueFlights(loQ', s) + One(r.job, s)
      /\ QueueJobs(hiQ, s) \cup QueueJobs(loQ, s)
           = QueueJobs(hiQ', s) \cup QueueJobs(loQ', s) \cup Own(r.job, s)
  BY <1>1, TakeCounts
<1>5. WorkerOK(Js)'
  BY <1>1, <1>3, <1>4 DEF WorkerOK
<1>6. /\ ResultFlights(resQ, s) = 0 /\ ResultJobs(resQ, s) = {}
      /\ ResultFlights(resQ', s) = One(r.job, s) /\ ResultJobs(resQ', s) = Own(r.job, s)
  BY <1>2, <1>3, ResultCounts
<1>7. Flights(s)' = QueueFlights(hiQ', s) + QueueFlights(loQ', s) + ResultFlights(resQ', s)
      /\ InFlight(s)' = QueueJobs(hiQ', s) \cup QueueJobs(loQ', s) \cup ResultJobs(resQ', s)
  BY DEF Flights, InFlight, QueueFlights, QueueJobs, ResultFlights, ResultJobs, ResultPlaces,
     ResultsOf
<1>8. Flights(s) = QueueFlights(hiQ, s) + QueueFlights(loQ, s) + ResultFlights(resQ, s)
      /\ InFlight(s) = QueueJobs(hiQ, s) \cup QueueJobs(loQ, s) \cup ResultJobs(resQ, s)
  BY FlightsAre
<1>9. /\ QueueFlights(hiQ, s) \in Nat /\ QueueFlights(loQ, s) \in Nat
      /\ QueueFlights(hiQ', s) \in Nat /\ QueueFlights(loQ', s) \in Nat /\ One(r.job, s) \in Nat
  BY <1>4, FlightsFinite DEF WorkerOK, One
<1>10. Flights(s)' = Flights(s)
  BY <1>4, <1>6, <1>7, <1>8, <1>9
<1>11. InFlight(s)' = InFlight(s)
  BY <1>4, <1>6, <1>7, <1>8
<1>12. QED
  BY <1>3, <1>4, <1>5, <1>10, <1>11

\* The other steps of the worker, and those of clients that leave the rings alone.
LEMMA RingsKept ==
  ASSUME NEW Js, WorkerOK(Js), UNCHANGED <<hiQ, loQ, resQ>>,
         at' = at \/ (resQ = <<>> /\ at' \in {"front", "poll"}), NEW s
  PROVE  /\ WorkerOK(Js)'
         /\ Flights(s)' = Flights(s) /\ InFlight(s)' = InFlight(s)
<1>1. WorkerOK(Js)'
  BY DEF WorkerOK
<1>2. Flights(s)' = Flights(s) /\ InFlight(s)' = InFlight(s)
  BY DEF Flights, InFlight, ResultsOf
<1>3. QED
  BY <1>1, <1>2

LEMMA WorkerKeeps ==
  ASSUME NEW Js, WorkerOK(Js), WorkerStep, NEW s
  PROVE  /\ WorkerOK(Js)'
         /\ Flights(s)' = Flights(s) /\ InFlight(s)' = InFlight(s)
<1>1. CASE RunSomeJob
  <2>1. PICK r : RunJob(r)
    BY <1>1 DEF RunSomeJob
  <2>2. QED
    BY <2>1, RunCounts
<1>2. CASE IdleTick
  <2>1. resQ = <<>> /\ at' = "poll" /\ UNCHANGED <<hiQ, loQ, resQ>>
    BY <1>2 DEF IdleTick, WorkerOK
  <2>2. QED
    BY <2>1, RingsKept
<1>3. CASE EndPoll
  <2>1. resQ = <<>> /\ at' = "front" /\ UNCHANGED <<hiQ, loQ, resQ>>
    BY <1>3 DEF EndPoll, PollDone
  <2>2. QED
    BY <2>1, RingsKept
<1>4. QED
  BY <1>1, <1>2, <1>3 DEF WorkerStep

-----------------------------------------------------------------------------
(***************************************************************************)
(* A result is handed to its client, which may queue a job meanwhile.      *)
(***************************************************************************)
LEMMA PollGives ==
  ASSUME NEW Js, WorkerOK(Js), NEW r, Poll(r)
  PROVE  /\ resQ = <<r>> /\ resQ' = <<>> /\ at' = at /\ at = "poll"
         /\ r.job \in Js /\ r \in Outcomes(r.job)
<1>1. resQ # <<>> /\ r = Head(resQ) /\ resQ' = Tail(resQ) /\ at' = at /\ at = "poll"
  BY DEF Poll
<1>2. PICK j \in Js : \E x \in Outcomes(j) : resQ = <<x>>
  BY <1>1 DEF WorkerOK
<1>3. PICK x \in Outcomes(j) : resQ = <<x>>
  BY <1>2
<1>4. r = x /\ resQ' = <<>>
  BY <1>1, <1>3
<1>5. x.job = j
  BY OutcomeOf
<1>6. QED
  BY <1>1, <1>3, <1>4, <1>5

\* Whatever becomes of the queues meanwhile, the result is no longer in flight.
LEMMA PollCounts ==
  ASSUME NEW Js, WorkerOK(Js), NEW r, Poll(r),
         hiQ' \in Seq(Js), Len(hiQ') <= JobQDepth, loQ' \in Seq(Js), Len(loQ') <= JobQDepth,
         NEW s
  PROVE  /\ WorkerOK(Js)'
         /\ Flights(s) = QueueFlights(hiQ, s) + QueueFlights(loQ, s) + One(r.job, s)
         /\ InFlight(s) = QueueJobs(hiQ, s) \cup QueueJobs(loQ, s) \cup Own(r.job, s)
         /\ Flights(s)' = QueueFlights(hiQ', s) + QueueFlights(loQ', s)
         /\ InFlight(s)' = QueueJobs(hiQ', s) \cup QueueJobs(loQ', s)
<1>1. /\ resQ = <<r>> /\ resQ' = <<>> /\ at' = at
  BY PollGives
<1>2. WorkerOK(Js)'
  BY <1>1 DEF WorkerOK
<1>3. /\ ResultFlights(resQ, s) = One(r.job, s) /\ ResultJobs(resQ, s) = Own(r.job, s)
      /\ ResultFlights(resQ', s) = 0 /\ ResultJobs(resQ', s) = {}
  BY <1>1, ResultCounts
<1>4. Flights(s)' = QueueFlights(hiQ', s) + QueueFlights(loQ', s) + ResultFlights(resQ', s)
      /\ InFlight(s)' = QueueJobs(hiQ', s) \cup QueueJobs(loQ', s) \cup ResultJobs(resQ', s)
  BY DEF Flights, InFlight, QueueFlights, QueueJobs, ResultFlights, ResultJobs, ResultPlaces,
     ResultsOf
<1>5. QueueFlights(hiQ', s) \in Nat /\ QueueFlights(loQ', s) \in Nat
  BY FlightsFinite
<1>6. Flights(s) = QueueFlights(hiQ, s) + QueueFlights(loQ, s) + ResultFlights(resQ, s)
      /\ InFlight(s) = QueueJobs(hiQ, s) \cup QueueJobs(loQ, s) \cup ResultJobs(resQ, s)
  BY FlightsAre
<1>7. Flights(s)' = QueueFlights(hiQ', s) + QueueFlights(loQ', s)
  BY <1>3, <1>4, <1>5
<1>8. QED
  BY <1>2, <1>3, <1>4, <1>6, <1>7

LEMMA PollOnly ==
  ASSUME NEW Js, WorkerOK(Js), NEW r, Poll(r), UNCHANGED queueVars, NEW s
  PROVE  /\ WorkerOK(Js)'
         /\ Flights(s) = Flights(s)' + One(r.job, s)
         /\ InFlight(s) = InFlight(s)' \cup Own(r.job, s)
<1>1. hiQ' = hiQ /\ loQ' = loQ
  BY DEF queueVars
<1>2. /\ hiQ' \in Seq(Js) /\ Len(hiQ') <= JobQDepth
      /\ loQ' \in Seq(Js) /\ Len(loQ') <= JobQDepth
  BY <1>1 DEF WorkerOK
<1>3. QED
  BY <1>1, <1>2, PollCounts

\* The jobs that wait in the two queues.
Queued(s) == QueueJobs(hiQ, s) \cup QueueJobs(loQ, s)

LEMMA PollAndPush ==
  ASSUME NEW Js, WorkerOK(Js), NEW r, Poll(r), NEW j \in Js,
         \/ EnqueueHi(j) /\ CanEnqueueHi
         \/ EnqueueLo(j) /\ CanEnqueueLo,
         NEW s
  PROVE  /\ WorkerOK(Js)'
         /\ Flights(s)' + One(r.job, s) = Flights(s) + One(j, s)
         /\ InFlight(s) = Queued(s) \cup Own(r.job, s)
         /\ InFlight(s)' = Queued(s) \cup Own(j, s)
<1>1. /\ hiQ' \in Seq(Js) /\ Len(hiQ') <= JobQDepth
      /\ loQ' \in Seq(Js) /\ Len(loQ') <= JobQDepth
      /\ QueueFlights(hiQ', s) + QueueFlights(loQ', s)
           = QueueFlights(hiQ, s) + QueueFlights(loQ, s) + One(j, s)
      /\ QueueJobs(hiQ', s) \cup QueueJobs(loQ', s) = Queued(s) \cup Own(j, s)
  BY EnqueueCounts DEF Queued
<1>2. /\ WorkerOK(Js)'
      /\ Flights(s) = QueueFlights(hiQ, s) + QueueFlights(loQ, s) + One(r.job, s)
      /\ InFlight(s) = Queued(s) \cup Own(r.job, s)
      /\ Flights(s)' = QueueFlights(hiQ', s) + QueueFlights(loQ', s)
      /\ InFlight(s)' = QueueJobs(hiQ', s) \cup QueueJobs(loQ', s)
  BY <1>1, PollCounts DEF Queued
<1>3. /\ QueueFlights(hiQ, s) \in Nat /\ QueueFlights(loQ, s) \in Nat
      /\ One(r.job, s) \in Nat /\ One(j, s) \in Nat
  BY FlightsFinite DEF WorkerOK, One
<1>4. Flights(s)' + One(r.job, s) = Flights(s) + One(j, s)
  BY <1>1, <1>2, <1>3
<1>5. QED
  BY <1>1, <1>2, <1>4

\* A push from a handler.
LEMMA HandlerPush ==
  ASSUME NEW Js, WorkerOK(Js), InHandler, NEW j \in Js,
         \/ EnqueueHi(j) /\ CanEnqueueHi
         \/ EnqueueLo(j) /\ CanEnqueueLo,
         NEW s
  PROVE  /\ WorkerOK(Js)'
         /\ Flights(s)' = Flights(s) + One(j, s)
         /\ InFlight(s)' = InFlight(s) \cup Own(j, s)
<1>1. /\ hiQ' \in Seq(Js) /\ Len(hiQ') <= JobQDepth
      /\ loQ' \in Seq(Js) /\ Len(loQ') <= JobQDepth
      /\ QueueFlights(hiQ', s) + QueueFlights(loQ', s)
           = QueueFlights(hiQ, s) + QueueFlights(loQ, s) + One(j, s)
      /\ QueueJobs(hiQ', s) \cup QueueJobs(loQ', s)
           = QueueJobs(hiQ, s) \cup QueueJobs(loQ, s) \cup Own(j, s)
  BY EnqueueCounts
<1>2. at = "front" /\ at' = at /\ resQ = <<>> /\ resQ' = <<>>
  BY DEF InHandler, WorkerOK
<1>3. WorkerOK(Js)'
  BY <1>1, <1>2 DEF WorkerOK
<1>4. Flights(s)' = QueueFlights(hiQ', s) + QueueFlights(loQ', s) + ResultFlights(resQ', s)
      /\ InFlight(s)' = QueueJobs(hiQ', s) \cup QueueJobs(loQ', s) \cup ResultJobs(resQ', s)
  BY DEF Flights, InFlight, QueueFlights, QueueJobs, ResultFlights, ResultJobs, ResultPlaces,
     ResultsOf
<1>5. Flights(s) = QueueFlights(hiQ, s) + QueueFlights(loQ, s) + ResultFlights(resQ, s)
      /\ InFlight(s) = QueueJobs(hiQ, s) \cup QueueJobs(loQ, s) \cup ResultJobs(resQ, s)
  BY FlightsAre
<1>6. ResultFlights(resQ, s) = 0 /\ ResultFlights(resQ', s) = 0
      /\ ResultJobs(resQ, s) = {} /\ ResultJobs(resQ', s) = {}
  BY <1>2, ResultCounts
<1>7. /\ QueueFlights(hiQ, s) \in Nat /\ QueueFlights(loQ, s) \in Nat /\ One(j, s) \in Nat
      /\ QueueFlights(hiQ', s) \in Nat /\ QueueFlights(loQ', s) \in Nat
  BY <1>1, FlightsFinite DEF WorkerOK, One
<1>8. Flights(s)' = Flights(s) + One(j, s)
  BY <1>1, <1>4, <1>5, <1>6, <1>7
<1>9. InFlight(s)' = InFlight(s) \cup Own(j, s)
  BY <1>1, <1>4, <1>5, <1>6
<1>10. QED
  BY <1>3, <1>8, <1>9

\* A handler that queues several jobs of one client in the lo queue.
LEMMA HandlerPushes ==
  ASSUME NEW Js, WorkerOK(Js), InHandler, NEW p \in Seq(Js),
         hiQ' = hiQ, loQ' = loQ \o p, Len(loQ) + Len(p) <= JobQDepth,
         NEW s, \A k \in DOMAIN p : p[k].src = s
  PROVE  WorkerOK(Js)' /\ Flights(s)' = Flights(s) + Len(p)
<1>1. hiQ \in Seq(Js) /\ loQ \in Seq(Js) /\ Len(p) \in Nat
  BY DEF WorkerOK
<1>2. loQ' \in Seq(Js) /\ Len(loQ') <= JobQDepth
  BY <1>1
<1>3. at = "front" /\ at' = at /\ resQ = <<>> /\ resQ' = <<>>
  BY DEF InHandler, WorkerOK
<1>4. WorkerOK(Js)'
  BY <1>2, <1>3 DEF WorkerOK
<1>5. QueueFlights(p, s) = Len(p)
  <2>1. \A k \in DOMAIN p : p[k] \in SourceJobs(Js, s)
    BY DEF SourceJobs
  <2>2. QED
    BY <2>1, AllOrNone, JobsArePlaces
<1>6. QueueFlights(loQ', s) = QueueFlights(loQ, s) + Len(p)
  <2>1. HowMany(loQ \o p, SourceJobs(Js, s))
          = HowMany(loQ, SourceJobs(Js, s)) + HowMany(p, SourceJobs(Js, s))
    BY <1>1, ConcatPlaces
  <2>2. QueueFlights(loQ', s) = HowMany(loQ \o p, SourceJobs(Js, s))
    BY <1>2, JobsArePlaces
  <2>3. QueueFlights(loQ, s) = HowMany(loQ, SourceJobs(Js, s))
    BY <1>1, JobsArePlaces
  <2>4. QueueFlights(p, s) = HowMany(p, SourceJobs(Js, s))
    BY JobsArePlaces
  <2>5. QED
    BY <1>5, <2>1, <2>2, <2>3, <2>4
<1>7. Flights(s)' = QueueFlights(hiQ', s) + QueueFlights(loQ', s) + ResultFlights(resQ', s)
  BY DEF Flights, QueueFlights, ResultFlights, ResultPlaces, ResultsOf
<1>8. Flights(s) = QueueFlights(hiQ, s) + QueueFlights(loQ, s) + ResultFlights(resQ, s)
  BY FlightsAre
<1>9. ResultFlights(resQ, s) = 0 /\ ResultFlights(resQ', s) = 0
  BY <1>3, ResultCounts
<1>10. QueueFlights(hiQ, s) \in Nat /\ QueueFlights(loQ, s) \in Nat
  BY <1>1, FlightsFinite
<1>11. Flights(s)' = Flights(s) + Len(p)
  BY <1>1, <1>6, <1>7, <1>8, <1>9, <1>10
<1>12. QED
  BY <1>4, <1>11

\* A handler that queues several jobs of one client in the hi queue.
LEMMA HandlerQueues ==
  ASSUME NEW Js, WorkerOK(Js), InHandler, NEW p \in Seq(Js),
         hiQ' = hiQ \o p, loQ' = loQ, Len(hiQ) + Len(p) <= JobQDepth,
         NEW s, \A k \in DOMAIN p : p[k].src = s
  PROVE  /\ WorkerOK(Js)'
         /\ \A j \in InFlight(s) : j \in InFlight(s)'
         /\ \A k \in DOMAIN p : p[k] \in InFlight(s)'
<1>1. hiQ \in Seq(Js) /\ loQ \in Seq(Js) /\ Len(p) \in Nat /\ Len(hiQ) \in Nat
  BY DEF WorkerOK
<1>2. hiQ' \in Seq(Js) /\ Len(hiQ') <= JobQDepth
  BY <1>1
<1>3. at = "front" /\ at' = at /\ resQ = <<>> /\ resQ' = <<>>
  BY DEF InHandler, WorkerOK
<1>4. WorkerOK(Js)'
  BY <1>2, <1>3 DEF WorkerOK
<1>5. /\ \A k \in DOMAIN hiQ : k \in DOMAIN hiQ' /\ hiQ'[k] = hiQ[k]
      /\ \A k \in DOMAIN p : Len(hiQ) + k \in DOMAIN hiQ' /\ hiQ'[Len(hiQ) + k] = p[k]
  BY <1>1
<1>6. ASSUME NEW j \in InFlight(s)
      PROVE  j \in InFlight(s)'
  <2>1. CASE \E k \in JobsOf(hiQ, s) : j = hiQ[k]
    <3>1. PICK k \in DOMAIN hiQ : hiQ[k].src = s /\ j = hiQ[k]
      BY <2>1 DEF JobsOf
    <3>2. k \in JobsOf(hiQ', s) /\ hiQ'[k] = j
      BY <1>5, <3>1 DEF JobsOf
    <3>3. QED
      BY <3>2 DEF InFlight
  <2>2. CASE \E k \in JobsOf(loQ, s) : j = loQ[k]
    BY <2>2 DEF InFlight, JobsOf
  <2>3. CASE \E k \in ResultsOf(s) : j = resQ[k].job
    BY <1>3, <2>3 DEF ResultsOf
  <2>4. QED
    BY <2>1, <2>2, <2>3 DEF InFlight
<1>7. ASSUME NEW k \in DOMAIN p
      PROVE  p[k] \in InFlight(s)'
  <2>1. Len(hiQ) + k \in JobsOf(hiQ', s) /\ hiQ'[Len(hiQ) + k] = p[k]
    BY <1>5 DEF JobsOf
  <2>2. QED
    BY <2>1 DEF InFlight
<1>8. QED
  BY <1>4, <1>6, <1>7

\* The other clients leave the flights of s alone.
LEMMA OthersKeep ==
  ASSUME NEW Js, WorkerOK(Js), NEW hiJobs, NEW loJobs, hiJobs \cup loJobs \subseteq Js,
         OthersSubmit(hiJobs, loJobs) \/ OthersHandle(hiJobs, loJobs),
         NEW s, \A j \in hiJobs \cup loJobs : j.src # s
  PROVE  /\ WorkerOK(Js)'
         /\ Flights(s)' = Flights(s) /\ InFlight(s)' = InFlight(s)
<1>1. /\ hiQ' \in Seq(Js) /\ Len(hiQ') <= JobQDepth
      /\ loQ' \in Seq(Js) /\ Len(loQ') <= JobQDepth
      /\ QueueFlights(hiQ', s) + QueueFlights(loQ', s)
           = QueueFlights(hiQ, s) + QueueFlights(loQ, s)
      /\ QueueJobs(hiQ', s) \cup QueueJobs(loQ', s) = QueueJobs(hiQ, s) \cup QueueJobs(loQ, s)
  <2>1. CASE OthersEnqueue(hiJobs, loJobs)
    BY <2>1, OthersCount
  <2>2. CASE UNCHANGED queueVars
    BY <2>2 DEF WorkerOK, queueVars
  <2>3. QED
    BY <2>1, <2>2 DEF OthersSubmit, OthersHandle
<1>2. CASE OthersSubmit(hiJobs, loJobs)
  <2>1. UNCHANGED <<resQ, at>>
    BY <1>2 DEF OthersSubmit, InHandler
  <2>2. WorkerOK(Js)'
    BY <1>1, <2>1 DEF WorkerOK
  <2>3. Flights(s)' = QueueFlights(hiQ', s) + QueueFlights(loQ', s) + ResultFlights(resQ', s)
        /\ InFlight(s)' = QueueJobs(hiQ', s) \cup QueueJobs(loQ', s) \cup ResultJobs(resQ', s)
    BY DEF Flights, InFlight, QueueFlights, QueueJobs, ResultFlights, ResultJobs, ResultPlaces,
       ResultsOf
  <2>4. QED
    BY <1>1, <2>1, <2>2, <2>3, FlightsAre
<1>3. CASE OthersHandle(hiJobs, loJobs)
  <2>1. PICK j \in hiJobs \cup loJobs : \E r \in Outcomes(j) : Poll(r)
    BY <1>3 DEF OthersHandle
  <2>2. PICK r \in Outcomes(j) : Poll(r)
    BY <2>1
  <2>3. One(r.job, s) = 0 /\ Own(r.job, s) = {}
    BY <2>1, <2>2, OutcomeOf DEF One, Own
  <2>4. /\ WorkerOK(Js)'
        /\ Flights(s) = QueueFlights(hiQ, s) + QueueFlights(loQ, s) + One(r.job, s)
        /\ InFlight(s) = QueueJobs(hiQ, s) \cup QueueJobs(loQ, s) \cup Own(r.job, s)
        /\ Flights(s)' = QueueFlights(hiQ', s) + QueueFlights(loQ', s)
        /\ InFlight(s)' = QueueJobs(hiQ', s) \cup QueueJobs(loQ', s)
    BY <1>1, <2>2, PollCounts
  <2>5. QueueFlights(hiQ, s) \in Nat /\ QueueFlights(loQ, s) \in Nat
    BY FlightsFinite DEF WorkerOK
  <2>6. QED
    BY <1>1, <2>3, <2>4, <2>5
<1>4. QED
  BY <1>2, <1>3
=============================================================================

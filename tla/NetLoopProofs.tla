--------------------------- MODULE NetLoopProofs ----------------------------
(***************************************************************************)
(* The net worker loses, doubles and mixes up nothing, for every depth of  *)
(* its queues and every set of jobs; the ring that keeps its hi queue      *)
(* holds that queue; and what is measured on demand is answered once.      *)
(***************************************************************************)
EXTENDS NetRing, OnDemand, WorkerProofs

(***************************************************************************)
(* The ring, for every capacity and every set of values, implements the    *)
(* bounded FIFO.                                                           *)
(***************************************************************************)

\* Wrapping an index that overshoots the ring by less than one turn.
LEMMA WrapOnce ==
  ASSUME NEW h \in Cell, NEW i \in 0 .. N
  PROVE  At(h, i) = IF h + i < N THEN h + i ELSE h + i - N
<1> USE RingAssumption DEF Cell
<1>1. CASE h + i < N
  BY <1>1 DEF At
<1>2. CASE h + i >= N
  BY <1>2 DEF At
<1>3. QED
  BY <1>1, <1>2

LEMMA AtInCell ==
  ASSUME NEW h \in Cell, NEW i \in 0 .. N
  PROVE  At(h, i) \in Cell
  BY WrapOnce, RingAssumption DEF Cell

\* Places less than one turn apart are different cells.
LEMMA AtInjective ==
  ASSUME NEW h \in Cell, NEW i \in 0 .. N - 1, NEW j \in 0 .. N - 1, i # j
  PROVE  At(h, i) # At(h, j)
<1> USE RingAssumption DEF Cell
<1>1. /\ At(h, i) = IF h + i < N THEN h + i ELSE h + i - N
      /\ At(h, j) = IF h + j < N THEN h + j ELSE h + j - N
  BY WrapOnce
<1>2. QED
  BY <1>1

\* Counting from the next cell shifts the places by one.
LEMMA AtNext ==
  ASSUME NEW h \in Cell, NEW i \in 0 .. N - 1
  PROVE  At(At(h, 1), i) = At(h, i + 1)
<1> USE RingAssumption DEF Cell
<1>1. At(h, 1) = IF h + 1 < N THEN h + 1 ELSE h + 1 - N
  BY WrapOnce
<1>2. At(h, i + 1) = IF h + (i + 1) < N THEN h + (i + 1) ELSE h + (i + 1) - N
  BY WrapOnce
<1>3. ASSUME NEW k \in Cell
      PROVE  At(k, i) = IF k + i < N THEN k + i ELSE k + i - N
  BY WrapOnce
<1>4. At(h, 1) \in Cell
  BY AtInCell
<1>5. QED
  BY <1>1, <1>2, <1>3, <1>4

LEMMA AtZero ==
  ASSUME NEW h \in Cell
  PROVE  At(h, 0) = h
  BY WrapOnce, RingAssumption DEF Cell

-----------------------------------------------------------------------------
\* No call indexes buf outside its cells or leaves head or count out of range.
LEMMA RingStep ==
  ASSUME RingTypeOK, [RingNext]_ringVars
  PROVE  RingTypeOK'
<1> USE RingAssumption DEF RingTypeOK, Cell
<1>1. ASSUME NEW v \in T, Push(v)
      PROVE  RingTypeOK'
  <2>1. CASE HasCell
    <3>1. buf' = [buf EXCEPT ![WriteAt] = v] /\ count' = count + 1 /\ head' = head
      BY ONLY <1>1, <2>1 DEF Push
    <3>2. buf' \in [Cell -> T \cup {Blank}]
      BY ONLY <3>1, RingTypeOK DEF RingTypeOK
    <3>3. QED
      BY <2>1, <3>1, <3>2 DEF HasCell
  <2>2. CASE ~HasCell
    BY <1>1, <2>2 DEF Push
  <2>3. QED
    BY <2>1, <2>2
<1>2. CASE Pop
  <2>1. NextHead \in Cell
    <3>1. head \in Cell /\ 1 \in 0 .. N
      OBVIOUS
    <3>2. QED
      BY ONLY <3>1, AtInCell DEF NextHead
  <2>2. CASE count # 0
    <3>1. head' = NextHead /\ count' = count - 1 /\ buf' = buf
      BY <1>2, <2>2 DEF Pop
    <3>2. QED
      BY <2>1, <2>2, <3>1
  <2>3. CASE count = 0
    BY <1>2, <2>3 DEF Pop
  <2>4. QED
    BY <2>2, <2>3
<1>3. CASE UNCHANGED ringVars
  BY <1>3 DEF ringVars
<1>4. QED
  BY <1>1, <1>2, <1>3 DEF RingNext

\* The ring's cells, its indices and the number of live cells stay in range
\* (Ring<T,N>::push and pop): no call indexes buf outside 0 .. N-1.
THEOREM RingTyped == RingSpec => []RingTypeOK
<1>1. RingInit => RingTypeOK
  BY RingAssumption DEF RingInit, RingTypeOK, Cell
<1>2. QED
  BY <1>1, RingStep, PTL DEF RingSpec

-----------------------------------------------------------------------------
\* The queue a well-typed ring stands for is a sequence of its live cells.
LEMMA QueueOfIsSeq ==
  ASSUME NEW b \in [Cell -> T \cup {Blank}], NEW h \in Cell, NEW c \in 0 .. N
  PROVE  /\ QueueOf(b, h, c) \in Seq(T \cup {Blank})
         /\ Len(QueueOf(b, h, c)) = c
         /\ \A i \in 1 .. c : QueueOf(b, h, c)[i] = b[At(h, i - 1)]
<1> USE RingAssumption DEF Cell
<1>1. \A i \in 1 .. c : At(h, i - 1) \in Cell
  BY WrapOnce
<1>2. QueueOf(b, h, c) \in [1 .. c -> T \cup {Blank}]
  BY <1>1 DEF QueueOf
<1>3. QED
  BY <1>2 DEF QueueOf

\* push writes the one cell behind the live ones and leaves those alone, so
\* it appends to the queue.
LEMMA PushAppends ==
  ASSUME NEW b \in [Cell -> T \cup {Blank}], NEW h \in Cell,
         NEW c \in 0 .. N - 1, NEW v \in T
  PROVE  QueueOf([b EXCEPT ![At(h, c)] = v], h, c + 1)
           = Append(QueueOf(b, h, c), v)
<1> USE RingAssumption
<1> DEFINE b2 == [b EXCEPT ![At(h, c)] = v]
           old == QueueOf(b, h, c)
           new == QueueOf(b2, h, c + 1)
<1> SUFFICES new = Append(old, v)
  OBVIOUS
<1>1. At(h, c) \in Cell
  BY AtInCell
<1>2. b2 \in [Cell -> T \cup {Blank}] /\ c + 1 \in 0 .. N
  BY <1>1
<1>3. /\ old \in Seq(T \cup {Blank}) /\ Len(old) = c
      /\ \A i \in 1 .. c : old[i] = b[At(h, i - 1)]
  BY QueueOfIsSeq
<1> HIDE DEF b2
<1>4. /\ new \in Seq(T \cup {Blank}) /\ Len(new) = c + 1
      /\ \A i \in 1 .. c + 1 : new[i] = b2[At(h, i - 1)]
  BY <1>2, QueueOfIsSeq
<1> HIDE DEF new, old
<1>5. ASSUME NEW i \in 1 .. c
      PROVE  new[i] = old[i]
  <2>1. At(h, i - 1) \in Cell /\ At(h, i - 1) # At(h, c)
    BY AtInCell, AtInjective
  <2>2. b2[At(h, i - 1)] = b[At(h, i - 1)]
    BY <2>1 DEF b2
  <2>3. QED
    BY <1>3, <1>4, <2>2
<1>6. new[c + 1] = v
  <2>1. new[c + 1] = b2[At(h, (c + 1) - 1)]
    BY <1>4
  <2>2. (c + 1) - 1 = c
    OBVIOUS
  <2>3. b2[At(h, c)] = v
    BY <1>1 DEF b2
  <2>4. QED
    BY <2>1, <2>2, <2>3
<1>7. QED
  BY <1>3, <1>4, <1>5, <1>6

\* pop hands out the oldest live cell and moves head to the next one.
LEMMA PopTakesHead ==
  ASSUME NEW b \in [Cell -> T \cup {Blank}], NEW h \in Cell, NEW c \in 1 .. N
  PROVE  /\ QueueOf(b, h, c) # <<>>
         /\ Head(QueueOf(b, h, c)) = b[h]
         /\ Tail(QueueOf(b, h, c)) = QueueOf(b, At(h, 1), c - 1)
<1> USE RingAssumption
<1> DEFINE old == QueueOf(b, h, c)
           new == QueueOf(b, At(h, 1), c - 1)
<1> SUFFICES old # <<>> /\ Head(old) = b[h] /\ Tail(old) = new
  OBVIOUS
<1>1. At(h, 1) \in Cell
  BY AtInCell
<1>2. c \in 0 .. N /\ c - 1 \in 0 .. N
  OBVIOUS
<1>3. /\ old \in Seq(T \cup {Blank}) /\ Len(old) = c
      /\ \A i \in 1 .. c : old[i] = b[At(h, i - 1)]
  BY <1>2, QueueOfIsSeq
<1>4. /\ new \in Seq(T \cup {Blank}) /\ Len(new) = c - 1
      /\ \A i \in 1 .. c - 1 : new[i] = b[At(At(h, 1), i - 1)]
  BY <1>1, <1>2, QueueOfIsSeq
<1> HIDE DEF new, old
<1>5. old # <<>> /\ Head(old) = b[h]
  <2>1. old[1] = b[At(h, 1 - 1)]
    BY <1>3
  <2>2. 1 - 1 = 0
    OBVIOUS
  <2>3. old[1] = b[h]
    BY <2>1, <2>2, AtZero
  <2>4. QED
    BY <1>3, <2>3
<1>6. ASSUME NEW i \in 1 .. c - 1
      PROVE  new[i] = old[i + 1]
  <2>1. At(At(h, 1), i - 1) = At(h, (i - 1) + 1)
    BY AtNext
  <2>2. (i - 1) + 1 = (i + 1) - 1
    OBVIOUS
  <2>3. old[i + 1] = b[At(h, (i + 1) - 1)]
    BY <1>3
  <2>4. QED
    BY <1>4, <2>1, <2>2, <2>3
<1>7. QED
  BY <1>3, <1>4, <1>5, <1>6

-----------------------------------------------------------------------------
\* For every capacity and every set of values, callers of the ring see a
\* bounded FIFO queue (property ImplementsFifo).
THEOREM RingImplementsFifo == RingSpec => ImplementsFifo
<1> USE RingAssumption DEF Fifo!Ok, Fifo!Full, Fifo!Got, Fifo!Empty,
                           Answer, AnswerWith
<1>1. RingInit => Fifo!Init
  BY DEF RingInit, Fifo!Init, Contents, QueueOf
<1>2. RingTypeOK /\ [RingNext]_ringVars => [Fifo!Next]_<<Contents, last>>
  <2> SUFFICES ASSUME RingTypeOK, [RingNext]_ringVars
               PROVE  [Fifo!Next]_<<Contents, last>>
    OBVIOUS
  <2>0. /\ Contents \in Seq(T \cup {Blank})
        /\ Len(Contents) = count
    BY QueueOfIsSeq DEF Contents, RingTypeOK
  <2>1. ASSUME NEW v \in T, Push(v)
        PROVE  Fifo!Put(v)
    <3>1. CASE HasCell
      <4>1. Contents' = Append(Contents, v)
        BY <2>1, <3>1, PushAppends
           DEF Push, HasCell, WriteAt, RingTypeOK, Contents
      <4>2. QED
        BY <2>0, <2>1, <3>1, <4>1 DEF Push, HasCell, Fifo!Put, RingTypeOK
    <3>2. CASE ~HasCell
      <4>1. Contents' = Contents
        BY <2>1, <3>2 DEF Push, Contents
      <4>2. QED
        BY <2>0, <2>1, <3>2, <4>1 DEF Push, HasCell, Fifo!Put, RingTypeOK
    <3>3. QED
      BY <3>1, <3>2
  <2>2. CASE Pop
    <3>1. CASE count # 0
      <4>1. /\ Contents # <<>> /\ buf[head] = Head(Contents)
            /\ Contents' = Tail(Contents)
        BY <2>2, <3>1, PopTakesHead DEF Pop, NextHead, RingTypeOK, Contents
      <4>2. QED
        BY <2>2, <3>1, <4>1 DEF Pop, Fifo!Next, Fifo!Get
    <3>2. CASE count = 0
      <4>1. Contents' = Contents /\ Contents = <<>>
        BY <2>0, <2>2, <3>2 DEF Pop, Contents
      <4>2. QED
        BY <2>2, <3>2, <4>1 DEF Pop, Fifo!Next, Fifo!Get
    <3>3. QED
      BY <3>1, <3>2
  <2>3. CASE UNCHANGED ringVars
    BY <2>3 DEF ringVars, Contents
  <2>4. QED
    BY <2>1, <2>2, <2>3 DEF RingNext, Fifo!Next
<1>3. QED
  BY <1>1, <1>2, RingTyped, PTL DEF RingSpec, ImplementsFifo, Fifo!Spec, Fifo!fifoVars

-----------------------------------------------------------------------------
(***************************************************************************)
(* The worker and its two queues.                                          *)
(***************************************************************************)
Injective(q) == \A k, l \in DOMAIN q : q[k] = q[l] => k = l

-----------------------------------------------------------------------------
\* Appending to a queue adds the new element, behind the others.
LEMMA AppendFacts ==
  ASSUME NEW S, NEW q \in Seq(S), NEW e \in S
  PROVE  /\ Append(q, e) \in Seq(S)
         /\ Len(Append(q, e)) = Len(q) + 1
         /\ RangeOf(Append(q, e)) = RangeOf(q) \cup {e}
         /\ e \notin RangeOf(q) /\ Injective(q) => Injective(Append(q, e))
<1> DEFINE p == Append(q, e)
<1>1. /\ p \in Seq(S) /\ Len(p) = Len(q) + 1
      /\ DOMAIN p = 1 .. Len(q) + 1 /\ DOMAIN q = 1 .. Len(q)
      /\ Len(q) \in Nat
      /\ \A i \in 1 .. Len(q) : p[i] = q[i]
      /\ p[Len(q) + 1] = e
  OBVIOUS
<1> HIDE DEF p
<1>2. RangeOf(p) = RangeOf(q) \cup {e}
  <2>1. \A x \in RangeOf(p) : x \in RangeOf(q) \cup {e}
    BY <1>1 DEF RangeOf
  <2>2. \A x \in RangeOf(q) \cup {e} : x \in RangeOf(p)
    BY <1>1 DEF RangeOf
  <2>3. QED
    BY <2>1, <2>2
<1>3. ASSUME e \notin RangeOf(q), Injective(q)
      PROVE  Injective(p)
  BY <1>1, <1>3 DEF RangeOf, Injective
<1>4. QED
  BY <1>1, <1>2, <1>3 DEF p

\* Taking the first element of a queue without repetition removes it.
LEMMA TailFacts ==
  ASSUME NEW S, NEW q \in Seq(S), q # <<>>
  PROVE  /\ Tail(q) \in Seq(S)
         /\ Len(Tail(q)) = Len(q) - 1
         /\ Head(q) \in S /\ Head(q) \in RangeOf(q)
         /\ RangeOf(Tail(q)) \subseteq RangeOf(q)
         /\ Injective(q) => /\ Injective(Tail(q))
                            /\ RangeOf(Tail(q)) = RangeOf(q) \ {Head(q)}
<1> DEFINE p == Tail(q)
           h == Head(q)
<1>1. /\ p \in Seq(S) /\ Len(p) = Len(q) - 1 /\ Len(q) \in Nat \ {0}
      /\ DOMAIN p = 1 .. Len(q) - 1 /\ DOMAIN q = 1 .. Len(q)
      /\ \A i \in 1 .. Len(q) - 1 : p[i] = q[i + 1]
      /\ h = q[1]
  OBVIOUS
<1>2. h \in S /\ h \in RangeOf(q)
  BY <1>1 DEF RangeOf
<1> HIDE DEF p, h
<1>3. RangeOf(p) \subseteq RangeOf(q)
  BY <1>1 DEF RangeOf
<1>4. ASSUME Injective(q)
      PROVE  Injective(p) /\ RangeOf(p) = RangeOf(q) \ {h}
  <2>1. Injective(p)
    BY <1>1, <1>4 DEF Injective
  <2>2. h \notin RangeOf(p)
    BY <1>1, <1>4 DEF Injective, RangeOf
  <2>3. ASSUME NEW x \in RangeOf(q), x # h
        PROVE  x \in RangeOf(p)
    <3>1. PICK k \in 1 .. Len(q) : x = q[k]
      BY <1>1, <2>3 DEF RangeOf
    <3>2. k - 1 \in 1 .. Len(q) - 1 /\ p[k - 1] = q[k]
      BY <1>1, <2>3, <3>1
    <3>3. QED
      BY <1>1, <3>1, <3>2 DEF RangeOf
  <2>4. QED
    BY <1>3, <2>1, <2>2, <2>3
<1>5. QED
  BY <1>1, <1>2, <1>3, <1>4 DEF p, h

\* The invariant about places, in terms of sets of jobs.
LEMMA JobsApartSets ==
  JobsApart <=> /\ Injective(hiQ) /\ Injective(loQ)
                /\ RangeOf(hiQ) \cap RangeOf(loQ) = {}
                /\ \A r \in RangeOf(resQ) : r.job \notin RangeOf(hiQ) \cup RangeOf(loQ)
BY DEF JobsApart, Injective, RangeOf

LEMMA FreshSets ==
  ASSUME NEW j
  PROVE  Fresh(j) <=> /\ j \notin RangeOf(hiQ) \cup RangeOf(loQ)
                      /\ \A r \in RangeOf(resQ) : r.job # j
BY DEF Fresh, RangeOf

\* What the two job queues hold, as far as the service is concerned.
Waiting == RangeOf(hiQ) \cup RangeOf(loQ)

QueuesOK == /\ hiQ \in Seq(Job) /\ Len(hiQ) <= JobQDepth
            /\ loQ \in Seq(Job) /\ Len(loQ) <= JobQDepth
            /\ Injective(hiQ) /\ Injective(loQ)
            /\ RangeOf(hiQ) \cap RangeOf(loQ) = {}

\* A push keeps the job queues in order: it adds the job once or is refused.
LEMMA EnqueueKeeps ==
  ASSUME NEW j \in Job, QueuesOK, j \notin Waiting, Enqueue(j)
  PROVE  /\ QueuesOK'
         /\ Waiting' = Waiting \/ Waiting' = Waiting \cup {j}
<1> USE DepthAssumption DEF QueuesOK, Pushed, HasRoom
<1>1. CASE EnqueueHi(j)
  <2>1. hiQ' = Pushed(hiQ, j, JobQDepth) /\ loQ' = loQ
    BY ONLY <1>1 DEF EnqueueHi
  <2>2. CASE hiQ' = hiQ
    BY <2>1, <2>2 DEF Waiting, Injective, RangeOf
  <2>3. CASE Len(hiQ) < JobQDepth /\ hiQ' = Append(hiQ, j)
    <3>1. /\ hiQ' \in Seq(Job) /\ Len(hiQ') = Len(hiQ) + 1
          /\ RangeOf(hiQ') = RangeOf(hiQ) \cup {j} /\ Injective(hiQ')
      BY <2>3, AppendFacts DEF Waiting
    <3>2. Injective(loQ') /\ RangeOf(loQ') = RangeOf(loQ)
      BY <2>1 DEF Injective, RangeOf
    <3>3. Len(hiQ') <= JobQDepth
      BY <2>3, <3>1
    <3>4. QED
      BY <2>1, <3>1, <3>2, <3>3 DEF Waiting
  <2>4. QED
    BY <2>1, <2>2, <2>3
<1>2. CASE EnqueueLo(j)
  <2>1. loQ' = Pushed(loQ, j, JobQDepth) /\ hiQ' = hiQ
    BY ONLY <1>2 DEF EnqueueLo
  <2>2. CASE loQ' = loQ
    BY <2>1, <2>2 DEF Waiting, Injective, RangeOf
  <2>3. CASE Len(loQ) < JobQDepth /\ loQ' = Append(loQ, j)
    <3>1. /\ loQ' \in Seq(Job) /\ Len(loQ') = Len(loQ) + 1
          /\ RangeOf(loQ') = RangeOf(loQ) \cup {j} /\ Injective(loQ')
      BY <2>3, AppendFacts DEF Waiting
    <3>2. Injective(hiQ') /\ RangeOf(hiQ') = RangeOf(hiQ)
      BY <2>1 DEF Injective, RangeOf
    <3>3. Len(loQ') <= JobQDepth
      BY <2>3, <3>1
    <3>4. QED
      BY <2>1, <3>1, <3>2, <3>3 DEF Waiting
  <2>4. QED
    BY <2>1, <2>2, <2>3
<1>3. QED
  BY <1>1, <1>2 DEF Enqueue

\* The worker's tick removes one job from the queues.
LEMMA TakeKeeps ==
  ASSUME NEW j, QueuesOK, Take(j)
  PROVE  /\ QueuesOK'
         /\ j \in Waiting /\ j \in Job
         /\ Waiting' = Waiting \ {j}
<1> USE DEF QueuesOK
<1>1. CASE HiTurn /\ j = Head(hiQ) /\ hiQ' = Tail(hiQ) /\ loQ' = loQ
  <2>1. /\ hiQ' \in Seq(Job) /\ Len(hiQ') = Len(hiQ) - 1 /\ Injective(hiQ')
        /\ j \in RangeOf(hiQ) /\ j \in Job
        /\ RangeOf(hiQ') = RangeOf(hiQ) \ {j}
    BY <1>1, TailFacts DEF HiTurn
  <2>2. Injective(loQ') /\ RangeOf(loQ') = RangeOf(loQ)
    BY <1>1 DEF Injective, RangeOf
  <2>3. Len(hiQ') <= JobQDepth
    BY <2>1, DepthAssumption
  <2>4. QED
    BY <1>1, <2>1, <2>2, <2>3 DEF Waiting
<1>2. CASE LoTurn /\ j = Head(loQ) /\ loQ' = Tail(loQ) /\ hiQ' = hiQ
  <2>1. /\ loQ' \in Seq(Job) /\ Len(loQ') = Len(loQ) - 1 /\ Injective(loQ')
        /\ j \in RangeOf(loQ) /\ j \in Job
        /\ RangeOf(loQ') = RangeOf(loQ) \ {j}
    BY <1>2, TailFacts DEF LoTurn
  <2>2. Injective(hiQ') /\ RangeOf(hiQ') = RangeOf(hiQ)
    BY <1>2 DEF Injective, RangeOf
  <2>3. Len(loQ') <= JobQDepth
    BY <2>1, DepthAssumption
  <2>4. QED
    BY <1>2, <2>1, <2>2, <2>3 DEF Waiting
<1>3. QED
  BY <1>1, <1>2 DEF Take

\* The invariant in the words of the lemmas above.
SetInv == /\ QueuesOK
          /\ resQ \in Seq(AnyResult) /\ Len(resQ) <= ResQDepth /\ Len(resQ) <= 1
          /\ \A r \in RangeOf(resQ) : r.job \notin Waiting
          /\ at = "front" => resQ = <<>>
          /\ gate \in BOOLEAN /\ at \in {"front", "poll"}

LEMMA SetInvIsInv == SetInv => Inv
BY JobsApartSets
   DEF SetInv, Inv, TypeOK, ResultsNeverDropped, QueuesOK, Waiting

LEMMA ShortSeqs ==
  ASSUME NEW S, NEW q \in Seq(S), NEW k \in DOMAIN q, Len(q) <= 1
  PROVE  k = 1 /\ Len(q) = 1 /\ Head(q) = q[1] /\ Tail(q) = <<>>
<1>1. DOMAIN q = 1 .. Len(q) /\ Len(q) \in Nat
  OBVIOUS
<1>2. k = 1 /\ Len(q) = 1
  BY <1>1
<1>3. Head(q) = q[1]
  BY <1>2
<1>4. Tail(q) \in Seq(S) /\ Len(Tail(q)) = 0
  BY <1>2
<1>5. Tail(q) = <<>>
  BY <1>4
<1>6. QED
  BY <1>2, <1>3, <1>5

\* Every answer of the worker is a well-formed result of the job it took.
LEMMA OutcomesAreResults ==
  ASSUME NEW j \in Job, NEW r \in Outcomes(j)
  PROVE  r \in AnyResult /\ r.job = j
<1>1. ASSUME NEW ok \in BOOLEAN, NEW deferred \in BOOLEAN, NEW blocked \in BOOLEAN,
             r = Result(j, ok, deferred, blocked)
      PROVE  r \in AnyResult /\ r.job = j
  BY <1>1 DEF Result, AnyResult
<1>2. CASE r \in {Result(j, ok, FALSE, FALSE) : ok \in BOOLEAN}
  BY <1>1, <1>2
<1>3. CASE r = Result(j, FALSE, TRUE, FALSE)
  BY <1>1, <1>3
<1>4. CASE r = Result(j, FALSE, j.src # "monitor", TRUE)
  <2>1. (j.src # "monitor") \in BOOLEAN
    OBVIOUS
  <2>2. QED
    BY <1>1, <1>4, <2>1
<1>5. QED
  BY <1>2, <1>3, <1>4 DEF Outcomes, Attempts, NoMemory

\* What running a job does to the worker, in the words of the lemmas.
LEMMA RunJobFacts ==
  ASSUME SetInv, NEW r, RunJob(r)
  PROVE  /\ QueuesOK' /\ Waiting' = Waiting \ {r.job} /\ r.job \in Waiting
         /\ r \in AnyResult /\ resQ = <<>> /\ resQ' = <<r>>
         /\ gate' \in BOOLEAN /\ at' = "poll"
<1>1. QueuesOK /\ resQ = <<>> /\ gate \in BOOLEAN
  BY DEF SetInv, RunJob
<1>2. Take(r.job)
  BY DEF RunJob
<1>3. QueuesOK' /\ r.job \in Waiting /\ r.job \in Job /\ Waiting' = Waiting \ {r.job}
  BY <1>1, <1>2, TakeKeeps
<1>4. r \in AnyResult
  BY <1>3, OutcomesAreResults DEF RunJob
<1>5. resQ' = <<r>>
  <2>1. resQ' = Pushed(<<>>, r, ResQDepth)
    BY <1>1 DEF RunJob
  <2>2. HasRoom(<<>>, ResQDepth)
    BY DepthAssumption DEF HasRoom
  <2>3. resQ' = Append(<<>>, r)
    BY <2>1, <2>2 DEF Pushed
  <2>4. Append(<<>>, r) = <<r>>
    OBVIOUS
  <2>5. QED
    BY <2>3, <2>4
<1>6. gate' \in BOOLEAN /\ at' = "poll"
  BY <1>1 DEF RunJob, GateAfter
<1>7. QED
  BY <1>1, <1>3, <1>4, <1>5, <1>6

\* What handling a result does: it leaves none behind, and queues one new
\* job at most.
LEMMA HandleFacts ==
  ASSUME SetInv, NEW k \in DOMAIN resQ, Handle(resQ[k])
  PROVE  /\ QueuesOK' /\ RangeOf(resQ) = {resQ[k]} /\ resQ' = <<>>
         /\ \/ Waiting' = Waiting
            \/ \E j \in Job : j \notin Waiting /\ Waiting' = Waiting \cup {j}
         /\ gate' = gate /\ at' = at
<1>1. /\ QueuesOK
      /\ resQ \in Seq(AnyResult) /\ Len(resQ) <= 1
      /\ \A r \in RangeOf(resQ) : r.job \notin Waiting
  BY DEF SetInv
<1>2. k = 1 /\ Len(resQ) = 1 /\ Head(resQ) = resQ[1] /\ Tail(resQ) = <<>>
  BY <1>1, ShortSeqs
<1>3. RangeOf(resQ) = {resQ[k]}
  <2>1. DOMAIN resQ = {1}
    BY <1>1, <1>2
  <2>2. QED
    BY <1>2, <2>1 DEF RangeOf
<1>4. resQ' = <<>> /\ gate' = gate /\ at' = at
  BY <1>2 DEF Handle, Poll
<1>5. CASE UNCHANGED queueVars
  <2>1. hiQ' = hiQ /\ loQ' = loQ
    BY <1>5 DEF queueVars
  <2>2. QueuesOK' /\ Waiting' = Waiting
    BY <1>1, <2>1 DEF QueuesOK, Waiting, Injective, RangeOf
  <2>3. QED
    BY <1>3, <1>4, <2>2
<1>6. CASE \E j \in Job : (Fresh(j) \/ j = resQ[k].job) /\ Enqueue(j)
  <2>1. PICK j \in Job : (Fresh(j) \/ j = resQ[k].job) /\ Enqueue(j)
    BY <1>6
  <2>2. j \notin Waiting
    <3>1. CASE Fresh(j)
      BY <3>1, FreshSets DEF Waiting
    <3>2. CASE j = resQ[k].job
      BY <1>1, <1>3, <3>2
    <3>3. QED
      BY <2>1, <3>1, <3>2
  <2>3. QueuesOK' /\ (Waiting' = Waiting \/ Waiting' = Waiting \cup {j})
    BY <1>1, <2>1, <2>2, EnqueueKeeps
  <2>4. QED
    BY <1>3, <1>4, <2>2, <2>3
<1>7. QED
  BY <1>5, <1>6 DEF Handle

LEMMA InitSetInv == Init => SetInv
<1> SUFFICES ASSUME Init
             PROVE  SetInv
  OBVIOUS
<1>1. hiQ = <<>> /\ loQ = <<>> /\ resQ = <<>> /\ gate = FALSE /\ at = "front"
  BY DEF Init, WorkerInit
<1>2. /\ hiQ \in Seq(Job) /\ loQ \in Seq(Job) /\ resQ \in Seq(AnyResult)
      /\ Len(hiQ) = 0 /\ Len(loQ) = 0 /\ Len(resQ) = 0
  BY <1>1
<1>3. RangeOf(hiQ) = {} /\ RangeOf(loQ) = {} /\ RangeOf(resQ) = {}
  BY <1>1 DEF RangeOf
<1>4. Injective(hiQ) /\ Injective(loQ)
  BY <1>1 DEF Injective
<1>5. 0 <= JobQDepth /\ 0 <= ResQDepth
  BY DepthAssumption
<1>6. QueuesOK
  BY <1>2, <1>3, <1>4, <1>5 DEF QueuesOK
<1>7. Len(resQ) <= ResQDepth /\ Len(resQ) <= 1
  BY <1>2, <1>5
<1>8. gate \in BOOLEAN /\ at \in {"front", "poll"} /\ (at = "front" => resQ = <<>>)
  BY <1>1
<1>9. \A r \in RangeOf(resQ) : r.job \notin Waiting
  BY <1>3
<1>10. QED
  BY <1>2, <1>6, <1>7, <1>8, <1>9 DEF SetInv

-----------------------------------------------------------------------------
\* Every step of the loop, as the lemmas describe it.
LEMMA NextSetInv == SetInv /\ [Next]_workerVars => SetInv'
<1> SUFFICES ASSUME SetInv, [Next]_workerVars
             PROVE  SetInv'
  OBVIOUS
<1>0. /\ QueuesOK
      /\ resQ \in Seq(AnyResult) /\ Len(resQ) <= ResQDepth /\ Len(resQ) <= 1
      /\ \A r \in RangeOf(resQ) : r.job \notin Waiting
      /\ at = "front" => resQ = <<>>
      /\ gate \in BOOLEAN /\ at \in {"front", "poll"}
  BY DEF SetInv
<1>1. ASSUME NEW j \in Job, Submit(j)
      PROVE  SetInv'
  <2>1. /\ at = "front" /\ resQ' = resQ /\ gate' = gate /\ at' = at
        /\ Fresh(j) /\ Enqueue(j)
    BY <1>1 DEF Submit, InHandler
  <2>2. j \notin Waiting
    BY <2>1, FreshSets DEF Waiting
  <2>3. QueuesOK'
    BY <1>0, <2>1, <2>2, EnqueueKeeps
  <2>4. resQ' = <<>> /\ RangeOf(resQ') = {}
    BY <1>0, <2>1 DEF RangeOf
  <2>5. QED
    BY <1>0, <2>1, <2>3, <2>4 DEF SetInv
<1>2. CASE RunSomeJob
  <2>1. PICK r : RunJob(r)
    BY <1>2 DEF RunSomeJob
  <2>2. /\ QueuesOK' /\ Waiting' = Waiting \ {r.job}
        /\ r \in AnyResult /\ resQ' = <<r>> /\ gate' \in BOOLEAN /\ at' = "poll"
    BY <2>1, RunJobFacts
  <2>3. /\ resQ' \in Seq(AnyResult) /\ Len(resQ') = 1 /\ RangeOf(resQ') = {r}
    BY <2>2 DEF RangeOf
  <2>4. 1 <= ResQDepth
    BY DepthAssumption
  <2>5. QED
    BY <2>2, <2>3, <2>4 DEF SetInv
<1>3. CASE IdleTick \/ EndPoll
  <2>1. /\ hiQ' = hiQ /\ loQ' = loQ /\ resQ' = resQ /\ gate' = gate
        /\ at' \in {"front", "poll"} /\ (at' = "front" => resQ = <<>>)
    BY <1>3 DEF IdleTick, EndPoll, PollDone
  <2>2. QueuesOK' /\ Waiting' = Waiting /\ RangeOf(resQ') = RangeOf(resQ)
    BY <1>0, <2>1 DEF QueuesOK, Waiting, Injective, RangeOf
  <2>3. QED
    BY <1>0, <2>1, <2>2 DEF SetInv
<1>4. CASE DispatchNext
  <2>1. PICK k \in DOMAIN resQ : Handle(resQ[k])
    BY <1>4 DEF DispatchNext
  <2>2. QueuesOK' /\ resQ' = <<>> /\ gate' = gate /\ at' = at
    BY <2>1, HandleFacts
  <2>3. /\ resQ' \in Seq(AnyResult) /\ Len(resQ') = 0 /\ RangeOf(resQ') = {}
    BY <2>2 DEF RangeOf
  <2>4. 0 <= ResQDepth
    BY DepthAssumption
  <2>5. QED
    BY <1>0, <2>2, <2>3, <2>4 DEF SetInv
<1>5. CASE GateExpires \/ UNCHANGED workerVars
  <2>1. /\ hiQ' = hiQ /\ loQ' = loQ /\ resQ' = resQ /\ at' = at
        /\ gate' \in BOOLEAN
    BY <1>0, <1>5 DEF GateExpires, workerVars
  <2>2. QueuesOK' /\ Waiting' = Waiting /\ RangeOf(resQ') = RangeOf(resQ)
    BY <1>0, <2>1 DEF QueuesOK, Waiting, Injective, RangeOf
  <2>3. QED
    BY <1>0, <2>1, <2>2 DEF SetInv
<1>6. QED
  BY <1>1, <1>2, <1>3, <1>4, <1>5 DEF Next

\* Whatever the clients do, queues and results stay within their depths, a
\* result is never pushed onto a full ring, and no job is in two places
\* (property Inv of net_worker_tick, net_worker_enqueue and the dispatch
\* loop).
THEOREM NetLoopInv == Spec => []Inv
BY InitSetInv, NextSetInv, SetInvIsInv, PTL DEF Spec

\* The worker answers every job it accepts exactly once and delivers every
\* answer (property OneAnswerPerJob).
THEOREM NetLoopOneAnswer == Spec => OneAnswerPerJob
<1>1. Init => Service!Init
  BY DEF Init, WorkerInit, Service!Init, RangeOf
<1>2. SetInv /\ [Next]_workerVars => [Service!Next]_(Service!serviceVars)
  <2> SUFFICES ASSUME SetInv, [Next]_workerVars
               PROVE  [Service!Next]_(Service!serviceVars)
    OBVIOUS
  <2> USE DEF Service!serviceVars
  <2>0. QueuesOK /\ (at = "front" => resQ = <<>>)
    BY DEF SetInv
  <2>1. ASSUME NEW j \in Job, Submit(j)
        PROVE  [Service!Next]_(Service!serviceVars)
    <3>1. /\ at = "front" /\ resQ' = resQ /\ Fresh(j) /\ Enqueue(j)
      BY <2>1 DEF Submit, InHandler
    <3>2. j \notin Waiting /\ \A r \in RangeOf(resQ) : r.job # j
      BY <3>1, FreshSets DEF Waiting
    <3>3. (Waiting' = Waiting \/ Waiting' = Waiting \cup {j}) /\ RangeOf(resQ)' = RangeOf(resQ)
      BY <2>0, <3>1, <3>2, EnqueueKeeps DEF RangeOf
    <3>4. CASE Waiting' = Waiting
      BY <3>3, <3>4 DEF Waiting
    <3>5. CASE Waiting' = Waiting \cup {j}
      BY <3>2, <3>3, <3>5 DEF Service!Next, Service!Accept, Waiting
    <3>6. QED
      BY <3>3, <3>4, <3>5
  <2>2. CASE RunSomeJob
    <3>1. PICK r : RunJob(r)
      BY <2>2 DEF RunSomeJob
    <3>2. /\ Waiting' = Waiting \ {r.job} /\ r.job \in Waiting
          /\ r \in AnyResult /\ resQ = <<>> /\ resQ' = <<r>>
      BY <3>1, RunJobFacts
    <3>3. RangeOf(resQ)' = RangeOf(resQ) \cup {r}
      BY <3>2 DEF RangeOf
    <3>4. Service!Answer(r)
      BY <3>2, <3>3 DEF Service!Answer, Waiting
    <3>5. r = [job |-> r.job, ok |-> r.ok, deferred |-> r.deferred, blocked |-> r.blocked]
          /\ r.ok \in BOOLEAN /\ r.deferred \in BOOLEAN /\ r.blocked \in BOOLEAN
      BY <3>2 DEF AnyResult
    <3>6. QED
      BY <3>2, <3>4, <3>5 DEF Service!Next, Waiting
  <2>3. CASE IdleTick \/ EndPoll \/ GateExpires \/ UNCHANGED workerVars
    <3>1. hiQ' = hiQ /\ loQ' = loQ /\ resQ' = resQ
      BY <2>3 DEF IdleTick, EndPoll, GateExpires, workerVars
    <3>2. QED
      BY <3>1 DEF RangeOf
  <2>4. CASE DispatchNext
    <3>1. PICK k \in DOMAIN resQ : Handle(resQ[k])
      BY <2>4 DEF DispatchNext
    <3>2. /\ RangeOf(resQ) = {resQ[k]} /\ resQ' = <<>>
          /\ \/ Waiting' = Waiting
             \/ \E j \in Job : j \notin Waiting /\ Waiting' = Waiting \cup {j}
      BY <3>1, HandleFacts
    <3>3. RangeOf(resQ)' = {} /\ RangeOf(resQ) \ {resQ[k]} = {}
      BY <3>2 DEF RangeOf
    <3>4. Service!Deliver(resQ[k])
      BY <3>2, <3>3 DEF Service!Deliver, Waiting
    <3>5. QED
      BY <3>2, <3>4 DEF Service!Next
  <2>5. QED
    BY <2>1, <2>2, <2>3, <2>4 DEF Next
<1>3. QED
  BY <1>1, <1>2, InitSetInv, NextSetInv, PTL DEF Spec, OneAnswerPerJob, Service!Spec

-----------------------------------------------------------------------------
\* A turn of loop() takes the first of the hi jobs, if there is one.
LEMMA TurnMovesUp ==
  ASSUME SetInv, [Next]_workerVars, at = "front", at' = "poll", NEW k \in DOMAIN hiQ
  PROVE  IF k = 1 THEN \E l \in DOMAIN resQ' : resQ'[l].job = hiQ[1]
         ELSE hiQ'[k - 1] = hiQ[k]
<1>1. hiQ \in Seq(Job) /\ hiQ # <<>> /\ k \in 1 .. Len(hiQ) /\ Len(hiQ) \in Nat
  BY DEF SetInv, QueuesOK
<1>2. RunSomeJob
  <2>1. ~IdleTick
    BY <1>1 DEF IdleTick, HiTurn
  <2>2. QED
    BY <2>1 DEF Next, Submit, InHandler, DispatchNext, Handle, Poll, EndPoll, GateExpires,
                workerVars
<1>3. PICK r : RunJob(r)
  BY <1>2 DEF RunSomeJob
<1>4. r.job = Head(hiQ) /\ hiQ' = Tail(hiQ)
  BY <1>1, <1>3 DEF RunJob, Take, LoTurn
<1>5. CASE k = 1
  <2>1. resQ' = <<r>>
    BY <1>3, RunJobFacts
  <2>2. 1 \in DOMAIN resQ' /\ resQ'[1].job = hiQ[1]
    BY <1>1, <1>4, <2>1
  <2>3. QED
    BY <1>5, <2>2
<1>6. CASE k # 1
  <2>1. k - 1 \in 1 .. Len(hiQ) - 1 /\ (k - 1) + 1 = k
    BY <1>1, <1>6
  <2>2. Tail(hiQ)[k - 1] = hiQ[(k - 1) + 1]
    BY <1>1, <2>1
  <2>3. QED
    BY <1>4, <1>6, <2>1, <2>2
<1>7. QED
  BY <1>5, <1>6

\* However many jobs wait and whoever put them there, each turn of loop()
\* brings every hi job one place nearer to its answer (action property
\* HiMovesUpEveryTurn of net_worker_tick).
THEOREM NetLoopHiMovesUp == Spec => HiMovesUpEveryTurn
<1>1. SetInv /\ [Next]_workerVars =>
        [at = "front" /\ at' = "poll" =>
           \A k \in DOMAIN hiQ : IF k = 1 THEN \E l \in DOMAIN resQ' : resQ'[l].job = hiQ[1]
                                 ELSE hiQ'[k - 1] = hiQ[k]]_workerVars
  BY TurnMovesUp
<1>2. QED
  BY <1>1, InitSetInv, NextSetInv, PTL DEF Spec, HiMovesUpEveryTurn

-----------------------------------------------------------------------------
\* The ring and the queue it stands for.
RingInv == RingTypeOK /\ Contents = hiQ

LEMMA RingLength ==
  ASSUME RingInv
  PROVE  Len(hiQ) = count /\ count \in Nat
BY QueueOfIsSeq, RingAssumption DEF RingInv, RingTypeOK, Contents

\* A push that goes with an accepted job finds a cell, which is behind the
\* live ones.
LEMMA PushFollows ==
  ASSUME SetInv, SetInv', RingInv, NEW j \in Job, hiQ' = Append(hiQ, j), Push(j)
  PROVE  RingInv'
<1>1. Len(hiQ') = Len(hiQ) + 1
  BY AppendFacts DEF SetInv, QueuesOK
<1>2. HasCell
  BY <1>1, RingLength, SameQueue, DepthAssumption DEF SetInv, QueuesOK, HasCell
<1>3. RingTypeOK'
  BY RingStep, SameQueue DEF RingInv, RingNext
<1>4. Contents' = Append(Contents, j)
  <2>1. /\ buf \in [Cell -> T \cup {Blank}] /\ head \in Cell
        /\ count \in 0 .. N - 1 /\ j \in T
    BY <1>2, SameQueue, RingAssumption DEF RingInv, RingTypeOK, HasCell
  <2>2. buf' = [buf EXCEPT ![At(head, count)] = j] /\ count' = count + 1 /\ head' = head
    BY ONLY <1>2, Push(j) DEF Push, WriteAt
  <2>3. QueueOf([buf EXCEPT ![At(head, count)] = j], head, count + 1)
          = Append(QueueOf(buf, head, count), j)
    BY <2>1, PushAppends
  <2>4. QED
    BY ONLY <2>2, <2>3 DEF Contents
<1>5. QED
  BY <1>3, <1>4 DEF RingInv

\* A pop that goes with a job the worker takes hands out that job.
LEMMA PopFollows ==
  ASSUME SetInv, RingInv, hiQ # <<>>, hiQ' = Tail(hiQ), Pop
  PROVE  RingInv'
<1>1. count # 0
  BY RingLength DEF SetInv, QueuesOK
<1>2. RingTypeOK'
  BY RingStep DEF RingInv, RingNext
<1>3. Contents' = Tail(Contents)
  <2>1. buf \in [Cell -> T \cup {Blank}] /\ head \in Cell /\ count \in 1 .. N
    BY <1>1, RingAssumption DEF RingInv, RingTypeOK
  <2>2. buf' = buf /\ head' = At(head, 1) /\ count' = count - 1
    BY ONLY <1>1, Pop DEF Pop, NextHead
  <2>3. Tail(QueueOf(buf, head, count)) = QueueOf(buf, At(head, 1), count - 1)
    BY <2>1, PopTakesHead
  <2>4. QED
    BY ONLY <2>2, <2>3 DEF Contents
<1>4. QED
  BY <1>2, <1>3 DEF RingInv

LEMMA RingFollows ==
  ASSUME SetInv, SetInv', RingInv, [NetRingNext]_netRingVars
  PROVE  RingInv'
<1>1. CASE hiQ' = hiQ /\ UNCHANGED ringVars
  BY <1>1 DEF RingInv, ringVars, RingTypeOK, Contents
<1>2. ASSUME NEW j \in Job, hiQ' = hiQ, Len(hiQ) = JobQDepth, Push(j)
      PROVE  RingInv'
  <2>1. ~HasCell
    BY <1>2, RingLength, SameQueue, DepthAssumption DEF HasCell
  <2>2. QED
    BY <1>2, <2>1 DEF RingInv, Push, RingTypeOK, Contents
<1>3. QED
  BY <1>1, <1>2, PushFollows, PopFollows DEF NetRingNext, RingCall, netRingVars, workerVars

LEMMA RingInvIsHeld == RingInv => RingHoldsQueue
<1> SUFFICES ASSUME RingInv
             PROVE  RingHoldsQueue
  OBVIOUS
<1>1. ASSUME hiQ # <<>>
      PROVE  buf[head] = Head(hiQ)
  <2>1. count # 0
    BY <1>1 DEF RingInv, Contents, QueueOf
  <2>2. QED
    BY <2>1, PopTakesHead DEF RingInv, RingTypeOK, Contents
<1>2. QED
  BY <1>1 DEF RingInv, RingHoldsQueue

\* With its hi queue in a ring of NET_JOBQ_DEPTH cells, the worker takes the
\* jobs in the order they came and no push overwrites one that waits,
\* wherever head has wrapped to and whatever the other cells hold (property
\* RingHoldsQueue of Ring<T,N>, net_worker_enqueue and net_worker_tick).
THEOREM NetRingHoldsQueue == NetRingSpec => []RingHoldsQueue
<1>1. NetRingInit => SetInv /\ RingInv
  <2> SUFFICES ASSUME NetRingInit
               PROVE  SetInv /\ RingInv
    OBVIOUS
  <2>1. RingTypeOK
    BY RingAssumption DEF NetRingInit, RingInit, RingTypeOK, Cell
  <2>2. Contents = hiQ
    BY DEF NetRingInit, RingInit, Init, WorkerInit, Contents, QueueOf
  <2>3. QED
    BY <2>1, <2>2, InitSetInv DEF NetRingInit, RingInv
<1>2. [NetRingNext]_netRingVars => [Next]_workerVars
  BY DEF NetRingNext, netRingVars
<1>3. SetInv /\ RingInv /\ [NetRingNext]_netRingVars => (SetInv /\ RingInv)'
  BY <1>2, NextSetInv, RingFollows
<1>4. QED
  BY <1>1, <1>3, RingInvIsHeld, PTL DEF NetRingSpec

(***************************************************************************)
(* What is measured on demand, for all ids, any number of commands and any *)
(* size of the rings: a check that holds the slot has exactly one job with *)
(* the worker, so the slot is always freed by a result of its own; the URL *)
(* of a check is fetched once at most, also when its probe is repeated;    *)
(* and punches are reported once and in order.                             *)
(***************************************************************************)
CheckJobs == {CheckJob(id) : id \in Ids \cup {None}}
PunchJobs == {StunJob} \cup {PunchJob(n) : n \in Nat}
AllJobs == CheckJobs \cup PunchJobs \cup HiLoad \cup LoLoad
Reports == [of : Nat, names : Nat, ok : BOOLEAN, sent : BOOLEAN]

\* Types; only jobs of others wait in the lo queue.
TypeInv == /\ WorkerOK(AllJobs) /\ loQ \in Seq(LoLoad)
           /\ CheckTypeOK
           /\ bound \in BOOLEAN /\ mapped \in BOOLEAN /\ gSess \in Nat
           /\ reports \in Seq(Reports)

\* The check's URL was fetched if its result waits and is one of a probe that was
\* carried out, and was not fetched otherwise.
Fetched == \E k \in DOMAIN resQ : resQ[k].job.src = "checknow" /\ Ran(resQ[k])
FetchInv == ~SlotFree => fetches = (IF Fetched THEN 1 ELSE 0)

CheckInv == SlotMatchesFlight /\ FetchInv

\* The numbers of the punches, taken apart by where they are: reported, done, waiting.
OrderInv ==
  /\ \A i, k \in DOMAIN reports : i < k => reports[i].of < reports[k].of
  /\ \A i, k \in DOMAIN hiQ : i < k /\ IsPunch(hiQ[i]) /\ IsPunch(hiQ[k]) => hiQ[i].id < hiQ[k].id
  /\ \A i \in DOMAIN reports : /\ reports[i].of \in 1 .. gSess
                               /\ reports[i].names \in reports[i].of .. gSess
  /\ \A i \in DOMAIN hiQ : IsPunch(hiQ[i]) => hiQ[i].id \in 1 .. gSess
  /\ \A i \in DOMAIN reports, k \in DOMAIN hiQ : IsPunch(hiQ[k]) => reports[i].of < hiQ[k].id
  /\ \A d \in DOMAIN resQ : IsPunch(resQ[d].job) =>
       /\ resQ[d].job.id \in 1 .. gSess
       /\ \A i \in DOMAIN reports : reports[i].of < resQ[d].job.id
       /\ \A k \in DOMAIN hiQ : IsPunch(hiQ[k]) => resQ[d].job.id < hiQ[k].id

PInv == OrderInv /\ (mapped => bound)

IInv == TypeInv /\ CheckInv /\ PInv

-----------------------------------------------------------------------------
LEMMA Kinds ==
  /\ \A id \in Ids \cup {None} : CheckJob(id).src = "checknow" /\ CheckJob(id) \in AllJobs
  /\ StunJob \in AllJobs /\ StunJob.src = "punch" /\ ~IsPunch(StunJob)
  /\ \A n \in Nat : /\ PunchJob(n) \in AllJobs /\ PunchJob(n).src = "punch"
                    /\ PunchJob(n).kind = "punch" /\ PunchJob(n).id = n
  /\ HiLoad \cup LoLoad \subseteq AllJobs
  /\ \A j \in HiLoad \cup LoLoad : j.src # "checknow" /\ j.src # "punch" /\ ~IsPunch(j)
  /\ \A j \in AllJobs : IsPunch(j) => \E n \in Nat : j = PunchJob(n)
<1>1. \A id \in Ids \cup {None} : CheckJob(id).src = "checknow" /\ CheckJob(id) \in AllJobs
  BY DEF CheckJob, AllJobs, CheckJobs
<1>2. StunJob \in AllJobs /\ StunJob.src = "punch" /\ ~IsPunch(StunJob)
  BY DEF StunJob, AllJobs, PunchJobs, IsPunch
<1>3. \A n \in Nat : /\ PunchJob(n) \in AllJobs /\ PunchJob(n).src = "punch"
                    /\ PunchJob(n).kind = "punch" /\ PunchJob(n).id = n
  BY DEF PunchJob, AllJobs, PunchJobs
<1>4. \A j \in HiLoad \cup LoLoad : j.src # "checknow" /\ j.src # "punch" /\ ~IsPunch(j)
  BY LoadAssumption DEF IsPunch
<1>5. ASSUME NEW j \in AllJobs, IsPunch(j) PROVE \E n \in Nat : j = PunchJob(n)
  <2>1. j.src = "punch"
    BY <1>5 DEF IsPunch
  <2>2. j \notin CheckJobs /\ j \notin HiLoad \cup LoLoad /\ j # StunJob
    BY <1>2, <1>4, <1>5, <2>1 DEF CheckJobs, CheckJob
  <2>3. QED
    BY <2>2 DEF AllJobs, PunchJobs
<1>6. QED
  BY <1>1, <1>2, <1>3, <1>4, <1>5 DEF AllJobs

\* A job joins the hi queue, at most; no result comes or one goes.
LEMMA OrderKept ==
  ASSUME OrderInv, hiQ \in Seq(AllJobs), gSess \in Nat, gSess' \in Nat, gSess' >= gSess,
         UNCHANGED reports, resQ' = resQ \/ resQ' = <<>>,
         \/ hiQ' = hiQ
         \/ \E j \in AllJobs : /\ hiQ' = Append(hiQ, j)
                               /\ IsPunch(j) => j.id \in gSess + 1 .. gSess'
  PROVE  OrderInv'
<1>1. CASE hiQ' = hiQ
  BY <1>1 DEF OrderInv
<1>2. ASSUME NEW j \in AllJobs, hiQ' = Append(hiQ, j), IsPunch(j) => j.id \in gSess + 1 .. gSess'
      PROVE  OrderInv'
  <2> DEFINE n == Len(hiQ) + 1
  <2>1. /\ DOMAIN hiQ' = 1 .. n /\ DOMAIN hiQ = 1 .. Len(hiQ) /\ Len(hiQ) \in Nat
        /\ hiQ'[n] = j /\ \A k \in DOMAIN hiQ : hiQ'[k] = hiQ[k]
    BY <1>2
  <2>2. \A k \in DOMAIN hiQ' : k \in DOMAIN hiQ \/ k = n
    BY <2>1
  <2>3. \A k \in DOMAIN hiQ : k \in DOMAIN hiQ' /\ k < n
    BY <2>1
  <2>10. IsPunch(hiQ'[n]) => hiQ'[n].id \in Nat /\ hiQ'[n].id > gSess /\ hiQ'[n].id <= gSess'
    <3>1. hiQ'[n] = j
      BY <2>1
    <3> HIDE DEF n
    <3>2. ASSUME IsPunch(j) PROVE j.id \in Nat /\ j.id > gSess /\ j.id <= gSess'
      <4>1. j.id \in gSess + 1 .. gSess'
        BY <1>2, <3>2
      <4>2. QED
        BY <4>1
    <3>3. QED
      BY <3>1, <3>2
  <2> HIDE DEF n
  <2>4. ASSUME NEW i \in DOMAIN hiQ', NEW k \in DOMAIN hiQ', i < k, IsPunch(hiQ'[i]), IsPunch(hiQ'[k])
        PROVE  hiQ'[i].id < hiQ'[k].id
    <3>1. i \in DOMAIN hiQ /\ hiQ'[i] = hiQ[i] /\ hiQ[i].id \in 1 .. gSess
      BY <2>1, <2>2, <2>4 DEF OrderInv
    <3>2. CASE k = n
      BY <2>10, <2>4, <3>1, <3>2
    <3>3. CASE k \in DOMAIN hiQ
      BY <2>1, <2>4, <3>1, <3>3 DEF OrderInv
    <3>4. QED
      BY <2>2, <3>2, <3>3
  <2>5. \A k \in DOMAIN hiQ' : IsPunch(hiQ'[k]) => hiQ'[k].id \in 1 .. gSess'
    <3>1. ASSUME NEW k \in DOMAIN hiQ', IsPunch(hiQ'[k]) PROVE hiQ'[k].id \in 1 .. gSess'
      <4>1. CASE k = n
        BY <2>10, <3>1, <4>1
      <4>2. CASE k \in DOMAIN hiQ
        BY <2>1, <3>1, <4>2 DEF OrderInv
      <4>3. QED
        BY <2>2, <4>1, <4>2
    <3>2. QED
      BY <3>1
  <2>6. ASSUME NEW i \in DOMAIN reports, NEW k \in DOMAIN hiQ', IsPunch(hiQ'[k])
        PROVE  reports[i].of < hiQ'[k].id
    <3>1. reports[i].of \in 1 .. gSess
      BY DEF OrderInv
    <3>2. CASE k = n
      BY <2>10, <2>6, <3>1, <3>2
    <3>3. CASE k \in DOMAIN hiQ
      BY <2>1, <2>6, <3>3 DEF OrderInv
    <3>4. QED
      BY <2>2, <3>2, <3>3
  <2>7. ASSUME NEW d \in DOMAIN resQ', IsPunch(resQ'[d].job)
        PROVE  /\ resQ'[d].job.id \in 1 .. gSess'
               /\ \A i \in DOMAIN reports : reports[i].of < resQ'[d].job.id
               /\ \A k \in DOMAIN hiQ' : IsPunch(hiQ'[k]) => resQ'[d].job.id < hiQ'[k].id
    <3>1. d \in DOMAIN resQ /\ resQ' = resQ
      BY <2>7
    <3>2. /\ resQ[d].job.id \in 1 .. gSess
          /\ \A i \in DOMAIN reports : reports[i].of < resQ[d].job.id
          /\ \A k \in DOMAIN hiQ : IsPunch(hiQ[k]) => resQ[d].job.id < hiQ[k].id
      BY <2>7, <3>1 DEF OrderInv
    <3>3. ASSUME NEW k \in DOMAIN hiQ', IsPunch(hiQ'[k]) PROVE resQ[d].job.id < hiQ'[k].id
      <4>1. CASE k = n
        BY <2>10, <3>2, <3>3, <4>1
      <4>2. CASE k \in DOMAIN hiQ
        BY <2>1, <3>2, <3>3, <4>2
      <4>3. QED
        BY <2>2, <4>1, <4>2
    <3>4. QED
      BY <3>1, <3>2, <3>3
  <2>8. /\ \A i, k \in DOMAIN reports' : i < k => reports'[i].of < reports'[k].of
        /\ \A i \in DOMAIN reports' : /\ reports'[i].of \in 1 .. gSess'
                                      /\ reports'[i].names \in reports'[i].of .. gSess'
    BY DEF OrderInv
  <2>9. QED
    BY <2>4, <2>5, <2>6, <2>7, <2>8 DEF OrderInv
<1>3. QED
  BY <1>1, <1>2

\* The job the worker runs is in front of all that wait.
LEMMA OrderRun ==
  ASSUME OrderInv, hiQ \in Seq(AllJobs), loQ \in Seq(LoLoad), resQ = <<>>,
         NEW r, Take(r.job), resQ' = <<r>>, UNCHANGED <<gSess, reports>>
  PROVE  OrderInv'
<1>1. DOMAIN resQ' = {1} /\ resQ'[1] = r
  OBVIOUS
<1>2. CASE HiTurn /\ r.job = Head(hiQ) /\ hiQ' = Tail(hiQ)
  <2>1. /\ hiQ # <<>> /\ r.job = hiQ[1] /\ Len(hiQ) \in Nat \ {0}
        /\ DOMAIN hiQ' = 1 .. Len(hiQ) - 1 /\ DOMAIN hiQ = 1 .. Len(hiQ)
        /\ \A k \in DOMAIN hiQ' : hiQ'[k] = hiQ[k + 1]
    BY <1>2 DEF HiTurn
  <2>2. /\ 1 \in DOMAIN hiQ
        /\ \A k \in DOMAIN hiQ' : k + 1 \in DOMAIN hiQ /\ 1 < k + 1
        /\ \A i, k \in DOMAIN hiQ' : i < k => i + 1 < k + 1
    BY <2>1
  <2>3. ASSUME IsPunch(r.job)
        PROVE  /\ r.job.id \in 1 .. gSess
               /\ \A i \in DOMAIN reports : reports[i].of < r.job.id
               /\ \A k \in DOMAIN hiQ' : IsPunch(hiQ'[k]) => r.job.id < hiQ'[k].id
    BY <2>1, <2>2, <2>3 DEF OrderInv
  <2>4. /\ \A i, k \in DOMAIN hiQ' : i < k /\ IsPunch(hiQ'[i]) /\ IsPunch(hiQ'[k])
                                     => hiQ'[i].id < hiQ'[k].id
        /\ \A i \in DOMAIN hiQ' : IsPunch(hiQ'[i]) => hiQ'[i].id \in 1 .. gSess
        /\ \A i \in DOMAIN reports, k \in DOMAIN hiQ' :
             IsPunch(hiQ'[k]) => reports[i].of < hiQ'[k].id
    BY <2>1, <2>2 DEF OrderInv
  <2>5. QED
    BY <1>1, <2>3, <2>4 DEF OrderInv
<1>3. CASE LoTurn /\ r.job = Head(loQ) /\ hiQ' = hiQ
  <2>1. ~IsPunch(r.job)
    BY <1>3, Kinds DEF LoTurn
  <2>2. QED
    BY <1>1, <1>3, <2>1 DEF OrderInv
<1>4. QED
  BY <1>2, <1>3 DEF Take

\* The report of a punch comes behind all earlier ones and before all that wait.
LEMMA OrderReport ==
  ASSUME OrderInv, reports \in Seq(Reports), gSess \in Nat,
         NEW r, resQ = <<r>>, resQ' = <<>>, IsPunch(r.job), NEW sent,
         reports' = Append(reports, [of |-> r.job.id, names |-> gSess,
                                     ok |-> r.ok, sent |-> sent]),
         UNCHANGED <<hiQ, gSess>>
  PROVE  OrderInv'
<1> DEFINE n == Len(reports) + 1
<1>1. /\ DOMAIN reports' = 1 .. n /\ DOMAIN reports = 1 .. Len(reports) /\ Len(reports) \in Nat
      /\ reports'[n] = [of |-> r.job.id, names |-> gSess, ok |-> r.ok, sent |-> sent]
      /\ \A k \in DOMAIN reports : reports'[k] = reports[k]
  OBVIOUS
<1>2. reports'[n].of = r.job.id /\ reports'[n].names = gSess
  BY <1>1
<1>3. 1 \in DOMAIN resQ /\ resQ[1] = r
  OBVIOUS
<1>4. /\ r.job.id \in 1 .. gSess
      /\ \A i \in DOMAIN reports : reports[i].of < r.job.id
      /\ \A k \in DOMAIN hiQ : IsPunch(hiQ[k]) => r.job.id < hiQ[k].id
  BY <1>3 DEF OrderInv
<1>5. \A k \in DOMAIN reports' : k \in DOMAIN reports \/ k = n
  BY <1>1
<1>6. ASSUME NEW i \in DOMAIN reports', NEW k \in DOMAIN reports', i < k
      PROVE  reports'[i].of < reports'[k].of
  <2>1. i \in DOMAIN reports
    BY <1>1, <1>6
  <2>2. CASE k = n
    BY <1>1, <1>2, <1>4, <2>1, <2>2
  <2>3. CASE k \in DOMAIN reports
    BY <1>1, <1>6, <2>1, <2>3 DEF OrderInv
  <2>4. QED
    BY <1>5, <2>2, <2>3
<1>7. ASSUME NEW i \in DOMAIN reports'
      PROVE  /\ reports'[i].of \in 1 .. gSess
             /\ reports'[i].names \in reports'[i].of .. gSess
             /\ \A k \in DOMAIN hiQ : IsPunch(hiQ[k]) => reports'[i].of < hiQ[k].id
  <2>1. CASE i = n
    BY <1>2, <1>4, <2>1
  <2>2. CASE i \in DOMAIN reports
    BY <1>1, <2>2 DEF OrderInv
  <2>3. QED
    BY <1>5, <2>1, <2>2
<1>8. /\ \A i, k \in DOMAIN hiQ' : i < k /\ IsPunch(hiQ'[i]) /\ IsPunch(hiQ'[k])
                                   => hiQ'[i].id < hiQ'[k].id
      /\ \A i \in DOMAIN hiQ' : IsPunch(hiQ'[i]) => hiQ'[i].id \in 1 .. gSess'
      /\ \A d \in DOMAIN resQ' : FALSE
  BY DEF OrderInv
<1>9. QED
  BY <1>6, <1>7, <1>8 DEF OrderInv

\* The parts of OrderInv make up the order of the line.
LEMMA OrderIsInv ==
  ASSUME TypeInv, PInv
  PROVE  PunchInv
<1> DEFINE a == [k \in DOMAIN reports |-> PunchJob(reports[k].of)]
           b == [k \in DOMAIN resQ |-> resQ[k].job]
           m == Len(reports)
           n == Len(resQ)
<1>1. reports \in Seq(Reports) /\ hiQ \in Seq(AllJobs) /\ m \in Nat
  BY DEF TypeInv, WorkerOK
<1>2. a \in Seq(AllJobs) /\ Len(a) = m
  <2>1. \A k \in 1 .. m : reports[k].of \in Nat
    <3>1. \A k \in 1 .. m : reports[k] \in Reports
      BY <1>1
    <3>2. QED
      BY <3>1 DEF Reports
  <2>2. a \in [1 .. m -> AllJobs]
    BY <1>1, <2>1, Kinds
  <2>3. QED
    BY <1>1, <2>2
<1>3. b \in Seq(AllJobs) /\ Len(b) = n /\ n \in {0, 1}
  <2>1. CASE resQ = <<>>
    <3>1. n = 0 /\ b \in [1 .. 0 -> AllJobs]
      BY <2>1
    <3>2. QED
      BY <3>1
  <2>2. ASSUME NEW j \in AllJobs, NEW r \in Outcomes(j), resQ = <<r>>
        PROVE  b \in Seq(AllJobs) /\ Len(b) = n /\ n \in {0, 1}
    <3>1. n = 1 /\ b \in [1 .. 1 -> AllJobs]
      BY <2>2, OutcomeOf
    <3>2. QED
      BY <3>1
  <2>3. QED
    BY <2>1, <2>2 DEF TypeInv, WorkerOK
<1>4. /\ \A k \in 1 .. m : a[k] = PunchJob(reports[k].of)
      /\ \A k \in 1 .. n : b[k] = resQ[k].job
      /\ DOMAIN reports = 1 .. m /\ DOMAIN resQ = 1 .. n /\ DOMAIN hiQ = 1 .. Len(hiQ)
  BY <1>1, <1>3 DEF TypeInv, WorkerOK
<1>5. Line = (a \o b) \o hiQ
  BY DEF Line
<1> HIDE DEF a, b, m, n
<1>6. /\ DOMAIN Line = 1 .. m + n + Len(hiQ) /\ Len(hiQ) \in Nat
      /\ \A k \in 1 .. m : Line[k] = a[k]
      /\ \A k \in m + 1 .. m + n : Line[k] = b[k - m]
      /\ \A k \in m + n + 1 .. m + n + Len(hiQ) : Line[k] = hiQ[k - m - n]
  <2>1. a \o b \in Seq(AllJobs) /\ Len(a \o b) = m + n
        /\ (\A k \in 1 .. m : (a \o b)[k] = a[k])
        /\ (\A k \in m + 1 .. m + n : (a \o b)[k] = b[k - m])
    BY <1>1, <1>2, <1>3
  <2>2. /\ Len(Line) = m + n + Len(hiQ) /\ DOMAIN Line = 1 .. m + n + Len(hiQ)
        /\ \A k \in 1 .. m + n : Line[k] = (a \o b)[k]
        /\ \A k \in m + n + 1 .. m + n + Len(hiQ) : Line[k] = hiQ[k - (m + n)]
    BY <1>1, <1>5, <2>1
  <2>3. QED
    BY <1>1, <1>3, <2>1, <2>2
<1>7. \A k \in 1 .. m : Line[k].id = reports[k].of
  <2>1. \A k \in 1 .. m : reports[k].of \in Nat
    <3>1. \A k \in 1 .. m : reports[k] \in Reports
      BY <1>1 DEF m
    <3>2. QED
      BY <3>1 DEF Reports
  <2>2. QED
    BY <1>4, <1>6, <2>1, Kinds
<1>8. \A k \in m + 1 .. m + n : k - m \in DOMAIN resQ /\ Line[k] = resQ[k - m].job
  BY <1>1, <1>3, <1>4, <1>6
<1>9. \A k \in m + n + 1 .. m + n + Len(hiQ) : k - m - n \in DOMAIN hiQ /\ Line[k] = hiQ[k - m - n]
  BY <1>1, <1>3, <1>4, <1>6
<1>10. \A k \in DOMAIN Line : \/ k \in 1 .. m
                             \/ k \in m + 1 .. m + n
                             \/ k \in m + n + 1 .. m + n + Len(hiQ)
  BY <1>1, <1>3, <1>6
<1>11. ASSUME NEW k \in PunchPlaces PROVE Line[k].id \in 1 .. gSess
  <2>1. k \in DOMAIN Line /\ IsPunch(Line[k])
    BY DEF PunchPlaces
  <2>2. QED
    BY <1>4, <1>7, <1>8, <1>9, <1>10, <2>1 DEF PInv, OrderInv
<1>12. ASSUME NEW i \in PunchPlaces, NEW k \in PunchPlaces, i < k PROVE Line[i].id < Line[k].id
  <2>1. i \in DOMAIN Line /\ k \in DOMAIN Line /\ IsPunch(Line[i]) /\ IsPunch(Line[k])
        /\ i \in Nat /\ k \in Nat
    BY <1>1, <1>3, <1>6 DEF PunchPlaces
  <2>2. CASE i \in 1 .. m
    <3>1. CASE k \in 1 .. m
      BY <1>4, <1>7, <1>12, <2>2, <3>1 DEF PInv, OrderInv
    <3>2. CASE k \in m + 1 .. m + n
      BY <1>4, <1>7, <1>8, <2>1, <2>2, <3>2 DEF PInv, OrderInv
    <3>3. CASE k \in m + n + 1 .. m + n + Len(hiQ)
      BY <1>4, <1>7, <1>9, <2>1, <2>2, <3>3 DEF PInv, OrderInv
    <3>4. QED
      BY <1>10, <2>1, <3>1, <3>2, <3>3
  <2>3. CASE i \in m + 1 .. m + n
    <3>1. k \in m + n + 1 .. m + n + Len(hiQ)
      BY <1>1, <1>3, <1>10, <1>12, <2>1, <2>3
    <3>2. QED
      BY <1>4, <1>8, <1>9, <2>1, <2>3, <3>1 DEF PInv, OrderInv
  <2>4. CASE i \in m + n + 1 .. m + n + Len(hiQ)
    <3>1. k \in m + n + 1 .. m + n + Len(hiQ) /\ i - m - n < k - m - n
      BY <1>1, <1>3, <1>10, <1>12, <2>1, <2>4
    <3>2. QED
      BY <1>4, <1>9, <2>1, <2>4, <3>1 DEF PInv, OrderInv
  <2>5. QED
    BY <1>10, <2>1, <2>2, <2>3, <2>4
<1>13. QED
  BY <1>11, <1>12 DEF PunchInv, PInv, OrderInv

-----------------------------------------------------------------------------
(***************************************************************************)
(* The steps, one lemma each.                                              *)
(***************************************************************************)
LEMMA Start ==
  ASSUME OdInit
  PROVE  IInv
<1>1. hiQ = <<>> /\ loQ = <<>> /\ resQ = <<>> /\ at = "front" /\ reports = <<>>
  BY DEF OdInit, WorkerInit, PunchInit
<1>2. WorkerOK(AllJobs) /\ loQ \in Seq(LoLoad)
  BY <1>1, DepthAssumption DEF WorkerOK
<1>3. TypeInv
  <2>1. reports \in Seq(Reports)
    BY <1>1
  <2>2. bound \in BOOLEAN /\ mapped \in BOOLEAN /\ gSess \in Nat
    BY DEF OdInit, PunchInit
  <2>3. gId = None /\ gJob = CheckJob(None) /\ gRetried = FALSE /\ fetches = 0
    BY DEF OdInit, CheckInit, NoJob
  <2>4. CheckTypeOK
    BY <2>3 DEF CheckTypeOK
  <2>5. QED
    BY <1>2, <2>1, <2>2, <2>4 DEF TypeInv
<1>4. InFlight("checknow") = {}
  BY <1>1 DEF InFlight, JobsOf, ResultsOf
<1>5. SlotFree
  BY DEF SlotFree, OdInit, CheckInit
<1>6. PInv
  BY <1>1 DEF PInv, OrderInv, OdInit, PunchInit
<1>7. QED
  BY <1>3, <1>4, <1>5, <1>6 DEF IInv, CheckInv, SlotMatchesFlight, FetchInv

\* A check that is in flight holds the slot.
LEMMA SlotFacts ==
  ASSUME TypeInv, CheckInv
  PROVE  /\ SlotFree => Flights("checknow") = 0 /\ InFlight("checknow") = {}
         /\ ~SlotFree => gId \in Ids /\ gJob = CheckJob(gId)
         /\ NoJob.src = "checknow"
<1>1. Flights("checknow") = 0 <=> InFlight("checknow") = {}
  BY FlightsType DEF TypeInv
<1>2. QED
  BY <1>1 DEF TypeInv, CheckInv, SlotMatchesFlight, SlotFree, CheckTypeOK, NoJob, CheckJob

\* Steps that keep the slot and the flights of checks.
LEMMA SlotKept ==
  ASSUME CheckInv, UNCHANGED <<gId, gJob>>,
         Flights("checknow")' = Flights("checknow"), InFlight("checknow")' = InFlight("checknow"),
         FetchInv'
  PROVE  CheckInv'
BY DEF CheckInv, SlotMatchesFlight, SlotFree

LEMMA CheckCmdKeeps ==
  ASSUME IInv, CheckCmd
  PROVE  IInv'
<1>1. PICK id \in Ids : OnCmd(id)
  BY DEF CheckCmd
<1>2. /\ InHandler /\ SlotFree /\ EnqueueHi(CheckJob(id)) /\ FillSlot(id)
      /\ UNCHANGED <<bound, gSess, mapped, reports>>
  BY <1>1 DEF CheckCmd, OnCmd, punchVars
<1>3. /\ WorkerOK(AllJobs) /\ TypeInv /\ CheckInv /\ OrderInv /\ (mapped => bound)
      /\ hiQ \in Seq(AllJobs) /\ loQ \in Seq(LoLoad) /\ gSess \in Nat
  BY DEF IInv, TypeInv, WorkerOK, PInv
<1>4. at = "front" /\ at' = at /\ resQ = <<>> /\ resQ' = <<>>
  BY <1>2, <1>3 DEF InHandler, WorkerOK
<1>5. CheckJob(id).src = "checknow" /\ CheckJob(id) \in AllJobs /\ id # None
  BY <1>1, Kinds, CheckAssumption
<1>6. CASE CanEnqueueHi
  <2>1. /\ WorkerOK(AllJobs)'
        /\ Flights("checknow")' = Flights("checknow") + One(CheckJob(id), "checknow")
        /\ InFlight("checknow")' = InFlight("checknow") \cup Own(CheckJob(id), "checknow")
    BY <1>2, <1>3, <1>5, <1>6, HandlerPush
  <2>2. hiQ' = Append(hiQ, CheckJob(id)) /\ loQ' = loQ
    BY <1>2, <1>6 DEF EnqueueHi, CanEnqueueHi, Pushed
  <2>3. /\ gId' = id /\ gJob' = CheckJob(id) /\ gRetried' = FALSE /\ fetches' = 0
    BY <1>2, <1>6 DEF FillSlot, Taken
  <2>4. TypeInv'
    BY <1>1, <1>2, <1>3, <2>1, <2>2, <2>3 DEF TypeInv, CheckTypeOK
  <2>5. Flights("checknow")' = 1 /\ InFlight("checknow")' = {CheckJob(id)}
    BY <1>2, <1>3, <1>5, <2>1, SlotFacts DEF One, Own
  <2>6. CheckInv'
    BY <1>4, <1>5, <2>3, <2>5 DEF CheckInv, SlotMatchesFlight, SlotFree, FetchInv, Fetched
  <2>7. ~IsPunch(CheckJob(id))
    BY <1>5 DEF IsPunch
  <2>8. OrderInv'
    BY <1>2, <1>3, <1>4, <1>5, <2>2, <2>7, OrderKept
  <2>9. QED
    BY <1>2, <1>3, <2>4, <2>6, <2>8 DEF IInv, PInv
<1>7. CASE ~CanEnqueueHi
  <2>1. hiQ' = hiQ /\ loQ' = loQ /\ UNCHANGED <<gId, gJob, gRetried, fetches>>
    BY <1>2, <1>7, EnqueueRefused DEF FillSlot, queueVars
  <2>2. /\ WorkerOK(AllJobs)' /\ Flights("checknow")' = Flights("checknow")
        /\ InFlight("checknow")' = InFlight("checknow")
    BY <1>3, <1>4, <2>1, RingsKept
  <2>3. TypeInv'
    BY <1>2, <1>3, <2>1, <2>2 DEF TypeInv, CheckTypeOK
  <2>4. FetchInv'
    BY <1>3, <1>4, <2>1 DEF CheckInv, FetchInv, Fetched, SlotFree
  <2>5. OrderInv'
    BY <1>2, <1>3, <1>4, <2>1, OrderKept
  <2>6. QED
    BY <1>2, <1>3, <2>1, <2>2, <2>3, <2>4, <2>5, SlotKept DEF IInv, PInv
<1>8. QED
  BY <1>6, <1>7

LEMMA PunchCmdKeeps ==
  ASSUME IInv, PunchCmd
  PROVE  IInv'
<1>1. /\ WorkerOK(AllJobs) /\ TypeInv /\ CheckInv /\ OrderInv /\ (mapped => bound)
      /\ hiQ \in Seq(AllJobs) /\ loQ \in Seq(LoLoad) /\ gSess \in Nat
  BY DEF IInv, TypeInv, WorkerOK, PInv
<1>2. /\ InHandler /\ UNCHANGED <<gId, gJob, gRetried, fetches>>
      /\ UNCHANGED <<bound, mapped, reports>>
  BY DEF PunchCmd, OnStun, OnPunch, punchVars, checkVars
<1>3. at = "front" /\ at' = at /\ resQ = <<>> /\ resQ' = <<>>
  BY <1>1, <1>2 DEF InHandler, WorkerOK
<1>4. FetchInv'
  BY <1>1, <1>2, <1>3 DEF CheckInv, FetchInv, Fetched, SlotFree
<1>5. /\ gSess' \in Nat /\ gSess' >= gSess
      /\ \/ UNCHANGED queueVars
         \/ EnqueueHi(StunJob)
         \/ EnqueueHi(PunchJob(gSess + 1)) /\ gSess' = gSess + 1
  BY <1>1 DEF PunchCmd, OnStun, OnPunch, punchVars
<1>6. ASSUME UNCHANGED <<hiQ, loQ>>
      PROVE  IInv'
  <2>1. /\ WorkerOK(AllJobs)' /\ Flights("checknow")' = Flights("checknow")
        /\ InFlight("checknow")' = InFlight("checknow")
    BY <1>1, <1>3, <1>6, RingsKept
  <2>2. TypeInv'
    BY <1>1, <1>2, <1>5, <1>6, <2>1 DEF TypeInv, CheckTypeOK
  <2>3. OrderInv'
    BY <1>1, <1>2, <1>3, <1>5, <1>6, OrderKept
  <2>4. QED
    BY <1>1, <1>2, <1>4, <2>1, <2>2, <2>3, SlotKept DEF IInv, PInv
<1>7. ASSUME NEW j \in AllJobs, j.src = "punch", EnqueueHi(j), CanEnqueueHi,
             IsPunch(j) => j.id = gSess + 1 /\ gSess' = gSess + 1
      PROVE  IInv'
  <2>1. hiQ' = Append(hiQ, j) /\ loQ' = loQ
    BY <1>7 DEF EnqueueHi, CanEnqueueHi, Pushed
  <2>2. /\ WorkerOK(AllJobs)' /\ Flights("checknow")' = Flights("checknow")
        /\ InFlight("checknow")' = InFlight("checknow")
    <3>1. One(j, "checknow") = 0 /\ Own(j, "checknow") = {}
      BY <1>7 DEF One, Own
    <3>2. /\ WorkerOK(AllJobs)'
          /\ Flights("checknow")' = Flights("checknow") + One(j, "checknow")
          /\ InFlight("checknow")' = InFlight("checknow") \cup Own(j, "checknow")
      BY <1>1, <1>2, <1>7, HandlerPush
    <3>3. Flights("checknow") \in Nat
      BY <1>1, FlightsType
    <3>4. QED
      BY <3>1, <3>2, <3>3
  <2>3. TypeInv'
    BY <1>1, <1>2, <1>5, <2>1, <2>2 DEF TypeInv, CheckTypeOK
  <2>4. IsPunch(j) => j.id \in gSess + 1 .. gSess'
    BY <1>1, <1>5, <1>7
  <2>5. OrderInv'
    BY <1>1, <1>2, <1>3, <1>5, <1>7, <2>1, <2>4, OrderKept
  <2>6. QED
    BY <1>1, <1>2, <1>4, <2>2, <2>3, <2>5, SlotKept DEF IInv, PInv
<1>8. CASE CanEnqueueHi
  <2>1. CASE EnqueueHi(StunJob)
    BY <1>7, <1>8, <2>1, Kinds
  <2>2. CASE EnqueueHi(PunchJob(gSess + 1)) /\ gSess' = gSess + 1
    <3>1. gSess + 1 \in Nat
      BY <1>1
    <3>2. QED
      BY <1>7, <1>8, <2>2, <3>1, Kinds
  <2>3. QED
    BY <1>5, <1>6, <2>1, <2>2 DEF queueVars
<1>9. CASE ~CanEnqueueHi
  <2>1. UNCHANGED queueVars
    BY <1>5, <1>9, EnqueueRefused
  <2>2. QED
    BY <1>6, <2>1 DEF queueVars
<1>10. QED
  BY <1>8, <1>9

\* Steps that leave checks and punches alone.
LEMMA ElsewhereKeeps ==
  ASSUME IInv, UNCHANGED <<checkVars, punchVars>>,
         WorkerOK(AllJobs)', loQ' \in Seq(LoLoad),
         Flights("checknow")' = Flights("checknow"), InFlight("checknow")' = InFlight("checknow"),
         OrderInv', SlotFree \/ Fetched' = Fetched
  PROVE  IInv'
<1>1. UNCHANGED <<gId, gJob, gRetried, fetches, bound, gSess, mapped, reports>>
  BY DEF checkVars, punchVars
<1>2. TypeInv'
  BY <1>1 DEF IInv, TypeInv, CheckTypeOK
<1>3. FetchInv'
  BY <1>1 DEF IInv, CheckInv, FetchInv, SlotFree
<1>4. QED
  BY <1>1, <1>2, <1>3, SlotKept DEF IInv, PInv

\* Where the rings stand still: the end of a turn, the gate, terminal sessions.
LEMMA StillKeeps ==
  ASSUME IInv, UNCHANGED <<hiQ, loQ, resQ>>, UNCHANGED <<checkVars, punchVars>>,
         at' = at \/ (resQ = <<>> /\ at' \in {"front", "poll"})
  PROVE  IInv'
<1>1. /\ WorkerOK(AllJobs)' /\ Flights("checknow")' = Flights("checknow")
      /\ InFlight("checknow")' = InFlight("checknow")
  BY RingsKept DEF IInv, TypeInv
<1>2. UNCHANGED <<gSess, reports>> /\ OrderInv
  BY DEF punchVars, IInv, PInv
<1>3. OrderInv'
  BY <1>2 DEF OrderInv
<1>4. Fetched' = Fetched /\ loQ' \in Seq(LoLoad)
  BY DEF Fetched, IInv, TypeInv
<1>5. QED
  BY <1>1, <1>3, <1>4, ElsewhereKeeps

LEMMA RunOneKeeps ==
  ASSUME IInv, RunOne
  PROVE  IInv'
<1>1. PICK r : RunJob(r) /\ CountFetch(r) /\ PunchExec(r)
  BY DEF RunOne
<1>2. /\ WorkerOK(AllJobs) /\ CheckInv /\ OrderInv /\ (mapped => bound)
      /\ hiQ \in Seq(AllJobs) /\ loQ \in Seq(LoLoad) /\ bound \in BOOLEAN /\ mapped \in BOOLEAN
      /\ CheckTypeOK /\ gSess \in Nat /\ reports \in Seq(Reports)
  BY DEF IInv, TypeInv, WorkerOK, PInv
<1>3. /\ WorkerOK(AllJobs)' /\ resQ' = <<r>> /\ r.job \in AllJobs
      /\ Flights("checknow")' = Flights("checknow")
      /\ InFlight("checknow")' = InFlight("checknow")
  BY <1>1, <1>2, RunCounts
<1>4. resQ = <<>> /\ Take(r.job) /\ r \in Outcomes(r.job)
  BY <1>1, <1>2 DEF RunJob, WorkerOK
<1>5. UNCHANGED <<gId, gJob, gRetried, gSess, reports>>
  BY <1>1 DEF CountFetch, PunchExec
<1>6. loQ' \in Seq(LoLoad)
  <2>1. loQ # <<>> => Tail(loQ) \in Seq(LoLoad)
    BY <1>2
  <2>2. QED
    BY <1>2, <1>4, <2>1 DEF Take, LoTurn
<1>7. FetchInv'
  <2>1. ~SlotFree => fetches = 0
    BY <1>2, <1>4 DEF CheckInv, FetchInv, Fetched
  <2>2. Fetched' <=> r.job.src = "checknow" /\ Ran(r)
    BY <1>3 DEF Fetched
  <2>3. fetches' = IF r.job.src = "checknow" /\ Ran(r) THEN fetches + 1 ELSE fetches
    BY <1>1 DEF CountFetch
  <2>4. QED
    BY <1>5, <2>1, <2>2, <2>3 DEF FetchInv, SlotFree
<1>8. CheckInv'
  BY <1>2, <1>3, <1>5, <1>7, SlotKept
<1>9. OrderInv'
  BY <1>2, <1>3, <1>4, <1>5, OrderRun
<1>10. bound' \in BOOLEAN /\ mapped' \in BOOLEAN /\ (mapped' => bound')
  <2>1. r.ok \in BOOLEAN
    BY <1>4, OutcomeOf
  <2>2. CASE ~Ran(r)
    BY <1>1, <1>2, <2>2 DEF PunchExec
  <2>3. CASE Ran(r) /\ r.job.kind = "stun"
    BY <1>1, <1>2, <2>1, <2>3 DEF PunchExec, ExecStun
  <2>4. CASE Ran(r) /\ r.job.kind = "punch"
    BY <1>1, <1>2, <2>1, <2>4 DEF PunchExec, ExecPunch
  <2>5. CASE Ran(r) /\ r.job.kind \notin {"stun", "punch"}
    BY <1>1, <1>2, <2>5 DEF PunchExec
  <2>6. QED
    BY <2>2, <2>3, <2>4, <2>5
<1>11. CheckTypeOK'
  BY <1>1, <1>2, <1>5 DEF CheckTypeOK, CountFetch
<1>12. QED
  BY <1>2, <1>3, <1>5, <1>6, <1>8, <1>9, <1>10, <1>11 DEF IInv, TypeInv, PInv

LEMMA WorkKeeps ==
  ASSUME IInv, Work
  PROVE  IInv'
<1>1. CASE RunOne
  BY <1>1, RunOneKeeps
<1>2. CASE IdleTick /\ UNCHANGED <<checkVars, punchVars>>
  <2>1. resQ = <<>> /\ at' = "poll" /\ UNCHANGED <<hiQ, loQ, resQ>>
    BY <1>2 DEF IdleTick, IInv, TypeInv, WorkerOK
  <2>2. QED
    BY <1>2, <2>1, StillKeeps
<1>3. CASE EndPoll /\ UNCHANGED <<checkVars, punchVars>>
  <2>1. resQ = <<>> /\ at' = "front" /\ UNCHANGED <<hiQ, loQ, resQ>>
    BY <1>3 DEF EndPoll, PollDone
  <2>2. QED
    BY <1>3, <2>1, StillKeeps
<1>4. QED
  BY <1>1, <1>2, <1>3 DEF Work

\* The result of a check.
LEMMA CheckResultKeeps ==
  ASSUME IInv, NEW r, Poll(r), r.job.src = "checknow", OnCheckResult(r), UNCHANGED punchVars
  PROVE  IInv'
<1>1. /\ WorkerOK(AllJobs) /\ TypeInv /\ CheckInv /\ OrderInv /\ (mapped => bound)
      /\ hiQ \in Seq(AllJobs) /\ loQ \in Seq(LoLoad) /\ gSess \in Nat
      /\ UNCHANGED <<bound, gSess, mapped, reports>>
  BY DEF IInv, TypeInv, WorkerOK, PInv, punchVars
<1>2. /\ resQ = <<r>> /\ resQ' = <<>> /\ at' = at
      /\ r.job \in AllJobs /\ r \in Outcomes(r.job)
  BY <1>1, PollGives
<1>3. /\ hiQ' = hiQ /\ loQ' = loQ => /\ WorkerOK(AllJobs)'
                                   /\ Flights("checknow") = Flights("checknow")' + 1
                                   /\ InFlight("checknow") = InFlight("checknow")' \cup {r.job}
  <2>1. One(r.job, "checknow") = 1 /\ Own(r.job, "checknow") = {r.job}
    BY DEF One, Own
  <2>2. QED
    BY <1>1, <2>1, PollOnly DEF queueVars
<1>4. r.job \in InFlight("checknow")
  <2>1. ResultJobs(resQ, "checknow") = Own(r.job, "checknow")
    BY <1>2, ResultCounts
  <2>2. QED
    BY <2>1, FlightsAre DEF Own
<1>5. /\ ~SlotFree /\ gId \in Ids /\ gJob = CheckJob(gId)
      /\ InFlight("checknow") = {CheckJob(gId)} /\ Flights("checknow") = 1 /\ r.job = CheckJob(gId)
  BY <1>1, <1>4, SlotFacts DEF CheckInv, SlotMatchesFlight
<1>6. ~Fetched' /\ (Fetched <=> Ran(r))
  BY <1>2 DEF Fetched
<1>7. CASE Retries(r)
  <2>1. /\ EnqueueHi(gJob) /\ CanEnqueueHi /\ gRetried' = TRUE /\ UNCHANGED <<gId, gJob, fetches>>
        /\ r.deferred
    BY <1>5, <1>7 DEF OnCheckResult, Retries
  <2>2. gJob \in AllJobs /\ gJob.src = "checknow"
    BY <1>5, Kinds
  <2>3. /\ WorkerOK(AllJobs)'
        /\ Flights("checknow")' + One(r.job, "checknow") = Flights("checknow") + One(gJob, "checknow")
        /\ InFlight("checknow") = Queued("checknow") \cup Own(r.job, "checknow")
        /\ InFlight("checknow")' = Queued("checknow") \cup Own(gJob, "checknow")
    BY <1>1, <2>1, <2>2, PollAndPush
  <2>4. Flights("checknow")' \in Nat
    BY <2>3, FlightsTypeNext
  <2>5. Flights("checknow")' = 1 /\ InFlight("checknow")' = {CheckJob(gId)}
    BY <1>5, <2>2, <2>3, <2>4 DEF One, Own
  <2>6. fetches = 0
    BY <1>1, <1>5, <1>6, <2>1 DEF CheckInv, FetchInv, Ran
  <2>7. CheckInv'
    BY <1>5, <1>6, <2>1, <2>5, <2>6 DEF CheckInv, SlotMatchesFlight, SlotFree, FetchInv
  <2>8. hiQ' = Append(hiQ, gJob) /\ loQ' = loQ /\ ~IsPunch(gJob)
    BY <2>1, <2>2 DEF EnqueueHi, CanEnqueueHi, Pushed, IsPunch
  <2>9. OrderInv'
    BY <1>1, <1>2, <2>2, <2>8, OrderKept
  <2>10. TypeInv'
    BY <1>1, <2>1, <2>3, <2>8 DEF TypeInv, CheckTypeOK
  <2>11. QED
    BY <1>1, <2>7, <2>9, <2>10 DEF IInv, PInv
<1>8. CASE ~Retries(r)
  <2>1. gId' = None /\ hiQ' = hiQ /\ loQ' = loQ /\ UNCHANGED <<gJob, gRetried, fetches>>
    BY <1>5, <1>8 DEF OnCheckResult, queueVars, checkVars
  <2>2. WorkerOK(AllJobs)' /\ Flights("checknow")' + 1 = 1
    BY <1>3, <1>5, <2>1
  <2>3. Flights("checknow")' \in Nat /\ (Flights("checknow")' = 0 <=> InFlight("checknow")' = {})
    BY <2>2, FlightsTypeNext
  <2>4. SlotFree' /\ InFlight("checknow")' = {}
    BY <2>1, <2>2, <2>3 DEF SlotFree
  <2>5. CheckInv'
    BY <2>4 DEF CheckInv, SlotMatchesFlight, FetchInv
  <2>6. OrderInv'
    BY <1>1, <1>2, <2>1, OrderKept
  <2>7. TypeInv'
    BY <1>1, <2>1, <2>2 DEF TypeInv, CheckTypeOK
  <2>8. QED
    BY <1>1, <2>5, <2>6, <2>7 DEF IInv, PInv
<1>9. QED
  BY <1>7, <1>8

\* The result of a STUN or a punch.
LEMMA PunchResultKeeps ==
  ASSUME IInv, NEW r, Poll(r), r.job.src = "punch", OnPunchResult(r),
         UNCHANGED <<queueVars, checkVars>>
  PROVE  IInv'
<1>1. /\ WorkerOK(AllJobs) /\ TypeInv /\ CheckInv /\ OrderInv /\ (mapped => bound)
      /\ hiQ' = hiQ /\ loQ' = loQ /\ gSess \in Nat /\ reports \in Seq(Reports)
      /\ UNCHANGED <<gId, gJob, gRetried, fetches, bound, gSess, mapped>>
      /\ hiQ \in Seq(AllJobs) /\ loQ \in Seq(LoLoad)
  BY DEF IInv, TypeInv, WorkerOK, PInv, queueVars, checkVars, OnPunchResult
<1>2. /\ resQ = <<r>> /\ resQ' = <<>> /\ at' = at
      /\ r.job \in AllJobs /\ r \in Outcomes(r.job)
  BY <1>1, PollGives
<1>3. WorkerOK(AllJobs)' /\ Flights("checknow")' = Flights("checknow")
      /\ InFlight("checknow")' = InFlight("checknow")
  <2>1. One(r.job, "checknow") = 0 /\ Own(r.job, "checknow") = {}
    BY DEF One, Own
  <2>2. /\ WorkerOK(AllJobs)'
        /\ Flights("checknow") = Flights("checknow")' + One(r.job, "checknow")
        /\ InFlight("checknow") = InFlight("checknow")' \cup Own(r.job, "checknow")
    BY <1>1, PollOnly
  <2>3. Flights("checknow")' \in Nat
    BY <2>2, FlightsTypeNext
  <2>4. QED
    BY <2>1, <2>2, <2>3
<1>4. FetchInv'
  <2>1. ~Fetched /\ ~Fetched'
    BY <1>2 DEF Fetched
  <2>2. QED
    BY <1>1, <2>1 DEF CheckInv, FetchInv, SlotFree
<1>5. CheckInv'
  BY <1>1, <1>3, <1>4, SlotKept
<1>6. CASE Reported(r)
  <2>1. IsPunch(r.job)
    BY <1>6 DEF Reported, IsPunch
  <2>2. PICK sent \in BOOLEAN :
          reports' = Append(reports, [of |-> r.job.id, names |-> gSess,
                                      ok |-> r.ok, sent |-> sent])
    BY <1>6 DEF OnPunchResult
  <2>3. OrderInv'
    BY <1>1, <1>2, <2>1, <2>2, OrderReport
  <2>4. r.job.id \in Nat /\ r.ok \in BOOLEAN
    BY <1>2, <2>1, Kinds, OutcomeOf
  <2>5. reports' \in Seq(Reports)
    <3>1. [of |-> r.job.id, names |-> gSess, ok |-> r.ok, sent |-> sent] \in Reports
      BY <1>1, <2>4 DEF Reports
    <3>2. QED
      BY <1>1, <2>2, <3>1
  <2>6. TypeInv'
    BY <1>1, <1>3, <2>5 DEF TypeInv, CheckTypeOK
  <2>7. QED
    BY <1>1, <1>5, <2>3, <2>6 DEF IInv, PInv
<1>7. CASE ~Reported(r)
  <2>1. reports' = reports
    BY <1>7 DEF OnPunchResult
  <2>2. OrderInv'
    BY <1>1, <1>2, <2>1, OrderKept
  <2>3. TypeInv'
    BY <1>1, <1>3, <2>1 DEF TypeInv, CheckTypeOK
  <2>4. QED
    BY <1>1, <1>5, <2>1, <2>2, <2>3 DEF IInv, PInv
<1>8. QED
  BY <1>6, <1>7

\* What the other clients do with the rings.
LEMMA OthersKeepOrder ==
  ASSUME IInv, OthersSubmit(HiLoad, LoLoad) \/ OthersHandle(HiLoad, LoLoad),
         UNCHANGED <<checkVars, punchVars>>
  PROVE  IInv'
<1>1. /\ WorkerOK(AllJobs) /\ OrderInv /\ gSess \in Nat
      /\ hiQ \in Seq(AllJobs) /\ loQ \in Seq(LoLoad) /\ UNCHANGED <<gSess, reports>>
  BY DEF IInv, TypeInv, WorkerOK, PInv, punchVars
<1>2. /\ WorkerOK(AllJobs)' /\ Flights("checknow")' = Flights("checknow")
      /\ InFlight("checknow")' = InFlight("checknow")
  BY <1>1, Kinds, OthersKeep
<1>3. resQ' = resQ \/ resQ' = <<>>
  <2>1. CASE OthersSubmit(HiLoad, LoLoad)
    BY <2>1 DEF OthersSubmit, InHandler
  <2>2. CASE OthersHandle(HiLoad, LoLoad)
    <3>1. PICK r : Poll(r)
      BY <2>2 DEF OthersHandle
    <3>2. QED
      BY <1>1, <3>1, PollGives
  <2>3. QED
    BY <2>1, <2>2
<1>4. /\ \/ hiQ' = hiQ
         \/ \E j \in HiLoad : hiQ' = Append(hiQ, j)
      /\ loQ' \in Seq(LoLoad)
  <2>1. CASE UNCHANGED queueVars
    BY <1>1, <2>1 DEF queueVars
  <2>2. ASSUME NEW j \in HiLoad, EnqueueHi(j)
        PROVE  loQ' = loQ /\ hiQ' \in {hiQ, Append(hiQ, j)}
    BY <2>2 DEF EnqueueHi, Pushed
  <2>3. ASSUME NEW j \in LoLoad, EnqueueLo(j)
        PROVE  hiQ' = hiQ /\ loQ' \in Seq(LoLoad)
    <3>1. hiQ' = hiQ /\ loQ' \in {loQ, Append(loQ, j)}
      BY <2>3 DEF EnqueueLo, Pushed
    <3>2. Append(loQ, j) \in Seq(LoLoad)
      BY <1>1
    <3>3. QED
      BY <1>1, <3>1, <3>2
  <2>4. CASE OthersEnqueue(HiLoad, LoLoad)
    BY <1>1, <2>2, <2>3, <2>4 DEF OthersEnqueue
  <2>5. QED
    BY <2>1, <2>4 DEF OthersSubmit, OthersHandle
<1>5. OrderInv'
  BY <1>1, <1>3, <1>4, Kinds, OrderKept
<1>6. SlotFree \/ Fetched' = Fetched
  <2>1. CASE resQ' = resQ
    BY <2>1 DEF Fetched
  <2>2. CASE OthersHandle(HiLoad, LoLoad)
    <3>1. PICK j \in HiLoad \cup LoLoad : \E r \in Outcomes(j) : Poll(r)
      BY <2>2 DEF OthersHandle
    <3>2. PICK r \in Outcomes(j) : Poll(r)
      BY <3>1
    <3>3. resQ = <<r>> /\ resQ' = <<>>
      BY <1>1, <3>2, PollGives
    <3>4. r.job.src # "checknow"
      BY <3>1, <3>2, OutcomeOf, Kinds
    <3>5. QED
      BY <3>3, <3>4 DEF Fetched
  <2>3. QED
    BY <2>1, <2>2 DEF OthersSubmit, InHandler
<1>7. QED
  BY <1>2, <1>4, <1>5, <1>6, ElsewhereKeeps

LEMMA DispatchKeeps ==
  ASSUME IInv, Dispatch
  PROVE  IInv'
<1>1. ASSUME NEW r, OnNetResult(r) PROVE IInv'
  BY <1>1, CheckResultKeeps, PunchResultKeeps DEF OnNetResult
<1>2. QED
  BY <1>1, OthersKeepOrder DEF Dispatch

LEMMA NextKeeps ==
  ASSUME IInv, [OdNext]_vars
  PROVE  IInv'
<1>1. CASE CheckCmd
  BY <1>1, CheckCmdKeeps
<1>2. CASE PunchCmd
  BY <1>2, PunchCmdKeeps
<1>3. CASE TunnelMoves
  BY <1>3, StillKeeps DEF TunnelMoves, InHandler, queueVars
<1>4. CASE Work
  BY <1>4, WorkKeeps
<1>5. CASE Dispatch
  BY <1>5, DispatchKeeps
<1>6. CASE Others
  <2>1. CASE OthersSubmit(HiLoad, LoLoad)
    BY <1>6, <2>1, OthersKeepOrder DEF Others
  <2>2. CASE GateExpires
    BY <1>6, <2>2, StillKeeps DEF Others, GateExpires
  <2>3. QED
    BY <1>6, <2>1, <2>2 DEF Others
<1>7. CASE UNCHANGED vars
  <2>1. UNCHANGED <<hiQ, loQ, resQ>> /\ UNCHANGED <<checkVars, punchVars>> /\ at' = at
    BY <1>7 DEF vars, workerVars
  <2>2. QED
    BY <2>1, StillKeeps
<1>8. QED
  BY <1>1, <1>2, <1>3, <1>4, <1>5, <1>6, <1>7 DEF OdNext

\* checknow.cpp and punch.cpp on the worker: whatever the BE and the other clients do,
\* in rings of any size, the check in the slot has exactly one job or result with the
\* worker, its own, and a free slot has none; its URL is fetched once at most; and every
\* punch is queued and reported once at most, in order, over a port that was bound.
THEOREM OnDemandInv == OdSpec => []OdInv
<1>1. OdInit => IInv
  BY Start
<1>2. IInv /\ [OdNext]_vars => IInv'
  BY NextKeeps
<1>3. IInv => OdInv
  <2> SUFFICES ASSUME IInv PROVE OdInv
    OBVIOUS
  <2>1. TypeInv /\ CheckInv /\ PInv
    BY DEF IInv
  <2>2. PunchInv
    BY <2>1, OrderIsInv
  <2>3. QueuesFit
    <3>1. resQ = <<>> \/ \E r : resQ = <<r>>
      BY <2>1 DEF TypeInv, WorkerOK
    <3>2. Len(resQ) \in {0, 1}
      <4>1. \A r : Len(<<r>>) = 1
        OBVIOUS
      <4>2. Len(<<>>) = 0
        OBVIOUS
      <4>3. QED
        BY <3>1, <4>1, <4>2
    <3>3. Len(resQ) <= ResQDepth
      BY <3>2, DepthAssumption
    <3>4. QED
      BY <2>1, <3>3 DEF TypeInv, WorkerOK, QueuesFit
  <2>4. FetchedOnceAtMost
    BY <2>1 DEF CheckInv, FetchInv, FetchedOnceAtMost
  <2>5. QED
    BY <2>1, <2>2, <2>3, <2>4 DEF OdInv, TypeInv, CheckInv
<1>4. QED
  BY <1>1, <1>2, <1>3, PTL DEF OdSpec
=============================================================================

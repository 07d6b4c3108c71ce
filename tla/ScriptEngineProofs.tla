------------------------- MODULE ScriptEngineProofs --------------------------
(***************************************************************************)
(* The script engine, for any lists of scripts, any number of places for   *)
(* awaits and rings of any size: a suspended script waits for its own job, *)
(* a step ends once, and a script resumes in the program it stopped in.    *)
(***************************************************************************)
EXTENDS ScriptEngine, WorkerProofs, WellFoundedInduction

ScriptJobs == [src : {"script"}, kind : {"fetch"}, tok : Nat, script : STRING, step : Nat]
AllJobs == ScriptJobs \cup HiLoad \cup LoLoad

(***************************************************************************)
(* Slots.                                                                  *)
(***************************************************************************)
ScriptSlots == [id : STRING, steps : Seq({"net", "inline"}), cool : SUBSET Nat]
SlotsOK(q) == /\ q \in Seq(ScriptSlots)
              /\ \A p \in DOMAIN q : q[p].cool \subseteq DOMAIN q[p].steps

\* Only cooldowns differ.
SameIn(q1, q2) == /\ DOMAIN q1 = DOMAIN q2
                  /\ \A p \in DOMAIN q1 : q2[p].id = q1[p].id /\ q2[p].steps = q1[p].steps

\* Found and FirstSlot in slots q.
FoundIn(q, s) == {p \in DOMAIN q : q[p].id = s /\ q[p].steps # <<>>}
FirstIn(q, s) == CHOOSE p \in FoundIn(q, s) : \A m \in FoundIn(q, s) : p <= m
Resumes(q, a) == FoundIn(q, a.script) # {} /\ q[FirstIn(q, a.script)].steps = a.steps

(***************************************************************************)
(* Awaits A and jobs F of scripts with the worker.                         *)
(***************************************************************************)
Paired(F, A) == \A a \in A : /\ {j \in F : j.tok = a.tok} = {ScriptJob(a)}
                             /\ \A b \in A : b.script = a.script => b = a
AwaitOK(a, n) == a.tok \in 1 .. n /\ a.step \in Nat \ {0} /\ a.script \in STRING
AwaitsOK(A, n) == /\ IsFiniteSet(A) /\ Cardinality(A) <= MaxScripts
                  /\ \A a \in A : AwaitOK(a, n)
Known(F, n) == \A j \in F : j.tok \in 1 .. n

TypeInv == /\ WorkerOK(AllJobs)
           /\ SlotsOK(data) /\ SlotsOK(user)
           /\ seq \in Nat
           /\ AwaitsOK(awaits, seq)
           /\ ended \subseteq 1 .. seq
           /\ Known(InFlight("script"), seq)

PairInv == Paired(InFlight("script"), awaits)
ResumeInv == \A a \in awaits : Resumes(scripts, a)

IInv == TypeInv /\ PairInv /\ EndsOnce /\ ResumeInv

-----------------------------------------------------------------------------
LEMMA Kinds ==
  /\ ScriptJobs \cup HiLoad \cup LoLoad \subseteq AllJobs
  /\ \A j \in HiLoad \cup LoLoad : j.src # "script"
  /\ \A j \in ScriptJobs : j.src = "script"
BY ScriptAssumption DEF AllJobs, ScriptJobs

\* A set of numbers that is not empty has a least member.
LEMMA Least ==
  ASSUME NEW S, S \subseteq Nat, S # {}
  PROVE  \E x \in S : \A y \in S : x <= y
<1> DEFINE R == {ss \in Nat \X Nat : ss[1] < ss[2]}
<1>1. IsWellFoundedOn(R, Nat)
  BY NatLessThanWellFounded DEF OpToRel
<1> HIDE DEF R
<1>2. \E x \in S : \A y \in S : ~(<<y, x>> \in R)
  BY <1>1, WFMin, Zenon
<1>3. PICK x \in S : \A y \in S : ~(<<y, x>> \in R)
  BY <1>2
<1>4. ASSUME NEW y \in S
      PROVE  x <= y
  <2>1. x \in Nat /\ y \in Nat
    OBVIOUS
  <2>2. ~(y < x)
    BY <1>3, <2>1 DEF R
  <2>3. QED
    BY <2>1, <2>2
<1>5. QED
  BY <1>4

LEMMA FirstFound ==
  ASSUME NEW q, SlotsOK(q), NEW s, FoundIn(q, s) # {}
  PROVE  /\ FirstIn(q, s) \in DOMAIN q /\ FirstIn(q, s) \in Nat \ {0}
         /\ q[FirstIn(q, s)].id = s
<1>1. DOMAIN q = 1 .. Len(q) /\ Len(q) \in Nat
  BY DEF SlotsOK
<1>2. FoundIn(q, s) \subseteq DOMAIN q
  BY DEF FoundIn
<1>3. \E x \in FoundIn(q, s) : \A y \in FoundIn(q, s) : x <= y
  <2>1. FoundIn(q, s) \subseteq Nat
    BY <1>1, <1>2
  <2>2. QED
    BY <2>1, Least
<1>4. FirstIn(q, s) \in FoundIn(q, s)
  BY <1>3 DEF FirstIn
<1>5. QED
  BY <1>1, <1>2, <1>4 DEF FoundIn

LEMMA ResumesKept ==
  ASSUME NEW q1, NEW q2, SameIn(q1, q2), SlotsOK(q1), NEW a, Resumes(q1, a)
  PROVE  Resumes(q2, a)
<1>1. FoundIn(q2, a.script) = FoundIn(q1, a.script)
  BY DEF SameIn, FoundIn
<1>2. FirstIn(q2, a.script) = FirstIn(q1, a.script)
  BY <1>1 DEF FirstIn
<1>3. FirstIn(q1, a.script) \in DOMAIN q1
  BY FirstFound DEF Resumes
<1>4. QED
  BY <1>1, <1>2, <1>3 DEF Resumes, SameIn

\* The BE's slots and the user's behind them.
LEMMA Behind ==
  ASSUME NEW d, NEW u, SlotsOK(d), SlotsOK(u)
  PROVE  /\ SlotsOK(d \o u)
         /\ DOMAIN (d \o u) = 1 .. Len(d) + Len(u)
         /\ \A p \in DOMAIN (d \o u) :
              /\ p \in Nat \ {0}
              /\ p <= Len(d) => p \in DOMAIN d /\ (d \o u)[p] = d[p]
              /\ ~(p <= Len(d)) => p - Len(d) \in DOMAIN u /\ (d \o u)[p] = u[p - Len(d)]
<1>1. d \in Seq(ScriptSlots) /\ u \in Seq(ScriptSlots)
  BY DEF SlotsOK
<1>2. /\ d \o u \in Seq(ScriptSlots) /\ Len(d \o u) = Len(d) + Len(u)
      /\ Len(d) \in Nat /\ Len(u) \in Nat
      /\ DOMAIN d = 1 .. Len(d) /\ DOMAIN u = 1 .. Len(u)
  BY <1>1
<1>3. DOMAIN (d \o u) = 1 .. Len(d) + Len(u)
  BY <1>2
<1>4. ASSUME NEW p \in 1 .. Len(d) + Len(u)
      PROVE  /\ p \in Nat \ {0}
             /\ p <= Len(d) => p \in DOMAIN d /\ (d \o u)[p] = d[p]
             /\ ~(p <= Len(d)) => p - Len(d) \in DOMAIN u /\ (d \o u)[p] = u[p - Len(d)]
  BY <1>1, <1>2
<1>5. SlotsOK(d \o u)
  <2>1. \A p \in 1 .. Len(d) + Len(u) : (d \o u)[p].cool \subseteq DOMAIN (d \o u)[p].steps
    BY <1>4 DEF SlotsOK
  <2>2. QED
    BY <1>2, <1>3, <2>1 DEF SlotsOK
<1>6. QED
  BY <1>3, <1>4, <1>5

LEMMA SameBehind ==
  ASSUME NEW d1, NEW u1, NEW d2, NEW u2, SlotsOK(d1), SlotsOK(u1), SlotsOK(d2), SlotsOK(u2),
         SameIn(d1, d2), SameIn(u1, u2)
  PROVE  SameIn(d1 \o u1, d2 \o u2)
<1>1. Len(d1) = Len(d2) /\ Len(u1) = Len(u2)
  BY DEF SameIn, SlotsOK
<1>2. DOMAIN (d1 \o u1) = DOMAIN (d2 \o u2)
  BY <1>1, Behind
<1>3. ASSUME NEW p \in DOMAIN (d1 \o u1)
      PROVE  /\ (d2 \o u2)[p].id = (d1 \o u1)[p].id
             /\ (d2 \o u2)[p].steps = (d1 \o u1)[p].steps
  <2>1. CASE p <= Len(d1)
    <3>1. p \in DOMAIN d1 /\ (d1 \o u1)[p] = d1[p]
      BY <2>1, Behind
    <3>2. (d2 \o u2)[p] = d2[p]
      BY <1>1, <1>2, <2>1, Behind
    <3>3. QED
      BY <3>1, <3>2 DEF SameIn
  <2>2. CASE ~(p <= Len(d1))
    <3>1. p - Len(d1) \in DOMAIN u1 /\ (d1 \o u1)[p] = u1[p - Len(d1)]
      BY <2>2, Behind
    <3>2. (d2 \o u2)[p] = u2[p - Len(d1)]
      BY <1>1, <1>2, <2>2, Behind
    <3>3. QED
      BY <3>1, <3>2 DEF SameIn
  <2>3. QED
    BY <2>1, <2>2
<1>4. QED
  BY <1>2, <1>3 DEF SameIn

\* A slot gets another set of cooling steps.
LEMMA CoolChanges ==
  ASSUME NEW q, SlotsOK(q), NEW p \in DOMAIN q, NEW c, c \subseteq DOMAIN q[p].steps
  PROVE  LET g == [q EXCEPT ![p].cool = c] IN SlotsOK(g) /\ SameIn(q, g)
<1> DEFINE g == [q EXCEPT ![p].cool = c]
<1>1. q \in Seq(ScriptSlots) /\ q[p] \in ScriptSlots
  BY DEF SlotsOK
<1>2. DOMAIN q[p].steps \subseteq Nat
  <2>1. q[p].steps \in Seq({"net", "inline"})
    BY <1>1 DEF ScriptSlots
  <2>2. QED
    BY <2>1
<1>3. [q[p] EXCEPT !.cool = c] \in ScriptSlots
  BY <1>1, <1>2 DEF ScriptSlots
<1>4. g \in Seq(ScriptSlots)
  <2>1. g = [q EXCEPT ![p] = [q[p] EXCEPT !.cool = c]]
    OBVIOUS
  <2>2. QED
    BY <1>1, <1>3, <2>1
<1>5. /\ DOMAIN g = DOMAIN q
      /\ \A m \in DOMAIN q : m # p => g[m] = q[m]
      /\ g[p] = [q[p] EXCEPT !.cool = c]
  OBVIOUS
<1>6. g[p].id = q[p].id /\ g[p].steps = q[p].steps /\ g[p].cool = c
  BY <1>1, <1>5 DEF ScriptSlots
<1> HIDE DEF g
<1>7. SlotsOK(g)
  BY <1>4, <1>5, <1>6 DEF SlotsOK
<1>8. SameIn(q, g)
  BY <1>5, <1>6 DEF SameIn
<1>9. QED
  BY <1>7, <1>8 DEF g

\* Found, FirstSlot and the awaits' programs in terms of the slots.
LEMMA FoundAre ==
  ASSUME NEW s
  PROVE  Found(s) = FoundIn(scripts, s) /\ FirstSlot(s) = FirstIn(scripts, s)
BY DEF Found, FoundIn, FirstSlot, FirstIn

LEMMA SameIsSame ==
  ASSUME NEW q
  PROVE  SameIn(q, q)
BY DEF SameIn

\* MarkFired keeps the programs.
LEMMA MarkKeeps ==
  ASSUME SlotsOK(data), SlotsOK(user), NEW p \in DOMAIN scripts, NEW fired,
         fired \subseteq DOMAIN scripts[p].steps, MarkFired(p, fired)
  PROVE  /\ SlotsOK(data') /\ SlotsOK(user')
         /\ SameIn(data, data') /\ SameIn(user, user')
<1>1. /\ p <= Len(data) => p \in DOMAIN data /\ scripts[p] = data[p]
      /\ ~(p <= Len(data)) => p - Len(data) \in DOMAIN user /\ scripts[p] = user[p - Len(data)]
  <2>1. scripts = data \o user
    BY DEF scripts
  <2>2. QED
    BY <2>1, Behind
<1>2. CASE p <= Len(data)
  <2>1. data[p].cool \cup fired \subseteq DOMAIN data[p].steps
    BY <1>1, <1>2 DEF SlotsOK
  <2>2. data' = [data EXCEPT ![p].cool = data[p].cool \cup fired] /\ user' = user
    BY <1>1, <1>2 DEF MarkFired, Cooling
  <2>3. QED
    BY <1>1, <1>2, <2>1, <2>2, CoolChanges, SameIsSame
<1>3. CASE ~(p <= Len(data))
  <2> DEFINE m == p - Len(data)
  <2>1. m \in DOMAIN user /\ user[m].cool \cup fired \subseteq DOMAIN user[m].steps
    BY <1>1, <1>3 DEF SlotsOK
  <2>2. user' = [user EXCEPT ![m].cool = user[m].cool \cup fired] /\ data' = data
    BY <1>1, <1>3 DEF MarkFired, Cooling
  <2> HIDE DEF m
  <2>3. QED
    BY <2>1, <2>2, CoolChanges, SameIsSame
<1>4. QED
  BY <1>2, <1>3

\* The same, for one step that has cooled down.
Cooled(q, p, k) == [q EXCEPT ![p].cool = @ \ {k}]

LEMMA CooledStaysOK ==
  ASSUME NEW q, SlotsOK(q), NEW p \in DOMAIN q, NEW k
  PROVE  SlotsOK(Cooled(q, p, k)) /\ SameIn(q, Cooled(q, p, k))
<1> DEFINE c == q[p].cool \ {k}
<1>1. c \subseteq DOMAIN q[p].steps
  BY DEF SlotsOK
<1>2. Cooled(q, p, k) = [q EXCEPT ![p].cool = c]
  BY DEF Cooled
<1> HIDE DEF c
<1>3. SlotsOK([q EXCEPT ![p].cool = c]) /\ SameIn(q, [q EXCEPT ![p].cool = c])
  BY <1>1, CoolChanges
<1>4. QED
  BY <1>2, <1>3

-----------------------------------------------------------------------------
(***************************************************************************)
(* A run of steps: it queues no job, or one under a token of its own.      *)
(***************************************************************************)
NewAwait(p, k) == [tok |-> seq + 1, script |-> scripts[p].id, step |-> k,
                   steps |-> scripts[p].steps]
Registers(a, others) == /\ CanEnqueueLo /\ EnqueueLo(ScriptJob(a))
                        /\ seq' = seq + 1
                        /\ awaits' = others \cup {a}
                        /\ MayRegister(a.script, others)

LEMMA RunStepsDo ==
  ASSUME SlotsOK(data), SlotsOK(user), NEW p \in DOMAIN scripts, NEW from \in Nat \ {0},
         NEW others, RunSteps(p, from, others)
  PROVE  /\ SlotsOK(data') /\ SlotsOK(user')
         /\ SameIn(data, data') /\ SameIn(user, user')
         /\ \/ UNCHANGED <<queueVars, seq>> /\ awaits' = others
            \/ \E k \in Nat \ {0} : Registers(NewAwait(p, k), others)
<1> DEFINE Net(fires) == {k \in fires : scripts[p].steps[k] = "net"}
           Least1(fires) == CHOOSE k \in Net(fires) : \A m \in Net(fires) : k <= m
<1>1. PICK fires \in SUBSET MayFire(p, from) :
        IF Net(fires) = {} \/ ~MayRegister(scripts[p].id, others)
          THEN /\ MarkFired(p, fires)
               /\ awaits' = others
               /\ UNCHANGED <<queueVars, seq>>
          ELSE /\ seq' = IF CanEnqueueLo THEN seq + 1 ELSE seq
               /\ EnqueueLo(ScriptJob(NewAwait(p, Least1(fires))))
               /\ awaits' = AwaitsAfter(others, NewAwait(p, Least1(fires)))
               /\ MarkFired(p, IF CanEnqueueLo THEN {k \in fires : k <= Least1(fires)} ELSE fires)
  BY DEF RunSteps, NewAwait, NextToken
<1>2. DOMAIN scripts[p].steps = 1 .. Len(scripts[p].steps) /\ Len(scripts[p].steps) \in Nat
  <2>1. scripts[p] \in ScriptSlots
    BY Behind DEF scripts, SlotsOK
  <2>2. scripts[p].steps \in Seq({"net", "inline"})
    BY <2>1 DEF ScriptSlots
  <2>3. QED
    BY <2>2
<1>3. fires \subseteq DOMAIN scripts[p].steps /\ fires \subseteq Nat \ {0}
  BY <1>1, <1>2 DEF MayFire
<1>4. ASSUME NEW fired, fired \subseteq fires, MarkFired(p, fired)
      PROVE  /\ SlotsOK(data') /\ SlotsOK(user')
             /\ SameIn(data, data') /\ SameIn(user, user')
  BY <1>3, <1>4, MarkKeeps
<1> DEFINE N == Net(fires)
           first == Least1(fires)
<1>5. N \subseteq fires
  OBVIOUS
<1>6. N # {} => first \in N
  <2>1. ASSUME N # {} PROVE \E x \in N : \A y \in N : x <= y
    <3>1. N \subseteq Nat
      BY <1>3, <1>5
    <3> HIDE DEF N
    <3>2. QED
      BY <2>1, <3>1, Least
  <2>2. QED
    BY <2>1
<1>7. CASE N = {} \/ ~MayRegister(scripts[p].id, others)
  <2>1. MarkFired(p, fires) /\ awaits' = others /\ UNCHANGED <<queueVars, seq>>
    BY <1>1, <1>7
  <2>2. QED
    BY <1>4, <2>1
<1>8. CASE N # {} /\ MayRegister(scripts[p].id, others)
  <2>1. /\ seq' = IF CanEnqueueLo THEN seq + 1 ELSE seq
        /\ EnqueueLo(ScriptJob(NewAwait(p, first)))
        /\ awaits' = AwaitsAfter(others, NewAwait(p, first))
        /\ MarkFired(p, IF CanEnqueueLo THEN {k \in fires : k <= first} ELSE fires)
    BY <1>1, <1>8
  <2>2. first \in Nat \ {0}
    BY <1>3, <1>5, <1>6, <1>8
  <2> HIDE DEF N, first
  <2>3. CASE CanEnqueueLo
    <3>1. MarkFired(p, {k \in fires : k <= first}) /\ {k \in fires : k <= first} \subseteq fires
      BY <2>1, <2>3
    <3>2. NewAwait(p, first).script = scripts[p].id
      BY DEF NewAwait
    <3>3. Registers(NewAwait(p, first), others)
      BY <1>8, <2>1, <2>3, <3>2 DEF Registers, AwaitsAfter
    <3>4. QED
      BY <1>4, <2>2, <3>1, <3>3
  <2>4. CASE ~CanEnqueueLo
    <3>1. UNCHANGED queueVars
      BY <2>1, <2>4, EnqueueRefused
    <3>2. MarkFired(p, fires) /\ awaits' = others /\ seq' = seq
      BY <2>1, <2>4 DEF AwaitsAfter
    <3>3. QED
      BY <1>4, <3>1, <3>2
  <2>5. QED
    BY <2>3, <2>4
<1>9. QED
  BY <1>7, <1>8

\* A new token pairs the new await with its job and no other.
LEMMA NewPair ==
  ASSUME NEW F, NEW A, NEW n \in Nat, Known(F, n), Paired(F, A), \A b \in A : AwaitOK(b, n),
         NEW a, a.tok = n + 1, \A b \in A : b.script # a.script
  PROVE  Paired(F \cup {ScriptJob(a)}, A \cup {a}) /\ Known(F \cup {ScriptJob(a)}, n + 1)
<1>1. ScriptJob(a).tok = n + 1
  BY DEF ScriptJob
<1>2. \A j \in F : j.tok \in 1 .. n /\ j.tok # n + 1
  BY DEF Known
<1>3. Known(F \cup {ScriptJob(a)}, n + 1)
  BY <1>1, <1>2 DEF Known
<1>4. {j \in F \cup {ScriptJob(a)} : j.tok = a.tok} = {ScriptJob(a)}
  BY <1>1, <1>2
<1>5. ASSUME NEW b \in A
      PROVE  {j \in F \cup {ScriptJob(a)} : j.tok = b.tok} = {ScriptJob(b)}
  <2>1. b.tok \in 1 .. n /\ b.tok # n + 1
    BY DEF AwaitOK
  <2>2. {j \in F \cup {ScriptJob(a)} : j.tok = b.tok} = {j \in F : j.tok = b.tok}
    BY <1>1, <2>1
  <2>3. QED
    BY <2>2 DEF Paired
<1>6. \A x, y \in A \cup {a} : y.script = x.script => y = x
  BY DEF Paired
<1>7. QED
  BY <1>3, <1>4, <1>5, <1>6 DEF Paired

\* Two awaits have two tokens.
LEMMA TokensApart ==
  ASSUME NEW F, NEW A, Paired(F, A), NEW a \in A, NEW b \in A, a.tok = b.tok
  PROVE  a = b
<1>1. {ScriptJob(a)} = {ScriptJob(b)}
  BY DEF Paired
<1>2. ScriptJob(a).script = ScriptJob(b).script
  BY <1>1
<1>3. a.script = b.script
  BY <1>2 DEF ScriptJob
<1>4. QED
  BY <1>3 DEF Paired

\* What a run of steps leaves behind, when F is what the worker has of the
\* scripts but for the job the run may queue.
LEMMA AfterRun ==
  ASSUME IInv, NEW s, Found(s) # {}, NEW from \in Nat \ {0},
         NEW others, others \subseteq awaits, RunSteps(FirstSlot(s), from, others),
         NEW F, Known(F, seq), Paired(F, others),
         UNCHANGED queueVars => WorkerOK(AllJobs)' /\ InFlight("script")' = F,
         \A j \in ScriptJobs : EnqueueLo(j) /\ CanEnqueueLo =>
                               WorkerOK(AllJobs)' /\ InFlight("script")' = F \cup {j},
         ended' \subseteq 1 .. seq, \A b \in others : b.tok \notin ended'
  PROVE  IInv'
<1>1. /\ SlotsOK(data) /\ SlotsOK(user) /\ seq \in Nat /\ AwaitsOK(awaits, seq)
      /\ SlotsOK(scripts)
  BY Behind DEF IInv, TypeInv, scripts
<1> DEFINE p == FirstSlot(s)
<1>2. p \in DOMAIN scripts /\ scripts[p].id = s /\ FoundIn(scripts, s) # {}
      /\ p = FirstIn(scripts, s) /\ s \in STRING
  <2>1. p \in DOMAIN scripts /\ scripts[p].id = s /\ FoundIn(scripts, s) # {}
        /\ p = FirstIn(scripts, s)
    BY <1>1, FoundAre, FirstFound
  <2>2. scripts[p] \in ScriptSlots
    BY <1>1, <2>1 DEF SlotsOK
  <2>3. QED
    BY <2>1, <2>2 DEF ScriptSlots
<1> HIDE DEF p
<1>3. /\ SlotsOK(data') /\ SlotsOK(user')
      /\ SameIn(data, data') /\ SameIn(user, user')
      /\ \/ UNCHANGED <<queueVars, seq>> /\ awaits' = others
         \/ \E k \in Nat \ {0} : Registers(NewAwait(p, k), others)
  BY <1>1, <1>2, RunStepsDo DEF p
<1>4. SameIn(scripts, scripts')
  <2>1. SameIn(data \o user, data' \o user')
    BY <1>1, <1>3, SameBehind
  <2>2. QED
    BY <2>1 DEF scripts
<1>5. IsFiniteSet(others) /\ Cardinality(others) <= MaxScripts /\ MaxScripts \in Nat
      /\ Cardinality(others) \in Nat
      /\ \A b \in others : AwaitOK(b, seq)
  BY <1>1, FS_Subset, FS_CardinalityType, ScriptAssumption DEF AwaitsOK
<1>6. \A b \in others : Resumes(scripts', b)
  BY <1>1, <1>4, ResumesKept DEF IInv, ResumeInv
<1>7. CASE UNCHANGED <<queueVars, seq>> /\ awaits' = others
  <2>1. WorkerOK(AllJobs)' /\ InFlight("script")' = F
    BY <1>7
  <2>2. TypeInv'
    BY <1>1, <1>3, <1>5, <1>7, <2>1 DEF TypeInv, AwaitsOK
  <2>3. PairInv' /\ ResumeInv' /\ EndsOnce'
    BY <1>6, <1>7, <2>1 DEF PairInv, ResumeInv, EndsOnce, Tokens
  <2>4. QED
    BY <2>2, <2>3 DEF IInv
<1>8. ASSUME NEW k \in Nat \ {0}, Registers(NewAwait(p, k), others)
      PROVE  IInv'
  <2> DEFINE a == NewAwait(p, k)
  <2>1. /\ a.tok = seq + 1 /\ a.script = s /\ a.step = k /\ a.steps = scripts[p].steps
    BY <1>2 DEF NewAwait
  <2> HIDE DEF a
  <2>2. /\ CanEnqueueLo /\ EnqueueLo(ScriptJob(a)) /\ seq' = seq + 1
        /\ awaits' = others \cup {a} /\ MayRegister(a.script, others)
    BY <1>8 DEF Registers, a
  <2>3. ScriptJob(a) \in ScriptJobs
    BY <1>1, <1>2, <2>1 DEF ScriptJob, ScriptJobs
  <2>4. WorkerOK(AllJobs)' /\ InFlight("script")' = F \cup {ScriptJob(a)}
    BY <2>2, <2>3
  <2>5. (\A b \in others : b.script # a.script) /\ Cardinality(others) < MaxScripts
    BY <2>2 DEF MayRegister
  <2>6. Paired(F \cup {ScriptJob(a)}, others \cup {a}) /\ Known(F \cup {ScriptJob(a)}, seq + 1)
    BY <1>1, <1>5, <2>1, <2>5, NewPair
  <2>7. PairInv'
    BY <2>2, <2>4, <2>6 DEF PairInv
  <2>8. AwaitsOK(awaits', seq')
    <3>1. a \notin others
      BY <2>5
    <3>2. IsFiniteSet(others \cup {a}) /\ Cardinality(others \cup {a}) = Cardinality(others) + 1
      BY <1>5, <3>1, FS_AddElement
    <3>3. Cardinality(others \cup {a}) <= MaxScripts
      BY <1>5, <2>5, <3>2
    <3>4. \A b \in others \cup {a} : AwaitOK(b, seq + 1)
      BY <1>1, <1>2, <1>5, <2>1 DEF AwaitOK
    <3>5. QED
      BY <2>2, <3>2, <3>3, <3>4 DEF AwaitsOK
  <2>9. TypeInv'
    <3>1. ended' \subseteq 1 .. seq' /\ seq' \in Nat
      BY <1>1, <2>2
    <3>2. Known(InFlight("script")', seq')
      BY <2>2, <2>4, <2>6
    <3>3. QED
      BY <1>3, <2>4, <2>8, <3>1, <3>2 DEF TypeInv
  <2>10. Resumes(scripts', a)
    <3>1. Resumes(scripts, a)
      BY <1>2, <2>1 DEF Resumes
    <3>2. QED
      BY <1>1, <1>4, <3>1, ResumesKept
  <2>11. ResumeInv'
    BY <1>6, <2>2, <2>10 DEF ResumeInv
  <2>12. EndsOnce'
    <3>1. a.tok \notin ended'
      BY <1>1, <2>1
    <3>2. QED
      BY <2>2, <3>1 DEF EndsOnce, Tokens
  <2>13. QED
    BY <2>7, <2>9, <2>11, <2>12 DEF IInv
<1>9. QED
  BY <1>3, <1>7, <1>8

-----------------------------------------------------------------------------
LEMMA Start ==
  ASSUME Init
  PROVE  IInv
<1>1. /\ hiQ = <<>> /\ loQ = <<>> /\ resQ = <<>> /\ at = "front"
      /\ data = <<>> /\ user = <<>> /\ awaits = {} /\ seq = 0 /\ ended = {}
  BY DEF Init, WorkerInit
<1>2. WorkerOK(AllJobs)
  BY <1>1, DepthAssumption DEF WorkerOK
<1>3. SlotsOK(<<>>)
  BY DEF SlotsOK
<1>4. AwaitsOK({}, 0)
  BY FS_EmptySet, ScriptAssumption DEF AwaitsOK
<1>5. InFlight("script") = {}
  BY <1>1 DEF InFlight, JobsOf, ResultsOf
<1>6. TypeInv
  BY <1>1, <1>2, <1>3, <1>4, <1>5 DEF TypeInv, Known
<1>7. PairInv /\ EndsOnce /\ ResumeInv
  BY <1>1 DEF PairInv, Paired, EndsOnce, Tokens, ResumeInv
<1>8. QED
  BY <1>6, <1>7 DEF IInv

\* What a handler leaves of the worker.
LEMMA HandlerDoes ==
  ASSUME IInv, InHandler
  PROVE  /\ UNCHANGED queueVars =>
              WorkerOK(AllJobs)' /\ InFlight("script")' = InFlight("script")
         /\ \A j \in ScriptJobs : EnqueueLo(j) /\ CanEnqueueLo =>
              WorkerOK(AllJobs)' /\ InFlight("script")' = InFlight("script") \cup {j}
<1>1. WorkerOK(AllJobs)
  BY DEF IInv, TypeInv
<1>2. ASSUME UNCHANGED queueVars
      PROVE  WorkerOK(AllJobs)' /\ InFlight("script")' = InFlight("script")
  <2>1. UNCHANGED <<hiQ, loQ, resQ>> /\ at' = at
    BY <1>2 DEF InHandler, queueVars
  <2>2. QED
    BY <1>1, <2>1, RingsKept
<1>3. ASSUME NEW j \in ScriptJobs, EnqueueLo(j), CanEnqueueLo
      PROVE  WorkerOK(AllJobs)' /\ InFlight("script")' = InFlight("script") \cup {j}
  <2>1. j \in AllJobs /\ Own(j, "script") = {j}
    BY Kinds DEF Own, AllJobs
  <2>2. WorkerOK(AllJobs)' /\ InFlight("script")' = InFlight("script") \cup Own(j, "script")
    BY <1>1, <1>3, <2>1, HandlerPush
  <2>3. QED
    BY <2>1, <2>2
<1>4. QED
  BY <1>2, <1>3

LEMMA RunKeeps ==
  ASSUME IInv, NEW s, Run(s)
  PROVE  IInv'
<1>1. /\ InHandler /\ Found(s) # {} /\ RunSteps(FirstSlot(s), 1, awaits) /\ ended' = ended
  BY DEF Run
<1>2. /\ Known(InFlight("script"), seq) /\ Paired(InFlight("script"), awaits)
      /\ ended' \subseteq 1 .. seq /\ \A b \in awaits : b.tok \notin ended'
  BY <1>1 DEF IInv, TypeInv, PairInv, EndsOnce, Tokens
<1>3. 1 \in Nat \ {0}
  OBVIOUS
<1>4. QED
  BY <1>1, <1>2, <1>3, HandlerDoes, AfterRun

\* The step of await a ends; F is what the worker has of the scripts then.
LEMMA EndStepKeeps ==
  ASSUME IInv, NEW a \in awaits, EndStep(a, awaits \ {a}),
         NEW F, Known(F, seq), Paired(F, awaits \ {a}),
         UNCHANGED queueVars => WorkerOK(AllJobs)' /\ InFlight("script")' = F,
         \A j \in ScriptJobs : EnqueueLo(j) /\ CanEnqueueLo =>
                               WorkerOK(AllJobs)' /\ InFlight("script")' = F \cup {j}
  PROVE  IInv'
<1>1. Found(a.script) # {}
  BY FoundAre DEF IInv, ResumeInv, Resumes
<1>2. ended' = ended \cup {a.tok} /\ RunSteps(FirstSlot(a.script), a.step + 1, awaits \ {a})
  BY <1>1 DEF EndStep
<1>3. a.tok \in 1 .. seq /\ a.step + 1 \in Nat \ {0}
  BY DEF IInv, TypeInv, AwaitsOK, AwaitOK
<1>4. ended' \subseteq 1 .. seq
  BY <1>2, <1>3 DEF IInv, TypeInv
<1>5. ASSUME NEW b \in awaits \ {a}
      PROVE  b.tok \notin ended'
  <2>1. b.tok # a.tok
    BY TokensApart DEF IInv, PairInv
  <2>2. b.tok \notin ended
    BY DEF IInv, EndsOnce, Tokens
  <2>3. QED
    BY <1>2, <2>1, <2>2
<1>6. QED
  BY <1>1, <1>2, <1>3, <1>4, <1>5, AfterRun

LEMMA TimeoutKeeps ==
  ASSUME IInv, NEW a \in awaits, Timeout(a)
  PROVE  IInv'
<1>1. InHandler /\ EndStep(a, awaits \ {a})
  BY DEF Timeout, AfterTimeout
<1>2. Known(InFlight("script"), seq) /\ Paired(InFlight("script"), awaits \ {a})
  BY DEF IInv, TypeInv, PairInv, Paired
<1>3. QED
  BY <1>1, <1>2, HandlerDoes, EndStepKeeps

\* What handing out a result leaves of the worker.
LEMMA PollDoes ==
  ASSUME IInv, NEW r, Poll(r), r.job.src = "script"
  PROVE  /\ InFlight("script") = Queued("script") \cup {r.job}
         /\ UNCHANGED queueVars =>
              WorkerOK(AllJobs)' /\ InFlight("script")' = Queued("script")
         /\ \A j \in ScriptJobs : EnqueueLo(j) /\ CanEnqueueLo =>
              WorkerOK(AllJobs)' /\ InFlight("script")' = Queued("script") \cup {j}
<1>1. WorkerOK(AllJobs) /\ Own(r.job, "script") = {r.job}
  BY DEF IInv, TypeInv, Own
<1>2. ASSUME UNCHANGED queueVars
      PROVE  WorkerOK(AllJobs)' /\ InFlight("script")' = Queued("script")
  <2>1. hiQ' = hiQ /\ loQ' = loQ
    BY <1>2 DEF queueVars
  <2>2. /\ hiQ' \in Seq(AllJobs) /\ Len(hiQ') <= JobQDepth
        /\ loQ' \in Seq(AllJobs) /\ Len(loQ') <= JobQDepth
    BY <1>1, <2>1 DEF WorkerOK
  <2>3. /\ WorkerOK(AllJobs)'
        /\ InFlight("script")' = QueueJobs(hiQ', "script") \cup QueueJobs(loQ', "script")
    BY <1>1, <2>2, PollCounts
  <2>4. QED
    BY <2>1, <2>3 DEF Queued
<1>3. ASSUME NEW j \in ScriptJobs, EnqueueLo(j), CanEnqueueLo
      PROVE  WorkerOK(AllJobs)' /\ InFlight("script")' = Queued("script") \cup {j}
  <2>1. j \in AllJobs /\ Own(j, "script") = {j}
    BY Kinds DEF Own, AllJobs
  <2>2. WorkerOK(AllJobs)' /\ InFlight("script")' = Queued("script") \cup Own(j, "script")
    BY <1>1, <1>3, <2>1, PollAndPush
  <2>3. QED
    BY <2>1, <2>2
<1>4. InFlight("script") = Queued("script") \cup {r.job}
  <2>1. resQ = <<r>>
    BY <1>1, PollGives
  <2>2. ResultJobs(resQ, "script") = {r.job}
    BY <1>1, <2>1, ResultCounts
  <2>3. QED
    BY <2>2, FlightsAre DEF Queued
<1>5. QED
  BY <1>2, <1>3, <1>4

LEMMA OnNetResultKeeps ==
  ASSUME IInv, NEW r, OnNetResult(r)
  PROVE  IInv'
<1>1. Poll(r) /\ r.job.src = "script"
  BY DEF OnNetResult
<1>2. InFlight("script") = Queued("script") \cup {r.job}
  BY <1>1, PollDoes
<1>3. Known(Queued("script"), seq)
  BY <1>2 DEF IInv, TypeInv, Known
<1>4. ASSUME NEW a \in awaits, a.tok = r.job.tok, EndStep(a, awaits \ {a})
      PROVE  IInv'
  <2>1. Paired(Queued("script"), awaits \ {a})
    <3>1. ASSUME NEW b \in awaits \ {a}
          PROVE  {j \in Queued("script") : j.tok = b.tok} = {ScriptJob(b)}
      <4>1. b.tok # r.job.tok
        BY <1>4, TokensApart DEF IInv, PairInv
      <4>2. {j \in Queued("script") : j.tok = b.tok} = {j \in InFlight("script") : j.tok = b.tok}
        BY <1>2, <4>1
      <4>3. QED
        BY <4>2 DEF IInv, PairInv, Paired
    <3>2. QED
      BY <3>1 DEF IInv, PairInv, Paired
  <2>2. QED
    BY <1>1, <1>3, <1>4, <2>1, PollDoes, EndStepKeeps
<1>5. CASE (\A a \in awaits : a.tok # r.job.tok) /\ UNCHANGED <<queueVars, scriptVars>>
  <2>1. WorkerOK(AllJobs)' /\ InFlight("script")' = Queued("script")
    BY <1>1, <1>5, PollDoes
  <2>2. UNCHANGED <<data, user, awaits, seq, ended>>
    BY <1>5 DEF scriptVars
  <2>3. TypeInv'
    BY <1>3, <2>1, <2>2 DEF IInv, TypeInv
  <2>4. Paired(Queued("script"), awaits)
    <3>1. ASSUME NEW b \in awaits
          PROVE  {j \in Queued("script") : j.tok = b.tok} = {ScriptJob(b)}
      <4>1. {j \in Queued("script") : j.tok = b.tok} = {j \in InFlight("script") : j.tok = b.tok}
        BY <1>2, <1>5
      <4>2. QED
        BY <4>1 DEF IInv, PairInv, Paired
    <3>2. QED
      BY <3>1 DEF IInv, PairInv, Paired
  <2>5. PairInv'
    BY <2>1, <2>2, <2>4 DEF PairInv
  <2>6. EndsOnce' /\ ResumeInv'
    BY <2>2 DEF IInv, EndsOnce, Tokens, ResumeInv, scripts
  <2>7. QED
    BY <2>3, <2>5, <2>6 DEF IInv
<1>6. QED
  BY <1>4, <1>5 DEF OnNetResult

-----------------------------------------------------------------------------
\* A load with memory for it, and a clear: no await is left.
LEMMA NoAwaitsKeeps ==
  ASSUME IInv, InHandler, UNCHANGED <<queueVars, seq, ended>>,
         SlotsOK(data'), SlotsOK(user'), awaits' = {}
  PROVE  IInv'
<1>1. WorkerOK(AllJobs)' /\ InFlight("script")' = InFlight("script")
  BY HandlerDoes
<1>2. AwaitsOK({}, seq')
  BY FS_EmptySet, ScriptAssumption DEF AwaitsOK
<1>3. TypeInv'
  BY <1>1, <1>2 DEF IInv, TypeInv
<1>4. PairInv' /\ EndsOnce' /\ ResumeInv'
  BY DEF PairInv, Paired, EndsOnce, Tokens, ResumeInv
<1>5. QED
  BY <1>3, <1>4 DEF IInv

\* Steps after which the programs are the same and nothing else has changed.
LEMMA SameProgramsKeep ==
  ASSUME IInv, UNCHANGED <<awaits, seq, ended>>,
         WorkerOK(AllJobs)', InFlight("script")' = InFlight("script"),
         SlotsOK(data'), SlotsOK(user'), SameIn(data, data'), SameIn(user, user')
  PROVE  IInv'
<1>1. SlotsOK(data) /\ SlotsOK(user) /\ SlotsOK(scripts)
  BY Behind DEF IInv, TypeInv, scripts
<1>2. SameIn(scripts, scripts')
  <2>1. SameIn(data \o user, data' \o user')
    BY <1>1, SameBehind
  <2>2. QED
    BY <2>1 DEF scripts
<1>3. \A b \in awaits : Resumes(scripts', b)
  BY <1>1, <1>2, ResumesKept DEF IInv, ResumeInv
<1>4. TypeInv'
  BY DEF IInv, TypeInv
<1>5. PairInv' /\ EndsOnce' /\ ResumeInv'
  BY <1>3 DEF IInv, PairInv, EndsOnce, Tokens, ResumeInv
<1>6. QED
  BY <1>4, <1>5 DEF IInv

LEMMA ElsewhereKeeps ==
  ASSUME IInv, UNCHANGED scriptVars, WorkerOK(AllJobs)', InFlight("script")' = InFlight("script")
  PROVE  IInv'
BY SameProgramsKeep, SameIsSame DEF scriptVars, IInv, TypeInv

LEMMA LoadedSlots ==
  ASSUME NEW list \in DataLists \cup UserLists, NEW lost, SlotsOK(data)
  PROVE  SlotsOK(Reloaded(ParsedList(list, lost))) /\ SlotsOK(Fresh(ParsedList(list, lost)))
<1> DEFINE q == ParsedList(list, lost)
<1>1. list \in Seq(Programs)
  BY ScriptAssumption
<1>2. q \in Seq(Programs) /\ DOMAIN q = 1 .. Len(list) /\ Len(list) \in Nat
  <2>1. \A p \in DOMAIN list : list[p] \in Programs
    BY <1>1
  <2>2. ASSUME NEW p \in DOMAIN list
        PROVE  q[p] \in Programs
    <3>1. q[p] = list[p] \/ q[p] = [list[p] EXCEPT !.steps = <<>>]
      BY DEF ParsedList, Parsed
    <3>2. list[p].id \in STRING /\ <<>> \in Seq({"net", "inline"})
      BY <2>1 DEF Programs
    <3>3. list[p] = [id |-> list[p].id, steps |-> list[p].steps]
      BY <2>1 DEF Programs
    <3>4. [list[p] EXCEPT !.steps = <<>>] = [id |-> list[p].id, steps |-> <<>>]
      BY <3>3
    <3>5. [id |-> list[p].id, steps |-> <<>>] \in Programs
      BY <3>2 DEF Programs
    <3>6. QED
      BY <2>1, <3>1, <3>4, <3>5
  <2>3. DOMAIN q = DOMAIN list /\ DOMAIN list = 1 .. Len(list) /\ Len(list) \in Nat
    BY <1>1 DEF ParsedList
  <2>4. q = [p \in 1 .. Len(list) |-> q[p]]
    BY <2>3 DEF ParsedList
  <2> HIDE DEF q
  <2>5. QED
    BY <2>2, <2>3, <2>4
<1> HIDE DEF q
<1>3. ASSUME NEW c, \A p \in DOMAIN q : c[p] \subseteq DOMAIN q[p].steps
      PROVE  SlotsOK([p \in DOMAIN q |-> Slot(q[p], c[p])])
  <2> DEFINE g == [p \in DOMAIN q |-> Slot(q[p], c[p])]
  <2>1. ASSUME NEW p \in DOMAIN q
        PROVE  Slot(q[p], c[p]) \in ScriptSlots /\ c[p] \subseteq DOMAIN Slot(q[p], c[p]).steps
               /\ Slot(q[p], c[p]).cool = c[p]
    <3>1. q[p] \in Programs
      BY <1>2
    <3>2. DOMAIN q[p].steps \subseteq Nat
      <4>1. q[p].steps \in Seq({"net", "inline"})
        BY <3>1 DEF Programs
      <4>2. QED
        BY <4>1
    <3>3. QED
      BY <1>3, <3>1, <3>2 DEF Slot, ScriptSlots, Programs
  <2>2. g \in Seq(ScriptSlots)
    BY <1>2, <2>1
  <2>3. QED
    BY <2>1, <2>2 DEF SlotsOK
<1>4. SlotsOK(Fresh(q))
  <2> DEFINE c == [p \in DOMAIN q |-> {}]
  <2>1. \A p \in DOMAIN q : c[p] = {} /\ c[p] \subseteq DOMAIN q[p].steps
    OBVIOUS
  <2>2. Fresh(q) = [p \in DOMAIN q |-> Slot(q[p], c[p])]
    BY DEF Fresh
  <2> HIDE DEF c
  <2>3. QED
    BY <1>3, <2>1, <2>2
<1>5. SlotsOK(Reloaded(q))
  <2> DEFINE c == [p \in DOMAIN q |->
                    IF p \in DOMAIN data THEN data[p].cool \cap DOMAIN q[p].steps ELSE {}]
  <2>1. \A p \in DOMAIN q : c[p] \subseteq DOMAIN q[p].steps
    OBVIOUS
  <2>2. Reloaded(q) = [p \in DOMAIN q |-> Slot(q[p], c[p])]
    BY DEF Reloaded
  <2> HIDE DEF c
  <2>3. QED
    BY <1>3, <2>1, <2>2
<1>6. QED
  BY <1>4, <1>5 DEF q

LEMMA UpdateKeeps ==
  ASSUME IInv,
         \/ \E list \in DataLists, userList \in UserLists : TasksUpdate(list, userList)
         \/ \E userList \in UserLists : UserUpdate(userList)
         \/ TasksClear
  PROVE  IInv'
<1>1. SlotsOK(data) /\ SlotsOK(user)
  BY DEF IInv, TypeInv
<1>2. InHandler /\ UNCHANGED <<queueVars, seq, ended>>
  BY DEF TasksUpdate, UserUpdate, TasksClear
<1>3. awaits' = {} \/ (awaits' = awaits /\ data' = data /\ user' = user)
  BY DEF TasksUpdate, UserUpdate, TasksClear, AwaitsAfterLoad
<1>4. SlotsOK(data') /\ SlotsOK(user')
  <2>1. ASSUME NEW list \in DataLists, NEW userList \in UserLists, TasksUpdate(list, userList)
        PROVE  SlotsOK(data') /\ SlotsOK(user')
    BY <1>1, <2>1, LoadedSlots DEF TasksUpdate
  <2>2. ASSUME NEW userList \in UserLists, UserUpdate(userList)
        PROVE  SlotsOK(data') /\ SlotsOK(user')
    BY <1>1, <2>2, LoadedSlots DEF UserUpdate
  <2>3. CASE TasksClear
    <3>1. SlotsOK(<<>>)
      BY DEF SlotsOK
    <3>2. QED
      BY <1>1, <2>3, <3>1 DEF TasksClear
  <2>4. QED
    BY <2>1, <2>2, <2>3
<1>5. CASE awaits' = {}
  BY <1>2, <1>4, <1>5, NoAwaitsKeeps
<1>6. CASE awaits' = awaits /\ data' = data /\ user' = user
  BY <1>2, <1>4, <1>6, HandlerDoes, SameIsSame, SameProgramsKeep
<1>7. QED
  BY <1>3, <1>5, <1>6

LEMMA CoolDownKeeps ==
  ASSUME IInv, NEW p, NEW k, CoolDown(p, k)
  PROVE  IInv'
<1>1. SlotsOK(data) /\ SlotsOK(user)
  BY DEF IInv, TypeInv
<1>2. UNCHANGED <<hiQ, loQ, resQ, at>> /\ UNCHANGED <<awaits, seq, ended>>
  BY DEF CoolDown, workerVars
<1>3. WorkerOK(AllJobs)' /\ InFlight("script")' = InFlight("script")
  BY <1>2, RingsKept DEF IInv, TypeInv
<1>4. /\ SlotsOK(data') /\ SlotsOK(user')
      /\ SameIn(data, data') /\ SameIn(user, user')
  <2>1. CASE p \in DOMAIN data /\ data' = Cooled(data, p, k) /\ user' = user
    BY <1>1, <2>1, CooledStaysOK, SameIsSame
  <2>2. CASE /\ p - Len(data) \in DOMAIN user
             /\ user' = Cooled(user, p - Len(data), k) /\ data' = data
    BY <1>1, <2>2, CooledStaysOK, SameIsSame
  <2>3. QED
    BY <2>1, <2>2 DEF CoolDown, Cooled
<1>5. QED
  BY <1>2, <1>3, <1>4, SameProgramsKeep

LEMMA WorkKeeps ==
  ASSUME IInv, Work
  PROVE  IInv'
<1>1. WorkerOK(AllJobs)' /\ InFlight("script")' = InFlight("script")
  BY WorkerKeeps DEF IInv, TypeInv, Work
<1>2. QED
  BY <1>1, ElsewhereKeeps DEF Work

LEMMA OthersKeepScripts ==
  ASSUME IInv, OthersSubmit(HiLoad, LoLoad) \/ OthersHandle(HiLoad, LoLoad),
         UNCHANGED scriptVars
  PROVE  IInv'
<1>1. WorkerOK(AllJobs)' /\ InFlight("script")' = InFlight("script")
  BY Kinds, OthersKeep DEF IInv, TypeInv
<1>2. QED
  BY <1>1, ElsewhereKeeps

LEMMA StutterKeeps ==
  ASSUME IInv, UNCHANGED vars
  PROVE  IInv'
<1>1. UNCHANGED <<hiQ, loQ, resQ, at>> /\ UNCHANGED scriptVars
  BY DEF vars, workerVars
<1>2. WorkerOK(AllJobs)' /\ InFlight("script")' = InFlight("script")
  BY <1>1, RingsKept DEF IInv, TypeInv
<1>3. QED
  BY <1>1, <1>2, ElsewhereKeeps

LEMMA NextKeeps ==
  ASSUME IInv, [Next]_vars
  PROVE  IInv'
<1>1. CASE \E p \in DOMAIN scripts : Run(scripts[p].id)
  BY <1>1, RunKeeps
<1>2. CASE \E p \in DOMAIN scripts : \E k \in scripts[p].cool : CoolDown(p, k)
  BY <1>2, CoolDownKeeps
<1>3. CASE \E a \in awaits : Timeout(a)
  BY <1>3, TimeoutKeeps
<1>4. CASE \/ \E list \in DataLists, userList \in UserLists : TasksUpdate(list, userList)
           \/ \E userList \in UserLists : UserUpdate(userList)
           \/ TasksClear
  BY <1>4, UpdateKeeps
<1>5. CASE Work
  BY <1>5, WorkKeeps
<1>6. CASE Dispatch
  BY <1>6, OnNetResultKeeps, OthersKeepScripts DEF Dispatch
<1>7. CASE OthersSubmit(HiLoad, LoLoad) /\ UNCHANGED scriptVars
  BY <1>7, OthersKeepScripts
<1>8. CASE UNCHANGED vars
  BY <1>8, StutterKeeps
<1>9. QED
  BY <1>1, <1>2, <1>3, <1>4, <1>5, <1>6, <1>7, <1>8 DEF Next

-----------------------------------------------------------------------------
LEMMA StrongEnough ==
  ASSUME IInv
  PROVE  Inv /\ ResumesOwnProgram
<1>1. SlotsOK(scripts)
  BY Behind DEF IInv, TypeInv, scripts
<1>2. ResumesOwnProgram
  BY FoundAre DEF IInv, ResumeInv, Resumes, ResumesOwnProgram
<1>3. AwaitHasItsJob
  BY DEF IInv, PairInv, Paired, AwaitHasItsJob
<1>4. ASSUME NEW a \in awaits
      PROVE  a.tok \in 1 .. seq /\ scripts # <<>>
  <2>1. a.tok \in 1 .. seq
    BY DEF IInv, TypeInv, AwaitsOK, AwaitOK
  <2>2. FoundIn(scripts, a.script) # {}
    BY DEF IInv, ResumeInv, Resumes
  <2>3. DOMAIN scripts # {}
    BY <2>2 DEF FoundIn
  <2>4. QED
    BY <2>1, <2>3
<1>5. QueuesFit
  <2>1. Len(hiQ) <= JobQDepth /\ Len(loQ) <= JobQDepth
    BY DEF IInv, TypeInv, WorkerOK
  <2>2. resQ = <<>> \/ \E r : resQ = <<r>>
    BY DEF IInv, TypeInv, WorkerOK
  <2>3. \A r : Len(<<r>>) = 1
    OBVIOUS
  <2>4. Len(resQ) \in {0, 1}
    BY <2>2, <2>3
  <2>5. ResQDepth \in Nat \ {0}
    BY DepthAssumption
  <2>6. \A n \in {0, 1} : n <= ResQDepth
    BY <2>5
  <2>7. Len(resQ) <= ResQDepth
    BY <2>4, <2>6
  <2>8. QED
    BY <2>1, <2>7 DEF QueuesFit
<1>6. TypeOK
  <2>1. \A p \in DOMAIN scripts : scripts[p].cool \subseteq DOMAIN scripts[p].steps
    BY <1>1 DEF SlotsOK
  <2>2. Cardinality(awaits) <= MaxScripts /\ ended \subseteq 1 .. seq
    BY DEF IInv, TypeInv, AwaitsOK
  <2>3. QED
    BY <1>4, <1>5, <2>1, <2>2 DEF TypeOK
<1>7. QED
  BY <1>2, <1>3, <1>6 DEF Inv, IInv

\* A suspended script has its own job with the worker and a step ends once
\* (script_engine.cpp, script_engine_register_await, on_net_result and
\* awaits_check_timeouts), whatever is refused, late, reloaded or cleared.
THEOREM ScriptEngineInv == Spec => []Inv
<1>1. Init => IInv
  BY Start
<1>2. IInv /\ [Next]_vars => IInv'
  BY NextKeeps
<1>3. IInv => Inv
  BY StrongEnough
<1>4. QED
  BY <1>1, <1>2, <1>3, PTL DEF Spec

\* A script resumes in the steps it stopped in, as every load that replaces
\* steps forgets the awaits (script_engine.cpp, script_engine_load).
THEOREM ScriptEngineResumes == Spec => []ResumesOwnProgram
<1>1. Init => IInv
  BY Start
<1>2. IInv /\ [Next]_vars => IInv'
  BY NextKeeps
<1>3. IInv => ResumesOwnProgram
  BY StrongEnough
<1>4. QED
  BY <1>1, <1>2, <1>3, PTL DEF Spec
=============================================================================

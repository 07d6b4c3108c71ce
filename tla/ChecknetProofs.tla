--------------------------- MODULE ChecknetProofs ----------------------------
(***************************************************************************)
(* The measuring cycle, for every number of cycles, every list the BE may  *)
(* send and rings of any size: its countdown can always reach its end, it  *)
(* is reported once, and it starts one trace at most.                      *)
(***************************************************************************)
EXTENDS Checknet, WorkerProofs

CnJobs == [src : {"checknet"}, kind : {"icmp", "tcp", "dns", "http", "trace"},
           idx : Nat, cycle : Nat]
AllJobs == CnJobs \cup HiLoad \cup LoLoad
Gateway == Target("icmp", "gateway")
Listed == Targets \cup {Gateway}

TypeInv == /\ WorkerOK(AllJobs)
           /\ state \in {"idle", "wait", "collect"}
           /\ maxJobs \in 1 .. MaxJobs
           /\ jobs \in Seq(Listed) /\ Len(jobs) <= MaxJobs + 1
           /\ DOMAIN res = DOMAIN jobs
           /\ outstanding \in 0 .. MaxJobs + 1
           /\ trJob \in 0 .. Len(jobs) /\ trLaunched \in BOOLEAN
           /\ cycle \in Nat /\ reported \in Seq(Nat)

\* Only past cycles are reported, and the one that is collecting is not.
ReportInv == /\ \A k \in DOMAIN reported : reported[k] <= cycle
             /\ \A k, l \in DOMAIN reported : reported[k] = reported[l] => k = l
             /\ state = "collect" => \A k \in DOMAIN reported : reported[k] # cycle

\* One trace of a cycle waits at most, none of a cycle to come, and none of the
\* present one before it was launched.
Traces(c) == {j \in CnJobs : j.kind = "trace" /\ j.cycle = c}
TraceCounts(q) == [c \in Nat |-> HowMany(q, Traces(c))]
AtMostOne(n, present, launched) == /\ \A c \in Nat : n[c] \in {0, 1}
                                   /\ \A c \in Nat : c > present => n[c] = 0
                                   /\ ~launched => n[present] = 0
TraceInv == AtMostOne(TraceCounts(loQ), cycle, trLaunched)

IInv == TypeInv /\ NeverWaitsForNothing /\ ReportInv /\ TraceInv

-----------------------------------------------------------------------------
LEMMA Kinds ==
  /\ CnJobs \cup HiLoad \cup LoLoad \subseteq AllJobs
  /\ \A j \in HiLoad \cup LoLoad : j.src # "checknet" /\ \A c : j \notin Traces(c)
  /\ \A j \in CnJobs : j.src = "checknet" /\ j.idx \in Nat
  /\ \A j \in AllJobs : j.src = "checknet" => j \in CnJobs
<1>1. \A j \in HiLoad \cup LoLoad : j.src # "checknet"
  BY CnAssumption
<1>2. \A j \in CnJobs : j.src = "checknet" /\ j.idx \in Nat
  BY DEF CnJobs
<1>3. \A c : \A j \in Traces(c) : j \in CnJobs
  BY DEF Traces
<1>4. QED
  BY <1>1, <1>2, <1>3 DEF AllJobs

LEMMA Start ==
  ASSUME Init
  PROVE  IInv
<1>1. hiQ = <<>> /\ loQ = <<>> /\ resQ = <<>> /\ at = "front" /\ jobs = <<>> /\ reported = <<>>
  BY DEF Init, WorkerInit
<1>2. WorkerOK(AllJobs)
  BY <1>1, DepthAssumption DEF WorkerOK
<1>3. TypeInv
  <2>1. jobs \in Seq(Listed) /\ Len(jobs) = 0 /\ reported \in Seq(Nat)
    BY <1>1
  <2>2. DOMAIN res = DOMAIN jobs
    BY DEF Init
  <2>3. MaxJobs \in Nat \ {0} /\ maxJobs = MaxJobs
    BY CnAssumption DEF Init
  <2>4. maxJobs \in 1 .. MaxJobs /\ Len(jobs) <= MaxJobs + 1
    BY <2>1, <2>3
  <2>5. outstanding \in 0 .. MaxJobs + 1 /\ trJob \in 0 .. Len(jobs)
    BY <2>1, <2>3 DEF Init
  <2>6. state = "idle" /\ trLaunched \in BOOLEAN /\ cycle \in Nat
    BY DEF Init
  <2>7. QED
    BY <1>2, <2>1, <2>2, <2>4, <2>5, <2>6 DEF TypeInv
<1>4. ReportInv /\ NeverWaitsForNothing
  BY <1>1 DEF ReportInv, NeverWaitsForNothing, Init
<1>5. TraceInv
  <2>1. \A c \in Nat : HowMany(loQ, Traces(c)) = 0
    BY <1>1, FS_EmptySet DEF HowMany, Places
  <2>2. QED
    BY <2>1 DEF TraceInv, AtMostOne, TraceCounts, Init
<1>6. QED
  BY <1>3, <1>4, <1>5 DEF IInv

\* Steps that bring no trace into the lo queue.
LEMMA NoNewTraces ==
  ASSUME TypeInv, TraceInv, cycle' = cycle, trLaunched' = trLaunched,
         \/ loQ' = loQ
         \/ loQ # <<>> /\ loQ' = Tail(loQ)
         \/ \E j \in HiLoad \cup LoLoad : loQ' = Append(loQ, j)
  PROVE  TraceInv'
<1>1. loQ \in Seq(AllJobs) /\ cycle \in Nat
  BY DEF TypeInv, WorkerOK
<1>2. ASSUME NEW c \in Nat
      PROVE  HowMany(loQ', Traces(c)) \in Nat /\ HowMany(loQ', Traces(c)) <= HowMany(loQ, Traces(c))
  <2>1. HowMany(loQ, Traces(c)) \in Nat
    BY <1>1, PlacesFinite
  <2>2. CASE loQ' = loQ
    BY <2>1, <2>2
  <2>3. CASE loQ # <<>> /\ loQ' = Tail(loQ)
    <3>1. HowMany(loQ, Traces(c)) = HowMany(loQ', Traces(c)) + OneIn(Head(loQ), Traces(c))
      BY <1>1, <2>3, TailPlaces
    <3>2. Tail(loQ) \in Seq(AllJobs)
      BY <1>1, <2>3
    <3>3. HowMany(Tail(loQ), Traces(c)) \in Nat
      BY <3>2, PlacesFinite
    <3>4. OneIn(Head(loQ), Traces(c)) \in {0, 1}
      BY DEF OneIn
    <3>5. QED
      BY <2>1, <2>3, <3>1, <3>3, <3>4
  <2>4. ASSUME NEW j \in HiLoad \cup LoLoad, loQ' = Append(loQ, j)
        PROVE  HowMany(loQ', Traces(c)) = HowMany(loQ, Traces(c))
    <3>1. j \in AllJobs /\ j \notin Traces(c)
      BY Kinds
    <3>2. HowMany(loQ', Traces(c)) = HowMany(loQ, Traces(c)) + OneIn(j, Traces(c))
      BY <1>1, <2>4, <3>1, AppendPlaces
    <3>3. QED
      BY <2>1, <3>1, <3>2 DEF OneIn
  <2>5. QED
    BY <2>1, <2>2, <2>3, <2>4
<1> DEFINE n == TraceCounts(loQ)
           m == TraceCounts(loQ')
<1>3. \A c \in Nat : m[c] \in Nat /\ m[c] <= n[c]
  BY <1>2 DEF TraceCounts
<1>4. AtMostOne(n, cycle, trLaunched)
  BY DEF TraceInv
<1> HIDE DEF n, m
<1>5. AtMostOne(m, cycle', trLaunched')
  BY <1>1, <1>3, <1>4 DEF AtMostOne
<1>6. QED
  BY <1>5 DEF TraceInv, m

\* Steps that leave checknet alone.
LEMMA ElsewhereKeeps ==
  ASSUME IInv, UNCHANGED cnVars, WorkerOK(AllJobs)', Flights("checknet")' = Flights("checknet"),
         TraceInv'
  PROVE  IInv'
BY DEF IInv, TypeInv, NeverWaitsForNothing, ReportInv, cnVars, cnConfig, cnCycle, cnReports

LEMMA WorkKeeps ==
  ASSUME IInv, Work
  PROVE  IInv'
<1>1. WorkerOK(AllJobs)' /\ Flights("checknet")' = Flights("checknet")
  BY WorkerKeeps DEF IInv, TypeInv, Work
<1>2. loQ' = loQ \/ (loQ # <<>> /\ loQ' = Tail(loQ))
  BY DEF Work, WorkerStep, RunSomeJob, RunJob, Take, LoTurn, IdleTick, EndPoll
<1>3. cycle' = cycle /\ trLaunched' = trLaunched
  BY DEF Work, cnVars, cnCycle
<1>4. TraceInv'
  BY <1>2, <1>3, NoNewTraces DEF IInv
<1>5. QED
  BY <1>1, <1>4, ElsewhereKeeps DEF Work

LEMMA OthersKeepCycle ==
  ASSUME IInv, OthersSubmit(HiLoad, LoLoad) \/ OthersHandle(HiLoad, LoLoad), UNCHANGED cnVars
  PROVE  IInv'
<1>1. WorkerOK(AllJobs)' /\ Flights("checknet")' = Flights("checknet")
  BY Kinds, OthersKeep DEF IInv, TypeInv
<1>2. loQ' = loQ \/ \E j \in HiLoad \cup LoLoad : loQ' = Append(loQ, j)
  BY DEF OthersSubmit, OthersHandle, OthersEnqueue, EnqueueHi, EnqueueLo, Pushed, queueVars
<1>3. cycle' = cycle /\ trLaunched' = trLaunched
  BY DEF cnVars, cnCycle
<1>4. TraceInv'
  BY <1>2, <1>3, NoNewTraces DEF IInv
<1>5. QED
  BY <1>1, <1>4, ElsewhereKeeps

\* The end of a cycle that was not reported yet: the report has it once.
LEMMA FinishReports ==
  ASSUME TypeInv, ReportInv, NEW rs, Finish(rs),
         cycle' \in Nat, cycle' >= cycle, \A k \in DOMAIN reported : reported[k] # cycle'
  PROVE  ReportInv' /\ reported' \in Seq(Nat) /\ state' = "idle"
<1>1. reported \in Seq(Nat) /\ cycle \in Nat
  BY DEF TypeInv
<1>2. reported' = Append(reported, cycle') /\ state' = "idle"
  BY DEF Finish, ToIdle
<1>3. reported' \in Seq(Nat)
  BY <1>1, <1>2
<1>4. /\ DOMAIN reported' = DOMAIN reported \cup {Len(reported) + 1}
      /\ reported'[Len(reported) + 1] = cycle'
      /\ \A k \in DOMAIN reported : reported'[k] = reported[k] /\ reported[k] \in Nat
  BY <1>1, <1>2
<1>5. \A k \in DOMAIN reported' : reported'[k] <= cycle'
  BY <1>1, <1>4 DEF ReportInv
<1>6. \A k, l \in DOMAIN reported' : reported'[k] = reported'[l] => k = l
  BY <1>4 DEF ReportInv
<1>7. QED
  BY <1>2, <1>3, <1>5, <1>6 DEF ReportInv

\* Handlers that do not touch the rings.
LEMMA HandlerKeeps ==
  ASSUME IInv, InHandler, UNCHANGED queueVars
  PROVE  /\ WorkerOK(AllJobs)' /\ Flights("checknet")' = Flights("checknet")
         /\ cycle' = cycle /\ trLaunched' = trLaunched => TraceInv'
<1>1. UNCHANGED <<hiQ, loQ, resQ>> /\ at' = at
  BY DEF InHandler, queueVars
<1>2. QED
  BY <1>1, RingsKept, NoNewTraces DEF IInv, TypeInv

LEMMA QuietKeeps ==
  ASSUME IInv,
         \/ \E on \in BOOLEAN, mj \in 1 .. MaxJobs : SetConfig(on, mj)
         \/ Run
         \/ WaitTimeout
  PROVE  IInv'
<1>1. /\ InHandler /\ UNCHANGED <<queueVars, cnCycle, outstanding, cnReports>>
      /\ maxJobs' \in 1 .. MaxJobs
      /\ state' = state \/ state' \in {"idle", "wait"}
  BY DEF SetConfig, Run, WaitTimeout, IInv, TypeInv, cnConfig
<1>2. UNCHANGED <<jobs, res, trJob, trLaunched, cycle, outstanding, reported>>
  BY <1>1 DEF cnCycle, cnReports
<1>3. WorkerOK(AllJobs)' /\ Flights("checknet")' = Flights("checknet") /\ TraceInv'
  BY <1>1, <1>2, HandlerKeeps
<1>4. TypeInv'
  BY <1>1, <1>2, <1>3 DEF IInv, TypeInv
<1>5. NeverWaitsForNothing' /\ ReportInv'
  BY <1>1, <1>2, <1>3 DEF IInv, NeverWaitsForNothing, ReportInv
<1>6. QED
  BY <1>3, <1>4, <1>5 DEF IInv

LEMMA CollectTimeoutKeeps ==
  ASSUME IInv, CollectTimeout
  PROVE  IInv'
<1>1. /\ InHandler /\ state = "collect" /\ cycle' = cycle /\ Finish(res)
      /\ UNCHANGED <<queueVars, maxJobs, jobs, res, trJob, trLaunched, outstanding>>
  BY DEF CollectTimeout, cnConfig
<1>2. WorkerOK(AllJobs)' /\ TraceInv'
  BY <1>1, HandlerKeeps
<1>3. ReportInv' /\ reported' \in Seq(Nat) /\ state' = "idle"
  <2>1. cycle \in Nat /\ cycle >= cycle /\ \A k \in DOMAIN reported : reported[k] # cycle
    BY <1>1 DEF IInv, TypeInv, ReportInv
  <2>2. QED
    BY <1>1, <2>1, FinishReports DEF IInv
<1>4. TypeInv'
  BY <1>1, <1>2, <1>3 DEF IInv, TypeInv
<1>5. QED
  BY <1>2, <1>3, <1>4 DEF IInv, NeverWaitsForNothing

-----------------------------------------------------------------------------
\* The list of a cycle.
LEMMA CycleList ==
  ASSUME maxJobs \in 1 .. MaxJobs, NEW list \in Assignments, NEW gateway \in BOOLEAN
  PROVE  CycleJobs(list, gateway) \in Seq(Listed) /\ Len(CycleJobs(list, gateway)) <= MaxJobs + 1
<1> DEFINE m == IF Len(list) < maxJobs THEN Len(list) ELSE maxJobs
           head == SubSeq(list, 1, m)
           tail == IF gateway THEN <<Gateway>> ELSE <<>>
<1>1. list \in Seq(Targets) /\ MaxJobs \in Nat
  BY CnAssumption
<1>2. m \in Nat /\ m <= Len(list) /\ m <= MaxJobs
  BY <1>1
<1>3. list \in Seq(Listed)
  BY <1>1 DEF Listed
<1>4. head \in Seq(Listed) /\ Len(head) = m
  <2> HIDE DEF m
  <2>1. QED
    BY <1>2, <1>3
<1>5. tail \in Seq(Listed) /\ Len(tail) <= 1
  <2>1. Gateway \in Listed
    BY DEF Listed
  <2>2. <<Gateway>> \in Seq(Listed) /\ Len(<<Gateway>>) = 1
    BY <2>1
  <2>3. <<>> \in Seq(Listed) /\ Len(<<>>) = 0
    OBVIOUS
  <2>4. QED
    BY <2>2, <2>3
<1>6. CycleJobs(list, gateway) = head \o tail
  BY DEF CycleJobs, Gateway
<1> HIDE DEF head, tail, m
<1>7. head \o tail \in Seq(Listed) /\ Len(head \o tail) = Len(head) + Len(tail)
  BY <1>4, <1>5
<1>8. QED
  BY <1>1, <1>2, <1>4, <1>5, <1>6, <1>7

\* A cycle begins.
LEMMA OnJobsKeeps ==
  ASSUME IInv, NEW list \in Assignments, NEW gateway \in BOOLEAN, OnJobs(list, gateway)
  PROVE  IInv'
<1> DEFINE n == Len(jobs')
           a == Accepted(n)
           p == [i \in 1 .. a |-> CnJob(i, jobs'[i].kind)]
<1>1. /\ InHandler /\ cycle' = cycle + 1 /\ hiQ' = hiQ /\ loQ' = loQ \o p
      /\ outstanding' = a /\ trJob' = 0 /\ trLaunched' = FALSE /\ maxJobs' = maxJobs
      /\ jobs' = CycleJobs(list, gateway) /\ DOMAIN res' = DOMAIN jobs'
      /\ \/ n = 0 /\ state' = "idle" /\ UNCHANGED cnReports
         \/ n > 0 /\ outstanding' = 0 /\ Finish(res')
         \/ n > 0 /\ outstanding' > 0 /\ state' = "collect" /\ UNCHANGED cnReports
  BY DEF OnJobs, Outstanding, cnConfig
<1>2. WorkerOK(AllJobs) /\ cycle \in Nat /\ maxJobs \in 1 .. MaxJobs
  BY DEF IInv, TypeInv
<1>3. jobs' \in Seq(Listed) /\ n <= MaxJobs + 1 /\ n \in Nat
  BY <1>1, <1>2, CycleList
<1>4. /\ loQ \in Seq(AllJobs) /\ Len(loQ) \in Nat /\ Len(loQ) <= JobQDepth
      /\ JobQDepth \in Nat /\ MaxJobs \in Nat
  BY <1>2, DepthAssumption, CnAssumption DEF WorkerOK
<1>5. a \in Nat /\ a <= n /\ Len(loQ) + a <= JobQDepth
  <2> HIDE DEF n
  <2>1. QED
    BY <1>3, <1>4 DEF Accepted
<1> HIDE DEF a
<1>6. \A i \in 1 .. a : CnJob(i, jobs'[i].kind) \in CnJobs /\ jobs'[i].kind # "trace"
  <2>1. \A x \in Listed : x.kind \in {"icmp", "tcp", "dns", "http"}
    BY DEF Listed, Targets, Gateway, Target
  <2>2. \A i \in 1 .. a : jobs'[i] \in Listed
    BY <1>3, <1>5
  <2>3. cycle' \in Nat
    BY <1>1, <1>2
  <2>4. QED
    BY <1>5, <2>1, <2>2, <2>3 DEF CnJob, CnJobs
<1>7. p \in Seq(AllJobs) /\ Len(p) = a
  <2>1. \A i \in 1 .. a : CnJob(i, jobs'[i].kind) \in AllJobs
    BY <1>6 DEF AllJobs
  <2>2. QED
    BY <1>5, <2>1
<1>8. DOMAIN p = 1 .. a /\ \A i \in 1 .. a : p[i] = CnJob(i, jobs'[i].kind)
  OBVIOUS
<1>9. \A k \in DOMAIN p : p[k].src = "checknet" /\ p[k].kind # "trace"
  BY <1>6, <1>8 DEF CnJob
<1> HIDE DEF p
<1>10. WorkerOK(AllJobs)' /\ Flights("checknet")' = Flights("checknet") + a
  BY <1>1, <1>2, <1>5, <1>7, <1>9, HandlerPushes
<1>11. TraceInv'
  <2>1. ASSUME NEW c \in Nat PROVE HowMany(loQ', Traces(c)) = HowMany(loQ, Traces(c))
    <3>1. HowMany(p, Traces(c)) = 0
      <4>1. \A k \in DOMAIN p : p[k] \notin Traces(c)
        BY <1>9 DEF Traces
      <4>2. QED
        BY <1>7, <4>1, AllOrNone
    <3>2. HowMany(loQ \o p, Traces(c)) = HowMany(loQ, Traces(c)) + HowMany(p, Traces(c))
      BY <1>4, <1>7, ConcatPlaces
    <3>3. HowMany(loQ, Traces(c)) \in Nat
      BY <1>4, PlacesFinite
    <3>4. QED
      BY <1>1, <3>1, <3>2, <3>3
  <2> DEFINE m == TraceCounts(loQ')
  <2>2. AtMostOne(TraceCounts(loQ), cycle, trLaunched)
    BY DEF IInv, TraceInv
  <2>3. m = TraceCounts(loQ)
    BY <2>1 DEF TraceCounts
  <2> HIDE DEF m
  <2>4. AtMostOne(m, cycle', trLaunched')
    BY <1>1, <1>2, <2>2, <2>3 DEF AtMostOne
  <2>5. QED
    BY <2>4 DEF TraceInv, m
<1>12. ReportInv' /\ reported' \in Seq(Nat) /\ state' \in {"idle", "collect"}
       /\ (state' = "collect" => a > 0)
  <2>1. ReportInv /\ TypeInv /\ reported \in Seq(Nat)
    BY DEF IInv, TypeInv
  <2>2. \A k \in DOMAIN reported : reported[k] \in Nat /\ reported[k] <= cycle
    BY <2>1 DEF ReportInv
  <2>3. cycle' \in Nat /\ cycle' >= cycle /\ \A k \in DOMAIN reported : reported[k] # cycle'
    BY <1>1, <1>2, <2>2
  <2>4. CASE Finish(res')
    BY <2>1, <2>3, <2>4, FinishReports
  <2>5. CASE /\ UNCHANGED cnReports
             /\ state' = "idle" \/ (state' = "collect" /\ outstanding' > 0)
    <3>1. reported' = reported
      BY <2>5 DEF cnReports
    <3>2. \A k \in DOMAIN reported : reported[k] <= cycle'
      BY <1>1, <1>2, <2>2
    <3>3. QED
      BY <1>1, <2>1, <2>3, <2>5, <3>1, <3>2 DEF ReportInv
  <2>6. QED
    BY <1>1, <2>4, <2>5
<1>13. TypeInv'
  <2>1. outstanding' \in 0 .. MaxJobs + 1 /\ trJob' \in 0 .. Len(jobs')
    BY <1>1, <1>3, <1>4, <1>5
  <2>2. cycle' \in Nat
    BY <1>1, <1>2
  <2>3. QED
    BY <1>1, <1>2, <1>3, <1>10, <1>12, <2>1, <2>2 DEF TypeInv
<1>14. NeverWaitsForNothing'
  <2>1. Flights("checknet") \in Nat
    BY <1>2, FlightsType
  <2>2. state' = "collect" => a \in 1 .. Flights("checknet") + a
    BY <1>5, <1>12, <2>1
  <2>3. QED
    BY <1>1, <1>10, <2>2 DEF NeverWaitsForNothing
<1>15. QED
  BY <1>11, <1>12, <1>13, <1>14 DEF IInv

-----------------------------------------------------------------------------
\* The trace of a cycle that had none.
LEMMA OneMore ==
  ASSUME NEW n, NEW m, NEW c \in Nat, AtMostOne(n, c, FALSE),
         \A d \in Nat : m[d] = n[d] + (IF d = c THEN 1 ELSE 0)
  PROVE  AtMostOne(m, c, TRUE)
<1>1. \A d \in Nat : n[d] \in {0, 1} /\ (d > c => n[d] = 0)
  BY DEF AtMostOne
<1>2. n[c] = 0
  BY DEF AtMostOne
<1>3. m[c] = 1
  BY <1>2
<1>4. \A d \in Nat : d # c => m[d] = n[d]
  BY <1>1
<1>5. QED
  BY <1>1, <1>3, <1>4 DEF AtMostOne

-----------------------------------------------------------------------------
\* A result comes in while the cycle collects, and may start a trace.
LEMMA CollectKeeps ==
  ASSUME IInv, NEW r, NEW cool \in BOOLEAN, Poll(r), r.job.src = "checknet", Collect(r, cool)
  PROVE  IInv'
<1> DEFINE i == r.job.idx
           known == i <= Len(jobs)
           launched == known /\ LaunchesTrace(r, cool) /\ CanEnqueueLo
           left == outstanding + CountTrace(launched)
           after == IF left > 0 THEN left - 1 ELSE 0
<1>1. /\ state = "collect" /\ cycle' = cycle /\ jobs' = jobs /\ maxJobs' = maxJobs
      /\ DOMAIN res' = DOMAIN res
      /\ trJob' = (IF known /\ IsTrace(r) THEN i ELSE trJob)
      /\ trLaunched' = (trLaunched \/ launched)
      /\ IF launched THEN EnqueueLo(CnJob(i, "trace")) ELSE UNCHANGED queueVars
      /\ outstanding' = after
      /\ IF after = 0 THEN Finish(res') ELSE UNCHANGED <<state, cnReports>>
  BY DEF Collect, cnConfig
<1>2. /\ WorkerOK(AllJobs) /\ cycle \in Nat /\ jobs \in Seq(Listed)
      /\ outstanding \in 0 .. MaxJobs + 1 /\ trJob \in 0 .. Len(jobs)
      /\ loQ \in Seq(AllJobs) /\ trLaunched \in BOOLEAN /\ MaxJobs \in Nat
  BY CnAssumption DEF IInv, TypeInv, WorkerOK
<1>3. r.job \in CnJobs /\ i \in Nat /\ One(r.job, "checknet") = 1
  BY <1>2, PollGives, Kinds DEF One
<1>4. launched \in BOOLEAN /\ known \in BOOLEAN
  BY <1>2, <1>3 DEF LaunchesTrace, CanEnqueueLo, HasRoom
<1>5. launched => ~trLaunched
  BY DEF LaunchesTrace, TraceWanted
<1>6. CASE launched
  <2> DEFINE t == CnJob(i, "trace")
  <2>1. /\ EnqueueLo(t) /\ CanEnqueueLo /\ t \in AllJobs /\ t.src = "checknet"
        /\ \A c \in Nat : t \in Traces(c) <=> c = cycle
    BY <1>1, <1>2, <1>3, <1>6 DEF CnJob, CnJobs, AllJobs, Traces
  <2>2. loQ' = Append(loQ, t)
    BY <2>1 DEF EnqueueLo, CanEnqueueLo, Pushed
  <2> HIDE DEF t
  <2>3. One(t, "checknet") = 1
    BY <2>1 DEF One
  <2>4. /\ WorkerOK(AllJobs)'
        /\ Flights("checknet")' + One(r.job, "checknet") = Flights("checknet") + One(t, "checknet")
    BY <1>2, <2>1, PollAndPush
  <2>5. Flights("checknet") \in Nat /\ Flights("checknet")' \in Nat
    BY <1>2, <2>4, FlightsType, FlightsTypeNext
  <2>6. Flights("checknet")' = Flights("checknet")
    BY <1>3, <2>3, <2>4, <2>5
  <2>7. outstanding \in 1 .. Flights("checknet")
    BY <1>1 DEF IInv, NeverWaitsForNothing
  <2>8. outstanding' = outstanding
    BY <1>1, <1>2, <1>6, <2>5, <2>7 DEF CountTrace
  <2>9. state' = "collect" /\ reported' = reported
    BY <1>1, <2>5, <2>7, <2>8 DEF cnReports
  <2>10. TraceInv'
    <3>1. \A c \in Nat : HowMany(loQ', Traces(c)) = HowMany(loQ, Traces(c)) + OneIn(t, Traces(c))
      BY <1>2, <2>1, <2>2, AppendPlaces
    <3> DEFINE n == TraceCounts(loQ)
               m == TraceCounts(loQ')
    <3>2. AtMostOne(n, cycle, FALSE)
      BY <1>2, <1>5, <1>6 DEF IInv, TraceInv, AtMostOne
    <3>3. \A c \in Nat : m[c] = n[c] + (IF c = cycle THEN 1 ELSE 0)
      BY <2>1, <3>1 DEF OneIn, TraceCounts
    <3> HIDE DEF n, m
    <3>4. trLaunched' = TRUE
      BY <1>1, <1>6
    <3>5. AtMostOne(m, cycle', trLaunched')
      BY <1>1, <1>2, <3>2, <3>3, <3>4, OneMore
    <3>6. QED
      BY <3>5 DEF TraceInv, m
  <2>11. TypeInv'
    <3>1. trJob' \in 0 .. Len(jobs)
      BY <1>1, <1>2, <1>3
    <3>2. trLaunched' \in BOOLEAN
      BY <1>1, <1>2, <1>4
    <3>3. QED
      BY <1>1, <2>4, <2>8, <2>9, <3>1, <3>2 DEF IInv, TypeInv
  <2>12. NeverWaitsForNothing' /\ ReportInv'
    BY <1>1, <2>6, <2>7, <2>8, <2>9 DEF IInv, NeverWaitsForNothing, ReportInv
  <2>13. QED
    BY <2>10, <2>11, <2>12 DEF IInv
<1>7. CASE ~launched
  <2>1. UNCHANGED queueVars /\ trLaunched' = trLaunched
    BY <1>1, <1>2, <1>7
  <2>2. WorkerOK(AllJobs)' /\ Flights("checknet") = Flights("checknet")' + One(r.job, "checknet")
    BY <1>2, <2>1, PollOnly
  <2>3. Flights("checknet") \in Nat /\ Flights("checknet")' \in Nat
    BY <1>2, <2>2, FlightsType, FlightsTypeNext
  <2>4. outstanding \in 1 .. Flights("checknet")
    BY <1>1 DEF IInv, NeverWaitsForNothing
  <2>5. outstanding' = outstanding - 1
    BY <1>1, <1>2, <1>7, <2>3, <2>4 DEF CountTrace
  <2>6. outstanding' \in Nat /\ outstanding' <= Flights("checknet")' /\ outstanding' <= MaxJobs + 1
    BY <1>2, <1>3, <2>2, <2>3, <2>4, <2>5
  <2>7. TraceInv'
    BY <1>1, <2>1, NoNewTraces DEF IInv, queueVars
  <2>8. /\ ReportInv' /\ reported' \in Seq(Nat)
        /\ state' = "idle" \/ (state' = "collect" /\ outstanding' # 0)
    <3>1. CASE after = 0
      <4>1. cycle' \in Nat /\ cycle' >= cycle /\ \A k \in DOMAIN reported : reported[k] # cycle'
        BY <1>1, <1>2 DEF IInv, ReportInv
      <4>2. Finish(res')
        BY <1>1, <3>1
      <4>3. QED
        BY <4>1, <4>2, FinishReports DEF IInv
    <3>2. CASE after # 0
      <4>1. state' = "collect" /\ reported' = reported /\ outstanding' # 0
        BY <1>1, <3>2 DEF cnReports
      <4>2. QED
        BY <1>1, <4>1 DEF IInv, TypeInv, ReportInv
    <3>3. QED
      BY <3>1, <3>2
  <2>9. TypeInv'
    <3>1. trJob' \in 0 .. Len(jobs)
      BY <1>1, <1>2, <1>3
    <3>2. outstanding' \in 0 .. MaxJobs + 1
      BY <1>2, <2>6
    <3>3. QED
      BY <1>1, <2>1, <2>2, <2>8, <3>1, <3>2 DEF IInv, TypeInv
  <2>10. NeverWaitsForNothing'
    <3>1. outstanding' # 0 => outstanding' \in 1 .. Flights("checknet")'
      BY <2>3, <2>6
    <3>2. QED
      BY <2>8, <3>1 DEF NeverWaitsForNothing
  <2>11. QED
    BY <2>7, <2>8, <2>9, <2>10 DEF IInv
<1>8. QED
  BY <1>4, <1>6, <1>7

\* Outside a collecting cycle a result changes nothing in checknet.
LEMMA IgnoredKeeps ==
  ASSUME IInv, NEW r, Poll(r), state # "collect", UNCHANGED <<queueVars, cnVars>>
  PROVE  IInv'
<1>1. WorkerOK(AllJobs)'
  BY PollOnly DEF IInv, TypeInv
<1>2. UNCHANGED <<state, maxJobs, jobs, res, trJob, trLaunched, cycle, outstanding, reported>>
  BY DEF cnVars, cnConfig, cnCycle, cnReports
<1>3. TraceInv'
  BY <1>2, NoNewTraces DEF IInv, queueVars
<1>4. QED
  BY <1>1, <1>2, <1>3 DEF IInv, TypeInv, NeverWaitsForNothing, ReportInv

LEMMA StutterKeeps ==
  ASSUME IInv, UNCHANGED vars
  PROVE  IInv'
<1>1. /\ UNCHANGED <<hiQ, loQ, resQ, at>> /\ UNCHANGED cnVars
      /\ cycle' = cycle /\ trLaunched' = trLaunched
  BY DEF vars, workerVars, cnVars, cnCycle
<1>2. WorkerOK(AllJobs)' /\ Flights("checknet")' = Flights("checknet")
  BY <1>1, RingsKept DEF IInv, TypeInv
<1>3. TraceInv'
  BY <1>1, NoNewTraces DEF IInv
<1>4. QED
  BY <1>1, <1>2, <1>3, ElsewhereKeeps

LEMMA NextKeeps ==
  ASSUME IInv, [Next]_vars
  PROVE  IInv'
<1>1. CASE \E on \in BOOLEAN, mj \in 1 .. MaxJobs : SetConfig(on, mj)
  BY <1>1, QuietKeeps
<1>2. CASE Run \/ WaitTimeout
  BY <1>2, QuietKeeps
<1>3. CASE \E list \in Assignments, gateway \in BOOLEAN : OnJobs(list, gateway)
  BY <1>3, OnJobsKeeps
<1>4. CASE CollectTimeout
  BY <1>4, CollectTimeoutKeeps
<1>5. CASE Work
  BY <1>5, WorkKeeps
<1>6. CASE Dispatch
  <2>1. ASSUME NEW r, NEW cool \in BOOLEAN, OnNetResult(r, cool)
        PROVE  IInv'
    <3>1. CASE Collect(r, cool)
      BY <2>1, <3>1, CollectKeeps DEF OnNetResult
    <3>2. CASE state # "collect" /\ UNCHANGED <<queueVars, cnVars>>
      BY <2>1, <3>2, IgnoredKeeps DEF OnNetResult
    <3>3. QED
      BY <2>1, <3>1, <3>2 DEF OnNetResult
  <2>2. CASE OthersHandle(HiLoad, LoLoad) /\ UNCHANGED cnVars
    BY <2>2, OthersKeepCycle
  <2>3. QED
    BY <1>6, <2>1, <2>2 DEF Dispatch
<1>7. CASE OthersSubmit(HiLoad, LoLoad) /\ UNCHANGED cnVars
  BY <1>7, OthersKeepCycle
<1>8. CASE UNCHANGED vars
  BY <1>8, StutterKeeps
<1>9. QED
  BY <1>1, <1>2, <1>3, <1>4, <1>5, <1>6, <1>7, <1>8 DEF Next

-----------------------------------------------------------------------------
\* What follows for a state.
LEMMA StrongEnough ==
  ASSUME IInv
  PROVE  Inv /\ OncePerCycle
<1>1. MaxJobs \in Nat /\ outstanding \in 0 .. MaxJobs + 2
  BY CnAssumption DEF IInv, TypeInv
<1>2. Inv
  BY <1>1 DEF Inv, IInv, TypeInv, TypeOK
<1>3. ASSUME NEW c \in 1 .. cycle
      PROVE  TracesOf(c) <= 1
  <2>1. c \in Nat /\ loQ \in Seq(AllJobs)
    BY DEF IInv, TypeInv, WorkerOK
  <2>2. \A k \in DOMAIN loQ : loQ[k] \in AllJobs
    BY <2>1
  <2>3. \A k \in DOMAIN loQ :
          (loQ[k].src = "checknet" /\ loQ[k].kind = "trace" /\ loQ[k].cycle = c)
            <=> loQ[k] \in Traces(c)
    BY <2>2, Kinds DEF Traces
  <2>4. TracesOf(c) = HowMany(loQ, Traces(c))
    BY <2>3 DEF TracesOf, HowMany, Places
  <2>5. QED
    BY <2>1, <2>4 DEF IInv, TraceInv, AtMostOne, TraceCounts
<1>4. QED
  BY <1>2, <1>3 DEF OncePerCycle, IInv, ReportInv

\* The countdown of a cycle never exceeds the jobs checknet has with the worker
\* (checknet.cpp, g_outstanding), whatever the rings refuse and whenever the
\* results of an earlier cycle come.
THEOREM ChecknetInv == Spec => []Inv
<1>1. Init => IInv
  BY Start
<1>2. IInv /\ [Next]_vars => IInv'
  BY NextKeeps
<1>3. IInv => Inv
  BY StrongEnough
<1>4. QED
  BY <1>1, <1>2, <1>3, PTL DEF Spec

\* No cycle is reported twice and none starts a second trace (checknet.cpp,
\* cn_finish_cycle and g_tr_launched).
THEOREM ChecknetOncePerCycle == Spec => []OncePerCycle
<1>1. Init => IInv
  BY Start
<1>2. IInv /\ [Next]_vars => IInv'
  BY NextKeeps
<1>3. IInv => OncePerCycle
  BY StrongEnough
<1>4. QED
  BY <1>1, <1>2, <1>3, PTL DEF Spec
=============================================================================

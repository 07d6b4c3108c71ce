--------------------------- MODULE MonitorsProofs ----------------------------
(***************************************************************************)
(* The monitors, for any number of slots, ids and configurations: an id    *)
(* has one slot, a slot that waits for a result will get one, and a target *)
(* is called down or up on results in a row only.                          *)
(***************************************************************************)
EXTENDS Monitors, WorkerProofs, WellFoundedInduction

MonJobs == [src : {"monitor"}, kind : {"icmp"}, id : Ids, idx : Slots, cfg : Cfgs \cup {NoCfg}]
AllJobs == MonJobs \cup HiLoad \cup LoLoad

TypeInv == /\ WorkerOK(AllJobs)
           /\ TypeOK
           /\ hist \in [Slots -> Seq(BOOLEAN)]

\* The table of slots is a partial function of the ids.
SlotsInv == \A i, k \in Slots : id[i] = id[k] /\ id[i] # 0 => i = k

\* f failures, or o successes, are the newest of the results h.
CountsOf(h, f, o) == /\ Len(h) <= CountCap /\ f <= Len(h) /\ o <= Len(h)
                     /\ \A k \in 1 .. f : h[k] = FALSE
                     /\ \A k \in 1 .. o : h[k] = TRUE
HistInv == \A i \in Slots : CountsOf(hist[i], cfail[i], cok[i])

IInv == TypeInv /\ SlotsInv /\ AwaitedResultComes /\ HistInv

-----------------------------------------------------------------------------
LEMMA Kinds ==
  /\ MonJobs \cup HiLoad \cup LoLoad \subseteq AllJobs
  /\ \A j \in HiLoad \cup LoLoad : j.src # "monitor"
  /\ \A j \in MonJobs : j.src = "monitor" /\ j.id \in Ids /\ j.id # 0 /\ j.idx \in Slots
  /\ \A j \in AllJobs : j.src = "monitor" => j \in MonJobs
BY MonAssumption DEF AllJobs, MonJobs

\* The first slot of a set of slots is one of them.
LEMMA FirstIn ==
  ASSUME NEW S, S \subseteq Slots, S # {}
  PROVE  First(S) \in S
<1> DEFINE R == {ss \in Nat \X Nat : ss[1] < ss[2]}
<1>1. IsWellFoundedOn(R, Nat)
  BY NatLessThanWellFounded DEF OpToRel
<1>2. S \subseteq Nat
  BY MonAssumption
<1> HIDE DEF R
<1>3. \E x \in S : \A y \in S : ~(<<y, x>> \in R)
  BY <1>1, <1>2, WFMin, Zenon
<1>4. PICK x \in S : \A y \in S : ~(<<y, x>> \in R)
  BY <1>3
<1>5. ASSUME NEW y \in S
      PROVE  x <= y
  <2>1. x \in Nat /\ y \in Nat
    BY <1>2
  <2>2. ~(y < x)
    BY <1>4, <2>1 DEF R
  <2>3. QED
    BY <2>1, <2>2
<1>6. QED
  BY <1>5 DEF First

LEMMA Start ==
  ASSUME Init
  PROVE  IInv
<1>1. hiQ = <<>> /\ loQ = <<>> /\ resQ = <<>> /\ at = "front"
  BY DEF Init, WorkerInit
<1>2. WorkerOK(AllJobs)
  BY <1>1, DepthAssumption DEF WorkerOK
<1>3. CountCap \in Nat /\ MaxBurst \in Nat
  BY MonAssumption
<1>4. TypeOK /\ hist \in [Slots -> Seq(BOOLEAN)]
  <2>1. /\ id \in [Slots -> Ids \cup {0}] /\ cfg \in [Slots -> Cfgs \cup {NoCfg}]
        /\ state \in [Slots -> {"unknown", "down", "up"}]
        /\ awaiting \in [Slots -> BOOLEAN] /\ due \in [Slots -> BOOLEAN]
        /\ walked \in BOOLEAN
    BY DEF Init
  <2>2. /\ cfail \in [Slots -> 0 .. CountCap] /\ cok \in [Slots -> 0 .. CountCap]
        /\ burst \in [Slots -> 0 .. MaxBurst] /\ hist \in [Slots -> Seq(BOOLEAN)]
    BY <1>3 DEF Init
  <2>3. QED
    BY <2>1, <2>2 DEF TypeOK
<1>5. CountsOf(<<>>, 0, 0)
  BY <1>3 DEF CountsOf
<1>6. HistInv
  BY <1>5 DEF HistInv, Init
<1>7. SlotsInv /\ AwaitedResultComes
  BY DEF SlotsInv, AwaitedResultComes, Init
<1>8. QED
  BY <1>2, <1>4, <1>6, <1>7 DEF IInv, TypeInv

-----------------------------------------------------------------------------
\* Steps that leave the slots alone.
LEMMA ElsewhereKeeps ==
  ASSUME IInv, UNCHANGED slotVars, walked' \in BOOLEAN,
         WorkerOK(AllJobs)', InFlight("monitor")' = InFlight("monitor")
  PROVE  IInv'
<1>1. UNCHANGED <<id, cfg, state, cfail, cok, awaiting, due, burst, hist>>
  BY DEF slotVars, runVars
<1>2. TypeInv'
  BY <1>1 DEF IInv, TypeInv, TypeOK
<1>3. SlotsInv' /\ HistInv'
  BY <1>1 DEF IInv, SlotsInv, HistInv
<1>4. AwaitedResultComes'
  BY <1>1 DEF IInv, AwaitedResultComes
<1>5. QED
  BY <1>2, <1>3, <1>4 DEF IInv

LEMMA WorkKeeps ==
  ASSUME IInv, Work
  PROVE  IInv'
<1>1. WorkerStep /\ UNCHANGED slotVars /\ walked' \in BOOLEAN
  BY DEF Work, WorkerStep, IInv, TypeInv, TypeOK
<1>2. WorkerOK(AllJobs)' /\ InFlight("monitor")' = InFlight("monitor")
  BY <1>1, WorkerKeeps DEF IInv, TypeInv
<1>3. QED
  BY <1>1, <1>2, ElsewhereKeeps

LEMMA OthersKeepMonitors ==
  ASSUME IInv, OthersSubmit(HiLoad, LoLoad) \/ OthersHandle(HiLoad, LoLoad), UNCHANGED monVars
  PROVE  IInv'
<1>1. WorkerOK(AllJobs)' /\ InFlight("monitor")' = InFlight("monitor")
  BY Kinds, OthersKeep DEF IInv, TypeInv
<1>2. UNCHANGED slotVars /\ walked' \in BOOLEAN
  BY DEF monVars, IInv, TypeInv, TypeOK
<1>3. QED
  BY <1>1, <1>2, ElsewhereKeeps

\* Steps that leave the rings alone.
LEMMA RingsStay ==
  ASSUME IInv, UNCHANGED <<queueVars, resQ, at>>
  PROVE  WorkerOK(AllJobs)' /\ InFlight("monitor")' = InFlight("monitor")
<1>1. UNCHANGED <<hiQ, loQ, resQ>> /\ at' = at
  BY DEF queueVars
<1>2. QED
  BY <1>1, RingsKept DEF IInv, TypeInv

LEMMA StutterKeeps ==
  ASSUME IInv, UNCHANGED vars
  PROVE  IInv'
<1>1. UNCHANGED <<queueVars, resQ, at>> /\ UNCHANGED slotVars /\ walked' \in BOOLEAN
  BY DEF vars, workerVars, queueVars, monVars, IInv, TypeInv, TypeOK
<1>2. QED
  BY <1>1, RingsStay, ElsewhereKeeps

LEMMA NoWiFiKeeps ==
  ASSUME IInv, NoWiFi
  PROVE  IInv'
<1>1. UNCHANGED <<queueVars, resQ, at>> /\ UNCHANGED slotVars /\ walked' \in BOOLEAN
  BY DEF NoWiFi, Turn, InHandler
<1>2. QED
  BY <1>1, RingsStay, ElsewhereKeeps

\* A slot is started over: it waits for nothing and has no results.
LEMMA ResetKeeps ==
  ASSUME IInv, NEW i \in Slots, ResetRun(i)
  PROVE  /\ state' \in [Slots -> {"unknown", "down", "up"}]
         /\ cfail' \in [Slots -> 0 .. CountCap] /\ cok' \in [Slots -> 0 .. CountCap]
         /\ awaiting' \in [Slots -> BOOLEAN] /\ due' \in [Slots -> BOOLEAN]
         /\ burst' \in [Slots -> 0 .. MaxBurst]
         /\ hist' \in [Slots -> Seq(BOOLEAN)]
         /\ HistInv'
         /\ ~awaiting'[i] /\ \A k \in Slots : k # i => awaiting'[k] = awaiting[k]
<1>1. CountCap \in Nat /\ MaxBurst \in Nat
  BY MonAssumption
<1>2. /\ state \in [Slots -> {"unknown", "down", "up"}]
      /\ cfail \in [Slots -> 0 .. CountCap] /\ cok \in [Slots -> 0 .. CountCap]
      /\ awaiting \in [Slots -> BOOLEAN] /\ due \in [Slots -> BOOLEAN]
      /\ burst \in [Slots -> 0 .. MaxBurst] /\ hist \in [Slots -> Seq(BOOLEAN)]
  BY DEF IInv, TypeInv, TypeOK
<1>3. CountsOf(<<>>, 0, 0)
  BY <1>1 DEF CountsOf
<1>4. ASSUME NEW k \in Slots
      PROVE  CountsOf(hist[k], cfail[k], cok[k])'
  <2>1. CASE k = i
    <3>1. hist'[k] = <<>> /\ cfail'[k] = 0 /\ cok'[k] = 0
      BY <1>2, <2>1 DEF ResetRun
    <3>2. QED
      BY <1>3, <3>1
  <2>2. CASE k # i
    <3>1. hist'[k] = hist[k] /\ cfail'[k] = cfail[k] /\ cok'[k] = cok[k]
      BY <1>2, <2>2 DEF ResetRun
    <3>2. QED
      BY <3>1 DEF IInv, HistInv
  <2>3. QED
    BY <2>1, <2>2
<1>5. HistInv'
  BY <1>4 DEF HistInv
<1>6. /\ state' \in [Slots -> {"unknown", "down", "up"}]
      /\ awaiting' \in [Slots -> BOOLEAN] /\ due' \in [Slots -> BOOLEAN]
      /\ ~awaiting'[i] /\ \A k \in Slots : k # i => awaiting'[k] = awaiting[k]
  BY <1>2 DEF ResetRun
<1>7. /\ cfail' \in [Slots -> 0 .. CountCap] /\ cok' \in [Slots -> 0 .. CountCap]
      /\ burst' \in [Slots -> 0 .. MaxBurst] /\ hist' \in [Slots -> Seq(BOOLEAN)]
  <2>1. 0 \in 0 .. CountCap /\ 0 \in 0 .. MaxBurst /\ <<>> \in Seq(BOOLEAN)
    BY <1>1
  <2>2. QED
    BY <1>2, <2>1 DEF ResetRun
<1>8. QED
  BY <1>5, <1>6, <1>7

LEMMA OnSetKeeps ==
  ASSUME IInv, NEW m \in Ids, NEW c \in Cfgs, OnSet(m, c)
  PROVE  IInv'
<1> DEFINE i == First(Candidates(m))
<1>1. /\ InHandler /\ UNCHANGED queueVars /\ Candidates(m) # {}
      /\ cfg' = [cfg EXCEPT ![i] = c]
      /\ \/ c.host /\ id' = [id EXCEPT ![i] = m] /\ ResetRun(i)
         \/ ~c.host /\ id' = [id EXCEPT ![i] = 0] /\ UNCHANGED runVars
      /\ walked' = walked /\ walked \in BOOLEAN
  BY DEF OnSet, IInv, TypeInv, TypeOK
<1>2. i \in Candidates(m) /\ i \in Slots
  <2>1. Candidates(m) \subseteq Slots
    BY DEF Candidates, SlotsOf, FreeSlots
  <2>2. QED
    BY <1>1, <2>1, FirstIn
<1>3. id[i] = m \/ \A k \in Slots : id[k] # m
  BY <1>2 DEF Candidates, SlotsOf, FreeSlots
<1> HIDE DEF i
<1>4. /\ id \in [Slots -> Ids \cup {0}] /\ cfg \in [Slots -> Cfgs \cup {NoCfg}] /\ m # 0
  BY MonAssumption DEF IInv, TypeInv, TypeOK
<1>5. id' \in [Slots -> Ids \cup {0}] /\ cfg' \in [Slots -> Cfgs \cup {NoCfg}]
  BY <1>1, <1>2, <1>4
<1>6. /\ \A k \in Slots : k # i => id'[k] = id[k]
      /\ id'[i] = 0 \/ id'[i] = m
  BY <1>1, <1>2, <1>4
<1>7. SlotsInv'
  BY <1>2, <1>3, <1>4, <1>6 DEF IInv, SlotsInv
<1>8. WorkerOK(AllJobs)' /\ InFlight("monitor")' = InFlight("monitor")
  BY <1>1, RingsStay DEF InHandler
<1>9. CASE c.host /\ id' = [id EXCEPT ![i] = m] /\ ResetRun(i)
  <2>1. /\ state' \in [Slots -> {"unknown", "down", "up"}]
        /\ cfail' \in [Slots -> 0 .. CountCap] /\ cok' \in [Slots -> 0 .. CountCap]
        /\ awaiting' \in [Slots -> BOOLEAN] /\ due' \in [Slots -> BOOLEAN]
        /\ burst' \in [Slots -> 0 .. MaxBurst]
        /\ hist' \in [Slots -> Seq(BOOLEAN)]
        /\ HistInv'
        /\ ~awaiting'[i] /\ \A k \in Slots : k # i => awaiting'[k] = awaiting[k]
    BY <1>2, <1>9, ResetKeeps
  <2>2. AwaitedResultComes'
    <3>1. ASSUME NEW k \in Slots, id'[k] # 0, awaiting'[k]
          PROVE  \E j \in InFlight("monitor") : j.idx = k /\ j.id = id'[k]
      <4>1. k # i
        BY <2>1, <3>1
      <4>2. id'[k] = id[k] /\ awaiting'[k] = awaiting[k]
        BY <1>6, <2>1, <4>1
      <4>3. QED
        BY <3>1, <4>2 DEF IInv, AwaitedResultComes
    <3>2. QED
      BY <1>8, <3>1 DEF AwaitedResultComes
  <2>3. TypeInv'
    BY <1>1, <1>5, <1>8, <2>1 DEF TypeInv, TypeOK
  <2>4. QED
    BY <1>7, <2>1, <2>2, <2>3 DEF IInv
<1>10. CASE ~c.host /\ id' = [id EXCEPT ![i] = 0] /\ UNCHANGED runVars
  <2>1. UNCHANGED <<state, cfail, cok, awaiting, due, burst, hist>> /\ id'[i] = 0
    BY <1>2, <1>4, <1>10 DEF runVars
  <2>2. TypeInv' /\ HistInv'
    BY <1>1, <1>5, <1>8, <2>1 DEF IInv, TypeInv, TypeOK, HistInv
  <2>3. AwaitedResultComes'
    BY <1>6, <1>8, <2>1 DEF IInv, AwaitedResultComes
  <2>4. QED
    BY <1>7, <2>2, <2>3 DEF IInv
<1>11. QED
  BY <1>1, <1>9, <1>10

LEMMA OnClearKeeps ==
  ASSUME IInv, NEW m \in Ids, OnClear(m)
  PROVE  IInv'
<1> DEFINE i == First(SlotsOf(m))
<1>1. i \in Slots
  <2>1. SlotsOf(m) \subseteq Slots /\ SlotsOf(m) # {}
    BY DEF OnClear, SlotsOf
  <2>2. QED
    BY <2>1, FirstIn
<1>2. /\ id' = [id EXCEPT ![i] = 0]
      /\ UNCHANGED <<cfg, state, cfail, cok, awaiting, due, burst, hist, walked>>
  BY DEF OnClear, runVars
<1> HIDE DEF i
<1>3. WorkerOK(AllJobs)' /\ InFlight("monitor")' = InFlight("monitor")
  BY RingsStay DEF OnClear, InHandler
<1>4. id \in [Slots -> Ids \cup {0}]
  BY DEF IInv, TypeInv, TypeOK
<1>5. /\ id' \in [Slots -> Ids \cup {0}] /\ id'[i] = 0
      /\ \A k \in Slots : k # i => id'[k] = id[k]
  BY <1>1, <1>2, <1>4
<1>6. TypeInv' /\ HistInv'
  BY <1>2, <1>3, <1>5 DEF IInv, TypeInv, TypeOK, HistInv
<1>7. SlotsInv'
  BY <1>1, <1>5 DEF IInv, SlotsInv
<1>8. AwaitedResultComes'
  BY <1>2, <1>3, <1>5 DEF IInv, AwaitedResultComes
<1>9. QED
  BY <1>6, <1>7, <1>8 DEF IInv

LEMMA DueKeeps ==
  ASSUME IInv, NEW i \in Slots, Due(i)
  PROVE  IInv'
<1>1. /\ due' = [due EXCEPT ![i] = TRUE] /\ UNCHANGED <<queueVars, resQ, at>>
      /\ UNCHANGED <<id, cfg, state, cfail, cok, awaiting, burst, hist, walked>>
  BY DEF Due, workerVars, queueVars
<1>2. WorkerOK(AllJobs)' /\ InFlight("monitor")' = InFlight("monitor")
  BY <1>1, RingsStay
<1>3. TypeInv' /\ HistInv'
  BY <1>1, <1>2 DEF IInv, TypeInv, TypeOK, HistInv
<1>4. SlotsInv' /\ AwaitedResultComes'
  BY <1>1, <1>2 DEF IInv, SlotsInv, AwaitedResultComes
<1>5. QED
  BY <1>3, <1>4 DEF IInv

\* A walk: a slot waits only if its probe is queued now, or an older one is out.
LEMMA WalkKeeps ==
  ASSUME IInv, Walk
  PROVE  IInv'
<1>1. PICK p \in SlotLists :
        /\ Queues(p)
        /\ hiQ' = hiQ \o [a \in DOMAIN p |-> ProbeJob(p[a])] /\ loQ' = loQ
        /\ awaiting' = [i \in Slots |->
             IF i \in Asking THEN AwaitAfter(i \in {p[a] : a \in DOMAIN p}) ELSE awaiting[i]]
        /\ due' = [i \in Slots |->
             due[i] /\ ~(id[i] # 0 /\ Reschedules(i, i \in {p[a] : a \in DOMAIN p}))]
  BY DEF Walk
<1>2. /\ InHandler /\ walked' = TRUE
      /\ UNCHANGED <<id, cfg, state, cfail, cok, burst, hist>>
  BY DEF Walk, Turn
<1>3. /\ id \in [Slots -> Ids \cup {0}] /\ cfg \in [Slots -> Cfgs \cup {NoCfg}]
      /\ awaiting \in [Slots -> BOOLEAN] /\ due \in [Slots -> BOOLEAN]
      /\ WorkerOK(AllJobs)
  BY DEF IInv, TypeInv, TypeOK
<1>4. PICK n \in Nat : p \in [1 .. n -> Asking]
  BY <1>1, DepthAssumption DEF SlotLists
<1> DEFINE q == [a \in DOMAIN p |-> ProbeJob(p[a])]
<1>5. ASSUME NEW a \in 1 .. n
      PROVE  /\ q[a] = ProbeJob(p[a]) /\ p[a] \in Asking /\ p[a] \in Slots
             /\ q[a] \in MonJobs /\ q[a] \in AllJobs
             /\ q[a].src = "monitor" /\ q[a].idx = p[a] /\ q[a].id = id[p[a]]
  <2>1. q[a] = ProbeJob(p[a]) /\ p[a] \in Asking /\ p[a] \in Slots /\ id[p[a]] # 0
    BY <1>4 DEF Asking
  <2>2. ProbeJob(p[a]) \in MonJobs
    BY <1>3, <2>1 DEF ProbeJob, MonJobs
  <2>3. QED
    BY <2>1, <2>2 DEF ProbeJob, AllJobs
<1>6. q \in Seq(AllJobs) /\ DOMAIN q = 1 .. n /\ Len(q) = n /\ Len(p) = n
  <2>1. DOMAIN q = 1 .. n
    BY <1>4
  <2>2. q = [a \in 1 .. n |-> q[a]]
    BY <2>1
  <2>3. q \in [1 .. n -> AllJobs]
    BY <1>5, <2>2
  <2>4. QED
    BY <1>4, <2>1, <2>3
<1>7. hiQ' = hiQ \o q /\ loQ' = loQ /\ Len(hiQ) + Len(q) <= JobQDepth
  BY <1>1, <1>6 DEF Queues
<1> HIDE DEF q
<1>8. /\ WorkerOK(AllJobs)'
      /\ \A j \in InFlight("monitor") : j \in InFlight("monitor")'
      /\ \A a \in 1 .. n : q[a] \in InFlight("monitor")'
  <2>1. \A a \in DOMAIN q : q[a].src = "monitor"
    BY <1>5, <1>6
  <2>2. QED
    BY <1>2, <1>3, <1>6, <1>7, <2>1, HandlerQueues
<1>9. awaiting' \in [Slots -> BOOLEAN] /\ due' \in [Slots -> BOOLEAN]
  <2>1. ASSUME NEW i \in Slots
        PROVE  /\ (IF i \in Asking THEN AwaitAfter(i \in {p[a] : a \in DOMAIN p})
                                    ELSE awaiting[i]) \in BOOLEAN
               /\ (due[i] /\ ~(id[i] # 0 /\ Reschedules(i, i \in {p[a] : a \in DOMAIN p})))
                    \in BOOLEAN
    <3>1. awaiting[i] \in BOOLEAN
      BY <1>3
    <3>2. (i \in {p[a] : a \in DOMAIN p}) \in BOOLEAN
      OBVIOUS
    <3>3. QED
      BY <3>1, <3>2, Zenon DEF AwaitAfter
  <2>2. QED
    BY <1>1, <2>1, Zenon
<1>10. ASSUME NEW i \in Slots, id[i] # 0, awaiting'[i]
       PROVE  \E j \in InFlight("monitor")' : j.idx = i /\ j.id = id[i]
  <2>1. CASE awaiting[i]
    <3>1. PICK j \in InFlight("monitor") : j.idx = i /\ j.id = id[i]
      BY <1>10, <2>1 DEF IInv, AwaitedResultComes
    <3>2. QED
      BY <1>8, <3>1
  <2>2. CASE ~awaiting[i]
    <3>1. i \in {p[a] : a \in DOMAIN p}
      BY <1>1, <1>10, <2>2 DEF AwaitAfter
    <3>2. PICK a \in 1 .. n : p[a] = i
      BY <1>4, <3>1
    <3>3. QED
      BY <1>5, <1>8, <3>2
  <2>3. QED
    BY <2>1, <2>2
<1>11. AwaitedResultComes'
  BY <1>2, <1>10 DEF AwaitedResultComes
<1>12. TypeInv' /\ SlotsInv' /\ HistInv'
  BY <1>2, <1>8, <1>9 DEF IInv, TypeInv, TypeOK, SlotsInv, HistInv
<1>13. QED
  BY <1>11, <1>12 DEF IInv

LEMMA UpdateKeeps ==
  ASSUME IInv, Update
  PROVE  IInv'
BY WalkKeeps, NoWiFiKeeps DEF Update

-----------------------------------------------------------------------------
(***************************************************************************)
(* Results.                                                                *)
(***************************************************************************)

\* A result in front of those remembered, of which the oldest may be forgotten.
LEMMA Remembered ==
  ASSUME NEW h \in Seq(BOOLEAN), Len(h) <= CountCap, NEW ok \in BOOLEAN,
         NEW n, n = IF Len(h) < CountCap THEN Len(h) + 1 ELSE CountCap,
         NEW g, g = SubSeq(<<ok>> \o h, 1, n)
  PROVE  /\ g \in Seq(BOOLEAN) /\ Len(g) = n
         /\ n \in Nat /\ n <= CountCap /\ n <= Len(h) + 1
         /\ \A k \in 1 .. n : g[k] = IF k = 1 THEN ok ELSE h[k - 1]
<1>1. CountCap \in Nat /\ Len(h) \in Nat
  BY MonAssumption
<1>2. n \in Nat /\ n <= CountCap /\ n <= Len(h) + 1
  BY <1>1
<1> DEFINE q == <<ok>> \o h
<1>3. /\ q \in Seq(BOOLEAN) /\ Len(q) = Len(h) + 1
      /\ \A k \in 1 .. Len(h) + 1 : q[k] = IF k = 1 THEN ok ELSE h[k - 1]
  <2>1. <<ok>> \in Seq(BOOLEAN) /\ Len(<<ok>>) = 1 /\ <<ok>>[1] = ok
    OBVIOUS
  <2>2. q \in Seq(BOOLEAN) /\ Len(q) = Len(h) + 1
    BY <1>1, <2>1
  <2>3. ASSUME NEW k \in 1 .. Len(h) + 1
        PROVE  q[k] = IF k = 1 THEN ok ELSE h[k - 1]
    BY <1>1, <2>1
  <2>4. QED
    BY <2>2, <2>3
<1>4. g = SubSeq(q, 1, n)
  OBVIOUS
<1> HIDE DEF q
<1>5. g \in Seq(BOOLEAN) /\ Len(g) = n /\ \A k \in 1 .. n : g[k] = q[k]
  BY <1>1, <1>2, <1>3, <1>4
<1>6. QED
  BY <1>1, <1>2, <1>3, <1>5

LEMMA CountsKept ==
  ASSUME NEW h \in Seq(BOOLEAN), NEW f \in 0 .. CountCap, NEW o \in 0 .. CountCap,
         CountsOf(h, f, o), NEW ok \in BOOLEAN,
         NEW n, n = IF Len(h) < CountCap THEN Len(h) + 1 ELSE CountCap
  PROVE  /\ CountsOf(SubSeq(<<ok>> \o h, 1, n), IF ok THEN 0 ELSE Counted(f),
                     IF ok THEN Counted(o) ELSE 0)
         /\ SubSeq(<<ok>> \o h, 1, n) \in Seq(BOOLEAN)
<1> DEFINE g == SubSeq(<<ok>> \o h, 1, n)
<1>1. CountCap \in Nat /\ Len(h) \in Nat /\ Len(h) <= CountCap /\ f \in Nat /\ o \in Nat
      /\ f <= CountCap /\ o <= CountCap /\ f <= Len(h) /\ o <= Len(h)
  BY MonAssumption DEF CountsOf
<1>2. /\ g \in Seq(BOOLEAN) /\ Len(g) = n
      /\ n \in Nat /\ n <= CountCap /\ n <= Len(h) + 1
      /\ \A k \in 1 .. n : g[k] = IF k = 1 THEN ok ELSE h[k - 1]
  BY <1>1, Remembered
<1> HIDE DEF g
<1>3. Counted(f) \in Nat /\ Counted(f) <= f + 1 /\ Counted(f) <= n
      /\ Counted(o) \in Nat /\ Counted(o) <= o + 1 /\ Counted(o) <= n
  BY <1>1 DEF Counted
<1>4. /\ \A k \in 1 .. f : h[k] = FALSE
      /\ \A k \in 1 .. o : h[k] = TRUE
  BY DEF CountsOf
<1>5. CASE ok
  <2>1. ASSUME NEW k \in 1 .. Counted(o)
        PROVE  g[k] = TRUE
    <3>1. k \in 1 .. n /\ (k # 1 => k - 1 \in 1 .. o)
      BY <1>1, <1>2, <1>3
    <3>2. g[k] = IF k = 1 THEN ok ELSE h[k - 1]
      BY <1>2, <3>1
    <3>3. CASE k = 1
      BY <1>5, <3>2, <3>3
    <3>4. CASE k # 1
      BY <1>4, <3>1, <3>2, <3>4
    <3>5. QED
      BY <3>3, <3>4
  <2>2. CountsOf(g, 0, Counted(o))
    <3>1. \A k \in 1 .. Counted(o) : g[k] = TRUE
      BY <2>1
    <3>2. Len(g) <= CountCap /\ 0 <= Len(g) /\ Counted(o) <= Len(g) /\ 1 .. 0 = {}
      BY <1>1, <1>2, <1>3
    <3>3. QED
      BY <3>1, <3>2 DEF CountsOf
  <2>3. QED
    BY <1>2, <1>5, <2>2 DEF g
<1>6. CASE ~ok
  <2>1. ASSUME NEW k \in 1 .. Counted(f)
        PROVE  g[k] = FALSE
    <3>1. k \in 1 .. n /\ (k # 1 => k - 1 \in 1 .. f)
      BY <1>1, <1>2, <1>3
    <3>2. g[k] = IF k = 1 THEN ok ELSE h[k - 1]
      BY <1>2, <3>1
    <3>3. CASE k = 1
      BY <1>6, <3>2, <3>3
    <3>4. CASE k # 1
      BY <1>4, <3>1, <3>2, <3>4
    <3>5. QED
      BY <3>3, <3>4
  <2>2. CountsOf(g, Counted(f), 0)
    <3>1. \A k \in 1 .. Counted(f) : g[k] = FALSE
      BY <2>1
    <3>2. Len(g) <= CountCap /\ 0 <= Len(g) /\ Counted(f) <= Len(g) /\ 1 .. 0 = {}
      BY <1>1, <1>2, <1>3
    <3>3. QED
      BY <3>1, <3>2 DEF CountsOf
  <2>3. QED
    BY <1>2, <1>6, <2>2 DEF g
<1>7. QED
  BY <1>5, <1>6

\* A result that counts.
LEMMA CountKeeps ==
  ASSUME IInv, NEW i \in Slots, NEW ok \in BOOLEAN, Count(i, ok), Remember(i, ok)
  PROVE  /\ state' \in [Slots -> {"unknown", "down", "up"}]
         /\ cfail' \in [Slots -> 0 .. CountCap] /\ cok' \in [Slots -> 0 .. CountCap]
         /\ due' \in [Slots -> BOOLEAN] /\ burst' \in [Slots -> 0 .. MaxBurst]
         /\ hist' \in [Slots -> Seq(BOOLEAN)]
         /\ HistInv'
<1>1. CountCap \in Nat /\ MaxBurst \in Nat
  BY MonAssumption
<1>2. /\ state \in [Slots -> {"unknown", "down", "up"}]
      /\ cfail \in [Slots -> 0 .. CountCap] /\ cok \in [Slots -> 0 .. CountCap]
      /\ due \in [Slots -> BOOLEAN] /\ burst \in [Slots -> 0 .. MaxBurst]
      /\ hist \in [Slots -> Seq(BOOLEAN)] /\ CountsOf(hist[i], cfail[i], cok[i])
  BY DEF IInv, TypeInv, TypeOK, HistInv
<1> DEFINE n == IF Len(hist[i]) < CountCap THEN Len(hist[i]) + 1 ELSE CountCap
           g == SubSeq(<<ok>> \o hist[i], 1, n)
           f == IF ok THEN 0 ELSE Counted(cfail[i])
           o == IF ok THEN Counted(cok[i]) ELSE 0
<1>3. /\ hist' = [hist EXCEPT ![i] = g]
      /\ cfail' = [cfail EXCEPT ![i] = f] /\ cok' = [cok EXCEPT ![i] = o]
  BY <1>2 DEF Count, Remember, AfterChange
<1>4. CountsOf(g, f, o) /\ g \in Seq(BOOLEAN)
  <2>1. hist[i] \in Seq(BOOLEAN) /\ cfail[i] \in 0 .. CountCap /\ cok[i] \in 0 .. CountCap
    BY <1>2
  <2>2. QED
    BY <1>2, <2>1, CountsKept
<1>5. f \in 0 .. CountCap /\ o \in 0 .. CountCap
  <2>1. cfail[i] \in 0 .. CountCap /\ cok[i] \in 0 .. CountCap
    BY <1>2
  <2>2. QED
    BY <1>1, <2>1 DEF Counted
<1> HIDE DEF g, f, o, n
<1>6. HistInv'
  <2>1. ASSUME NEW k \in Slots
        PROVE  CountsOf(hist'[k], cfail'[k], cok'[k])
    <3>1. CASE k = i
      BY <1>2, <1>3, <1>4, <3>1
    <3>2. CASE k # i
      <4>1. hist'[k] = hist[k] /\ cfail'[k] = cfail[k] /\ cok'[k] = cok[k]
        BY <1>2, <1>3, <3>2
      <4>2. QED
        BY <4>1 DEF IInv, HistInv
    <3>3. QED
      BY <3>1, <3>2
  <2>2. QED
    BY <2>1 DEF HistInv
<1>7. /\ cfail' \in [Slots -> 0 .. CountCap] /\ cok' \in [Slots -> 0 .. CountCap]
      /\ hist' \in [Slots -> Seq(BOOLEAN)]
  BY <1>2, <1>3, <1>4, <1>5
<1>8. state' \in [Slots -> {"unknown", "down", "up"}]
  BY <1>2 DEF Count, NewState
<1>9. due' \in [Slots -> BOOLEAN] /\ burst' \in [Slots -> 0 .. MaxBurst]
  <2>1. CASE MidChange(i) /\ BurstLeft(i)
    <3>1. burst' = [burst EXCEPT ![i] = burst[i] + 1] /\ due' = [due EXCEPT ![i] = FALSE]
      BY <2>1 DEF Count
    <3>2. burst[i] + 1 \in 0 .. MaxBurst
      BY <1>1, <1>2, <2>1 DEF BurstLeft
    <3>3. QED
      BY <1>2, <3>1, <3>2
  <2>2. CASE ~(MidChange(i) /\ BurstLeft(i))
    <3>1. burst' = [burst EXCEPT ![i] = 0] /\ due' = due
      BY <2>2 DEF Count
    <3>2. 0 \in 0 .. MaxBurst
      BY <1>1
    <3>3. QED
      BY <1>2, <3>1, <3>2
  <2>3. QED
    BY <2>1, <2>2
<1>10. QED
  BY <1>6, <1>7, <1>8, <1>9

\* The parts of a result that concern a slot.
LEMMA ResultOf ==
  ASSUME IInv, NEW r, Poll(r), r.job.src = "monitor", UNCHANGED queueVars
  PROVE  /\ r.job \in MonJobs /\ r.job.idx \in Slots /\ r.job.id # 0
         /\ r.ok \in BOOLEAN /\ r.deferred \in BOOLEAN
         /\ WorkerOK(AllJobs)'
         /\ InFlight("monitor") = InFlight("monitor")' \cup {r.job}
<1>1. WorkerOK(AllJobs)
  BY DEF IInv, TypeInv
<1>2. r.job \in AllJobs /\ r \in Outcomes(r.job)
  BY <1>1, PollGives
<1>3. r.ok \in BOOLEAN /\ r.deferred \in BOOLEAN
  BY <1>2, OutcomeOf
<1>4. r.job \in MonJobs /\ r.job.idx \in Slots /\ r.job.id # 0
  BY <1>2, Kinds
<1>5. WorkerOK(AllJobs)' /\ InFlight("monitor") = InFlight("monitor")' \cup Own(r.job, "monitor")
  BY <1>1, PollOnly
<1>6. QED
  BY <1>3, <1>4, <1>5 DEF Own

LEMMA OnNetResultKeeps ==
  ASSUME IInv, NEW r, NEW limitOK \in BOOLEAN, OnNetResult(r, limitOK)
  PROVE  IInv'
<1> DEFINE i == r.job.idx
           ok == r.ok /\ limitOK
<1>1. /\ Poll(r) /\ r.job.src = "monitor" /\ UNCHANGED <<queueVars, id, cfg, walked>>
      /\ \/ ~Current(r) /\ UNCHANGED runVars
         \/ /\ Current(r)
            /\ awaiting' = [awaiting EXCEPT ![i] = FALSE]
            /\ IF Counts(r) THEN Count(i, ok) ELSE UNCHANGED <<state, cfail, cok, burst, due>>
            /\ IF r.deferred THEN UNCHANGED hist ELSE Remember(i, ok)
  BY DEF OnNetResult
<1>2. /\ i \in Slots /\ r.job.id # 0 /\ ok \in BOOLEAN /\ r.deferred \in BOOLEAN
      /\ WorkerOK(AllJobs)'
      /\ InFlight("monitor") = InFlight("monitor")' \cup {r.job}
  BY <1>1, ResultOf
<1>3. awaiting \in [Slots -> BOOLEAN]
  BY DEF IInv, TypeInv, TypeOK
<1>4. SlotsInv'
  BY <1>1 DEF IInv, SlotsInv
<1> HIDE DEF ok
<1>5. CASE ~Current(r) /\ UNCHANGED runVars
  <2>1. UNCHANGED <<state, cfail, cok, awaiting, due, burst, hist>>
    BY <1>5 DEF runVars
  <2>2. TypeInv' /\ HistInv'
    BY <1>1, <1>2, <2>1 DEF IInv, TypeInv, TypeOK, HistInv
  <2>3. ASSUME NEW k \in Slots, id[k] # 0, awaiting[k]
        PROVE  \E j \in InFlight("monitor")' : j.idx = k /\ j.id = id[k]
    <3>1. PICK j \in InFlight("monitor") : j.idx = k /\ j.id = id[k]
      BY <2>3 DEF IInv, AwaitedResultComes
    <3>2. j # r.job
      BY <1>5, <3>1 DEF Current
    <3>3. QED
      BY <1>2, <3>1, <3>2
  <2>4. AwaitedResultComes'
    BY <1>1, <2>1, <2>3 DEF AwaitedResultComes
  <2>5. QED
    BY <1>4, <2>2, <2>4 DEF IInv
<1>6. CASE /\ Current(r)
           /\ awaiting' = [awaiting EXCEPT ![i] = FALSE]
           /\ IF Counts(r) THEN Count(i, ok) ELSE UNCHANGED <<state, cfail, cok, burst, due>>
           /\ IF r.deferred THEN UNCHANGED hist ELSE Remember(i, ok)
  <2>1. /\ awaiting' \in [Slots -> BOOLEAN] /\ ~awaiting'[i]
        /\ \A k \in Slots : k # i => awaiting'[k] = awaiting[k]
    BY <1>2, <1>3, <1>6
  <2>2. TypeInv' /\ HistInv'
    <3>1. CASE r.deferred
      <4>1. UNCHANGED <<state, cfail, cok, burst, due, hist>>
        BY <1>6, <3>1 DEF Counts
      <4>2. QED
        BY <1>1, <1>2, <2>1, <4>1 DEF IInv, TypeInv, TypeOK, HistInv
    <3>2. CASE ~r.deferred
      <4>1. Count(i, ok) /\ Remember(i, ok)
        BY <1>6, <3>2 DEF Counts
      <4>2. /\ state' \in [Slots -> {"unknown", "down", "up"}]
            /\ cfail' \in [Slots -> 0 .. CountCap] /\ cok' \in [Slots -> 0 .. CountCap]
            /\ due' \in [Slots -> BOOLEAN] /\ burst' \in [Slots -> 0 .. MaxBurst]
            /\ hist' \in [Slots -> Seq(BOOLEAN)]
            /\ HistInv'
        BY <1>2, <4>1, CountKeeps
      <4>3. /\ id' \in [Slots -> Ids \cup {0}] /\ cfg' \in [Slots -> Cfgs \cup {NoCfg}]
            /\ walked' \in BOOLEAN
        BY <1>1 DEF IInv, TypeInv, TypeOK
      <4>4. QED
        BY <1>2, <2>1, <4>2, <4>3 DEF TypeInv, TypeOK
    <3>3. QED
      BY <3>1, <3>2
  <2>3. ASSUME NEW k \in Slots, id[k] # 0, awaiting'[k]
        PROVE  \E j \in InFlight("monitor")' : j.idx = k /\ j.id = id[k]
    <3>1. k # i /\ awaiting[k]
      BY <2>1, <2>3
    <3>2. PICK j \in InFlight("monitor") : j.idx = k /\ j.id = id[k]
      BY <2>3, <3>1 DEF IInv, AwaitedResultComes
    <3>3. j # r.job
      BY <3>1, <3>2
    <3>4. QED
      BY <1>2, <3>2, <3>3
  <2>4. AwaitedResultComes'
    BY <1>1, <2>3 DEF AwaitedResultComes
  <2>5. QED
    BY <1>4, <2>2, <2>4 DEF IInv
<1>7. QED
  BY <1>1, <1>5, <1>6

LEMMA NextKeeps ==
  ASSUME IInv, [Next]_vars
  PROVE  IInv'
<1>1. CASE \E m \in Ids, c \in Cfgs : OnSet(m, c)
  BY <1>1, OnSetKeeps
<1>2. CASE \E m \in Ids : OnClear(m)
  BY <1>2, OnClearKeeps
<1>3. CASE Update \/ \E i \in Slots : Due(i)
  BY <1>3, UpdateKeeps, DueKeeps
<1>4. CASE Work
  BY <1>4, WorkKeeps
<1>5. CASE Dispatch
  <2>1. CASE \E k \in DOMAIN resQ, limitOK \in BOOLEAN : OnNetResult(resQ[k], limitOK)
    BY <2>1, OnNetResultKeeps
  <2>2. CASE OthersHandle(HiLoad, LoLoad) /\ UNCHANGED monVars
    BY <2>2, OthersKeepMonitors
  <2>3. QED
    BY <1>5, <2>1, <2>2 DEF Dispatch
<1>6. CASE OthersSubmit(HiLoad, LoLoad) /\ UNCHANGED monVars
  BY <1>6, OthersKeepMonitors
<1>7. CASE UNCHANGED vars
  BY <1>7, StutterKeeps
<1>8. QED
  BY <1>1, <1>2, <1>3, <1>4, <1>5, <1>6, <1>7 DEF Next

-----------------------------------------------------------------------------
LEMMA StrongEnough ==
  ASSUME IInv
  PROVE  Inv
<1>1. ASSUME NEW m \in Ids
      PROVE  Cardinality(SlotsOf(m)) <= 1
  <2>1. \A i, k \in SlotsOf(m) : i = k
    BY MonAssumption DEF IInv, SlotsInv, SlotsOf
  <2>2. CASE SlotsOf(m) = {}
    BY <2>2, FS_EmptySet
  <2>3. CASE SlotsOf(m) # {}
    <3>1. PICK i : SlotsOf(m) = {i}
      BY <2>1, <2>3
    <3>2. Cardinality({i}) = 1
      BY FS_Singleton
    <3>3. QED
      BY <3>1, <3>2
  <2>4. QED
    BY <2>2, <2>3
<1>2. QED
  BY <1>1 DEF Inv, IInv, TypeInv, OneSlotPerId

\* The table of slots stays a partial function of the BE's ids, and no slot
\* waits for a result that does not come (monitors.cpp, monitors_on_set and
\* g_run[i].awaiting, which has no timeout).
THEOREM MonitorsInv == Spec => []Inv
<1>1. Init => IInv
  BY Start
<1>2. IInv /\ [Next]_vars => IInv'
  BY NextKeeps
<1>3. IInv => Inv
  BY StrongEnough
<1>4. QED
  BY <1>1, <1>2, <1>3, PTL DEF Spec

-----------------------------------------------------------------------------
\* A verdict of the step, with the results it rests on.
Earned == \A i \in Slots : /\ ChangesTo(i, "down") => AllLast(i, cfg[i].failN, FALSE)'
                           /\ ChangesTo(i, "up") => AllLast(i, cfg[i].okN, TRUE)'

LEMMA NoVerdict ==
  ASSUME IInv, \/ state' = state
               \/ \E i \in Slots : state' = [state EXCEPT ![i] = "unknown"]
  PROVE  Earned
<1>1. state \in [Slots -> {"unknown", "down", "up"}]
  BY DEF IInv, TypeInv, TypeOK
<1>2. QED
  BY <1>1 DEF Earned, ChangesTo

LEMMA CountEarns ==
  ASSUME IInv, NEW i \in Slots, NEW ok \in BOOLEAN, Count(i, ok), Remember(i, ok),
         cfg' = cfg
  PROVE  Earned
<1>1. /\ state \in [Slots -> {"unknown", "down", "up"}]
      /\ cfail \in [Slots -> 0 .. CountCap] /\ cok \in [Slots -> 0 .. CountCap]
      /\ cfg[i] \in Cfgs \cup {NoCfg} /\ CountCap \in Nat
  BY MonAssumption DEF IInv, TypeInv, TypeOK
<1>2. CountsOf(hist[i], cfail[i], cok[i])' /\ hist' \in [Slots -> Seq(BOOLEAN)]
  BY CountKeeps DEF HistInv
<1>3. cfg[i].failN \in Nat /\ cfg[i].okN \in Nat
  BY <1>1, MonAssumption DEF NoCfg
<1>4. /\ state'[i] = NewState(i, ok) /\ \A k \in Slots : k # i => state'[k] = state[k]
      /\ cfail'[i] = (IF ok THEN 0 ELSE Counted(cfail[i]))
      /\ cok'[i] = (IF ok THEN Counted(cok[i]) ELSE 0)
  BY <1>1 DEF Count, AfterChange
<1>5. /\ cfail'[i] \in Nat /\ cok'[i] \in Nat
      /\ cfail'[i] <= Len(hist'[i]) /\ cok'[i] <= Len(hist'[i]) /\ Len(hist'[i]) \in Nat
      /\ \A k \in 1 .. cfail'[i] : hist'[i][k] = FALSE
      /\ \A k \in 1 .. cok'[i] : hist'[i][k] = TRUE
  <2>1. hist'[i] \in Seq(BOOLEAN)
    BY <1>2
  <2>2. cfail[i] \in Nat /\ cok[i] \in Nat
    BY <1>1
  <2>3. cfail'[i] \in Nat /\ cok'[i] \in Nat
    BY <1>1, <1>4, <2>2 DEF Counted
  <2>4. QED
    BY <1>2, <2>1, <2>3 DEF CountsOf
<1>6. ASSUME ChangesTo(i, "down")
      PROVE  AllLast(i, cfg[i].failN, FALSE)'
  <2>1. ~ok /\ Counted(cfail[i]) >= cfg[i].failN
    BY <1>4, <1>6 DEF ChangesTo, NewState
  <2>2. cfail'[i] >= cfg[i].failN
    BY <1>4, <2>1
  <2>3. /\ Len(hist'[i]) >= cfg[i].failN
        /\ \A k \in 1 .. cfg[i].failN : hist'[i][k] = FALSE
    BY <1>3, <1>5, <2>2
  <2>4. QED
    BY <2>3 DEF AllLast
<1>7. ASSUME ChangesTo(i, "up")
      PROVE  AllLast(i, cfg[i].okN, TRUE)'
  <2>1. ok /\ Counted(cok[i]) >= cfg[i].okN
    BY <1>4, <1>7 DEF ChangesTo, NewState
  <2>2. cok'[i] >= cfg[i].okN
    BY <1>4, <2>1
  <2>3. /\ Len(hist'[i]) >= cfg[i].okN
        /\ \A k \in 1 .. cfg[i].okN : hist'[i][k] = TRUE
    BY <1>3, <1>5, <2>2
  <2>4. QED
    BY <2>3 DEF AllLast
<1>8. \A k \in Slots : k # i => ~ChangesTo(k, "down") /\ ~ChangesTo(k, "up")
  BY <1>4 DEF ChangesTo
<1>9. QED
  BY <1>6, <1>7, <1>8 DEF Earned

LEMMA NextEarns ==
  ASSUME IInv, Next
  PROVE  Earned
<1>1. CASE \E m \in Ids, c \in Cfgs : OnSet(m, c)
  <2>1. PICK m \in Ids, c \in Cfgs : OnSet(m, c)
    BY <1>1
  <2> DEFINE i == First(Candidates(m))
  <2>2. i \in Slots
    <3>1. Candidates(m) \subseteq Slots /\ Candidates(m) # {}
      BY <2>1 DEF OnSet, Candidates, SlotsOf, FreeSlots
    <3>2. QED
      BY <3>1, FirstIn
  <2>3. ResetRun(i) \/ UNCHANGED runVars
    BY <2>1 DEF OnSet
  <2> HIDE DEF i
  <2>4. QED
    BY <2>2, <2>3, NoVerdict DEF ResetRun, runVars
<1>2. CASE Dispatch
  <2>1. ASSUME NEW r, NEW limitOK \in BOOLEAN, OnNetResult(r, limitOK)
        PROVE  Earned
    <3> DEFINE i == r.job.idx
               ok == r.ok /\ limitOK
    <3>1. /\ Poll(r) /\ r.job.src = "monitor" /\ UNCHANGED <<queueVars, id, cfg, walked>>
          /\ \/ UNCHANGED state
             \/ Count(i, ok) /\ Remember(i, ok)
      BY <2>1 DEF OnNetResult, runVars, Counts
    <3>2. i \in Slots /\ ok \in BOOLEAN
      BY <3>1, ResultOf
    <3> HIDE DEF i, ok
    <3>3. QED
      BY <3>1, <3>2, NoVerdict, CountEarns
  <2>2. CASE OthersHandle(HiLoad, LoLoad) /\ UNCHANGED monVars
    BY <2>2, NoVerdict DEF monVars, slotVars, runVars
  <2>3. QED
    BY <1>2, <2>1, <2>2 DEF Dispatch
<1>3. CASE \/ \E m \in Ids : OnClear(m)
           \/ Update \/ \E i \in Slots : Due(i)
           \/ Work
           \/ OthersSubmit(HiLoad, LoLoad) /\ UNCHANGED monVars
  <2>1. state' = state
    BY <1>3 DEF OnClear, Update, Walk, NoWiFi, Due, Work, monVars, slotVars, runVars
  <2>2. QED
    BY <2>1, NoVerdict
<1>4. QED
  BY <1>1, <1>2, <1>3 DEF Next

\* A target is called down, or up, only on as many results in a row as its
\* configuration asks for, counted since that configuration came
\* (monitors.cpp, the hysteresis of monitors_on_net_result).
THEOREM MonitorsEarned == Spec => VerdictsAreEarned
<1>1. Init => IInv
  BY Start
<1>2. IInv /\ [Next]_vars => IInv'
  BY NextKeeps
<1>3. IInv /\ [Next]_vars => [Earned]_vars
  BY NextEarns
<1>4. QED
  BY <1>1, <1>2, <1>3, PTL DEF Spec, VerdictsAreEarned, Earned
=============================================================================

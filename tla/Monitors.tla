------------------------------ MODULE Monitors ------------------------------
(***************************************************************************)
(* The monitors (monitors.cpp): the BE assigns targets to a few slots, the *)
(* node probes each of them at its interval through the worker's hi queue  *)
(* and tells the BE when a target goes down or comes up.  A result names   *)
(* the slot and the id it was for, not the configuration.                  *)
(*                                                                         *)
(* loop() calls monitors_update once in every turn, before it lets the     *)
(* worker run (main.cpp): "walked" says that it did.                       *)
(*                                                                         *)
(* Left out: the rollup and status reports, which read this state and      *)
(* change none of it.                                                      *)
(***************************************************************************)
EXTENDS NetWorker

CONSTANTS Slots,           \* 0 .. MONITORS_MAX_SLOTS - 1
          Ids,             \* the BE's ids of monitors, none of them 0
          Cfgs,            \* configurations: [tag, failN, okN, host]
          CountCap,        \* bound: cfail and cok stop counting here
          MaxBurst,        \* the bursts of an episode (6)
          HiLoad, LoLoad   \* jobs of the other clients, by the queue they use

ASSUME MonAssumption ==
  /\ Slots \subseteq Nat /\ 0 \notin Ids
  /\ MaxBurst \in Nat /\ CountCap \in Nat
  /\ \A c \in Cfgs : c.failN \in 1 .. CountCap /\ c.okN \in 1 .. CountCap
  /\ \A j \in HiLoad \cup LoLoad : j.src # "monitor"

VARIABLES id,        \* g_cfg[i].id, 0 for a free slot
          cfg,       \* the rest of g_cfg[i]
          state,     \* g_run[i].state: "unknown", "down", "up"
          cfail, cok,   \* g_run[i].cfail and .cok, runs of equal results
          awaiting,  \* g_run[i].awaiting: a probe is with the worker
          due,       \* next_run is over
          burst,     \* g_run[i].burst_n
          walked,    \* monitors_update ran in this turn of loop()
          \* For the properties:
          hist       \* the results that counted since the slot was configured, newest first

runVars == <<state, cfail, cok, awaiting, due, burst, hist>>
slotVars == <<id, cfg, runVars>>
monVars == <<slotVars, walked>>
vars == <<workerVars, monVars>>

NoCfg == [tag |-> "none", failN |-> 0, okN |-> 0, host |-> FALSE]
ProbeJob(i) == [src |-> "monitor", kind |-> "icmp", id |-> id[i], idx |-> i, cfg |-> cfg[i]]

Init == /\ WorkerInit
        /\ id = [i \in Slots |-> 0]
        /\ cfg = [i \in Slots |-> NoCfg]
        /\ state = [i \in Slots |-> "unknown"]
        /\ cfail = [i \in Slots |-> 0] /\ cok = [i \in Slots |-> 0]
        /\ awaiting = [i \in Slots |-> FALSE]
        /\ due = [i \in Slots |-> FALSE]
        /\ burst = [i \in Slots |-> 0]
        /\ hist = [i \in Slots |-> <<>>]
        /\ walked = FALSE

SlotsOf(m) == {i \in Slots : id[i] = m}
FreeSlots == SlotsOf(0)
First(S) == CHOOSE i \in S : \A k \in S : i <= k

\* Mistakes used by the project's mutants only.
FreeSlotFirst(m) == IF FreeSlots # {} THEN FreeSlots ELSE SlotsOf(m)
AwaitAlways(queued) == TRUE
KeepCounting(n) == n

-----------------------------------------------------------------------------
\* mon_reset_run.
ResetRun(i) == /\ state' = [state EXCEPT ![i] = "unknown"]
               /\ cfail' = [cfail EXCEPT ![i] = 0]
               /\ cok' = [cok EXCEPT ![i] = 0]
               /\ awaiting' = [awaiting EXCEPT ![i] = FALSE]
               /\ due' = [due EXCEPT ![i] = FALSE]
               /\ burst' = [burst EXCEPT ![i] = 0]
               /\ hist' = [hist EXCEPT ![i] = <<>>]

\* Where monitors_on_set puts monitor m: the slot it is in, else a free one.
Candidates(m) == IF SlotsOf(m) # {} THEN SlotsOf(m) ELSE FreeSlots

\* monitors_on_set.  The same configuration again changes nothing, a new one
\* starts the slot over, one without a host frees it.
OnSet(m, c) ==
  /\ InHandler
  /\ UNCHANGED <<queueVars, walked>>
  /\ Candidates(m) # {}
  /\ LET i == First(Candidates(m))
     IN /\ ~(id[i] = m /\ cfg[i] = c)
        /\ cfg' = [cfg EXCEPT ![i] = c]
        /\ \/ c.host /\ id' = [id EXCEPT ![i] = m] /\ ResetRun(i)
           \/ ~c.host /\ id' = [id EXCEPT ![i] = 0] /\ UNCHANGED runVars

\* monitors_on_clear.
OnClear(m) == /\ InHandler
              /\ SlotsOf(m) # {}
              /\ id' = [id EXCEPT ![First(SlotsOf(m))] = 0]
              /\ UNCHANGED <<queueVars, cfg, runVars, walked>>

\* The slots that are due and want to have a probe queued.
Asking == {i \in Slots : id[i] # 0 /\ due[i] /\ ~awaiting[i]}

\* The walk of monitors_update queues the slots of list p: the queue takes
\* what it has room for, and goes to the lower slots first.
SlotLists == UNION {[1 .. n -> Asking] : n \in 0 .. JobQDepth}
Queues(p) ==
  /\ Len(hiQ) + Len(p) <= JobQDepth
  /\ \A a, b \in DOMAIN p : a < b => p[a] < p[b]
  /\ \A i \in Asking \ {p[a] : a \in DOMAIN p} :
       Len(hiQ) + Len(p) = JobQDepth /\ \A a \in DOMAIN p : p[a] < i

\* mon_enqueue_probe sets awaiting behind a push that was not refused.
AwaitAfter(queued) == queued

\* A slot whose probe was refused stays due: it is tried again in the next
\* turn.  One whose last probe is still out skips this one.
Reschedules(i, queued) == awaiting[i] \/ queued

Turn == InHandler /\ ~walked /\ walked' = TRUE

\* monitors_update: one walk over the slots in the order of their numbers.
Walk ==
  /\ Turn
  /\ \E p \in SlotLists :
       LET queued == {p[a] : a \in DOMAIN p}
       IN /\ Queues(p)
          /\ hiQ' = hiQ \o [a \in DOMAIN p |-> ProbeJob(p[a])] /\ loQ' = loQ
          /\ awaiting' = [i \in Slots |->
               IF i \in Asking THEN AwaitAfter(i \in queued) ELSE awaiting[i]]
          /\ due' = [i \in Slots |->
               due[i] /\ ~(id[i] # 0 /\ Reschedules(i, i \in queued))]
  /\ UNCHANGED <<id, cfg, state, cfail, cok, burst, hist>>

\* With WiFi down monitors_update returns at once.
NoWiFi == Turn /\ UNCHANGED <<queueVars, slotVars>>

Update == Walk \/ NoWiFi

\* next_run comes.
Due(i) == /\ ~due[i] /\ id[i] # 0
          /\ due' = [due EXCEPT ![i] = TRUE]
          /\ UNCHANGED <<workerVars, id, cfg, state, cfail, cok, awaiting, burst, hist, walked>>

Counted(n) == IF n < CountCap THEN n + 1 ELSE n
AfterChange(n) == 0

\* The slot the result is for still has the id it was for.
Current(r) == id[r.job.idx] = r.job.id

\* A deferred probe was not carried out and does not count.
Counts(r) == ~r.deferred

\* The hysteresis: the state after result ok for slot i.
NewState(i, ok) ==
  IF state[i] # "down" /\ ~ok /\ Counted(cfail[i]) >= cfg[i].failN THEN "down"
  ELSE IF state[i] # "up" /\ ok /\ Counted(cok[i]) >= cfg[i].okN THEN "up"
  ELSE state[i]

\* A change is under way and not decided: probe again in eight seconds.
MidChange(i) == \/ state'[i] # "down" /\ cfail'[i] > 0 /\ cfail'[i] < cfg[i].failN
                \/ state'[i] # "up" /\ cok'[i] > 0 /\ cok'[i] < cfg[i].okN

BurstLeft(i) == burst[i] < MaxBurst

\* monitors_on_net_result.  "ok" includes the DNS match and the latency limit.
Count(i, ok) ==
  /\ state' = [state EXCEPT ![i] = NewState(i, ok)]
  /\ cok' = [cok EXCEPT ![i] = IF ok THEN Counted(cok[i]) ELSE AfterChange(cok[i])]
  /\ cfail' = [cfail EXCEPT ![i] = IF ok THEN AfterChange(cfail[i]) ELSE Counted(cfail[i])]
  /\ IF MidChange(i) /\ BurstLeft(i)
       THEN /\ burst' = [burst EXCEPT ![i] = burst[i] + 1]
            /\ due' = [due EXCEPT ![i] = FALSE]
       ELSE burst' = [burst EXCEPT ![i] = 0] /\ UNCHANGED due

Remember(i, ok) ==
  hist' = [hist EXCEPT ![i] = SubSeq(<<ok>> \o @, 1,
             IF Len(@) < CountCap THEN Len(@) + 1 ELSE CountCap)]

OnNetResult(r, limitOK) ==
  /\ Poll(r)
  /\ r.job.src = "monitor"
  /\ UNCHANGED <<queueVars, id, cfg, walked>>
  /\ LET i == r.job.idx
         ok == r.ok /\ limitOK
     IN \/ ~Current(r) /\ UNCHANGED runVars
        \/ /\ Current(r)
           /\ awaiting' = [awaiting EXCEPT ![i] = FALSE]
           /\ IF Counts(r) THEN Count(i, ok) ELSE UNCHANGED <<state, cfail, cok, burst, due>>
           /\ IF r.deferred THEN UNCHANGED hist ELSE Remember(i, ok)

Dispatch == \/ \E k \in DOMAIN resQ, limitOK \in BOOLEAN : OnNetResult(resQ[k], limitOK)
            \/ OthersHandle(HiLoad, LoLoad) /\ UNCHANGED monVars

\* The worker's turn comes behind the walk; the end of the dispatch loop is
\* the end of the turn.
Work == /\ \/ walked /\ (RunSomeJob \/ IdleTick) /\ UNCHANGED walked
           \/ EndPoll /\ walked' = FALSE
        /\ UNCHANGED slotVars

Next == \/ \E m \in Ids, c \in Cfgs : OnSet(m, c)
        \/ \E m \in Ids : OnClear(m)
        \/ \E i \in Slots : Due(i)
        \/ Update
        \/ Work
        \/ Dispatch
        \/ OthersSubmit(HiLoad, LoLoad) /\ UNCHANGED monVars

Spec == Init /\ [][Next]_vars

\* loop() always reaches its next step, and time passes.
FairSpec == /\ Spec
            /\ WF_vars(Update \/ Work \/ Dispatch)
            /\ \A i \in Slots : WF_vars(Due(i))

-----------------------------------------------------------------------------
TypeOK == /\ id \in [Slots -> Ids \cup {0}]
          /\ cfg \in [Slots -> Cfgs \cup {NoCfg}]
          /\ state \in [Slots -> {"unknown", "down", "up"}]
          /\ cfail \in [Slots -> 0 .. CountCap] /\ cok \in [Slots -> 0 .. CountCap]
          /\ awaiting \in [Slots -> BOOLEAN] /\ due \in [Slots -> BOOLEAN]
          /\ burst \in [Slots -> 0 .. MaxBurst]
          /\ walked \in BOOLEAN

\* A monitor never has two slots, whatever order sets and clears come in: it
\* would alert twice, and a clear would leave one of them running.
OneSlotPerId == \A m \in Ids : Cardinality(SlotsOf(m)) <= 1

\* A slot that waits for a result will get one that it accepts: its probe is
\* with the worker, under its present id.  There is no timeout on awaiting,
\* so otherwise the monitor would silently stop.
AwaitedResultComes ==
  \A i \in Slots : id[i] # 0 /\ awaiting[i] =>
    \E j \in InFlight("monitor") : j.idx = i /\ j.id = id[i]

\* Types, the table of slots a partial function of the ids, and no slot that
\* waits for nothing.
Inv == TypeOK /\ OneSlotPerId /\ AwaitedResultComes

\* A target is called down (up) only on fail_n (ok_n) results in a row that
\* were really measured, deferred probes between them not counted, and the
\* count starts over with a new configuration.
AllLast(i, n, ok) == Len(hist[i]) >= n /\ \A k \in 1 .. n : hist[i][k] = ok
ChangesTo(i, s) == state[i] # s /\ state'[i] = s
VerdictsAreEarned ==
  [][\A i \in Slots : /\ ChangesTo(i, "down") => AllLast(i, cfg[i].failN, FALSE)'
                      /\ ChangesTo(i, "up") => AllLast(i, cfg[i].okN, TRUE)']_vars

\* A slot the BE leaves alone from some time on is probed for ever, also when
\* the hi queue was full when it was due, its probes are deferred, or an
\* older probe of it is still out.  This is so on either of two conditions,
\* for a walk goes to the lower slots first:
\*  - again and again a walk finds room for the slot behind the lower ones;
\*  - from some time on the BE and the other hi clients (check-now, punch)
\*    keep quiet, WiFi comes back again and again, and there are fewer slots
\*    below this one than the hi queue has places.
Configured(i) == id'[i] # id[i] \/ cfg'[i] # cfg[i]
Handled(i) == \E k \in DOMAIN resQ : /\ Poll(resQ[k]) /\ resQ[k].job.src = "monitor"
                                     /\ resQ[k].job.idx = i
Probed(i) == []<>(id[i] = 0) \/ []<><<Configured(i)>>_vars \/ []<><<Handled(i)>>_vars

RoomFor(i) == Len(hiQ) + Cardinality({k \in Asking : k < i}) < JobQDepth
QuietAround == /\ <>[][\A i \in Slots : ~Configured(i)]_vars
               /\ <>[](\A k \in DOMAIN hiQ : hiQ[k].src = "monitor")
               /\ []<><<Walk>>_vars
FewBelow(i) == Cardinality({k \in Slots : k < i}) < JobQDepth

ProbingGoesOn == /\ \A i \in Slots : []<><<Walk /\ RoomFor(i)>>_vars => Probed(i)
                 /\ QuietAround => \A i \in Slots : FewBelow(i) => Probed(i)

-----------------------------------------------------------------------------
\* What comments promise and the code does not keep.

\* monitors.cpp:329-330: a refused probe is tried again in the next turn, when
\* the worker has taken a job - so every slot has its turn.  With more slots
\* than the hi queue has places, and probes slower than the intervals, lower
\* slots that are due again take each place that comes free.
AllSlotsProbed == QuietAround => \A i \in Slots : Probed(i)

\* monitors.cpp:172: the result of a slot that was freed or reloaded is out of
\* date and dropped - so a result that counts was measured for the slot's
\* present configuration.
ReloadedSlotDropsResult ==
  [][\A k \in DOMAIN resQ :
       LET r == resQ[k]
       IN Poll(r) /\ r.job.src = "monitor" /\ Current(r) /\ Counts(r)
            => r.job.cfg = cfg[r.job.idx]]_vars

\* monitors.cpp:39: while a probe is queued or running no second one is
\* queued.
OneProbePerSlot ==
  \A i \in Slots : Cardinality({k \in JobsOf(hiQ, "monitor") : hiQ[k].idx = i /\ hiQ[k].id = id[i]}) <= 1
=============================================================================

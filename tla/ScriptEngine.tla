---------------------------- MODULE ScriptEngine ----------------------------
(***************************************************************************)
(* The script engine (script_engine.cpp, script_actions.cpp): scripts of   *)
(* the BE and of the user, run step by step.  A step that needs the        *)
(* network queues a job and suspends its script: an await, found again by  *)
(* a token, resumes the script behind that step when the result comes or   *)
(* the time for it is over.                                                *)
(*                                                                         *)
(* Left out: what a step computes.  Conditions, durations and values are   *)
(* the environment's choice: any step that is not cooling down may fire.   *)
(***************************************************************************)
EXTENDS NetWorker

CONSTANTS MaxScripts,      \* MAX_SCRIPTS, places for awaits
          DataLists,       \* the script lists the BE may send: sequences of [id, steps]
          UserLists,       \* the user's scripts the flash may hold
          MaxTokens,       \* bound: awaits registered in a behaviour
          HiLoad, LoLoad   \* jobs of the other clients, by the queue they use

\* A script as it is sent or stored (struct Script).
Programs == [id : STRING, steps : Seq({"net", "inline"})]

ASSUME ScriptAssumption == /\ MaxScripts \in Nat \ {0}
                           /\ \A list \in DataLists \cup UserLists : list \in Seq(Programs)
                           /\ MaxTokens \in Nat
                           /\ \A j \in HiLoad \cup LoLoad : j.src # "script"

VARIABLES data,     \* g_scripts[0 .. g_ds_count-1], the BE's scripts
          user,     \* the g_us_count slots behind them, the user's scripts
          awaits,   \* the active entries of g_awaits
          seq,      \* g_await_seq
          \* For the properties:
          ended     \* the tokens whose step was ended, by a result or a timeout

scriptVars == <<data, user, awaits, seq, ended>>
vars == <<workerVars, scriptVars>>

\* A slot: the script's id, its steps ("net" or "inline"), and those of them
\* that fired less than their cooldown ago.
Slot(s, cool) == [id |-> s.id, steps |-> s.steps, cool |-> cool]

Init == /\ WorkerInit
        /\ data = <<>> /\ user = <<>>
        /\ awaits = {}
        /\ seq = 0
        /\ ended = {}

scripts == data \o user

\* Mistakes used by the project's mutants only.
KeepAwaits(loaded) == awaits
NoCancel(others, a) == others \cup {a}
NeverOverdue(a) == a \notin awaits

-----------------------------------------------------------------------------
Awaiting(id) == \E a \in awaits : a.script = id

\* find_script: the first active slot with this id.
Found(id) == {p \in DOMAIN scripts : scripts[p].id = id /\ scripts[p].steps # <<>>}
FirstSlot(id) == CHOOSE p \in Found(id) : \A m \in Found(id) : p <= m

ScriptJob(a) == [src |-> "script", kind |-> "fetch", tok |-> a.tok,
                 script |-> a.script, step |-> a.step]

\* script_engine_register_await refuses a second await of a script.
MayRegister(id, others) == /\ \A a \in others : a.script # id
                           /\ Cardinality(others) < MaxScripts
NextToken == seq + 1

\* The awaits once step a's job was pushed: q_* cancels the await behind a
\* refused push.
AwaitsAfter(others, a) == IF CanEnqueueLo THEN others \cup {a} ELSE others

Cooling(slots, p, fired) == [slots EXCEPT ![p].cool = @ \cup fired]
MarkFired(p, fired) ==
  IF p <= Len(data) THEN data' = Cooling(data, p, fired) /\ user' = user
  ELSE user' = Cooling(user, p - Len(data), fired) /\ data' = data

\* The steps behind "from" that may fire: those that are not cooling, as their
\* conditions hold (any may).
MayFire(p, from) == (from .. Len(scripts[p].steps)) \ scripts[p].cool

\* run_steps of slot p from step "from" on, when g_awaits has the others.
\* fires are the steps that may fire and whose conditions hold.  The first
\* network step among them whose job is queued ends the run; a refused one is
\* passed over, and cools down like any step that fired.
RunSteps(p, from, others) ==
  \E fires \in SUBSET MayFire(p, from) :
    LET net == {k \in fires : scripts[p].steps[k] = "net"}
        first == CHOOSE k \in net : \A m \in net : k <= m
        a == [tok |-> NextToken, script |-> scripts[p].id, step |-> first,
              steps |-> scripts[p].steps]
    IN IF net = {} \/ ~MayRegister(scripts[p].id, others)
         THEN /\ MarkFired(p, fires)
              /\ awaits' = others
              /\ UNCHANGED <<queueVars, seq>>
         ELSE /\ seq < MaxTokens
              /\ seq' = IF CanEnqueueLo THEN seq + 1 ELSE seq
              /\ EnqueueLo(ScriptJob(a))
              /\ awaits' = AwaitsAfter(others, a)
              /\ MarkFired(p, IF CanEnqueueLo THEN {k \in fires : k <= first} ELSE fires)

\* One script of script_engine_tick, for a script of the BE, and
\* script_engine_run_by_id, for any.
Run(id) == /\ InHandler
           /\ Found(id) # {}
           /\ ~Awaiting(id)
           /\ RunSteps(FirstSlot(id), 1, awaits)
           /\ UNCHANGED ended

\* The step of await a is over: its script goes on behind it.
EndStep(a, others) ==
  /\ ended' = ended \cup {a.tok}
  /\ IF Found(a.script) # {}
       THEN RunSteps(FirstSlot(a.script), a.step + 1, others)
       ELSE awaits' = others /\ UNCHANGED <<queueVars, data, user, seq>>

\* awaits_check_timeouts, for one await.
Overdue(a) == a \in awaits
AfterTimeout(a) == awaits \ {a}
Timeout(a) == /\ InHandler
              /\ Overdue(a)
              /\ EndStep(a, AfterTimeout(a))

\* script_engine_on_net_result.  A result without an await is dropped.
OnNetResult(r) ==
  /\ Poll(r)
  /\ r.job.src = "script"
  /\ IF \E a \in awaits : a.tok = r.job.tok
       THEN \E a \in awaits : a.tok = r.job.tok /\ EndStep(a, awaits \ {a})
       ELSE UNCHANGED <<queueVars, scriptVars>>

-----------------------------------------------------------------------------
\* parse_script: a script for whose steps there is no memory has none, and is
\* not active.
Parsed(s, room) == IF room THEN s ELSE [s EXCEPT !.steps = <<>>]
ParsedList(list, lost) == [p \in DOMAIN list |-> Parsed(list[p], p \notin lost)]

\* The BE's scripts after script_engine_load: cooldowns stay with the place.
Reloaded(list) == [p \in DOMAIN list |-> Slot(list[p],
                     IF p \in DOMAIN data THEN data[p].cool \cap DOMAIN list[p].steps ELSE {})]
\* The user's scripts after script_engine_load_user.
Fresh(list) == [p \in DOMAIN list |-> Slot(list[p], {})]

\* A load that had the memory for its slots forgets all awaits.
AwaitsAfterLoad(loaded) == IF loaded THEN {} ELSE awaits

\* on_tasks_update; each of its two loads may find no memory.
TasksUpdate(list, userList) ==
  /\ InHandler
  /\ \E ok, userOk \in BOOLEAN, lost \in SUBSET DOMAIN list, userLost \in SUBSET DOMAIN userList :
       /\ data' = IF ok THEN Reloaded(ParsedList(list, lost)) ELSE data
       /\ user' = IF userOk THEN Fresh(ParsedList(userList, userLost)) ELSE user
       /\ awaits' = AwaitsAfterLoad(ok \/ userOk)
  /\ UNCHANGED <<queueVars, seq, ended>>

\* The user saves or deletes a script (http_config.cpp): the same load.
UserUpdate(userList) ==
  /\ InHandler
  /\ \E ok \in BOOLEAN, lost \in SUBSET DOMAIN userList :
       /\ user' = IF ok THEN Fresh(ParsedList(userList, lost)) ELSE user
       /\ awaits' = AwaitsAfterLoad(ok)
  /\ UNCHANGED <<queueVars, data, seq, ended>>

\* script_engine_clear, which forgets the awaits first and then may lack the
\* memory to move the user's scripts.
TasksClear == /\ InHandler
              /\ awaits' = {}
              /\ data' = <<>> \/ (user # <<>> /\ data' = data)
              /\ UNCHANGED <<queueVars, user, seq, ended>>

\* The cooldown of a step is over.
CoolDown(p, k) ==
  /\ \/ p \in DOMAIN data /\ k \in data[p].cool
        /\ data' = [data EXCEPT ![p].cool = @ \ {k}] /\ user' = user
     \/ p - Len(data) \in DOMAIN user /\ k \in user[p - Len(data)].cool
        /\ user' = [user EXCEPT ![p - Len(data)].cool = @ \ {k}] /\ data' = data
  /\ UNCHANGED <<workerVars, awaits, seq, ended>>

Dispatch == \/ \E k \in DOMAIN resQ : OnNetResult(resQ[k])
            \/ OthersHandle(HiLoad, LoLoad) /\ UNCHANGED scriptVars

Work == WorkerStep /\ UNCHANGED scriptVars

Next == \/ \E p \in DOMAIN scripts : Run(scripts[p].id)
        \/ \E p \in DOMAIN scripts : \E k \in scripts[p].cool : CoolDown(p, k)
        \/ \E a \in awaits : Timeout(a)
        \/ \E list \in DataLists, userList \in UserLists : TasksUpdate(list, userList)
        \/ \E userList \in UserLists : UserUpdate(userList)
        \/ TasksClear
        \/ Work
        \/ Dispatch
        \/ OthersSubmit(HiLoad, LoLoad) /\ UNCHANGED scriptVars

Spec == Init /\ [][Next]_vars

\* loop() always reaches its next step, and script_engine_tick, in every turn
\* of it, looks for awaits whose time is over.
TokenTimesOut(tok) == \E a \in awaits : a.tok = tok /\ Timeout(a)
FairSpec == /\ Spec
            /\ WF_vars(Work \/ Dispatch)
            /\ \A tok \in 1 .. MaxTokens : SF_vars(TokenTimesOut(tok))

-----------------------------------------------------------------------------
Tokens == {a.tok : a \in awaits}

TypeOK == /\ \A p \in DOMAIN scripts : scripts[p].cool \subseteq DOMAIN scripts[p].steps
          /\ \A a \in awaits : a.tok \in 1 .. seq /\ scripts # <<>>
          /\ Cardinality(awaits) <= MaxScripts
          /\ ended \subseteq 1 .. seq
          /\ QueuesFit

\* A suspended script waits for one job that is on its way, its own: what it
\* stores and goes on with is the result of the step it stopped at, also when
\* results of earlier, timed-out steps come in between.
AwaitHasItsJob ==
  \A a \in awaits : /\ {j \in InFlight("script") : j.tok = a.tok} = {ScriptJob(a)}
                    /\ \A b \in awaits : b.script = a.script => b = a

\* A step ends once: with its result or as a failure, not as both.
EndsOnce == Tokens \cap ended = {}

\* Types, awaits and jobs in step, and steps that end once.
Inv == TypeOK /\ AwaitHasItsJob /\ EndsOnce

\* A script goes on in the steps it stopped in: never, whatever is reloaded
\* or cleared meanwhile, behind a step of a program that is gone.
ResumesOwnProgram ==
  \A a \in awaits : /\ Found(a.script) # {}
                    /\ scripts[FirstSlot(a.script)].steps = a.steps

\* No step holds up its script for ever, even if its job is never run.
NeverStuck == \A tok \in 1 .. MaxTokens : tok \in Tokens ~> tok \notin Tokens

-----------------------------------------------------------------------------
\* What comments promise and the code does not keep.

\* script_engine.h:125-126: one job in flight for each script at most.
OneJobPerScript ==
  \A j1, j2 \in InFlight("script") : j1.script = j2.script => j1 = j2

\* script_actions.cpp:56-57: a network step that the queue refused is passed
\* over in this run - so it does not wait for its cooldown like one that ran.
SameScripts == [p \in DOMAIN scripts |-> Slot(scripts[p], {})]
OnlyQueuedStepsCool ==
  [][SameScripts' = SameScripts =>
       \A p \in DOMAIN scripts : \A k \in scripts'[p].cool \ scripts[p].cool :
         scripts[p].steps[k] = "net" => Len(loQ') > Len(loQ)]_vars
=============================================================================

# Sensmos node firmware: a TLA+ model

This directory is a formal model of the ESP8266 firmware of a Sensmos node: TLA+
modules translated from the C++ under `src/src/`, TLC configurations that check them on
small instances, and proofs checked by TLAPS for every value of the constants.  Paths
below are relative to `src/src/` unless they say otherwise; "the BE" is the Sensmos
back end, which is not in the repository and is modelled from how the firmware uses it.

1. The system
2. The modules, and how they correspond to the code
3. The runs: what each one asks, its bounds, what it shows
4. Fairness
5. What is proved
6. Where comments and code disagree
7. What is abstracted, and what is not modelled
8. Plan
9. Running the checks

## 1. The system

The node is one microcontroller with one thread.  `setup()` (`main.cpp`) chooses between
a *portal* (an open access point with a small HTTP API, through which an app gives the
node its WiFi credentials and its owner) and *node mode*.  In node mode `loop()` calls the
tick of every module in a fixed order, then runs one blocking network job, then hands the
results of jobs to the modules that asked for them:

    http_server_handle, ws_client_tick, script_engine_tick, node_integration_update,
    data_sender_tick, self_register_tick, checknet_update, monitors_update, tunnel_tick,
    net_worker_tick          <- at most one job: ping, TCP, DNS, HTTP, trace, STUN, ...
    while (net_worker_poll)  <- result handlers, which may queue further jobs

There are no threads and no interrupts that touch this state, so the interleavings are
those of *handlers*: a command of the BE, a request of the app and a timer may each run
between any two steps of a conversation that spans many turns of `loop()`.  The hard part
of this program is therefore not locking but everything that is *out* while other
handlers run: a job in a queue, a result not yet dispatched, a batch in a buffer, an
identify without an answer, a flash write before a power cut.

| component (source) | state it keeps | operations | who calls it, whom it calls | what would make it correct |
|---|---|---|---|---|
| Network worker (`net_worker`) | two rings of jobs (hi, lo), one ring of results | enqueue, tick, poll | queued to by seven modules; its results go to their handlers | nothing accepted is lost, doubled or mixed up; hi jobs wait a bounded number of turns |
| Main loop (`main`) | which mode the node is in | `setup`, one turn of `loop` | drives everything | a result never waits into the next turn; the boot choice ends in the right mode |
| Check-now (`checknow`) | one slot: id, job, retried | command, result | WS command in; hi queue, WS report out | slot and job agree; one probe, one report; the slot is freed |
| Check network (`checknet`) | cycle state, job list, results, countdown, trace | config, start, list, result, two timeouts | WS in and out; lo queue | the countdown can reach 0; one report per cycle, of that cycle's results |
| Monitors (`monitors`) | slots: configuration, state, runs of results, awaiting, burst | set, clear, tick, result | WS commands in; hi queue; WS alerts out | one slot per id; probing never silently stops; verdicts rest on enough results |
| Node integration (`node_integration`) | event ring, one batch buffer, in-flight flag | push, set URL, flush, result | events from scripts and messages; lo queue | no event in two POSTs or accepted out of order; none vanishes unlogged |
| Script engine (`script_engine`, `script_actions`, `template_engine`) | script slots of the BE and the user, cooldowns, awaits with tokens | load, clear, tick, run, result, timeout | WS and HTTP in; lo queue, store, messages out | a script resumes in its own program, behind its own step, once, and always |
| Onboarding (`captive_portal`, `self_register`, parts of `main`, `wifi_manager`, `prefs_store`, `serial_cmd`, `http_node`, `ws_client`) | flash: WiFi, owner, deleted, forced portal, confirmed, reg_done, reg_giveup; RAM copies of them | portal commands, boot, watchdog, attempts, deletion, resets | the app, the BE, the serial line, timers, power cuts | the copies agree with the flash; a deleted node stays out; an unconfirmed one goes back; a configured one comes back |
| WebSocket session (`ws_client`, `ws_enc`, `ws_tls`) | socket, connected, identify time and tries, nonce; key and sequence numbers | connect, disconnect, identified, frame in, frame out, guard | every module that reports sends through it | plain text is never sent after identify; no (key, number) twice; commands in order, once; it reconnects |
| Entity store, batch sender (`entity_store`, `data_sender`, `http_data`) | four tables of entities, the native list, four timers, a request for a batch | push, prune, post, name natives, tick | HTTP, scripts, checknet, the BE in; WS out | nothing the node measures or its user feeds in stands twice, only the oldest makes room, a batch carries nothing false or stale, no kind of frame starves |
| Preferences, user scripts (`prefs_store`, `http_config`) | a JSON file per namespace; count and slots of the scripts | put, remove, save; POST, DELETE | the app; everybody who keeps something | a power cut leaves the old or the new file; a request for one script loses no other |
| Hole punch (`punch`) | session, bound socket, gate over the lo queue | command, results of STUN and punch | WS; hi queue | the gate opens again; what was taken on is reported once, in order |
| Remote terminal (`tunnel`) | one tunnel, buffers, permission (flash and RAM) | open, data, close, enable, tick | WS and a local TCP socket | one tunnel; its bytes in order and its own only; its memory returned; nothing runs that is forbidden |
| Messages, subscriptions (`message_router`, `subscription_map`, `http_messages`) | a ring of prefixes and a table of actions, in flash and RAM; an inbox in RAM | subscribe, configure, dispatch, read, acknowledge | HTTP, WS | one slot per id; RAM and flash agree; what was configured together stays together |
| Identity (`identity`) | key pair, token, override, in flash; their copies | load, generate, override | boot, portal | the id of a node outlives everything but a factory reset; the two keys belong together |
| OTA (`ota`) | version, note of a pending update | command, boot, tick | WS, boot | the note is settled, and only by the version it is of |
| HTTP API (`http_*`) | PIN lock | requests | the app | its handlers are in the modules of what they change |
| Clock, rDNS, push, geolocation, traceroute, logging, shims | caches | one-shot | - | - |

The full list with the state of modelling of each part is `components` in
`PROJECT.json`; the hazards, at the line where each bites and with the properties that
would notice, are its `hazards`.

## 2. The modules, and how they correspond to the code

    BoundedFifo  <-implemented by-  Ring            NetLoopProofs
                                      | instance of
                                    NetRing         NetLoopProofs (the hi queue as a ring)
    JobService   <-implemented by-  NetLoop         NetLoopProofs
                                      | extends
                                    NetWorker  <- Checknet, Monitors, ScriptEngine,
                                                  Checknow, Punch <- OnDemand,
                                                  NodeIntegration
                                    WorkerProofs <- ChecknetProofs, MonitorsProofs,
                                                  ScriptEngineProofs,
                                                  NetLoopProofs (OnDemand),
                                                  UplinkProofs (NodeIntegration)
    NodeFlash    <- Identity, Ota, SubMap, Messages
                    Tunnel    <- NodeLife       NodeLifeProofs (all five composed)
    AtomicStore  <-implemented by-  UserScripts     FlashProofs
                                      | instance of
                                    PrefsStore      (one file, save by save)
    EntityStore  <- DataSender      UplinkProofs    (tables; frames)
    WifiManager  <- Onboarding      FlashProofs     (access points; flash, boot, registration)
    WsSession                       UplinkProofs

Every `X` that is checked has an `XMC.tla` with the values of its constants and a `.cfg`
(`NodeLife` needs no values but those of its `.cfg`).  `PROJECT.json`, `map`, names the lines behind every definition.

**Ring, BoundedFifo.** The ring-buffer template of `net_worker.cpp` as written: cells,
`head`, `count`, `% N`, popped cells keep their old value.  `BoundedFifo` is what its
users rely on, a sequence of at most N values.  `Ring` implements it through the
refinement mapping that reads the live cells in order; after that the other modules use
sequences with a bound.  `NetRing` ties the two together: it steps a ring beside
the sequence `hiQ` of `NetLoop`, and `RingHoldsQueue` says that the cells of the one
are the elements of the other, at every step of the worker.

**NetWorker.** The state of the worker (`hiQ`, `loQ`, `resQ`), the punch gate and `at`,
the place of `loop()`: `"front"` is every place where a handler can run and no result
waits, `"poll"` is the dispatch loop.  `RunJob` is one `net_worker_tick` with a job; what
comes of the job is any of `Outcomes` (success, failure, deferred for lack of heap,
blocked as a private address: `nw_execute`).  `Poll` is one iteration of the dispatch
loop: the handler of the client is conjoined to it by the module of that client, so
taking the result and everything the handler does is one step, as it is in the code.
The module also has `OthersSubmit` and `OthersHandle`, with which a module about one client
lets other clients fill the queues and starve it.

**NetLoop, JobService.** The worker under arbitrary clients: any job may be queued
at any time, also from inside a result handler.  `JobService` is the promise: a set of
accepted jobs, each answered once with its own result, each answer delivered.  The identity
of jobs exists in the model only (`Fresh`).

**Checknow, Punch, Checknet, Monitors, NodeIntegration, ScriptEngine.** Each extends `NetWorker`
with the variables of the C++ module of that name (the comment at each VARIABLE names the
C++ variable), one action per entry point (`OnCmd`, `OnNetResult`, `Update`, ...), and the
worker's steps.  Results carry only what the code's results carry (`ref_id`, `ref_idx`,
`src`): where a property speaks of more (the cycle a job was of, the configuration it
was for), that is a field of the job which no action reads.
  - `Checknow`: `FillSlot` is behind the push that was not refused; `OnNetResult` repeats a
    deferred probe once from inside the handler.
  - `Punch`: `OnPunch` overwrites the session record and then queues, or is refused; `PunchExec`
    says what becomes of the bound port.  `OnPunchResult` puts one report together, in either
    of its branches; whether it gets out is `sent`: one that outgrows its buffer, or finds the
    WS down, is lost and not made again.  `OnDemand` composes it with `Checknow` on one hi
    queue, with jobs of others between them, and with terminal sessions, which turn
    punching away.
  - `Checknet`: `OnJobs` builds the list, counts the accepted pushes, and may finish at
    once; `Collect` stores a result, may start the cycle's one trace *while* it counts down.
    `Finish` ends the cycle whether its report goes out, outgrows its buffer or finds no WS.
  - `Monitors`: `OnSet` has the branches of `monitors_on_set` (same configuration, new one,
    one without host), `Count` the hysteresis with its burst of quick repeats.  `Walk` is
    `monitors_update`: one walk over all slots in the order of their numbers, which queues what
    the hi queue has room for, so that lower slots go first; `NoWiFi` is its return at the top.
    It comes once in a turn of `loop()`, before the worker (`walked`).
  - `NodeIntegration`: the ring with `qHead`, `qTail`, `qCount` and pending flags, the one
    batch buffer, which is read by `Work` when the worker gets to the job, not when it was
    queued.  A POST that is not answered with success is logged and never repeated: its events
    are `failed`, those of an accepted one `posted`.
  - `ScriptEngine`: `RunSteps` is `run_steps` from a given step on, with every choice of
    conditions; the awaits with their tokens, timeouts, and the loads that forget them,
    each of which may find no memory for its slots or for the steps of a script.

**Onboarding.** The flash is one record `nvs`; `ram` has the copies and flags that a
restart loses.  A handler that writes several keys puts its writes into `todo`, and
`Write` makes them one by one (`Over` is the flash with a write over it); `Crash` may come between any two.  `after` says whether the
handler ends in `ESP.restart()`, at once or, for the portal's factory reset, 0.8 s later
with the portal still answering.  `Boot` is the decision of `setup()`, in its order:
deleted, forced portal, no WiFi, WiFi that does not connect (which forces the portal and
restarts), node mode.  `inRange` has the access points that are there, `ram.ap` the one the
radio is on (or the portal's own).  `WifiManager`, which `Onboarding` extends, is
`wifi_connect`: a name is a word with three marks for what `trim_ws`, `norm_ssid` and
`strip_spaces` take away, and `Connect` gives every access point an attempt can end at -
the best match among the visible ones or the exact name, an address of the node's own
where none is leased, the name without spaces where nothing matches - with the name it
saves over the other.

**WsSession.** `Connected`, `Receive` and `Disconnected` are `wsEvent`; `GuardFires` is
the ghost-session guard of `ws_client_tick` with its growing wait; `Send` is
`ws_client_send_raw`. The BE (`BeAnswers`, `BeReaps`, `BeCommands`), the socket and the
network (`Dies`, `ComesTwice`) are external. A command that was opened and then finds no
memory for its JSON has moved the sequence number on and is not handled (`Fault` in
`ReceiveBin`). A nonce stands for the key derived from it; the sequence numbers of both
sides are as in `ws_enc.cpp`.

**NodeFlash, Identity, Ota, SubMap, Messages, Tunnel, NodeLife.** What a node keeps over
its restarts.  `NodeFlash` is the flash as a function from keys to values with `todo`, the
saves a handler has still to make; one `Save` writes one key (`PrefsStore` shows why one put
is atomic).  `Identity` makes and loads the key pair, the token and the override; `Ota`
notes an update before it restarts and settles the note after; `SubMap` is the ring of
entity prefixes, written whole; `Messages` the actions on incoming messages (`SetById`,
`DeleteById`, `Dispatch`) and the inbox; `Tunnel` the remote terminal with the LAN host at
its far end, `TunTick` being one `tunnel_tick`.  `NodeLife` is `setup()` and `loop()` around
them: what each mode loads, what an open handler keeps from running, `Crash` between any two
saves, with power lost or not (the boot loader finishes an update only at a restart without
one).  To ask whether parts of two settings mix, a saved part carries the id it was configured
for; the code compares only the ids it stores.

**EntityStore, DataSender.** The store is the record `store` of four tables, each a
sequence of entries (an id and the time since it was written); `Push` is `entity_push`
as an operator on that record, so a handler that writes several entities is one
`PushAll`.  An entry has room for 35 characters of an id: `Cut` says what is kept of each id
that is longer, and look-ups compare the whole id with what is kept (`Stored`, `Holds`).  `DataSender` has the timers of `data_sender_tick` as times since (`sinceSend`
for `g_last_send`, ...), `Tick` with the three frames in their order, and the handlers
that write: `Post` (HTTP), `Measured` (checknet and the WiFi scan), `Leave` (scripts and
messages), `Learn` (the BE names the natives).  `frame` is what the last step sent.

**PrefsStore, UserScripts, AtomicStore.** `PrefsStore` is one namespace: `begin()` with
what it reads, and `save()` in its three steps (open, write, rename), each of which may
fail, with `LoseDoc` for a reset between any two.  `UserScripts` instantiates it with the
keys `count` and `us_n`; a handler's edits are a list (`toEdit`) which `NextEdit` makes one
by one.  `AtomicStore` is the promise of the comment on `save()`: the map is replaced as a
whole or not at all.  `FlashFull` and `LowHeap` say whether a write may come up short and
whether a file may find no memory to be parsed; the passing run and the theorems assume
that they do not, and section 6 has what happens otherwise.

## 3. The runs: what each one asks, its bounds, what it shows

Distinct states and times are of a run with two workers.

| run | question | bounds | states |
|---|---|---|---|
| `net_loop` | does the worker lose, double, mix up or starve a job, and is its ring a FIFO? | queues of 2, result ring of 1, 4 jobs: STUN, punch, guarded probe, trace | 10 227 |
| `on_demand` | check-now and punching side by side: do slot, jobs and reports stay in step? | 1 id, queues of 2, 2 punches, 1 terminal session | 96 528 |
| `node_integration` | what becomes of an event between ring, buffer and webhook? | ring of 2, 4 events, lo queue of 2 | 81 384 |
| `checknet` | can the countdown end, is each cycle reported once? | 2 cycles, lists of up to 3 cut to at most 2, gateway, lo queue of 2 | 167 648 |
| `monitors` | which slots are probed for ever, and is a monitor judged on enough results? | 2 slots, 2 ids, 2 configurations with a host and an empty one, hi queue of 1 that others fill | 486 005 |
| `script_engine` | does a script resume where it stopped, once, always? | 2 scripts, one in 2 versions, 2 awaits, lo queue of 2 | 82 500 |
| `onboarding` | does the node end in the right mode with the right memory, whatever is lost? | 1 owner, 3 access points (matched loosely, hidden, without leases), 4 typed names, 3 orders, 1 crash, 2 refusals | 375 152 |
| `ws_session` | do both sides agree on key and numbers, does the node come back? | 3 failures, 3 frames and 3 commands, answers after up to 20 s | 336 917 |
| `data_sender` | do the tables stay sound, and does everything that is due go out? | tables of 1 and 2, 3 ids posted, 2 left by others, one of them too long for an entry, frames of at most 3 entities, ages up to 2 | 89 697 |
| `user_scripts` | what does a power cut between two steps of a save leave? | 2 slots, 3 ids, 2 bodies | 5 093 |
| `node_life` | what do crashes, restarts, updates and resets leave of what a node keeps? | 3 requests, 2 crashes, tables and inbox of 2, 2 terminal sessions, 1 chunk | 480 619 |
| `mon_fits` | have the node's own measurements room in their table? (section 6) | the shipped sizes and names | - |

Properties worth knowing by name:

  - `net_loop`. `Inv`: no result is left when the tick comes, which is why a full result
    ring, which would drop one, never occurs.  `RingHoldsQueue`, `ImplementsFifo`: cells,
    `head` and `count` are that queue, and a bounded FIFO.  `OneAnswerPerJob`: the refinement
    of `JobService`.  `HiMovesUpEveryTurn`, `JobsAnswered`: no starvation of hi jobs at all,
    of lo jobs under the assumption of section 4.
  - `on_demand`. `OdInv` has `SlotMatchesFlight`: the slot of check-now is taken exactly while
    its one job or result is on its way (there is no timeout on the slot, so a mismatch would
    be for good); `FetchedOnceAtMost`: the retry repeats only what was not carried out;
    and `PunchInv`: punches are queued and reported once at most and in order, a report
    never names an earlier session, and a mapping is never remembered without its port.
    `SlotFreed`.  `PunchesReported`: a report is put together for the deferred and the failed
    ones too.
  - `node_integration`. `NiInv` has `InflightMatchesJob` and `BatchKeptForJob`: the buffer a
    queued job will read still has what was batched for it, though the URL is changed or
    events come.  `EventsAccountedFor`: every event that was queued is in exactly one place - the ring,
    the waiting batch, a POST that was accepted, a POST that failed, or given up unsent.  So
    it is in one POST at most and goes unaccepted only for the three reasons the code logs:
    overwritten in a full ring (`node_integration.cpp:70`), in a batch put off for memory
    (`:150`), in a POST that failed (`:155`).  And none is accepted behind a newer one.
    `BatchComesBack`.
  - `checknet`. `Inv` has `NeverWaitsForNothing`: while a cycle collects, at least as many
    checknet jobs are with the worker as it still counts - refused pushes, a trace
    started inside a result, and late results of an older cycle included.
    `OncePerCycle`: one trace and one report.  `CycleEnds` (without the one-minute timeout).
  - `monitors`. `Inv` has `OneSlotPerId`, and `AwaitedResultComes`: a slot that waits has a
    probe out which it will accept.  `VerdictsAreEarned`: down (up) only on as many bad
    (good) measurements in a row, counted since the configuration; the result of a probe of an
    older configuration under the same id is one of them (section 6).  `ProbingGoesOn`: a slot
    that is left alone is probed for ever if a walk finds room for it behind the lower slots
    again and again, or if the other hi clients and the BE keep quiet from some time on and
    fewer slots lie below it than the hi queue has places.  Not otherwise: see `AllSlotsProbed`
    in section 6.
  - `script_engine`. `Inv` has `AwaitHasItsJob`.  `ResumesOwnProgram`: no await survives
    the program its step index is for, and a step ends by its result or by its timeout, not
    by both.  `NeverStuck`.
  - `onboarding`. `OnbInv` has `CacheAgrees` (what a running node remembers is what its flash
    says) and `DoneOnlyIfHeard`.  `DeletedStaysOut`, `UnconfirmedGoesBack`.  `BackOnline`:
    while an access point that the saved name means takes the password (`CanJoin`), the node
    keeps coming back to it, however the name was typed and whatever failed before.
  - `ws_session`. `Inv` has `ConnectedMeansSealed`.  `SessionsAgree`: same key, each
    side's next number is acceptable to the other, and commands are handled in order.
    `NoSeqReuse`: an answer that comes twice does not restart the numbers of a key.
    `ComesBack`.
  - `data_sender`. `SenderInv` has `InOnePlace` (no id twice in pub[], mon[] or own[] or in the wrong one of
    them, whatever is evicted or compacted; in pool[] only an id that was cut off can be there
    twice), `BatchIsClean` - what goes out as public is native, and no entity of the
    user's goes out that is past its time - and `BuildsSpaced`: a batch that fails is not
    rebuilt in every turn.  `OldestMakesRoom`.  `FramesGoOut`.
  - `user_scripts`. `Inv` has `FileWhole` and `NoStrays`: no key outlives the script it was
    for.  `NoneLost`: a script that was stored stays until a request for its own id.
    `ImplementsStore`: the refinement of `AtomicStore`.
  - `node_life`. `RestartChangesNothing`: between two handlers, what is in RAM is what the
    next boot would load.  `OnlyCrashesMix`: at most one slot per crash within a handler
    holds parts of two settings.  `Inv` has `IdentityKept` (a node whose id others know is
    not halted and has that id or, until it has loaded it, none; the halves in flash belong
    together, and only a crash between the halves of a fresh key pair makes a node halt),
    `OneSlotPerId`, `SubMapSound`, `NewestKept`, `RunsOnlyAllowed`,
    and, of the terminal, `BytesAccountedFor` and `NoCrossTalk`.  `UpdateSettles`,
    `BuffersComeBack`.

Each property is also checked to be violated by a plausible mistake in the code
(`mutants` in `PROJECT.json`); the mistaken definitions are in the modules, under "Mistakes
used by the project's mutants only".

**Why these bounds are enough.**  The shipped queues hold four jobs; two hold the cases
that differ: empty, partly full, full, a push refused behind one accepted, two jobs
waiting whose order matters.  One place for results suffices because `Inv` of
`net_loop` shows that a second one is never used (and is proved for every depth).
Monitors use a queue of one, the depth at which refusal is most frequent; the counters
of a monitor saturate in the model at `CountCap`, which must be at least every `fail_n` and
`ok_n`.  Two cycles of checknet are needed for a result to outlive its cycle, and a third
would meet the same two: its own results and older ones.  `MaxTries` is four because the
guard's wait stops growing (36 s) there.  `MaxFaults` of three allow a connection to
die, its successor to get a bad answer, and a frame to come twice.  `SELFREG_MAX_REJECTS`
is 2 for 10, since only reaching it matters.  The time unit of `DataSender` is
`BASICS_INTERVAL` (30 s); loop() turns many times in it, so a unit passes only when the tick
has nothing left to do (`Settled`).  Its tables hold one or two entries, so that every push
of a new id evicts; ages are counted up to `AgeMax`, one more than the time to live; frames
of three entities make a batch overflow before it is pruned.  `UserScripts` has two slots
though the firmware ships with one, so that a deletion moves a script.  Three requests in
`NodeLife` allow an action to be configured, changed and run, or an update, a reset and a
setting, with a crash in one handler and a second in the boot that follows; it was run
once with four requests and one crash as well.  One chunk suffices for a send that fails,
two sessions for a byte to end up in the other one.  The access points of `onboarding` are
one for each way `wifi_connect` has to find or to lose one; three orders let a node be set
up, deleted and set up anew, with a crash between any two writes.  `CHECK_DEADLOCK FALSE`
is set where such a bound (events, cycles, awaits, commands) is used up or a single test job
is the whole load, and the models have nothing left to do; `onboarding`, `data_sender` and
`user_scripts` have no such end and check for deadlock.

## 4. Fairness

  - *loop() runs* (`WF` on the worker's steps and on the dispatch): handlers return and each
    kind of job has a timeout of its own, and the loop feeds the hardware watchdog.
  - *Time passes* (`WF` on `GateExpires` and on `Due` of each slot; `SF` on a script's timeout):
    the clock is read in every turn of `loop()`, but only at the front of it, hence strong
    fairness for the timeout, which a result phase disables again and again.  Handlers of users and of the BE are never fair: nobody has to send
    anything.
  - *Onboarding*: `WF` on `Write`, `Reboot`, `Boot` (a handler ends, a restart follows), on
    the portal's timeout, the watchdog's and the four minutes without WiFi (`WifiDown`), which
    `loop()` reads in every turn.  Not on the registration: the BE may refuse for ever; nor on
    `Reconnects`, since the library may not find its way back without a restart.
  - *WsSession*: `WF` on the library's reconnect and heartbeat, on `Receive` and the guard,
    and on the BE answering and reaping its ghosts.  Failures are bounded in number, not
    in time.
  - *Monitors*: `WF` on the walk, the worker's turn and the dispatch together, as the steps of
    one loop, and no fairness for a slot: which slots of a walk find room is the walk's order.
    `ProbingGoesOn` has its two premises in the formula: rooms behind the lower slots
    (`Walk /\ RoomFor(i)` again and again), or `QuietAround` and `FewBelow(i)`.  Both ask that
    walks with WiFi come again and again.
  - *OnDemand*: `WF` on the worker's turn and the dispatch together, no more.
  - *NodeLife*: `WF` on `Save`, `Restart` and `Boot` (a handler ends, a restart follows, a node
    that has power boots), on the end of `setup()`, on `OtaTick` and on `LateTick`, the
    terminal's tick once its time limits have passed.  Not on the portal's end.
  - *DataSender*: `WF` on `Tick` and on `Clock`.  `FramesGoOut` has its premises in the
    formula: the link stays up from some time on (`Quiet`) and, for the batch only, nobody
    writes any more (`NobodyWrites`), since writers may keep every batch too large, and what is
    public in pub[] and pool[] fits a frame from some time on (`OthersFit`): only own[] is pruned, so a batch that is too large
    without it stays so.
  - Liveness properties that assume more than the code guarantees do so as an explicit
    premise: the premises above, and `LoTurnsCome` (the worker is not kept busy by hi jobs and
    STUNs for good).

## 5. What is proved

TLAPS checks these for every value of the constants that satisfies the assumptions the
modules name: depths, sizes and limits are numbers and those of rings positive, jobs of the
other clients are not of the client in question (`CnAssumption`, `MonAssumption`,
`ScriptAssumption`, `NiAssumption`, `LoadAssumption`), the lists the BE sends are lists of
targets, of scripts and of keys (`Targets`, `Programs`, `IsList`), the user's entities have
a time to live (`SenderAssumption`), and a mark such as `None` or the reserved prefix is no
value (`ScriptsAssumption`, `OnbAssumption`, `FlashAssumption`, `IdentityAssumption`,
`OtaAssumption`, `SubAssumption`, `MessagesAssumption`, `TunnelAssumption`).  All bounds of the runs - events, crashes, commands, cycles - are constants, so
each theorem is about any number of them.

Each safety theorem follows the same three steps: `Init => IInv`, `IInv /\ [Next]_vars =>
IInv'` with a lemma per action or group of actions, `IInv => ` the property.  Every `IInv` was
first checked by TLC on the instance of the run.

**The worker** (`NetLoopProofs`).

  - `RingTyped`, `RingImplementsFifo`.  The invariant is the type invariant; the refinement
    needs that `At(k)`, the cell of the k-th live value, is injective for k below N
    (`AtInjective`: two indices less than N apart differ modulo N), so that a push writes no
    live cell (`PushAppends`) and a pop shifts the rest (`PopTakesHead`).
  - `NetRingHoldsQueue`: a ring stepped beside the worker's hi queue holds that queue.
    `RingInv` adds nothing but the ring's types; the work is that an accepted job, which the
    queue takes only below its depth, finds a cell.
  - `NetLoopInv`.  The inductive invariant is `Inv`, stated through sets (`SetInv`): types
    and depths; `at = "front" => resQ = <<>>`; at most one result; no job in two places.  The
    second conjunct is not inductive alone: that the tick puts its result into an *empty* ring
    makes "at most one", and that the dispatch loop leaves only when the ring is empty makes it
    empty again.  `JobsApart` is needed for the refinement.
  - `NetLoopHiMovesUp`: an action property, each turn of the worker with hi jobs takes their
    head, so no hi job starves.
  - `NetLoopOneAnswer`: the two-queue worker, with its gate, refused pushes and pushes
    from inside result handlers, implements `JobService`.  A refused push and a tick without
    a job map to stuttering; every other step maps to `Accept`, `Answer` or `Deliver`.

**The clients of the worker.**  `WorkerProofs` has what they share, as lemmas about `NetWorker`
alone: `WorkerOK` (rings of jobs, at most one result, and that only in the dispatch loop) is
kept by the worker's steps, by a handler's pushes and by the other clients, and each step
changes `Flights(s)`, the number of jobs and results of client s with the worker, by what it
says: one more for an accepted push (`EnqueueCounts`), the same when a job becomes a result
(`RunCounts`), one less for a poll (`PollCounts`).

  - `ChecknetInv`, `ChecknetOncePerCycle`.  `NeverWaitsForNothing` is `outstanding <= Flights`, and
    inductive with the types, since each result takes one from both, a trace started inside a
    result adds one to both or to neither, and a late result of an older cycle, which takes one
    from `outstanding` as well, was itself in flight.  One report: cycles already
    reported are past ones (`ReportInv`).  One trace: of each cycle at most one trace
    waits, of the present one none before `trLaunched` (`TraceInv`).
  - `MonitorsInv`, `MonitorsEarned`.  The table of slots is a partial function of the ids
    (`SlotsInv`); `AwaitedResultComes` needs no strengthening but the types, though clear and
    set may free and fill the slot of a probe that is out, and a walk queues several probes at
    once (`HandlerQueues`: a list of accepted pushes counts as its length).  For the verdicts, an action
    property, `HistInv` ties the two counters to the history: so many of the newest results
    are bad, so many good.
  - `OnDemandInv` (in `NetLoopProofs`).  The slot of check-now and its flight go together (`SlotMatchesFlight`), and
    `FetchInv` says that the URL of the check was fetched exactly if its result waits and was
    carried out, which is why the one retry, pushed from inside the handler, repeats no fetch.
    For the punches `OrderInv` takes the list of reported, done and waiting punches apart by
    place, each number below the next; the property states it of the whole.
  - `ScriptEngineInv`, `ScriptEngineResumes`.  Awaits and jobs are in pairs by token
    (`PairInv`): each await has one job, a job may be left without an await by a timeout or a
    reload.  `EndsOnce` needs that tokens of awaits have not ended and new ones are above all
    (`TypeInv`).  `ResumeInv` says that the program an await was taken in is the one its script
    has now: a load that changes the list
    forgets all awaits.

**What leaves the node** (`UplinkProofs`).

  - `SessionInv`, `SessionSafe`.  `NoSeqReuse` says nothing of why; `IInv` adds `SealedInv` (with
    a key, every number already used under it is below `seqTx`; without one, nothing was sealed
    under the nonce the next key comes from), and `InboxInv` (frames wait, and the BE has a live
    session, only over an open socket).  Together they say that a second `identified` cannot
    derive the key anew, because text is dropped while a key is active, and that a new
    connection's nonce is fresh.
  - `SessionsInStep`.  `SessionsAgree` relates two ends only; `AInv` adds what is between
    them: every frame on the wire has a number below the BE's next, and its command is as far
    behind the count of commands as the number is behind (`WireInv`), a live session over an
    open socket is of this connection's nonce (`LiveInv`), and the commands handled are
    increasing and lie before those yet to be opened (`HandledInv`).
  - `NodeIntegrationInv`, `NodeIntegrationAccounts`.  The account of the events is not inductive
    alone: the invariant says *which* events the ring holds, the newest ones without a gap,
    each pending, from the tail on (`RingInv`), so that what a full ring gives up is the oldest,
    and what a batch takes is all there is.  Of the events before those it says that each
    is in one of accepted, failed, lost, or in the buffer while a batch is with the worker, that
    a waiting batch is newer than everything posted or failed, and that a result that was not put
    off has its events among the posted or the failed (`AccountInv`), which is why the handler
    may forget the batch then.
  - `DataSenderInv`, `DataSenderOldest`.  A handler writes a list of entities, and what a list
    of pushes does is an induction over it, which the library's theorems cannot give here;
    `CountingUp` has it for a *set* of numbers (from the least number outside), so that
    `PushAllStays` says for a set of stores: what each push keeps, a list of pushes keeps.  It is
    used with `WrittenFrom(s)`, the stores whose tables are sound and `Kept` from those of s:
    every entry is new or of s, and an id of s that is gone went before every younger entry of s
    that is still there.  `Kept` is stronger than `OldestMakesRoom` and needs to be, because the
    second push of a list evicts from what the first one left.  `PruneKeeps` is by counting: the
    place of a fresh entry among the fresh ones is a bijection, so that the compaction loses
    none and doubles none.  Soundness of a table asks for no id twice only of the ids that are
    found again: an id that `Cut` shortens is never found, and `CutAssumption` says that only
    other nodes' ids, which go to pool[], are of that kind.  `BuildsSpaced` needs `sinceSend <= sinceBuild`: a batch is put
    together only when `g_last_send` is set.

**What is kept in flash** (`FlashProofs`).

  - `ScriptsImplementStore`: if a write does not come up short and a file can be read
    (`~FlashFull`, `~LowHeap`), `UserScripts` implements `AtomicStore`, with a reset between
    any two steps.  `StoreInv` says that the file is never a torn one, that what stands
    before the rename is the open document (`saving = "rename" => tmp = doc`), and that
    documents and the edits still to be made are well-typed, for which it is shown that the slot
    a handler picks exists (`FirstExists`) and lies below the count.
  - `ScriptsInv` (under `~FlashFull`), `ScriptsNoneLost` (under both).  The edits of a
    request leave the document in stages: a POST has raised the count and still has to fill
    the slot (`Growing`, `Filling`), a DELETE is about to empty a slot, or to fill an
    empty one from the next (`Clearing`, `Holed`, with `Moving`, the moves left).  `StageInv` says
    that the list of edits is always the rest of such a request, so that no stage holds a key
    above the count.  `KeptInv` says that of the scripts to be kept each is in the document
    and, when the next edit overwrites a slot, in another one.  What happens without the
    assumptions is in section 6.
  - `OnboardingInv`, `OnboardingDeletedStaysOut`.  `CacheAgrees` holds between handlers only; the
    invariant says of each point within one what the flash *will* hold once the writes
    in `todo` are made (`Settles`): for a running node that goes on, its owner, its registration
    and its confirmation are those in RAM and it is not deleted (`Agrees`).  A handler that ends
    in a restart is free to write anything else, because setup() takes RAM from the flash
    again.  `HeardOf` covers the writes to come in the same way: none sets `reg_done`
    before the BE has accepted.

**What a node keeps over its restarts** (`NodeLifeProofs`).  Every handler saves key by
key, and a crash may come between any two saves, so the invariant is one of the middle of a
handler: it says what flash will hold once the saves in `todo` are made, and what of it the next
boot would load if they never are.

  - `NodeLifeSettled`: the inductive invariant `SettledInv` of what is in flash.
      - `TableInv`, of the entity prefixes and the message actions.  At most one slot is busy, the
        other slots are the same in RAM and flash, and each part of the busy one is either
        the same or still to be saved (`SubBusy`, `RouterBusy`).  `FlashSound` says of the
        flash what `SubMapSound` and `OneSlotPerId` say of RAM, for a boot takes RAM from
        it.  `OneSlotPerId` needs this *of every prefix of a handler's saves*: the id of a slot is
        saved before the rest of it.  For `OnlyCrashesMix` the count of mixed slots (`Mixes`) is of
        RAM while the tables are loaded and of flash before; a crash within a handler adds the
        one busy slot at most (`MixInv`).
      - `IdInv`, of the identity.  `BootSaves` has how far `setup()` is with a fresh pair: nothing
        of it in flash, its private half, all of it.  Half a pair without such a boot is from a
        crash (`HalfByCrash`).  A known id has both halves in flash (`KnownKept`), and a node
        is known only at the end of `setup()`, when its saves are made.
      - `OtaInv`: in node mode the note of an update is settled, or the save that settles it is
        to come (`NoteSettles`); the terminal's permission is what the flash has.
  - `NodeLifeRestart`, `NodeLifeMixes`: `RestartChangesNothing` and `OnlyCrashesMix` follow from
    it.  `NodeLifeIdMoves` is an action property that no run checks: a known id changes by a
    factory reset or by an id set in the portal, and by no other step.
  - `NodeLifeInv`: `Inv` with the invariants of RAM.  `BytesAccountedFor` counts chunks,
    which is not inductive without saying *which* are where: those in the TCP buffer are the
    newest, numbered on without a gap (`Follow`), and of the older ones each is with the BE,
    unsent or cut off, and in one of these only (`Shared`, by numbers and by count).
    `NewestKept` has an inbox in which the app deletes from the middle: the numbers rise and none is
    above the count of the received, so that a push on a full inbox drops the oldest, and
    `Compacted`, the list of those that stay, is one by counting (the place of a message
    among those that stay is a bijection; the library's inductions cannot be used, see
    `DataSenderInv`).

**Only model-checked.**  Every invariant and every action property of the passing runs, and each
of their refinements, is stated by one of the theorems above.  What is left:

  - All liveness (`JobsAnswered`, `SlotFreed`, `PunchesReported`, `BatchComesBack`, `CycleEnds`,
    `ProbingGoesOn`, `NeverStuck`, `BackOnline`, `UnconfirmedGoesBack`, `ComesBack`, `FramesGoOut`,
    `UpdateSettles`, `BuffersComeBack`): the prover has no fairness or ENABLED.
  - What section 6 says of the comments: the properties there do not hold.

## 6. Where comments and code disagree

The run `mon_fits` expects a violation: `config.h:67` calls the `mon.*` entities a closed
set of eleven for which the table has a reserve.  The table has eight places, and the node's
own measurements - three basics and eight of a checknet cycle with gateway and peers - push
one another out of it.

More statements of comments are defined in the modules, and TLC finds each violated when it
is put in place of the properties of the configuration named, some with other constants:

  - *full list*: in `ChecknetMC.cfg`, `JobQDepth` and `ResQDepth` 4, `MaxJobs` 4, `MaxCycles` 1,
    `Assignments <- FullList`, `HiLoad <- NoLoad`, `LoLoad <- NoLoad`: the shipped sizes;
  - *reconfigured*: in `MonitorsMC.cfg`, `JobQDepth` 2, `Slots` {0}, and `Spec` for
    `FairSpec`;
  - *bad flash*: in `UserScriptsMC.cfg`, `FlashFull` and `LowHeap` TRUE.

| configuration | property | the comment | what the code does |
|---|---|---|---|
| `ChecknetMC.cfg`, full list | `RefusedJobsRetried` | `config.h:158`: every caller retries | refused checknet jobs are not repeated |
| `ChecknetMC.cfg` | `LateResultsIgnored` | `checknet.cpp:409`: a late result is ignored | the guard is on the state only: a result of a timed-out cycle that comes while the next one collects is stored there and counted |
| `ChecknetMC.cfg` | `DeferredNotCounted` | `net_worker.h:30` | deferred results are stored as measurements |
| `OnDemandMC.cfg` | `NoFalseDown` | `checknow.cpp:88` | the second deferral is reported as a result |
| `OnDemandMC.cfg` | `ReportNamesItsOwn` | `punch.cpp:23`: one session at a time | the session record is overwritten before the job is accepted, and a report takes its names from the record |
| `OnDemandMC.cfg` | `ShotsAreMapped` | `punch.cpp:98`: without a STUN there is no mapping, do not shoot | the test is of the bound port, which a STUN without an answer binds and a punch without an exchange keeps |
| `OnDemandMC.cfg` | `PunchSleeps` | `punch.cpp:5`, `:33`: punching sleeps during a terminal session | only the command asks; a job already queued runs |
| `MonitorsMC.cfg`, reconfigured | `ReloadedSlotDropsResult` | `monitors.cpp:172` | a result of the old configuration under the same id counts |
| `MonitorsMC.cfg`, reconfigured | `OneProbePerSlot` | `monitors.cpp:39` | a changed configuration queues a second probe beside the first |
| `MonitorsMC.cfg` | `AllSlotsProbed` | `monitors.cpp:329-330`: a refused probe is tried again in the next walk, when the worker has taken a job | each walk starts at slot 0: lower slots that are due again take every place that comes free, and with six slots, a queue of four and slow probes the last two are never probed |
| `DataSenderMC.cfg` | `PoolIdsOnce` (an invariant) | `entity_store.cpp:217`: look for an existing one | 35 characters of an id are kept (`:41`) and the whole id is looked for, so a longer one, which `push_remote_entities` lets through, gets a new entry with every push, pushes others out, and readers find its oldest copy |
| `ScriptEngineMC.cfg` | `OneJobPerScript` | `script_engine.h:125`: one job in flight per script | a timeout or a reload ends the await but not the job, and a script without an await runs |
| `ScriptEngineMC.cfg` | `OnlyQueuedStepsCool` | `script_actions.cpp:56` | a refused step still cools down |
| `OnboardingMC.cfg` | `RegistersItself` | `self_register.h:3`: the node registers itself | the portal's register stores a new owner and leaves `reg_done` set, so the BE is not told of a second onboarding (give `MCOwners` two owners) |
| `NodeLife.cfg` | `ZeroDrop` | `tunnel.cpp:8-10`, `:163`: only as much is read as can be sent | a chunk that was read is gone when the send behind it fails |
| `UserScriptsMC.cfg`, bad flash | `NeverTruncated` | `prefs_store.cpp:52`: never a truncated file | nothing asks whether the temporary file was written to its end before it is renamed |
| `UserScriptsMC.cfg`, bad flash | `NoneLost` | - | a file that finds no memory to be parsed is taken for an empty one, and the next put writes that back |
| `UserScriptsMC.cfg`, bad flash | `NoHoles` | - | a reset between the two saves of a POST leaves a counted slot without a script that no request fills; with the one slot shipped, no script can be saved any more |

Seen while modelling and not run:

  - the portal's `register` without ssid and owner, which its comment calls an update of the
    location only, stores the empty owner it was given (`captive_portal.cpp:281-319`) and
    leaves the deleted flag as it is;
  - `wifi_connect` tries an address of its own by the name that was saved
    (`wifi_manager.cpp:316`), so after a match by spaces or case only this try finds nothing;
    a neighbour's network that matches so keeps the name without spaces from being tried
    (`:325`);
  - the serial `set_wifi` takes the portal's access point down (`serial_cmd.cpp:68`), and the
    node is reached no more until the portal's five minutes are over; a portal that finds no
    memory (`captive_portal.cpp:599`) is not started at all, and its timeout never comes;
  - `entity_store.h:16-17` says that pub[] takes natives only, which is so only once the BE
    has named any;
  - a power cut between the saves of the two keys (`identity.cpp:149-150`) leaves a node whose
    self-test fails at every boot: `setup()` halts before it reads the serial line or the
    button (`main.cpp:127-129`), so no factory reset can help (`IdentityKept` has this case);
  - a factory reset clears the namespace `sensmos` only: message actions, subscriptions and
    a noted update of the previous owner stay (`Cleared` in `NodeLife`);
  - `ota.h:7` promises a rollback which `ota.cpp:134-136` says is impossible;
  - `http_config.cpp:277` speaks of at most 3 message actions, `MAX_MESSAGE_SLOTS` is 2;
  - `tunnel_on_close` closes the running session whatever number it names
    (`tunnel.cpp:146-149`), and an acknowledgement by sender removes messages that were not
    read (`http_messages.cpp:126-129`).

## 7. What is abstracted, and what is not modelled

  - What a probe measures, what a condition computes, texts, JSON and reports are reduced to
    what the properties tell apart: ok, deferred, blocked, which job it was.
  - Heap, time and intervals are choices of the environment: an allocation or a heap
    gate may fail whenever the code tests it, a timer may be over at any turn.  Two orders in
    time are kept: WiFi must be down for four minutes to restart the node while the watchdog
    is over after one (`WifiDown`), and an answer on its way is overtaken only by a wait
    shorter than it takes (`GuardFires`).
  - `Run` in `ScriptEngine` is one script of a tick (the code's tick goes through all;
    handlers do not run between them, so the model has more behaviours, not fewer); ids of
    scripts are unique.  Equal ids, which the code does not exclude, are a hazard of
    their own in the plan.
  - `Onboarding` leaves out the PIN, the trust rounds, wallet and location; `WifiManager` which
    of several equal matches is the strongest, radio settings and mDNS; a static address may
    work or not, which is why `CanJoin` asks for leases.  `WsSession` leaves out the
    dispatch of commands, which is in the module of each command, the cryptography
    (a frame opens under its own key only), and the TLS adapter.
  - The report of a punch or of a checknet cycle may be lost between its handler and the BE
    (buffer, WS down); no property speaks of what happens after it was put together but for
    the session's own.
  - Ids of entities are cut where the code cuts them on the way into the store (`Cut`).
    Those of the HTTP API and of messages are cut to 35 characters by their handlers before they
    are stored and looked up, and the node's own and the scripts' are shorter, so they enter as
    they are.  The keys the BE names as native are taken to fit their 27 characters
    (`entity_store.cpp:340`), and the prefix of a subscription to hold no dot.
  - `DataSender` leaves out values, `tmp[]` and the message of an HTTP refusal; the size of a
    frame is the number of entities in it.  `UserScripts` leaves out the other handlers of
    `http_config.cpp`.
  - `NodeLife` leaves open which mode `setup()` chooses (`Onboarding` has that) and what a
    message action sends; the entity prefix and the push texts of an action are saved beside
    its id and not told apart.  The signature and the download of an update are one step that
    works or does not.  The 0.8 s in which the portal still answers after a factory reset
    are kept.
  - Not modelled, with the reason in `components`: the PIN lock, one-shot I/O (NTP, rDNS,
    push, geolocation, traceroute), logging, compatibility shims, the tools under `tools/`.
    Planned: see below.

## 8. Plan

Done, in this order: `Ring` and the worker with its two abstract specifications, the clients
of the worker, `Onboarding`, `WsSession`, `EntityStore` and `DataSender`, `PrefsStore` and
`UserScripts`; then `Punch` with `OnDemand`, and `Identity`, `Ota`, `SubMap`, `Messages` and
`Tunnel` with `NodeLife`.  To come:

1. The PIN lock of the HTTP API (`http_core.cpp:39-57`) and the wrap-around of `millis()`.
2. In `ScriptEngine`: scripts without an id, which all take the default one and share awaits
   and look-ups, and cooldowns, which survive a reload by place.
   In `traceroute`, replies that come late: without ICMP a hop is told from another by its
   ports only (`traceroute.cpp`).

## 9. Running the checks

    tlc -workers 2 -config NetLoopMC.cfg NetLoopMC     # any .cfg with its MC module
    tlc -workers 2 -config NodeLife.cfg NodeLife
    tlapm NetLoopProofs.tla                            # any module X of the form *Proofs

`DataSenderShipped.cfg`, of the run `mon_fits`, goes with `DataSenderMC`.

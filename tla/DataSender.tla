----------------------------- MODULE DataSender -----------------------------
(***************************************************************************)
(* The sender of batches, telemetry and heartbeats (data_sender.cpp) over  *)
(* the entity store, one frame per turn of loop() at most.                 *)
(*                                                                         *)
(* Time is counted in units of BASICS_INTERVAL.  loop() turns many times   *)
(* in a unit: a unit passes only when the tick has nothing left to do      *)
(* (Settled).  The job of the WiFi scan is one of the other clients of the *)
(* net worker; its result is one of the telemetry pushes here.  The size   *)
(* of a frame is the number of entities in it.                             *)
(***************************************************************************)
EXTENDS EntityStore

CONSTANTS Basics,        \* keys push_basics writes, in order, to pub. and mon.
          Telemetry,     \* sequences of keys other modules write to mon. at once
          Posted,        \* ids an HTTP client may post
          Foreign,       \* ids scripts and other nodes write
          NativeLists,   \* lists of keys the BE may name as native
          PingInterval, MinInterval, ForceInterval, MonInterval, OwnTTL,
          FrameMax       \* entities that fit TX_SCRATCH_LEN

IsList(keys) == keys \in Seq({keys[k] : k \in DOMAIN keys})

ASSUME SenderAssumption ==
  /\ {PingInterval, MinInterval, ForceInterval, MonInterval} \subseteq Nat \ {0}
  /\ MinInterval <= ForceInterval
  /\ OwnTTL \in Nat \ {0} /\ OwnTTL < AgeMax
  /\ FrameMax \in Nat
  /\ \A id \in Posted : id.prefix \in {"pub", "own", "mon", ""}
  /\ \A id \in Foreign : id.prefix # "tmp"
  /\ \A keys \in Telemetry \cup NativeLists \cup {Basics} : IsList(keys)

VARIABLES sinceSend, sinceMon, sincePing, sinceBasics,   \* time since g_last_...
          pending,     \* g_pending_send
          link,        \* "no wifi", "no ws", "mute" (connected, sending fails) or "up"
          frame,       \* the frame the last step sent
          sinceBuild   \* history: time since a batch was last put together

timers == <<sinceSend, sinceMon, sincePing, sinceBasics, sinceBuild>>
senderVars == <<storeVars, timers, pending, link, frame>>

Links == {"no wifi", "no ws", "mute", "up"}

\* g_last_send = 0: no batch yet, and none to wait for.
Never == ForceInterval

NoFrame == [kind |-> "none", entities |-> {}, own |-> {}]
Frame(kind, entities, own) == [kind |-> kind, entities |-> entities, own |-> own]

PrefixAll(prefix, keys) == [k \in DOMAIN keys |-> Id(prefix, keys[k])]

\* push_basics; the order within one table is that of the keys.
WithBasics(s) == PushAll(PushAll(s, PrefixAll("mon", Basics), native),
                         PrefixAll("pub", Basics), native)

SenderInit == /\ native = {}
              /\ store = PushAll(PushAll(EmptyStore, PrefixAll("mon", Basics), {}),
                                 PrefixAll("pub", Basics), {})
              /\ sinceSend = Never /\ sinceBuild = Never
              /\ sinceMon = MonInterval \div 2
              /\ sincePing = 0 /\ sinceBasics = 0
              /\ pending = FALSE /\ link = "up" /\ frame = NoFrame

-----------------------------------------------------------------------------
BasicsDue == sinceBasics >= 1
PingDue == sincePing >= PingInterval
Cooldown == sinceSend >= MinInterval
Forced == sinceSend >= ForceInterval
BatchDue == (pending /\ Cooldown) \/ Forced
MonDue == sinceMon >= MonInterval

\* A frame that does not fit the scratch buffer is not sent.
Fits(f) == Cardinality(f.entities) + Cardinality(f.own) <= FrameMax

\* ws_client_send_raw
Sent(f) == link = "up" /\ Fits(f)
Show(f) == frame' = IF Sent(f) THEN f ELSE NoFrame

\* Mistakes used by the project's mutants only.
SendTimeIfFits(f) == IF Fits(f) THEN 0 ELSE sinceSend
PendingKept(f) == pending

\* The time of the last batch is set as soon as the batch is built, whatever
\* comes of it.
SendTimeAfter(f) == 0
PendingAfter(f) == IF Sent(f) THEN FALSE ELSE pending

Ping == /\ PingDue
        /\ sincePing' = 0
        /\ Show(Frame("ping", {}, {}))
        /\ UNCHANGED <<sinceSend, sinceMon, sinceBuild, pending>>

BatchOf(s) == Frame("batch", BatchEntities(s, native), {s.own[k] : k \in DOMAIN s.own})

\* send_batch with the store as the tick finds it; the first line is the
\* return before anything is set.
SendBatch(s) ==
  \/ /\ link = "no wifi"
     /\ store' = s /\ frame' = NoFrame
     /\ UNCHANGED <<sinceSend, sinceBuild, pending>>
  \/ /\ link = "no ws"
     /\ store' = s /\ frame' = NoFrame /\ sinceSend' = 0
     /\ UNCHANGED <<sinceBuild, pending>>
  \/ /\ link \in {"mute", "up"}
     /\ LET basic == WithBasics(s)
            built == [basic EXCEPT !.own = Prune(@, OwnTTL)]
            f     == BatchOf(built)
        IN /\ store' = built
           /\ sinceSend' = SendTimeAfter(f)
           /\ sinceBuild' = 0
           /\ pending' = PendingAfter(f)
           /\ Show(f)

\* send_mon_batch, which does not ask whether an entity is native.
MonOf(s) == Frame("mon", {s.mon[k].id : k \in DOMAIN s.mon}, {})

SendMon(s) ==
  /\ IF link = "no wifi" \/ (link # "no ws" /\ s.mon = <<>>)
     THEN UNCHANGED sinceMon ELSE sinceMon' = 0
  /\ IF link \in {"mute", "up"} /\ s.mon # <<>> THEN Show(MonOf(s)) ELSE frame' = NoFrame

\* data_sender_tick: the basics, and then the first of ping, batch and
\* telemetry that is due.
Tick ==
  LET s == IF BasicsDue THEN WithBasics(store) ELSE store IN
  /\ sinceBasics' = IF BasicsDue THEN 0 ELSE sinceBasics
  /\ UNCHANGED <<native, link>>
  /\ \/ Ping /\ store' = s
     \/ /\ ~PingDue /\ BatchDue /\ SendBatch(s)
        /\ UNCHANGED <<sinceMon, sincePing>>
     \/ /\ ~PingDue /\ ~BatchDue /\ MonDue /\ SendMon(s)
        /\ store' = s
        /\ UNCHANGED <<sinceSend, sincePing, sinceBuild, pending>>
     \/ /\ ~PingDue /\ ~BatchDue /\ ~MonDue
        /\ store' = s /\ frame' = NoFrame
        /\ UNCHANGED <<sinceSend, sinceMon, sincePing, sinceBuild, pending>>

-----------------------------------------------------------------------------
\* A handler that writes to the store.
Writes(ids) == /\ store' = PushAll(store, ids, native)
               /\ frame' = NoFrame
               /\ UNCHANGED <<native, timers, link>>

\* POST /data and /data/batch: the former turns a pub. away that is not
\* native.  What is or becomes pub. asks for a batch, even if the store
\* blocks it.
Post(id, inBatch) ==
  /\ ~inBatch /\ id.prefix = "pub" => IsNative(id, native)
  /\ Writes(<<Classify(id, native)>>)
  /\ pending' = (pending \/ Classify(id, native).prefix = "pub")

\* cn_send_results at the end of a checknet cycle, and the WiFi scan.
Measured(keys) == Writes(PrefixAll("mon", keys)) /\ UNCHANGED pending

\* Scripts (store_float), messages and subscriptions.
Leave(id) == Writes(<<id>>) /\ UNCHANGED pending

\* on_identified: the BE names native entities.
Learn(keys) == /\ link \in {"mute", "up"}
               /\ native' = WithNatives(native, keys)
               /\ frame' = NoFrame
               /\ UNCHANGED <<store, timers, pending, link>>

LinkChanges == /\ link' \in Links \ {link}
               /\ frame' = NoFrame
               /\ UNCHANGED <<storeVars, timers, pending>>

Settled == /\ ~BasicsDue /\ ~PingDue
           /\ link = "no wifi" \/ (~BatchDue /\ ~MonDue)

Later(t, max) == IF t < max THEN t + 1 ELSE t

Clock == /\ Settled
         /\ store' = AgedStore(store)
         /\ sinceSend' = Later(sinceSend, Never)
         /\ sinceBuild' = Later(sinceBuild, Never)
         /\ sinceMon' = Later(sinceMon, MonInterval)
         /\ sincePing' = Later(sincePing, PingInterval)
         /\ sinceBasics' = Later(sinceBasics, 1)
         /\ frame' = NoFrame
         /\ UNCHANGED <<native, pending, link>>

SenderNext == \/ Tick
              \/ Clock
              \/ \E id \in Posted, inBatch \in BOOLEAN : Post(id, inBatch)
              \/ \E keys \in Telemetry : Measured(keys)
              \/ \E id \in Foreign : Leave(id)
              \/ \E keys \in NativeLists : Learn(keys)
              \/ LinkChanges

SenderSpec == SenderInit /\ [][SenderNext]_senderVars
SenderFairSpec == SenderSpec /\ WF_senderVars(Tick) /\ WF_senderVars(Clock)

-----------------------------------------------------------------------------
Ids(t) == {t[k].id : k \in DOMAIN t}
Once(t) == \A k, l \in DOMAIN t : t[k].id = t[l].id => k = l
CutIds == {Cut[id] : id \in DOMAIN Cut}
Caps == [pub |-> PubMax, mon |-> MonMax, own |-> OwnMax, pool |-> PoolMax]

SenderTypeOK ==
  /\ \A name \in DOMAIN Caps :
       /\ Len(store[name]) <= Caps[name]
       /\ \A k \in DOMAIN store[name] : store[name][k].age \in 0..AgeMax
  /\ Cardinality(native) <= NativeMax
  /\ sinceSend \in 0..Never /\ sinceBuild \in 0..Never
  /\ sinceMon \in 0..MonInterval /\ sincePing \in 0..PingInterval /\ sinceBasics \in 0..1
  /\ pending \in BOOLEAN /\ link \in Links

\* What the node measures or its user feeds in is in one place: in the table
\* of its prefix and there once.  Updates, evictions and the pruning, which
\* moves entries, never leave two of it, of which one would be stale.  In the
\* pool only an id that was cut off can be there twice.
InOnePlace ==
  /\ \A name \in {"pub", "mon", "own"} :
       /\ Once(store[name])
       /\ \A k \in DOMAIN store[name] : store[name][k].id.prefix = name
  /\ \A k, l \in DOMAIN store.pool :
       store.pool[k].id = store.pool[l].id => k = l \/ store.pool[k].id \in CutIds

\* entity_store.cpp:217 looks for an entry to write in place before it takes
\* a new one.  The code does not keep this: a long id gets a new entry with
\* every push, while the readers find the first, which is stale.
PoolIdsOnce == Once(store.pool)

\* What goes out as public is native, though pub[] may hold ids that came
\* before the BE named the natives and that nothing ever removes; and no own.
\* entity goes out that nobody refreshed within OWN_TTL_S.
BatchIsClean ==
  frame.kind = "batch" => /\ \A id \in frame.entities : id.key \in native
                          /\ \A e \in frame.own : e.age <= OwnTTL

\* Between two batches that are put together lies the least interval, also
\* when the first did not fit or could not be sent: a batch that fails is not
\* rebuilt in every turn of loop() (data_sender.cpp:188).
BuildsSpaced == BatchDue /\ link \in {"mute", "up"} => sinceBuild >= MinInterval

\* Types, tables in order, clean batches, and time between them.
SenderInv == SenderTypeOK /\ InOnePlace /\ BatchIsClean /\ BuildsSpaced

\* A full table gives up an entry only for a new one, and never one that was
\* written later than another that stays as it is.
GivesUp(name) ==
  \A k \in DOMAIN store[name] :
    store[name][k].id \notin Ids(store'[name])
      => \/ name = "own" /\ store[name][k].age > OwnTTL
         \/ \A l \in DOMAIN store[name] :
              (\E m \in DOMAIN store'[name] : store'[name][m] = store[name][l])
                => store[name][l].age <= store[name][k].age
OldestMakesRoom == [][\A name \in {"pub", "mon", "own"} : GivesUp(name)]_senderVars

\* Over a link that stays up the three kinds of frame do not starve one
\* another, and once nobody writes any more a batch that was asked for goes
\* out: one that did not fit is made smaller by the pruning.  Only own.
\* entities are pruned, so the others have to fit a frame by themselves.
Quiet == <>[](link = "up")
NobodyWrites == <>[][Tick \/ Clock]_senderVars
OthersFit == <>[](Cardinality(BatchEntities(store, native)) <= FrameMax)
FramesGoOut ==
  Quiet => /\ []<>(frame.kind = "ping")
           /\ []<>(frame.kind = "mon")
           /\ NobodyWrites /\ OthersFit => /\ []<>(frame.kind = "batch")
                                          /\ pending ~> ~pending

\* config.h:67 calls mon.* a closed set of eleven entities for which the table
\* has a reserve: no measurement of the node makes another disappear.
TelemetryFits == [][Ids(store.mon) \subseteq Ids(store'.mon)]_senderVars
=============================================================================

--------------------------- MODULE NodeLifeProofs ---------------------------
(***************************************************************************)
(* What a node keeps over its restarts, for every set of ids, targets,     *)
(* prefixes, versions and message ids, every size of the tables and every  *)
(* number of requests and crashes: in order                                *)
(*   - the tables (subscriptions, message actions): TableInv,              *)
(*   - the identity: IdInv,                                                *)
(*   - the update and the permission of the terminal: OtaInv,              *)
(*   - the terminal: TunnelInv, and the inbox: InboxInv.                   *)
(* Each part says what the saves that are yet to come (todo) may still     *)
(* change, so that it holds between any two of them, where a crash may     *)
(* come; the theorems follow from their conjunction.                       *)
(***************************************************************************)
EXTENDS NodeLife, FiniteSetTheorems, SequenceTheorems, WellFoundedInduction, TLAPS

PutsIn(q) == {q[n] : n \in DOMAIN q}
Puts == PutsIn(todo)

\* A sequence, of whatever its elements are.
IsSeq(q) == q \in Seq(PutsIn(q))

-----------------------------------------------------------------------------
\* Two keys are one only if both parts agree.
LEMMA KeysDiffer ==
  \A f, g, i, j : Key(f, i) = Key(g, j) <=> f = g /\ i = j
BY DEF Key

LEMMA ElementsIn ==
  ASSUME NEW S, NEW q \in Seq(S), NEW T, \A n \in DOMAIN q : q[n] \in T
  PROVE  q \in Seq(T)
OBVIOUS

\* What one save takes from the queue.
LEMMA QueueStep ==
  ASSUME NEW q, IsSeq(q), q # <<>>
  PROVE  /\ IsSeq(Tail(q))
         /\ PutsIn(q) = {Head(q)} \cup PutsIn(Tail(q))
<1>1. Len(q) \in Nat /\ Len(q) > 0 /\ DOMAIN q = 1 .. Len(q) /\ Head(q) = q[1]
  BY DEF IsSeq
<1>2. /\ DOMAIN Tail(q) = 1 .. Len(q) - 1 /\ Len(Tail(q)) = Len(q) - 1
      /\ \A n \in 1 .. Len(q) - 1 : Tail(q)[n] = q[n + 1]
  BY DEF IsSeq
<1>3. \A n \in 1 .. Len(q) : n = 1 \/ n - 1 \in 1 .. Len(q) - 1
  BY <1>1
<1>4. PutsIn(q) = {Head(q)} \cup PutsIn(Tail(q))
  <2>1. ASSUME NEW n \in DOMAIN q PROVE q[n] \in {Head(q)} \cup PutsIn(Tail(q))
    <3>1. CASE n = 1
      BY <1>1, <3>1
    <3>2. CASE n # 1
      <4>1. n - 1 \in DOMAIN Tail(q) /\ Tail(q)[n - 1] = q[n - 1 + 1] /\ n - 1 + 1 = n
        BY <1>1, <1>2, <1>3, <2>1, <3>2
      <4>2. QED
        BY <4>1 DEF PutsIn
    <3>3. QED
      BY <3>1, <3>2
  <2>2. Head(q) \in PutsIn(q)
    BY <1>1 DEF PutsIn
  <2>3. ASSUME NEW n \in DOMAIN Tail(q) PROVE Tail(q)[n] \in PutsIn(q)
    BY <1>1, <1>2, <2>3 DEF PutsIn
  <2>4. QED
    BY <2>1, <2>2, <2>3 DEF PutsIn
<1>5. IsSeq(Tail(q))
  <2>1. Tail(q) \in Seq(PutsIn(q))
    BY DEF IsSeq
  <2>2. \A n \in DOMAIN Tail(q) : Tail(q)[n] \in PutsIn(Tail(q))
    BY DEF PutsIn
  <2>3. QED
    BY <1>1, <1>2, <2>1, <2>2, ElementsIn DEF IsSeq
<1>6. QED
  BY <1>4, <1>5

\* What is in flash after a save.
LEMMA SaveEffect ==
  ASSUME DOMAIN flash = Keys, SaveNext, NEW f, NEW i, NEW v,
         Head(todo) = Put(f, i, v), Key(f, i) \in Keys
  PROVE  /\ DOMAIN flash' = Keys
         /\ Stored(f, i)' = v
         /\ \A g, j : Key(g, j) \in Keys /\ ~(g = f /\ j = i) => Stored(g, j)' = Stored(g, j)
<1>1. flash' = [flash EXCEPT ![Key(f, i)] = v]
  <2> DEFINE h == Head(todo)
  <2>1. h.key = Key(f, i) /\ h.val = v
    BY DEF Put
  <2>2. flash' = [flash EXCEPT ![h.key] = h.val]
    BY DEF SaveNext
  <2> HIDE DEF h
  <2>3. QED
    BY <2>1, <2>2
<1>2. DOMAIN flash' = Keys /\ flash'[Key(f, i)] = v
  BY <1>1
<1>3. \A k \in Keys : k # Key(f, i) => flash'[k] = flash[k]
  BY <1>1
<1>4. QED
  BY <1>2, <1>3, KeysDiffer DEF Stored

-----------------------------------------------------------------------------
(***************************************************************************)
(* The subscription map and the message actions, in flash and in RAM.      *)
(***************************************************************************)
LEMMA TableKeys ==
  /\ Key("head", 0) \in Keys
  /\ \A i \in SubSlots : Key("t", i) \in Keys /\ Key("p", i) \in Keys
  /\ \A i \in MsgSlots : Key("mid", i) \in Keys /\ Key("mwh", i) \in Keys
                           /\ Key("msi", i) \in Keys
  /\ \A j : Key("head", j) \in Keys => j = 0
<1>1. ASSUME NEW j, Key("head", j) \in Keys PROVE j = 0
  <2>1. \/ \E f \in {"privkey", "pubkey", "api_token", "id_ovr"} : Key("head", j) = Key(f, 0)
        \/ Key("head", j) = Key("pending", 0)
        \/ Key("head", j) = Key("head", 0)
        \/ \E f \in {"t", "p"}, i \in SubSlots : Key("head", j) = Key(f, i)
        \/ \E f \in {"mid", "mwh", "msi"}, i \in MsgSlots : Key("head", j) = Key(f, i)
    BY <1>1 DEF Keys, IdentityKeys, OtaKeys, SubKeys, RouterKeys
  <2>2. QED
    BY <2>1, KeysDiffer
<1>2. /\ Key("head", 0) \in Keys
      /\ \A i \in SubSlots : Key("t", i) \in Keys /\ Key("p", i) \in Keys
  BY DEF Keys, SubKeys
<1>3. \A i \in MsgSlots : Key("mid", i) \in Keys /\ Key("mwh", i) \in Keys
                           /\ Key("msi", i) \in Keys
  BY DEF Keys, RouterKeys
<1>4. QED
  BY <1>1, <1>2, <1>3

\* What the tables in flash are after one save.
LEMMA SaveTables ==
  ASSUME DOMAIN flash = Keys, SaveNext, NEW f, NEW i, NEW v,
         Head(todo) = Put(f, i, v), Key(f, i) \in Keys
  PROVE  /\ Stored("head", 0)' = IF f = "head" THEN v ELSE Stored("head", 0)
         /\ StoredMap' = [j \in SubSlots |->
              [target |-> IF f = "t" /\ i = j THEN v ELSE StoredMap[j].target,
               prefix |-> IF f = "p" /\ i = j THEN Sanitized(v) ELSE StoredMap[j].prefix]]
         /\ StoredActions' = [j \in MsgSlots |->
              [id |-> IF f = "mid" /\ i = j THEN v ELSE StoredActions[j].id,
               wh |-> IF f = "mwh" /\ i = j THEN v ELSE StoredActions[j].wh,
               si |-> IF f = "msi" /\ i = j THEN v ELSE StoredActions[j].si]]
<1>1. \A g, j : Key(g, j) \in Keys => Stored(g, j)' = IF f = g /\ i = j THEN v ELSE Stored(g, j)
  BY SaveEffect
<1>2. f = "head" => i = 0
  BY TableKeys
<1>3. Stored("head", 0)' = IF f = "head" THEN v ELSE Stored("head", 0)
  BY <1>1, <1>2, TableKeys
<1>4. ASSUME NEW j \in SubSlots
      PROVE  /\ Stored("t", j)' = IF f = "t" /\ i = j THEN v ELSE Stored("t", j)
             /\ Stored("p", j)' = IF f = "p" /\ i = j THEN v ELSE Stored("p", j)
  BY <1>1, TableKeys
<1>5. ASSUME NEW j \in MsgSlots
      PROVE  /\ Stored("mid", j)' = IF f = "mid" /\ i = j THEN v ELSE Stored("mid", j)
             /\ Stored("mwh", j)' = IF f = "mwh" /\ i = j THEN v ELSE Stored("mwh", j)
             /\ Stored("msi", j)' = IF f = "msi" /\ i = j THEN v ELSE Stored("msi", j)
  BY <1>1, TableKeys
<1>6. QED
  BY <1>3, <1>4, <1>5 DEF StoredMap, StoredActions

\* The keys of the other components.
LEMMA SaveElsewhere ==
  ASSUME DOMAIN flash = Keys, SaveNext, NEW f, NEW i, NEW v,
         Head(todo) = Put(f, i, v), Key(f, i) \in IdentityKeys \cup OtaKeys
  PROVE  /\ UNCHANGED <<Stored("head", 0), StoredMap, StoredActions>>
         /\ DOMAIN flash' = Keys
<1>1. f \in {"privkey", "pubkey", "api_token", "id_ovr", "pending"} /\ Key(f, i) \in Keys
  BY DEF IdentityKeys, OtaKeys, Keys, Key
<1>2. /\ f \notin {"head", "t", "p", "mid", "mwh", "msi"}
  BY <1>1
<1>3. /\ StoredMap = [j \in SubSlots |-> [target |-> StoredMap[j].target,
                                          prefix |-> StoredMap[j].prefix]]
      /\ StoredActions = [j \in MsgSlots |->
              [id |-> StoredActions[j].id, wh |-> StoredActions[j].wh,
               si |-> StoredActions[j].si]]
  BY DEF StoredMap, StoredActions
<1>4. Stored("head", 0)' = Stored("head", 0) /\ DOMAIN flash' = Keys
  BY <1>1, <1>2, SaveTables, SaveEffect
<1>5. StoredMap' = StoredMap
  BY <1>1, <1>2, <1>3, SaveTables
<1>6. StoredActions' = StoredActions
  BY <1>1, <1>2, <1>3, SaveTables
<1>7. QED
  BY <1>4, <1>5, <1>6

\* Slots whose parts are not of one request (SubMixed and RouterMixed, of the
\* table in RAM as of the one in flash).
MixedSub(m) == {i \in SubSlots : /\ m[i].target # None
                                 /\ m[i].prefix \notin {Default, PrefixFor(m[i].target)}}
MixedActions(a, c) == {i \in MsgSlots : a[i].id # None /\ \A n \in 1 .. c : a[i] # Action(a[i].id, n)}

LEMMA MixedInRam == SubMixed = MixedSub(subMap) /\ RouterMixed = MixedActions(actions, configured)
BY DEF SubMixed, MixedSub, RouterMixed, MixedActions

LEMMA SlotsAreFinite == IsFiniteSet(SubSlots) /\ IsFiniteSet(MsgSlots)
<1>1. SubMax - 1 \in Int /\ MaxSlots - 1 \in Int
  BY SubAssumption, MessagesAssumption
<1>2. QED
  BY <1>1, FS_Interval DEF SubSlots, MsgSlots

LEMMA MixedIsFinite ==
  ASSUME NEW m, NEW a, NEW c
  PROVE  /\ IsFiniteSet(MixedSub(m)) /\ Cardinality(MixedSub(m)) \in Nat
         /\ IsFiniteSet(MixedActions(a, c)) /\ Cardinality(MixedActions(a, c)) \in Nat
<1>1. MixedSub(m) \in SUBSET SubSlots /\ MixedActions(a, c) \in SUBSET MsgSlots
  BY DEF MixedSub, MixedActions
<1>2. QED
  BY <1>1, SlotsAreFinite, FS_Subset, FS_CardinalityType

\* A set is no larger than one it is in, but for an element.
LEMMA OneMore ==
  ASSUME NEW A, NEW B, IsFiniteSet(B), NEW s
  PROVE  /\ A \subseteq B => Cardinality(A) <= Cardinality(B)
         /\ A \subseteq B \cup {s} => Cardinality(A) <= Cardinality(B) + 1
<1>1. ASSUME NEW C, IsFiniteSet(C), A \subseteq C PROVE Cardinality(A) <= Cardinality(C)
  <2>1. A \in SUBSET C
    BY <1>1
  <2>2. QED
    BY <1>1, <2>1, FS_Subset
<1>2. /\ IsFiniteSet(B \cup {s}) /\ Cardinality(B) \in Nat
      /\ Cardinality(B \cup {s}) \in {Cardinality(B), Cardinality(B) + 1}
  BY FS_AddElement, FS_CardinalityType
<1>3. A \subseteq B \cup {s} => IsFiniteSet(A) /\ Cardinality(A) \in Nat
  <2>1. A \subseteq B \cup {s} => A \in SUBSET (B \cup {s})
    OBVIOUS
  <2>2. QED
    BY <1>2, <2>1, FS_Subset, FS_CardinalityType
<1>4. A \subseteq B \cup {s} => Cardinality(A) <= Cardinality(B) + 1
  <2>1. A \subseteq B \cup {s} => Cardinality(A) <= Cardinality(B \cup {s})
    BY <1>1, <1>2
  <2>2. QED
    BY <1>2, <1>3, <2>1
<1>5. QED
  BY <1>1, <1>4

-----------------------------------------------------------------------------
NoActions == [i \in MsgSlots |-> NoAction]
NoEntries == [i \in SubSlots |-> NoEntry]

\* What a save of a table writes is what the table in RAM holds.
SubPuts == {Put("head", 0, subHead)}
             \cup {Put("t", i, subMap[i].target) : i \in SubSlots}
             \cup {Put("p", i, subMap[i].prefix) : i \in SubSlots}
RouterPuts == {Put("mid", i, actions[i].id) : i \in MsgSlots}
                \cup {Put("mwh", i, actions[i].wh) : i \in MsgSlots}
                \cup {Put("msi", i, actions[i].si) : i \in MsgSlots}

\* The saves to come are of other components.
IsElsewhere(p) == \E f, i, v : p = Put(f, i, v) /\ Key(f, i) \in IdentityKeys \cup OtaKeys
Elsewhere == \A p \in Puts : IsElsewhere(p)

SubAllIn == StoredMap = subMap /\ StoredHead = subHead
RouterAllIn == StoredActions = actions

\* Of the tables only slot s may differ between flash and RAM, and what of it
\* differs is yet to be saved.
SubBusy(s) ==
  /\ Puts \subseteq SubPuts
  /\ \A i \in SubSlots \ {s} : StoredMap[i] = subMap[i]
  /\ StoredMap[s].target = subMap[s].target \/ Put("t", s, subMap[s].target) \in Puts
  /\ StoredMap[s].prefix = subMap[s].prefix \/ Put("p", s, subMap[s].prefix) \in Puts
  /\ StoredHead = subHead \/ Put("head", 0, subHead) \in Puts
RouterBusy(s) ==
  /\ Puts \subseteq RouterPuts
  /\ \A i \in MsgSlots \ {s} : StoredActions[i] = actions[i]
  /\ StoredActions[s].id = actions[s].id \/ Put("mid", s, actions[s].id) \in Puts
  /\ StoredActions[s].wh = actions[s].wh \/ Put("mwh", s, actions[s].wh) \in Puts
  /\ StoredActions[s].si = actions[s].si \/ Put("msi", s, actions[s].si) \in Puts

\* The tables in flash, as the next boot would load them.
FlashSound ==
  /\ DOMAIN flash = Keys
  /\ Stored("head", 0) \in Nat \cup {None}
  /\ \A i, j \in SubSlots :
       StoredMap[i].target = StoredMap[j].target /\ StoredMap[i].target # None => i = j
  /\ \A i, j \in MsgSlots :
       StoredActions[i].id = StoredActions[j].id /\ StoredActions[i].id # None => i = j

SubShape ==
  /\ subMap = [i \in SubSlots |-> [target |-> subMap[i].target, prefix |-> subMap[i].prefix]]
  /\ subHead \in Nat
RouterShape ==
  actions = [i \in MsgSlots |-> [id |-> actions[i].id, wh |-> actions[i].wh,
                                 si |-> actions[i].si]]

\* RAM and flash, by the mode the node is in.
InStep ==
  /\ IsSeq(todo)
  /\ power \notin {"portal", "up"} => subMap = NoEntries /\ subHead = 0
  /\ power = "portal" => SubAllIn
  /\ power # "up" => actions = NoActions /\ Elsewhere
  /\ power = "up" => \/ Elsewhere /\ SubAllIn /\ RouterAllIn
                     \/ \E s \in SubSlots : SubBusy(s) /\ RouterAllIn
                     \/ \E s \in MsgSlots : RouterBusy(s) /\ SubAllIn

Mixes(m, a, c) == Cardinality(MixedActions(a, c)) + Cardinality(MixedSub(m))

\* While the tables are loaded, those in RAM say how many slots are mixed;
\* before that, those in flash do.
MixInv == /\ torn \in Nat /\ configured \in Nat
          /\ Mixes(subMap, actions, configured) <= torn
          /\ power # "up" => Mixes(StoredMap, StoredActions, configured) <= torn
          /\ torn = 0 => RanForeign = {}

TableInv == /\ FlashSound /\ SubShape /\ RouterShape
            /\ SubMapSound /\ OneSlotPerId
            /\ InStep /\ MixInv

-----------------------------------------------------------------------------
LEMMA PrefixesDiffer ==
  /\ Default # Reserved /\ None # Reserved
  /\ \A p : Sanitized(p) # Reserved
  /\ \A t : Sanitized(PrefixFor(t)) \in {Default, PrefixFor(t)}
  /\ \A p : p # Reserved => Sanitized(p) = p
BY SubAssumption DEF Default, Reserved, Sanitized, PrefixFor

\* The tables in flash have their shape by the way they are loaded.
LEMMA SameSlots ==
  ASSUME SubShape, RouterShape
  PROVE  /\ (\A i \in SubSlots : /\ StoredMap[i].target = subMap[i].target
                                 /\ StoredMap[i].prefix = subMap[i].prefix)
              => StoredMap = subMap
         /\ (\A i \in MsgSlots : /\ StoredActions[i].id = actions[i].id
                                 /\ StoredActions[i].wh = actions[i].wh
                                 /\ StoredActions[i].si = actions[i].si)
              => StoredActions = actions
<1>1. StoredMap = [i \in SubSlots |-> [target |-> StoredMap[i].target,
                                       prefix |-> StoredMap[i].prefix]]
  BY DEF StoredMap
<1>2. StoredActions = [i \in MsgSlots |->
              [id |-> StoredActions[i].id, wh |-> StoredActions[i].wh,
               si |-> StoredActions[i].si]]
  BY DEF StoredActions
<1>3. ASSUME \A i \in SubSlots : /\ StoredMap[i].target = subMap[i].target
                                 /\ StoredMap[i].prefix = subMap[i].prefix
      PROVE  StoredMap = subMap
  <2>1. [i \in SubSlots |-> [target |-> StoredMap[i].target, prefix |-> StoredMap[i].prefix]]
          = [i \in SubSlots |-> [target |-> subMap[i].target, prefix |-> subMap[i].prefix]]
    BY <1>3
  <2>2. QED
    BY <1>1, <2>1 DEF SubShape
<1>4. ASSUME \A i \in MsgSlots : /\ StoredActions[i].id = actions[i].id
                                 /\ StoredActions[i].wh = actions[i].wh
                                 /\ StoredActions[i].si = actions[i].si
      PROVE  StoredActions = actions
  <2>1. [i \in MsgSlots |-> [id |-> StoredActions[i].id, wh |-> StoredActions[i].wh,
                             si |-> StoredActions[i].si]]
          = [i \in MsgSlots |-> [id |-> actions[i].id, wh |-> actions[i].wh,
                                 si |-> actions[i].si]]
    BY <1>4
  <2>2. QED
    BY <1>2, <2>1 DEF RouterShape
<1>5. QED
  BY <1>3, <1>4

\* With no save to come, what is loaded is what is in flash.
LEMMA IdleAllIn ==
  ASSUME InStep, SubShape, RouterShape, Idle, power = "up"
  PROVE  SubAllIn /\ RouterAllIn
<1>1. Puts = {}
  BY DEF Puts, PutsIn, Idle
<1>2. ASSUME NEW s \in SubSlots, SubBusy(s) PROVE SubAllIn
  <2>1. \A i \in SubSlots : /\ StoredMap[i].target = subMap[i].target
                            /\ StoredMap[i].prefix = subMap[i].prefix
    BY <1>1, <1>2 DEF SubBusy
  <2>2. QED
    BY <1>1, <1>2, <2>1, SameSlots DEF SubBusy, SubAllIn
<1>3. ASSUME NEW s \in MsgSlots, RouterBusy(s) PROVE RouterAllIn
  <2>1. \A i \in MsgSlots : /\ StoredActions[i].id = actions[i].id
                            /\ StoredActions[i].wh = actions[i].wh
                            /\ StoredActions[i].si = actions[i].si
    BY <1>1, <1>3 DEF RouterBusy
  <2>2. QED
    BY <2>1, SameSlots DEF RouterAllIn
<1>4. QED
  BY <1>2, <1>3 DEF InStep

\* A busy handler mixes one slot of flash at most.
LEMMA BusyMixesOne ==
  ASSUME InStep, SubShape, RouterShape, power = "up"
  PROVE  Mixes(StoredMap, StoredActions, configured)
           <= Mixes(subMap, actions, configured) + IF Idle THEN 0 ELSE 1
<1> DEFINE ms == MixedSub(subMap)
           fs == MixedSub(StoredMap)
           ma == MixedActions(actions, configured)
           fa == MixedActions(StoredActions, configured)
<1>1. /\ IsFiniteSet(ms) /\ Cardinality(ms) \in Nat
      /\ IsFiniteSet(fs) /\ Cardinality(fs) \in Nat
      /\ IsFiniteSet(ma) /\ Cardinality(ma) \in Nat
      /\ IsFiniteSet(fa) /\ Cardinality(fa) \in Nat
  BY MixedIsFinite
<1>2. CASE SubAllIn /\ RouterAllIn
  BY <1>1, <1>2 DEF SubAllIn, RouterAllIn, Mixes
<1>3. ASSUME NEW s \in SubSlots, SubBusy(s), RouterAllIn, ~Idle
      PROVE  Cardinality(fa) + Cardinality(fs) <= Cardinality(ma) + Cardinality(ms) + 1
  <2>1. \A i \in SubSlots : i # s => StoredMap[i] = subMap[i]
    BY <1>3 DEF SubBusy
  <2>2. fs \subseteq ms \cup {s}
    BY <2>1 DEF MixedSub
  <2>3. fa = ma
    BY <1>3 DEF RouterAllIn
  <2>4. Cardinality(fs) <= Cardinality(ms) + 1
    BY <1>1, <2>2, OneMore
  <2>5. QED
    BY <1>1, <2>3, <2>4
<1>4. ASSUME NEW s \in MsgSlots, RouterBusy(s), SubAllIn, ~Idle
      PROVE  Cardinality(fa) + Cardinality(fs) <= Cardinality(ma) + Cardinality(ms) + 1
  <2>1. \A i \in MsgSlots : i # s => StoredActions[i] = actions[i]
    BY <1>4 DEF RouterBusy
  <2>2. fa \subseteq ma \cup {s}
    BY <2>1 DEF MixedActions
  <2>3. fs = ms
    BY <1>4 DEF SubAllIn
  <2>4. Cardinality(fa) <= Cardinality(ma) + 1
    BY <1>1, <2>2, OneMore
  <2>5. QED
    BY <1>1, <2>3, <2>4
<1>5. CASE Idle
  BY <1>2, <1>5, IdleAllIn
<1>6. CASE ~Idle /\ ~(SubAllIn /\ RouterAllIn)
  <2>1. \/ \E s \in SubSlots : SubBusy(s) /\ RouterAllIn
        \/ \E s \in MsgSlots : RouterBusy(s) /\ SubAllIn
    BY <1>6 DEF InStep
  <2> HIDE DEF ms, fs, ma, fa
  <2>2. Cardinality(fa) + Cardinality(fs) <= Cardinality(ma) + Cardinality(ms) + 1
    BY <1>3, <1>4, <1>6, <2>1
  <2>3. QED
    BY <1>6, <2>2 DEF Mixes, ms, fs, ma, fa
<1>7. QED
  BY <1>2, <1>5, <1>6

\* An empty table mixes nothing.
LEMMA EmptyMixesNothing ==
  ASSUME NEW c
  PROVE  /\ MixedSub(NoEntries) = {} /\ MixedActions(NoActions, c) = {}
         /\ Cardinality({}) = 0
BY FS_EmptySet DEF MixedSub, MixedActions, NoEntries, NoEntry, NoActions, NoAction

-----------------------------------------------------------------------------
\* The tables as a whole, without what the flash and the saves add.
tables == <<Stored("head", 0), StoredMap, StoredActions, subMap, subHead, actions, ran,
            configured>>

\* The tables stay as they are while something else is saved, loaded or done.
LEMMA QuietKeeps ==
  ASSUME TableInv, UNCHANGED <<tables, torn>>, DOMAIN flash' = Keys, IsSeq(todo'), Elsewhere',
         power' = power \/ ({power, power'} \subseteq {"off", "boot", "halted"}),
         power = "up" => SubAllIn /\ RouterAllIn
  PROVE  TableInv'
<1>1. /\ StoredMap' = StoredMap /\ StoredActions' = StoredActions
      /\ Stored("head", 0)' = Stored("head", 0) /\ StoredHead' = StoredHead
      /\ subMap' = subMap /\ subHead' = subHead /\ actions' = actions
      /\ ran' = ran /\ configured' = configured /\ torn' = torn
  BY DEF tables, StoredHead
<1>2. FlashSound' /\ SubShape' /\ RouterShape' /\ SubMapSound' /\ OneSlotPerId'
  BY <1>1 DEF TableInv, FlashSound, SubShape, RouterShape, SubMapSound, OneSlotPerId
<1>3. InStep'
  BY <1>1 DEF TableInv, InStep, SubAllIn, RouterAllIn
<1>4. MixInv'
  BY <1>1 DEF TableInv, MixInv, Mixes, MixedSub, MixedActions, RanForeign
<1>5. QED
  BY <1>2, <1>3, <1>4 DEF TableInv

\* Nothing happens to flash and tables at all.
LEMMA NothingKeeps ==
  ASSUME TableInv, UNCHANGED <<flashVars, subVars, routerVars, power, torn>>
  PROVE  TableInv'
<1>1. /\ flash' = flash /\ todo' = todo /\ subMap' = subMap /\ subHead' = subHead
      /\ actions' = actions /\ ran' = ran /\ configured' = configured
      /\ power' = power /\ torn' = torn
  BY DEF flashVars, subVars, routerVars
<1>2. /\ StoredMap' = StoredMap /\ StoredActions' = StoredActions
      /\ Stored("head", 0)' = Stored("head", 0) /\ StoredHead' = StoredHead
  BY <1>1 DEF StoredMap, StoredActions, StoredHead, Stored
<1>3. FlashSound' /\ SubShape' /\ RouterShape' /\ SubMapSound' /\ OneSlotPerId'
  BY <1>1, <1>2 DEF TableInv, FlashSound, SubShape, RouterShape, SubMapSound, OneSlotPerId
<1>4. /\ Puts' = Puts /\ SubPuts' = SubPuts /\ RouterPuts' = RouterPuts
      /\ SubAllIn' = SubAllIn /\ RouterAllIn' = RouterAllIn
  BY <1>1, <1>2 DEF Puts, SubPuts, RouterPuts, SubAllIn, RouterAllIn
<1>5. \A s : SubBusy(s)' = SubBusy(s) /\ RouterBusy(s)' = RouterBusy(s)
  BY <1>1, <1>2, <1>4 DEF SubBusy, RouterBusy
<1>6. InStep'
  BY <1>1, <1>4, <1>5 DEF TableInv, InStep, Elsewhere, SubAllIn, RouterAllIn
<1>7. MixInv'
  BY <1>1, <1>2 DEF TableInv, MixInv, Mixes, MixedSub, MixedActions, RanForeign
<1>8. QED
  BY <1>3, <1>6, <1>7 DEF TableInv

LEMMA NoSaves == IsSeq(<<>>) /\ PutsIn(<<>>) = {}
BY DEF IsSeq, PutsIn

LEMMA OneSave == ASSUME NEW p PROVE IsSeq(<<p>>) /\ PutsIn(<<p>>) = {p}
<1>1. \A n \in DOMAIN <<p>> : <<p>>[n] = p
  OBVIOUS
<1>2. DOMAIN <<p>> = {1}
  OBVIOUS
<1>3. PutsIn(<<p>>) = {p}
  BY <1>1, <1>2 DEF PutsIn
<1>4. QED
  BY <1>3 DEF IsSeq

LEMMA EmptyTables ==
  /\ NoEntries = [i \in SubSlots |-> [target |-> NoEntries[i].target,
                                      prefix |-> NoEntries[i].prefix]]
  /\ NoActions = [i \in MsgSlots |-> [id |-> NoActions[i].id, wh |-> NoActions[i].wh,
                                      si |-> NoActions[i].si]]
  /\ \A i \in SubSlots : NoEntries[i].target = None /\ NoEntries[i].prefix = None
  /\ \A i \in MsgSlots : NoActions[i].id = None
BY DEF NoEntries, NoActions, NoEntry, NoAction

\* Every way down leaves flash as it is and RAM empty.
LEMMA GoDownKeeps ==
  ASSUME TableInv, NEW lost, GoDown(lost),
         torn' = torn + (IF Idle THEN 0 ELSE 1)
  PROVE  TableInv'
<1>1. /\ todo' = <<>> /\ flash' = flash /\ power' = "off"
      /\ subMap' = NoEntries /\ subHead' = 0 /\ actions' = NoActions
      /\ ran' = ran /\ configured' = configured
  BY DEF GoDown, SavesLost, SubForgotten, MessagesForgotten, NoEntries, NoActions
<1>2. /\ StoredMap' = StoredMap /\ StoredActions' = StoredActions
      /\ Stored("head", 0)' = Stored("head", 0) /\ StoredHead' = StoredHead
  BY <1>1 DEF StoredMap, StoredActions, StoredHead, Stored
<1>3. FlashSound'
  BY <1>1, <1>2 DEF TableInv, FlashSound
<1>4. SubShape' /\ RouterShape'
  BY <1>1, EmptyTables DEF SubShape, RouterShape
<1>5. SubMapSound' /\ OneSlotPerId'
  BY <1>1, EmptyTables, PrefixesDiffer DEF SubMapSound, OneSlotPerId
<1>6. InStep'
  BY <1>1, NoSaves DEF InStep, Elsewhere, Puts
<1>7. MixInv'
  <2>1. torn \in Nat /\ torn' \in Nat /\ torn <= torn' /\ configured \in Nat
    BY DEF TableInv, MixInv
  <2>2. Mixes(subMap, actions, configured)' = 0
    <3>1. Mixes(subMap, actions, configured)' = Mixes(NoEntries, NoActions, configured)
      BY <1>1 DEF Mixes, MixedSub, MixedActions
    <3>2. Mixes(NoEntries, NoActions, configured) = 0
      BY EmptyMixesNothing DEF Mixes
    <3>3. QED
      BY <3>1, <3>2
  <2>3. Mixes(StoredMap, StoredActions, configured) <= torn'
    <3>1. Mixes(StoredMap, StoredActions, configured) \in Nat
          /\ Mixes(subMap, actions, configured) \in Nat
      BY MixedIsFinite DEF Mixes
    <3>2. CASE power = "up"
      <4>1. Mixes(StoredMap, StoredActions, configured)
              <= Mixes(subMap, actions, configured) + IF Idle THEN 0 ELSE 1
        BY <3>2, BusyMixesOne DEF TableInv
      <4>2. Mixes(subMap, actions, configured) <= torn
        BY DEF TableInv, MixInv
      <4>3. QED
        BY <2>1, <3>1, <4>1, <4>2
    <3>3. CASE power # "up"
      BY <2>1, <3>1, <3>3 DEF TableInv, MixInv
    <3>4. QED
      BY <3>2, <3>3
  <2>4. Mixes(StoredMap, StoredActions, configured)' = Mixes(StoredMap, StoredActions, configured)
    BY <1>1, <1>2 DEF Mixes, MixedSub, MixedActions
  <2>5. RanForeign' = RanForeign
    BY <1>1 DEF RanForeign
  <2>6. torn' = 0 => RanForeign' = {}
    BY <2>1, <2>5 DEF TableInv, MixInv
  <2>7. QED
    BY <1>1, <2>1, <2>2, <2>3, <2>4, <2>6 DEF MixInv
<1>8. QED
  BY <1>3, <1>4, <1>5, <1>6, <1>7 DEF TableInv

\* What is loaded into RAM is sound, as it is in flash.
LEMMA LoadedIsSound ==
  ASSUME FlashSound
  PROVE  /\ StoredMap = [i \in SubSlots |-> [target |-> StoredMap[i].target,
                                             prefix |-> StoredMap[i].prefix]]
         /\ StoredActions = [i \in MsgSlots |-> [id |-> StoredActions[i].id,
                               wh |-> StoredActions[i].wh, si |-> StoredActions[i].si]]
         /\ StoredHead \in Nat
         /\ \A i \in SubSlots : StoredMap[i].prefix # Reserved
BY PrefixesDiffer DEF FlashSound, StoredMap, StoredActions, StoredHead

LEMMA EnterPortalKeeps ==
  ASSUME TableInv, EnterPortal
  PROVE  TableInv'
<1>1. /\ todo' = todo /\ flash' = flash /\ power' = "portal" /\ power = "boot"
      /\ subMap' = StoredMap /\ subHead' = StoredHead /\ actions' = actions
      /\ ran' = ran /\ configured' = configured /\ torn' = torn
  BY DEF EnterPortal, InSetup, SubLoad, flashVars, routerVars
<1>2. /\ StoredMap' = StoredMap /\ StoredActions' = StoredActions
      /\ Stored("head", 0)' = Stored("head", 0) /\ StoredHead' = StoredHead
  BY <1>1 DEF StoredMap, StoredActions, StoredHead, Stored
<1>3. FlashSound /\ FlashSound'
  BY <1>1, <1>2 DEF TableInv, FlashSound
<1>4. SubShape' /\ RouterShape'
  BY <1>1, <1>3, LoadedIsSound DEF SubShape, RouterShape, TableInv
<1>5. SubMapSound' /\ OneSlotPerId'
  BY <1>1, <1>3, LoadedIsSound DEF SubMapSound, OneSlotPerId, TableInv, FlashSound
<1>6. InStep'
  BY <1>1, <1>2 DEF TableInv, InStep, SubAllIn, Elsewhere, Puts
<1>7. MixInv'
  <2>1. Mixes(StoredMap, StoredActions, configured) <= torn /\ torn \in Nat
    BY <1>1 DEF TableInv, MixInv
  <2>2. actions = NoActions
    BY <1>1 DEF TableInv, InStep
  <2>3. Mixes(StoredMap, NoActions, configured) <= Mixes(StoredMap, StoredActions, configured)
    BY EmptyMixesNothing, MixedIsFinite DEF Mixes
  <2>4. Mixes(StoredMap, NoActions, configured) <= torn
    <3>1. /\ Mixes(StoredMap, NoActions, configured) \in Nat
          /\ Mixes(StoredMap, StoredActions, configured) \in Nat
      BY MixedIsFinite DEF Mixes
    <3>2. QED
      BY <2>1, <2>3, <3>1
  <2>5. /\ Mixes(StoredMap, StoredActions, configured)'
             = Mixes(StoredMap, StoredActions, configured)
        /\ Mixes(subMap, actions, configured)' = Mixes(StoredMap, NoActions, configured)
    BY <1>1, <1>2, <2>2 DEF Mixes, MixedSub, MixedActions
  <2>6. RanForeign' = RanForeign
    BY <1>1 DEF RanForeign
  <2>7. QED
    BY <1>1, <2>1, <2>4, <2>5, <2>6 DEF MixInv, TableInv
<1>8. QED
  BY <1>3, <1>4, <1>5, <1>6, <1>7 DEF TableInv

LEMMA StalePuts ==
  /\ IsSeq(StaleSaves) /\ \A p \in PutsIn(StaleSaves) : IsElsewhere(p)
  /\ IsSeq(NoteDropped) /\ \A p \in PutsIn(NoteDropped) : IsElsewhere(p)
  /\ \A v : IsElsewhere(Put("pending", 0, v))
<1>1. \A v : IsElsewhere(Put("pending", 0, v))
  BY DEF IsElsewhere, OtaKeys
<1>2. IsSeq(NoteDropped) /\ \A p \in PutsIn(NoteDropped) : IsElsewhere(p)
  BY <1>1, OneSave DEF NoteDropped
<1>3. QED
  BY <1>1, <1>2, NoSaves DEF StaleSaves

LEMMA ComeUpKeeps ==
  ASSUME TableInv, ComeUp
  PROVE  TableInv'
<1>1. /\ todo' = StaleSaves /\ flash' = flash /\ power' = "up" /\ power = "boot"
      /\ subMap' = StoredMap /\ subHead' = StoredHead /\ actions' = StoredActions
      /\ ran' = ran /\ configured' = configured /\ torn' = torn
  BY DEF ComeUp, InSetup, SubLoad, RouterLoad, OtaLoad, Saves
<1>2. /\ StoredMap' = StoredMap /\ StoredActions' = StoredActions
      /\ Stored("head", 0)' = Stored("head", 0) /\ StoredHead' = StoredHead
  BY <1>1 DEF StoredMap, StoredActions, StoredHead, Stored
<1>3. FlashSound /\ FlashSound'
  BY <1>1, <1>2 DEF TableInv, FlashSound
<1>4. SubShape' /\ RouterShape'
  BY <1>1, <1>3, LoadedIsSound DEF SubShape, RouterShape
<1>5. SubMapSound' /\ OneSlotPerId'
  BY <1>1, <1>3, LoadedIsSound DEF SubMapSound, OneSlotPerId, FlashSound
<1>6. InStep'
  BY <1>1, <1>2, StalePuts DEF InStep, SubAllIn, RouterAllIn, Elsewhere, Puts
<1>7. MixInv'
  <2>1. Mixes(StoredMap, StoredActions, configured) <= torn
    BY <1>1 DEF TableInv, MixInv
  <2>2. Mixes(subMap, actions, configured)' = Mixes(StoredMap, StoredActions, configured)
    BY <1>1 DEF Mixes, MixedSub, MixedActions
  <2>3. RanForeign' = RanForeign
    BY <1>1 DEF RanForeign
  <2>4. QED
    BY <1>1, <2>1, <2>2, <2>3 DEF MixInv, TableInv
<1>8. QED
  BY <1>3, <1>4, <1>5, <1>6, <1>7 DEF TableInv

-----------------------------------------------------------------------------
LEMMA PutsDiffer ==
  \A f, g, i, j, v, w : Put(f, i, v) = Put(g, j, w) <=> f = g /\ i = j /\ v = w
BY KeysDiffer DEF Put

\* A save of the subscription map brings flash closer to RAM.
LEMMA SaveSub ==
  ASSUME TableInv, SaveNext, UNCHANGED <<subVars, actions>>,
         NEW s \in SubSlots, SubBusy(s), RouterAllIn
  PROVE  SubBusy(s)' /\ RouterAllIn' /\ FlashSound' /\ IsSeq(todo')
<1> DEFINE h == Head(todo)
<1>1. /\ IsSeq(todo') /\ Puts = {h} \cup Puts'
  BY QueueStep DEF SaveNext, Idle, TableInv, InStep, Puts
<1>2. subMap' = subMap /\ subHead' = subHead /\ actions' = actions
  BY DEF subVars
<1>3. SubPuts' = SubPuts /\ h \in SubPuts /\ Puts' \subseteq SubPuts
  BY <1>1, <1>2 DEF SubBusy, SubPuts
<1>4. /\ DOMAIN flash = Keys /\ subHead \in Nat
      /\ \A i \in SubSlots : subMap[i] = [target |-> subMap[i].target, prefix |-> subMap[i].prefix]
      /\ \A i \in SubSlots : subMap[i].prefix # Reserved
  BY DEF TableInv, FlashSound, SubShape, SubMapSound
<1>5. \A i \in SubSlots : StoredMap[i] = [target |-> StoredMap[i].target,
                                          prefix |-> StoredMap[i].prefix]
  BY DEF StoredMap
<1>6. StoredActions = [j \in MsgSlots |->
              [id |-> StoredActions[j].id, wh |-> StoredActions[j].wh,
               si |-> StoredActions[j].si]]
  BY DEF StoredActions
\* Common to the three kinds of puts.
<1>7. ASSUME StoredActions' = StoredActions, DOMAIN flash' = Keys,
             Stored("head", 0)' \in {Stored("head", 0), subHead},
             Stored("head", 0)' = subHead \/ h # Put("head", 0, subHead),
             \A i \in SubSlots :
               /\ StoredMap'[i] = [target |-> StoredMap'[i].target,
                                   prefix |-> StoredMap'[i].prefix]
               /\ StoredMap'[i].target \in {StoredMap[i].target, subMap[i].target}
               /\ StoredMap'[i].prefix \in {StoredMap[i].prefix, subMap[i].prefix}
               /\ h = Put("t", i, subMap[i].target) => StoredMap'[i].target = subMap[i].target
               /\ h = Put("p", i, subMap[i].prefix) => StoredMap'[i].prefix = subMap[i].prefix
      PROVE  SubBusy(s)' /\ RouterAllIn' /\ FlashSound'
  <2>1. RouterAllIn'
    BY <1>2, <1>7 DEF RouterAllIn
  <2>2. \A i \in SubSlots \ {s} : StoredMap'[i] = subMap[i]
    <3>1. ASSUME NEW i \in SubSlots, i # s PROVE StoredMap'[i] = subMap[i]
      <4>1. StoredMap[i] = subMap[i]
        BY <3>1 DEF SubBusy
      <4>2. /\ StoredMap'[i].target = subMap[i].target
            /\ StoredMap'[i].prefix = subMap[i].prefix
        BY <1>7, <4>1
      <4>3. QED
        BY <1>4, <1>7, <4>2
    <3>2. QED
      BY <3>1
  <2>3. /\ StoredMap'[s].target = subMap[s].target \/ Put("t", s, subMap[s].target) \in Puts'
        /\ StoredMap'[s].prefix = subMap[s].prefix \/ Put("p", s, subMap[s].prefix) \in Puts'
    BY <1>1, <1>7 DEF SubBusy
  <2>4. /\ StoredHead' = subHead \/ Put("head", 0, subHead) \in Puts'
        /\ Stored("head", 0)' \in Nat \cup {None}
    <3>1. Stored("head", 0) \in Nat \cup {None}
      BY DEF TableInv, FlashSound
    <3>2. Stored("head", 0)' = subHead => StoredHead' = subHead
      BY <1>4, FlashAssumption DEF StoredHead
    <3>3. Stored("head", 0)' = Stored("head", 0) => StoredHead' = StoredHead
      BY DEF StoredHead
    <3>4. QED
      BY <1>1, <1>4, <1>7, <3>1, <3>2, <3>3 DEF SubBusy
  <2>5. SubBusy(s)'
    BY <1>2, <1>3, <2>2, <2>3, <2>4 DEF SubBusy
  <2>6. \A i, j \in SubSlots :
          StoredMap'[i].target = StoredMap'[j].target /\ StoredMap'[i].target # None => i = j
    <3>1. CASE StoredMap'[s].target = subMap[s].target
      <4>1. \A i \in SubSlots : StoredMap'[i].target = subMap[i].target
        BY <2>2, <3>1
      <4>2. QED
        BY <4>1 DEF TableInv, SubMapSound
    <3>2. CASE StoredMap'[s].target = StoredMap[s].target
      <4>1. \A i \in SubSlots : StoredMap'[i].target = StoredMap[i].target
        BY <2>2, <3>2 DEF SubBusy
      <4>2. QED
        BY <4>1 DEF TableInv, FlashSound
    <3>3. QED
      BY <1>7, <3>1, <3>2
  <2>7. FlashSound'
    BY <1>7, <2>4, <2>6 DEF TableInv, FlashSound
  <2>8. QED
    BY <2>1, <2>5, <2>7
<1>8. CASE h = Put("head", 0, subHead)
  <2>1. /\ Stored("head", 0)' = subHead /\ DOMAIN flash' = Keys
        /\ StoredMap' = [j \in SubSlots |-> [target |-> StoredMap[j].target,
                                             prefix |-> StoredMap[j].prefix]]
        /\ StoredActions' = StoredActions
    BY <1>4, <1>6, <1>8, SaveTables, SaveEffect, TableKeys
  <2>2. \A i, v : h # Put("t", i, v) /\ h # Put("p", i, v)
    BY <1>8, PutsDiffer
  <2>3. \A i \in SubSlots : StoredMap'[i] = [target |-> StoredMap[i].target,
                                             prefix |-> StoredMap[i].prefix]
    BY <2>1
  <2> HIDE DEF h
  <2>4. QED
    BY <1>1, <1>7, <2>1, <2>2, <2>3
<1>9. ASSUME NEW n \in SubSlots, h = Put("t", n, subMap[n].target)
      PROVE  SubBusy(s)' /\ RouterAllIn' /\ FlashSound'
  <2>1. /\ Stored("head", 0)' = Stored("head", 0) /\ DOMAIN flash' = Keys
        /\ StoredMap' = [j \in SubSlots |->
              [target |-> IF n = j THEN subMap[n].target ELSE StoredMap[j].target,
               prefix |-> StoredMap[j].prefix]]
        /\ StoredActions' = StoredActions
    BY <1>4, <1>6, <1>9, SaveTables, SaveEffect, TableKeys
  <2>2. /\ h # Put("head", 0, subHead) /\ \A i, v : h # Put("p", i, v)
        /\ \A i, v : h = Put("t", i, v) => i = n
    BY <1>9, PutsDiffer
  <2>3. \A j \in SubSlots : StoredMap'[j] =
              [target |-> IF n = j THEN subMap[n].target ELSE StoredMap[j].target,
               prefix |-> StoredMap[j].prefix]
    BY <2>1
  <2> HIDE DEF h
  <2>4. QED
    BY <1>1, <1>7, <2>1, <2>2, <2>3
<1>10. ASSUME NEW n \in SubSlots, h = Put("p", n, subMap[n].prefix)
      PROVE  SubBusy(s)' /\ RouterAllIn' /\ FlashSound'
  <2>1. /\ Stored("head", 0)' = Stored("head", 0) /\ DOMAIN flash' = Keys
        /\ StoredMap' = [j \in SubSlots |->
              [target |-> StoredMap[j].target,
               prefix |-> IF n = j THEN subMap[n].prefix ELSE StoredMap[j].prefix]]
        /\ StoredActions' = StoredActions
    BY <1>4, <1>6, <1>10, SaveTables, SaveEffect, TableKeys, PrefixesDiffer
  <2>2. /\ h # Put("head", 0, subHead) /\ \A i, v : h # Put("t", i, v)
        /\ \A i, v : h = Put("p", i, v) => i = n
    BY <1>10, PutsDiffer
  <2>3. \A j \in SubSlots : StoredMap'[j] =
              [target |-> StoredMap[j].target,
               prefix |-> IF n = j THEN subMap[n].prefix ELSE StoredMap[j].prefix]
    BY <2>1
  <2> HIDE DEF h
  <2>4. QED
    BY <1>1, <1>7, <2>1, <2>2, <2>3
<1>11. QED
  BY <1>1, <1>3, <1>8, <1>9, <1>10 DEF SubPuts

\* And a save of a message action.
LEMMA SaveAction ==
  ASSUME TableInv, SaveNext, UNCHANGED <<subVars, actions>>,
         NEW s \in MsgSlots, RouterBusy(s), SubAllIn
  PROVE  RouterBusy(s)' /\ SubAllIn' /\ FlashSound' /\ IsSeq(todo')
<1> DEFINE h == Head(todo)
<1>1. /\ IsSeq(todo') /\ Puts = {h} \cup Puts'
  BY QueueStep DEF SaveNext, Idle, TableInv, InStep, Puts
<1>2. subMap' = subMap /\ subHead' = subHead /\ actions' = actions
  BY DEF subVars
<1>3. RouterPuts' = RouterPuts /\ h \in RouterPuts /\ Puts' \subseteq RouterPuts
  BY <1>1, <1>2 DEF RouterBusy, RouterPuts
<1>4. /\ DOMAIN flash = Keys
      /\ \A i \in MsgSlots : actions[i] = [id |-> actions[i].id, wh |-> actions[i].wh,
                                           si |-> actions[i].si]
  BY DEF TableInv, FlashSound, RouterShape
<1>5. StoredMap = [j \in SubSlots |-> [target |-> StoredMap[j].target,
                                       prefix |-> StoredMap[j].prefix]]
  BY DEF StoredMap
<1>6. PICK f, n, v :
        /\ f \in {"mid", "mwh", "msi"} /\ n \in MsgSlots /\ h = Put(f, n, v)
        /\ f = "mid" => v = actions[n].id
        /\ f = "mwh" => v = actions[n].wh
        /\ f = "msi" => v = actions[n].si
  BY <1>3 DEF RouterPuts
<1>7. /\ Stored("head", 0)' = Stored("head", 0) /\ DOMAIN flash' = Keys
      /\ StoredMap' = StoredMap
      /\ StoredActions' = [j \in MsgSlots |->
              [id |-> IF f = "mid" /\ n = j THEN v ELSE StoredActions[j].id,
               wh |-> IF f = "mwh" /\ n = j THEN v ELSE StoredActions[j].wh,
               si |-> IF f = "msi" /\ n = j THEN v ELSE StoredActions[j].si]]
  BY <1>4, <1>5, <1>6, SaveTables, SaveEffect, TableKeys
<1>8. \A j \in MsgSlots : StoredActions'[j] =
              [id |-> IF f = "mid" /\ n = j THEN v ELSE StoredActions[j].id,
               wh |-> IF f = "mwh" /\ n = j THEN v ELSE StoredActions[j].wh,
               si |-> IF f = "msi" /\ n = j THEN v ELSE StoredActions[j].si]
  BY <1>7
<1>9. StoredHead' = StoredHead /\ SubAllIn'
  BY <1>2, <1>7 DEF StoredHead, SubAllIn
<1>10. \A g, i, w : h = Put(g, i, w) => g = f /\ i = n /\ w = v
  BY <1>6, PutsDiffer
<1> HIDE DEF h
<1>11. /\ StoredActions'[s].id \in {StoredActions[s].id, actions[s].id}
       /\ StoredActions'[s].wh \in {StoredActions[s].wh, actions[s].wh}
       /\ StoredActions'[s].si \in {StoredActions[s].si, actions[s].si}
       /\ h = Put("mid", s, actions[s].id) => StoredActions'[s].id = actions[s].id
       /\ h = Put("mwh", s, actions[s].wh) => StoredActions'[s].wh = actions[s].wh
       /\ h = Put("msi", s, actions[s].si) => StoredActions'[s].si = actions[s].si
  <2>1. f = "mid" /\ n = s => v = actions[s].id
    BY <1>6
  <2>2. f = "mwh" /\ n = s => v = actions[s].wh
    BY <1>6
  <2>3. f = "msi" /\ n = s => v = actions[s].si
    BY <1>6
  <2>4. StoredActions'[s] =
              [id |-> IF f = "mid" /\ n = s THEN v ELSE StoredActions[s].id,
               wh |-> IF f = "mwh" /\ n = s THEN v ELSE StoredActions[s].wh,
               si |-> IF f = "msi" /\ n = s THEN v ELSE StoredActions[s].si]
    BY <1>8
  <2>5. \A g, w : h = Put(g, s, w) => g = f /\ n = s /\ w = v
    BY <1>10
  <2>6. /\ StoredActions'[s].id = IF f = "mid" /\ n = s THEN v ELSE StoredActions[s].id
        /\ StoredActions'[s].wh = IF f = "mwh" /\ n = s THEN v ELSE StoredActions[s].wh
        /\ StoredActions'[s].si = IF f = "msi" /\ n = s THEN v ELSE StoredActions[s].si
    BY <2>4
  <2>7. QED
    BY <2>1, <2>2, <2>3, <2>5, <2>6
<1>12. \A i \in MsgSlots \ {s} : StoredActions'[i] = actions[i]
  <2>1. ASSUME NEW i \in MsgSlots, i # s PROVE StoredActions'[i] = actions[i]
    <3>1. StoredActions[i] = actions[i]
      BY <2>1 DEF RouterBusy
    <3>2. QED
      BY <1>4, <1>6, <1>8, <3>1
  <2>2. QED
    BY <2>1
<1>13. /\ StoredActions'[s].id = actions[s].id \/ Put("mid", s, actions[s].id) \in Puts'
       /\ StoredActions'[s].wh = actions[s].wh \/ Put("mwh", s, actions[s].wh) \in Puts'
       /\ StoredActions'[s].si = actions[s].si \/ Put("msi", s, actions[s].si) \in Puts'
  <2>1. StoredActions'[s].id = actions[s].id \/ Put("mid", s, actions[s].id) \in Puts'
    BY <1>1, <1>11 DEF RouterBusy
  <2>2. StoredActions'[s].wh = actions[s].wh \/ Put("mwh", s, actions[s].wh) \in Puts'
    BY <1>1, <1>11 DEF RouterBusy
  <2>3. StoredActions'[s].si = actions[s].si \/ Put("msi", s, actions[s].si) \in Puts'
    BY <1>1, <1>11 DEF RouterBusy
  <2>4. QED
    BY <2>1, <2>2, <2>3
<1>14. RouterBusy(s)'
  BY <1>2, <1>3, <1>12, <1>13 DEF RouterBusy
<1>15. \A i, j \in MsgSlots :
         StoredActions'[i].id = StoredActions'[j].id /\ StoredActions'[i].id # None => i = j
  <2>1. CASE StoredActions'[s].id = actions[s].id
    <3>1. \A i \in MsgSlots : StoredActions'[i].id = actions[i].id
      BY <1>12, <2>1
    <3>2. QED
      BY <3>1 DEF TableInv, OneSlotPerId
  <2>2. CASE StoredActions'[s].id = StoredActions[s].id
    <3>1. \A i \in MsgSlots : StoredActions'[i].id = StoredActions[i].id
      BY <1>12, <2>2 DEF RouterBusy
    <3>2. QED
      BY <3>1 DEF TableInv, FlashSound
  <2>3. QED
    BY <1>11, <2>1, <2>2
<1>16. FlashSound'
  BY <1>7, <1>15 DEF TableInv, FlashSound
<1>17. QED
  BY <1>1, <1>9, <1>14, <1>16

-----------------------------------------------------------------------------
LEMMA SaveKeepsTables ==
  ASSUME TableInv, Save
  PROVE  TableInv'
<1>1. /\ SaveNext /\ todo # <<>> /\ UNCHANGED <<subVars, actions, ran, configured, torn, power>>
  BY DEF Save, SaveNext, Idle, routerVars, lifeVars
<1>2. /\ subMap' = subMap /\ subHead' = subHead /\ actions' = actions /\ power' = power
      /\ ran' = ran /\ configured' = configured /\ torn' = torn
  BY <1>1 DEF subVars
<1>3. IsSeq(todo') /\ Puts = {Head(todo)} \cup Puts'
  BY <1>1, QueueStep DEF SaveNext, TableInv, InStep, Puts
<1>4. CASE Elsewhere /\ (power = "up" => SubAllIn /\ RouterAllIn)
  <2>1. IsElsewhere(Head(todo)) /\ Elsewhere'
    BY <1>3, <1>4 DEF Elsewhere
  <2>2. DOMAIN flash = Keys
    BY DEF TableInv, FlashSound
  <2>3. /\ UNCHANGED <<Stored("head", 0), StoredMap, StoredActions>>
        /\ DOMAIN flash' = Keys
    BY <1>1, <2>1, <2>2, SaveElsewhere DEF IsElsewhere
  <2>4. UNCHANGED <<tables, torn>>
    BY <1>2, <2>3 DEF tables
  <2>5. QED
    BY <1>2, <1>3, <1>4, <2>1, <2>3, <2>4, QuietKeeps
<1>5. CASE power = "up" /\ ~(Elsewhere /\ SubAllIn /\ RouterAllIn)
  <2>1. InStep' /\ FlashSound'
    <3>1. CASE \E s \in SubSlots : SubBusy(s) /\ RouterAllIn
      BY <1>1, <1>2, <1>5, <3>1, SaveSub DEF InStep
    <3>2. CASE \E s \in MsgSlots : RouterBusy(s) /\ SubAllIn
      BY <1>1, <1>2, <1>5, <3>2, SaveAction DEF InStep
    <3>3. QED
      BY <1>5, <3>1, <3>2 DEF TableInv, InStep
  <2>2. SubShape' /\ RouterShape' /\ SubMapSound' /\ OneSlotPerId'
    BY <1>2 DEF TableInv, SubShape, RouterShape, SubMapSound, OneSlotPerId
  <2>3. MixInv'
    BY <1>2, <1>5 DEF TableInv, MixInv, Mixes, MixedSub, MixedActions, RanForeign
  <2>4. QED
    BY <2>1, <2>2, <2>3 DEF TableInv
<1>6. QED
  BY <1>4, <1>5 DEF TableInv, InStep

\* Steps that save something else, or load it.
LEMMA OtherHandlerKeeps ==
  ASSUME TableInv, Idle, flash' = flash, IsSeq(todo'), Elsewhere',
         power' = power \/ ({power, power'} \subseteq {"off", "boot", "halted"}),
         UNCHANGED <<subVars, routerVars, torn>>
  PROVE  TableInv'
<1>1. power = "up" => SubAllIn /\ RouterAllIn
  BY IdleAllIn DEF TableInv
<1>2. UNCHANGED <<tables, torn>> /\ DOMAIN flash' = Keys
  BY DEF tables, subVars, routerVars, Stored, StoredMap, StoredActions, TableInv, FlashSound
<1>3. QED
  BY <1>1, <1>2, QuietKeeps

LEMMA TwoSaves ==
  ASSUME NEW p, NEW q
  PROVE  IsSeq(<<p, q>>) /\ PutsIn(<<p, q>>) = {p, q}
<1>1. DOMAIN <<p, q>> = {1, 2} /\ <<p, q>>[1] = p /\ <<p, q>>[2] = q
  OBVIOUS
<1>2. PutsIn(<<p, q>>) = {p, q}
  BY <1>1 DEF PutsIn
<1>3. QED
  BY <1>2 DEF IsSeq

LEMMA ThreeSaves ==
  ASSUME NEW p, NEW q, NEW r
  PROVE  IsSeq(<<p, q, r>>) /\ PutsIn(<<p, q, r>>) = {p, q, r}
<1>1. DOMAIN <<p, q, r>> = {1, 2, 3} /\ <<p, q, r>>[1] = p /\ <<p, q, r>>[2] = q
        /\ <<p, q, r>>[3] = r
  OBVIOUS
<1>2. PutsIn(<<p, q, r>>) = {p, q, r}
  BY <1>1 DEF PutsIn
<1>3. QED
  BY <1>2 DEF IsSeq

LEMMA Concatenations ==
  ASSUME NEW p, NEW q, NEW r
  PROVE  /\ <<>> \o <<>> = <<>> /\ <<>> \o <<r>> = <<r>>
         /\ <<p, q>> \o <<>> = <<p, q>> /\ <<p, q>> \o <<r>> = <<p, q, r>>
<1> DEFINE S == {p, q, r}
<1>1. <<>> \in Seq(S) /\ <<r>> \in Seq(S) /\ <<p, q>> \in Seq(S)
  OBVIOUS
<1>2. <<>> \o <<>> = <<>> /\ <<>> \o <<r>> = <<r>> /\ <<p, q>> \o <<>> = <<p, q>>
  BY <1>1, ConcatEmptySeq
<1>3. Append(<<p, q>>, r) = <<p, q>> \o <<r>>
  BY <1>1, AppendIsConcat
<1>4. Append(<<p, q>>, r) = <<p, q, r>>
  <2> DEFINE a == Append(<<p, q>>, r)
             b == <<p, q, r>>
  <2>1. a \in Seq(S) /\ b \in Seq(S)
    OBVIOUS
  <2>2. Len(a) = 3 /\ Len(b) = 3 /\ \A i \in 1 .. 3 : a[i] = b[i]
    OBVIOUS
  <2> HIDE DEF a, b, S
  <2>3. Len(a) = Len(b) /\ \A i \in 1 .. Len(a) : a[i] = b[i]
    BY <2>2
  <2>4. a = b
    BY <2>1, <2>3, SeqEqual
  <2>5. QED
    BY <2>4 DEF a, b
<1>5. QED
  BY <1>2, <1>3, <1>4

\* The saves of a boot: the key pair, or the token, or both, or neither.
LEMMA BootPuts ==
  ASSUME NEW k
  PROVE  /\ IdentitySaves(k) \in
              {<<>>, <<Put("api_token", 0, TRUE)>>,
               <<Put("privkey", 0, k), Put("pubkey", 0, k)>>,
               <<Put("privkey", 0, k), Put("pubkey", 0, k), Put("api_token", 0, TRUE)>>}
         /\ IsSeq(IdentitySaves(k))
         /\ \A p \in PutsIn(IdentitySaves(k)) : IsElsewhere(p)
<1>1. IdentitySaves(k) \in
              {<<>>, <<Put("api_token", 0, TRUE)>>,
               <<Put("privkey", 0, k), Put("pubkey", 0, k)>>,
               <<Put("privkey", 0, k), Put("pubkey", 0, k), Put("api_token", 0, TRUE)>>}
  BY Concatenations DEF IdentitySaves, KeySaves, TokenSaves
<1>2. \A v : \A f \in {"privkey", "pubkey", "api_token"} : IsElsewhere(Put(f, 0, v))
  <2>1. \A f \in {"privkey", "pubkey", "api_token"} : Key(f, 0) \in IdentityKeys
    BY DEF IdentityKeys
  <2>2. QED
    BY <2>1 DEF IsElsewhere
<1>3. /\ IsElsewhere(Put("privkey", 0, k)) /\ IsElsewhere(Put("pubkey", 0, k))
      /\ IsElsewhere(Put("api_token", 0, TRUE))
  BY <1>2
<1>4. CASE IdentitySaves(k) = <<>>
  BY <1>1, <1>4, NoSaves
<1>5. CASE IdentitySaves(k) = <<Put("api_token", 0, TRUE)>>
  BY <1>1, <1>3, <1>5, OneSave
<1>6. CASE IdentitySaves(k) = <<Put("privkey", 0, k), Put("pubkey", 0, k)>>
  BY <1>1, <1>3, <1>6, TwoSaves
<1>7. CASE IdentitySaves(k) =
             <<Put("privkey", 0, k), Put("pubkey", 0, k), Put("api_token", 0, TRUE)>>
  <2> DEFINE s == <<Put("privkey", 0, k), Put("pubkey", 0, k), Put("api_token", 0, TRUE)>>
  <2>1. /\ IsSeq(s)
        /\ PutsIn(s) = {Put("privkey", 0, k), Put("pubkey", 0, k), Put("api_token", 0, TRUE)}
    BY ThreeSaves
  <2> HIDE DEF s
  <2>2. IdentitySaves(k) = s
    BY <1>7 DEF s
  <2>3. QED
    BY <1>1, <1>3, <2>1, <2>2
<1>8. QED
  BY <1>1, <1>4, <1>5, <1>6, <1>7

LEMMA BootKeepsTables ==
  ASSUME TableInv, Boot, Idle
  PROVE  TableInv'
<1>1. /\ todo' = IdentitySaves(made + 1) /\ flash' = flash /\ power = "off" /\ power' = "boot"
  BY DEF Boot, LoadIdentity, Saves
<1>2. Elsewhere' /\ IsSeq(todo')
  BY <1>1, BootPuts DEF Elsewhere, Puts
<1>3. UNCHANGED <<subVars, routerVars, torn>>
  BY DEF Boot
<1>4. {power, power'} \subseteq {"off", "boot", "halted"}
  BY <1>1
<1>5. QED
  BY <1>1, <1>2, <1>3, <1>4, OtherHandlerKeeps

LEMMA PortalSetIdKeepsTables ==
  ASSUME TableInv, PortalSetId
  PROVE  TableInv'
<1>1. PICK id \in Overrides : SetOverride(id)
  BY DEF PortalSetId
<1>2. todo' = <<Put("id_ovr", 0, id)>> /\ flash' = flash
  BY <1>1 DEF SetOverride, OverrideSaves, Saves
<1>3. IsElsewhere(Put("id_ovr", 0, id))
  BY DEF IsElsewhere, IdentityKeys
<1>4. Elsewhere' /\ IsSeq(todo')
  BY <1>2, <1>3, OneSave DEF Elsewhere, Puts
<1>5. Idle /\ UNCHANGED <<subVars, routerVars, torn, power>>
  BY DEF PortalSetId, PortalAnswers
<1>6. QED
  BY <1>2, <1>4, <1>5, OtherHandlerKeeps

LEMMA UpdateKeepsTables ==
  ASSUME TableInv, Update \/ OtaTick
  PROVE  TableInv'
<1>1. /\ flash' = flash
      /\ todo' = NoteDropped \/ \E v \in Versions : todo' = <<Put("pending", 0, v)>>
  BY DEF Update, OtaTick, Flashed, Confirm, Saves
<1>2. Elsewhere' /\ IsSeq(todo')
  BY <1>1, StalePuts, OneSave DEF Elsewhere, Puts
<1>3. Idle /\ UNCHANGED <<subVars, routerVars, torn, power>>
  BY DEF Update, OtaTick, NodeRuns, bootVars
<1>4. QED
  BY <1>1, <1>2, <1>3, OtherHandlerKeeps

LEMMA FactoryResetKeepsTables ==
  ASSUME TableInv, FactoryReset
  PROVE  TableInv'
<1>1. /\ Idle /\ todo' = todo /\ flash' = Cleared
      /\ UNCHANGED <<subVars, routerVars, torn, power>>
  BY DEF FactoryReset, NodeRuns, PortalAnswers
<1>2. DOMAIN flash' = Keys
  BY <1>1 DEF Cleared
<1>3. \A f, i : Key(f, i) \in Keys \ IdentityKeys => Stored(f, i)' = Stored(f, i)
  BY <1>1 DEF Cleared, Stored
<1>4. \A f, i : Key(f, i) \in IdentityKeys => f \in {"privkey", "pubkey", "api_token", "id_ovr"}
  BY KeysDiffer DEF IdentityKeys
<1>5. UNCHANGED <<Stored("head", 0), StoredMap, StoredActions>>
  <2>1. Stored("head", 0)' = Stored("head", 0)
    BY <1>3, <1>4, TableKeys
  <2>2. \A i \in SubSlots : Stored("t", i)' = Stored("t", i) /\ Stored("p", i)' = Stored("p", i)
    BY <1>3, <1>4, TableKeys
  <2>3. \A i \in MsgSlots : /\ Stored("mid", i)' = Stored("mid", i)
                            /\ Stored("mwh", i)' = Stored("mwh", i)
                            /\ Stored("msi", i)' = Stored("msi", i)
    BY <1>3, <1>4, TableKeys
  <2>4. QED
    BY <2>1, <2>2, <2>3 DEF StoredMap, StoredActions
<1>6. power = "up" => SubAllIn /\ RouterAllIn
  BY <1>1, IdleAllIn DEF TableInv
<1>7. UNCHANGED <<tables, torn>>
  BY <1>1, <1>5 DEF tables, subVars, routerVars
<1>8. IsSeq(todo') /\ Elsewhere'
  BY <1>1 DEF TableInv, InStep, Idle, Elsewhere, Puts, PutsIn
<1>9. QED
  BY <1>1, <1>2, <1>6, <1>7, <1>8, QuietKeeps

-----------------------------------------------------------------------------
\* What sub_map_set saves: all slots, key by key.
LEMMA SubSavesPuts ==
  ASSUME NEW m, NEW hd
  PROVE  /\ IsSeq(SubSaves(m, hd))
         /\ PutsIn(SubSaves(m, hd)) = {Put("head", 0, hd)}
              \cup {Put("t", i, m[i].target) : i \in SubSlots}
              \cup {Put("p", i, m[i].prefix) : i \in SubSlots}
<1> DEFINE first == <<Put("head", 0, hd)>>
           elt(n) == LET i == (n - 1) \div 2
                     IN IF n % 2 = 1 THEN Put("t", i, m[i].target) ELSE Put("p", i, m[i].prefix)
           N == 2 * SubMax
           rest == [n \in 1 .. N |-> elt(n)]
           S == {Put("head", 0, hd)} \cup {elt(n) : n \in 1 .. N}
           q == SubSaves(m, hd)
<1>1. q = first \o rest
  BY DEF SubSaves
<1>2. N \in Nat /\ SubMax \in Nat
  BY SubAssumption
<1>3. first \in Seq(S) /\ Len(first) = 1 /\ first[1] = Put("head", 0, hd)
  OBVIOUS
<1> HIDE DEF elt
<1>4. rest \in Seq(S) /\ Len(rest) = N /\ \A n \in 1 .. N : rest[n] = elt(n)
  BY <1>2
<1> HIDE DEF first, rest, S, N, q
<1>5. /\ q \in Seq(S) /\ Len(q) = 1 + N
      /\ \A n \in 1 .. 1 + N : q[n] = IF n <= 1 THEN first[n] ELSE rest[n - 1]
  <2>1. /\ first \o rest \in Seq(S) /\ Len(first \o rest) = Len(first) + Len(rest)
        /\ \A n \in 1 .. Len(first) + Len(rest) :
             (first \o rest)[n] = IF n <= Len(first) THEN first[n] ELSE rest[n - Len(first)]
    BY <1>3, <1>4, ConcatProperties
  <2>2. QED
    BY <1>1, <1>3, <1>4, <2>1
<1>6. DOMAIN q = 1 .. 1 + N
  BY <1>5
<1>7. PutsIn(q) = {Put("head", 0, hd)} \cup {elt(n) : n \in 1 .. N}
  <2>1. ASSUME NEW n \in 1 .. 1 + N
        PROVE  q[n] = Put("head", 0, hd) \/ \E k \in 1 .. N : q[n] = elt(k)
    <3>1. CASE n = 1
      BY <1>2, <1>3, <1>5, <3>1
    <3>2. CASE n # 1
      <4>1. n - 1 \in 1 .. N /\ ~(n <= 1)
        BY <1>2, <3>2
      <4>2. q[n] = elt(n - 1)
        BY <1>4, <1>5, <4>1
      <4>3. QED
        BY <4>1, <4>2
    <3>3. QED
      BY <3>1, <3>2
  <2>2. q[1] = Put("head", 0, hd) /\ 1 \in 1 .. 1 + N
    BY <1>2, <1>3, <1>5
  <2>3. ASSUME NEW k \in 1 .. N PROVE k + 1 \in 1 .. 1 + N /\ q[k + 1] = elt(k)
    <3>1. k + 1 \in 1 .. 1 + N /\ ~(k + 1 <= 1) /\ k + 1 - 1 = k
      BY <1>2
    <3>2. QED
      BY <1>4, <1>5, <3>1
  <2>4. QED
    BY <1>6, <2>1, <2>2, <2>3 DEF PutsIn
<1>8. {elt(n) : n \in 1 .. N} = {Put("t", i, m[i].target) : i \in SubSlots}
                                  \cup {Put("p", i, m[i].prefix) : i \in SubSlots}
  <2>1. ASSUME NEW n \in 1 .. N
        PROVE  \E i \in SubSlots : \/ elt(n) = Put("t", i, m[i].target)
                                   \/ elt(n) = Put("p", i, m[i].prefix)
    <3>1. (n - 1) \div 2 \in SubSlots
      BY <1>2 DEF SubSlots, N
    <3>2. QED
      BY <3>1 DEF elt
  <2>2. ASSUME NEW i \in SubSlots
        PROVE  /\ 2 * i + 1 \in 1 .. N /\ elt(2 * i + 1) = Put("t", i, m[i].target)
               /\ 2 * i + 2 \in 1 .. N /\ elt(2 * i + 2) = Put("p", i, m[i].prefix)
    <3>1. /\ 2 * i + 1 \in 1 .. N /\ (2 * i + 1 - 1) \div 2 = i /\ (2 * i + 1) % 2 = 1
          /\ 2 * i + 2 \in 1 .. N /\ (2 * i + 2 - 1) \div 2 = i /\ (2 * i + 2) % 2 # 1
      BY <1>2 DEF SubSlots, N
    <3>2. QED
      BY <3>1 DEF elt
  <2>3. QED
    BY <2>1, <2>2
<1>9. IsSeq(q)
  BY <1>5, <1>6, ElementsIn DEF IsSeq, PutsIn
<1>10. QED
  BY <1>7, <1>8, <1>9 DEF q

\* The smallest of a set of slots.
LEMMA FirstIsOne ==
  ASSUME NEW S \in SUBSET Nat, S # {}
  PROVE  First(S) \in S
<1>1. PICK n \in S : \A m \in S : <<m, n>> \notin OpToRel(<, Nat)
  BY NatLessThanWellFounded, WFMin
<1>2. ASSUME NEW m \in S PROVE ~(m < n)
  <2>1. <<m, n>> \notin {p \in Nat \X Nat : p[1] < p[2]}
    BY <1>1, Zenon DEF OpToRel
  <2>2. QED
    BY <2>1
<1>3. \A m \in S : n <= m
  BY <1>2
<1>4. QED
  BY <1>3 DEF First

\* A handler that changes one slot of a table starts from tables in step.
LEMMA SubscribeKeepsTables ==
  ASSUME TableInv, Subscribe
  PROVE  TableInv'
<1>1. PICK t, p : t \in Targets /\ p \in {Default, PrefixFor(t)} /\ SubMapSet(t, p)
  BY DEF Subscribe
<1>2. PICK s \in SubSlots :
        /\ IF SlotsOf(t) # {} THEN s \in SlotsOf(t) /\ subHead' = subHead
                              ELSE s = subHead /\ subHead' = (subHead + 1) % SubMax
        /\ subMap' = [subMap EXCEPT ![s] = [target |-> t, prefix |-> Sanitized(p)]]
        /\ Saves(SubSaves(subMap', subHead'))
  BY <1>1 DEF SubMapSet
<1>3. /\ flash' = flash /\ todo' = SubSaves(subMap', subHead')
      /\ actions' = actions /\ ran' = ran /\ configured' = configured
      /\ power' = power /\ torn' = torn /\ power = "up" /\ Idle
  BY <1>2 DEF Saves, Subscribe, NodeRuns, routerVars, bootVars
<1>4. /\ StoredMap = subMap /\ StoredHead = subHead /\ StoredActions = actions
  BY <1>3, IdleAllIn DEF TableInv, SubAllIn, RouterAllIn
<1>5. /\ StoredMap' = StoredMap /\ StoredActions' = StoredActions
      /\ Stored("head", 0)' = Stored("head", 0) /\ StoredHead' = StoredHead
  BY <1>3 DEF StoredMap, StoredActions, StoredHead, Stored
<1>6. FlashSound' /\ RouterShape' /\ OneSlotPerId'
  BY <1>3, <1>5 DEF TableInv, FlashSound, RouterShape, OneSlotPerId
<1>7. /\ DOMAIN subMap = SubSlots /\ DOMAIN subMap' = SubSlots
      /\ subMap'[s] = [target |-> t, prefix |-> Sanitized(p)]
      /\ \A i \in SubSlots : i # s => subMap'[i] = subMap[i]
      /\ \A i \in SubSlots : subMap[i] = [target |-> subMap[i].target, prefix |-> subMap[i].prefix]
  BY <1>2 DEF TableInv, SubShape
<1>8. SubShape'
  <2>1. subMap' = [i \in SubSlots |-> subMap'[i]]
    BY <1>2, <1>7
  <2>2. \A i \in SubSlots : subMap'[i] = [target |-> subMap'[i].target,
                                          prefix |-> subMap'[i].prefix]
    BY <1>7
  <2>3. subHead' \in Nat
    BY <1>2, SubAssumption DEF TableInv, SubShape
  <2>4. QED
    BY <2>1, <2>2, <2>3 DEF SubShape
<1>9. SubMapSound'
  <2>1. \A i \in SubSlots : subMap'[i].prefix # Reserved
    BY <1>7, PrefixesDiffer DEF TableInv, SubMapSound
  <2>2. ASSUME NEW i \in SubSlots, NEW j \in SubSlots,
               subMap'[i].target = subMap'[j].target, subMap'[i].target # None
        PROVE  i = j
    <3>1. CASE SlotsOf(t) # {}
      <4>1. subMap[s].target = t
        BY <1>2, <3>1 DEF SlotsOf
      <4>2. \A n \in SubSlots : subMap'[n].target = subMap[n].target
        BY <1>7, <4>1
      <4>3. QED
        BY <2>2, <4>2 DEF TableInv, SubMapSound
    <3>2. CASE SlotsOf(t) = {}
      <4>1. \A n \in SubSlots : subMap[n].target # t
        BY <3>2 DEF SlotsOf
      <4>2. QED
        BY <1>7, <2>2, <4>1 DEF TableInv, SubMapSound
    <3>3. QED
      BY <3>1, <3>2
  <2>3. QED
    BY <2>1, <2>2 DEF SubMapSound
<1>10. InStep'
  <2>1. /\ IsSeq(todo')
        /\ Puts' = {Put("head", 0, subHead')}
                     \cup {Put("t", i, subMap'[i].target) : i \in SubSlots}
                     \cup {Put("p", i, subMap'[i].prefix) : i \in SubSlots}
    BY <1>3, SubSavesPuts DEF Puts
  <2>2. SubBusy(s)'
    <3>1. Puts' \subseteq SubPuts'
      BY <2>1 DEF SubPuts
    <3>2. \A i \in SubSlots \ {s} : StoredMap'[i] = subMap'[i]
      BY <1>4, <1>5, <1>7
    <3>3. /\ Put("t", s, subMap'[s].target) \in Puts' /\ Put("p", s, subMap'[s].prefix) \in Puts'
          /\ Put("head", 0, subHead') \in Puts'
      BY <2>1
    <3>4. QED
      BY <3>1, <3>2, <3>3 DEF SubBusy
  <2>3. RouterAllIn'
    BY <1>3, <1>4, <1>5 DEF RouterAllIn
  <2>4. QED
    BY <1>3, <2>1, <2>2, <2>3 DEF InStep
<1>11. MixInv'
  <2>1. subMap'[s].prefix \in {Default, PrefixFor(subMap'[s].target)}
    <3>1. p \in {Default, PrefixFor(t)}
      BY <1>1
    <3>2. Sanitized(p) \in {Default, PrefixFor(t)}
      BY <3>1, PrefixesDiffer
    <3>3. QED
      BY <1>7, <3>2
  <2>2. MixedSub(subMap)' \subseteq MixedSub(subMap)
    BY <1>7, <2>1 DEF MixedSub
  <2>3. Cardinality(MixedSub(subMap)') <= Cardinality(MixedSub(subMap))
    BY <2>2, MixedIsFinite, OneMore
  <2>4. /\ MixedSub(subMap)' = MixedSub(subMap')
        /\ MixedActions(actions, configured)' = MixedActions(actions, configured)
        /\ RanForeign' = RanForeign
    BY <1>3 DEF MixedSub, MixedActions, RanForeign
  <2>5. /\ Mixes(subMap, actions, configured)'
             = Cardinality(MixedActions(actions, configured)) + Cardinality(MixedSub(subMap'))
        /\ Mixes(subMap, actions, configured)
             = Cardinality(MixedActions(actions, configured)) + Cardinality(MixedSub(subMap))
    BY <2>4 DEF Mixes
  <2>6. Mixes(subMap, actions, configured)' <= Mixes(subMap, actions, configured)
    BY <2>3, <2>4, <2>5, MixedIsFinite
  <2>7. /\ Mixes(subMap, actions, configured)' \in Nat
        /\ Mixes(subMap, actions, configured) \in Nat
    BY <2>5, MixedIsFinite
  <2>8. QED
    BY <1>3, <2>4, <2>6, <2>7 DEF TableInv, MixInv
<1>12. QED
  BY <1>6, <1>8, <1>9, <1>10, <1>11 DEF TableInv

\* Setting or deleting a message action.
LEMMA ConfigureKeepsTables ==
  ASSUME TableInv, ConfigureMessage
  PROVE  TableInv'
<1>1. PICK id \in MsgIds \cup {Wild} : SetById(id) \/ DeleteById(id)
  BY DEF ConfigureMessage
<1>2. SlotsWith(id) \in SUBSET MsgSlots /\ SlotFor(id) \in SUBSET MsgSlots
        /\ MsgSlots \in SUBSET Nat
  BY MessagesAssumption DEF SlotsWith, SlotFor, MsgSlots
<1>3. PICK s, a :
        /\ s \in MsgSlots /\ actions' = [actions EXCEPT ![s] = a] /\ Saves(ActionSaves(s, a)) /\ ran' = ran
        /\ \/ /\ s \in SlotFor(id) /\ a = Action(id, configured + 1)
              /\ configured' = configured + 1
           \/ a = NoAction /\ configured' = configured
  <2>1. CASE SetById(id)
    <3>1. First(SlotFor(id)) \in SlotFor(id) /\ SlotFor(id) \in SUBSET Nat
      BY <1>2, <2>1, FirstIsOne DEF SetById
    <3>2. QED
      BY <1>2, <2>1, <3>1 DEF SetById, RouterSet
  <2>2. CASE DeleteById(id)
    <3>1. First(SlotsWith(id)) \in SlotsWith(id) /\ SlotsWith(id) \in SUBSET Nat
      BY <1>2, <2>2, FirstIsOne DEF DeleteById
    <3>2. QED
      BY <1>2, <2>2, <3>1 DEF DeleteById, RouterSet
  <2>3. QED
    BY <1>1, <2>1, <2>2
<1>4. /\ flash' = flash /\ todo' = ActionSaves(s, a)
      /\ subMap' = subMap /\ subHead' = subHead
      /\ power' = power /\ torn' = torn /\ power = "up" /\ Idle
  BY <1>3 DEF Saves, ConfigureMessage, NodeRuns, subVars, bootVars
<1>5. StoredMap = subMap /\ StoredHead = subHead /\ StoredActions = actions
  BY <1>4, IdleAllIn DEF TableInv, SubAllIn, RouterAllIn
<1>6. /\ StoredMap' = StoredMap /\ StoredActions' = StoredActions
      /\ Stored("head", 0)' = Stored("head", 0) /\ StoredHead' = StoredHead
  BY <1>4 DEF StoredMap, StoredActions, StoredHead, Stored
<1>7. FlashSound' /\ SubShape' /\ SubMapSound'
  BY <1>4, <1>6 DEF TableInv, FlashSound, SubShape, SubMapSound
<1>8. a = [id |-> a.id, wh |-> a.wh, si |-> a.si] /\ (a.id = None \/ a.id = id)
  BY <1>3 DEF Action, NoAction
<1>9. /\ DOMAIN actions = MsgSlots /\ DOMAIN actions' = MsgSlots
      /\ actions'[s] = a /\ \A i \in MsgSlots : i # s => actions'[i] = actions[i]
      /\ \A i \in MsgSlots : actions[i] = [id |-> actions[i].id, wh |-> actions[i].wh,
                                           si |-> actions[i].si]
  BY <1>3 DEF TableInv, RouterShape
<1>10. RouterShape'
  <2>1. actions' = [i \in MsgSlots |-> actions'[i]]
    BY <1>3, <1>9
  <2>2. \A i \in MsgSlots : actions'[i] = [id |-> actions'[i].id, wh |-> actions'[i].wh,
                                           si |-> actions'[i].si]
    BY <1>8, <1>9
  <2>3. QED
    BY <2>1, <2>2 DEF RouterShape
<1>11. OneSlotPerId'
  <2>1. a.id # None => a.id = id /\ (actions[s].id = id \/ \A i \in MsgSlots : actions[i].id # id)
    BY <1>3, <1>8 DEF SlotFor, SlotsWith, NoAction
  <2>2. ASSUME NEW i \in MsgSlots, NEW j \in MsgSlots,
               actions'[i].id = actions'[j].id, actions'[i].id # None
        PROVE  i = j
    <3>1. CASE a.id # None /\ actions[s].id = id
      <4>1. \A n \in MsgSlots : actions'[n].id = actions[n].id
        BY <1>9, <2>1, <3>1
      <4>2. QED
        BY <2>2, <4>1 DEF TableInv, OneSlotPerId
    <3>2. CASE a.id # None /\ \A n \in MsgSlots : actions[n].id # id
      BY <1>9, <2>1, <2>2, <3>2 DEF TableInv, OneSlotPerId
    <3>3. CASE a.id = None
      BY <1>9, <2>2, <3>3 DEF TableInv, OneSlotPerId
    <3>4. QED
      BY <2>1, <3>1, <3>2, <3>3
  <2>3. QED
    BY <2>2 DEF OneSlotPerId
<1>12. InStep'
  <2>1. /\ IsSeq(todo')
        /\ Puts' = {Put("mid", s, a.id), Put("mwh", s, a.wh), Put("msi", s, a.si)}
    BY <1>4, ThreeSaves DEF Puts, ActionSaves
  <2>2. RouterBusy(s)'
    <3>1. Puts' \subseteq RouterPuts'
      BY <1>3, <1>9, <2>1 DEF RouterPuts
    <3>2. \A i \in MsgSlots \ {s} : StoredActions'[i] = actions'[i]
      BY <1>5, <1>6, <1>9
    <3>3. /\ Put("mid", s, actions'[s].id) \in Puts' /\ Put("mwh", s, actions'[s].wh) \in Puts'
          /\ Put("msi", s, actions'[s].si) \in Puts'
      BY <1>9, <2>1
    <3>4. QED
      BY <3>1, <3>2, <3>3 DEF RouterBusy
  <2>3. SubAllIn'
    BY <1>4, <1>5, <1>6 DEF SubAllIn
  <2>4. QED
    BY <1>3, <1>4, <2>1, <2>2, <2>3 DEF InStep
<1>13. MixInv'
  <2>1. configured \in Nat /\ configured' \in Nat /\ configured <= configured'
    BY <1>3 DEF TableInv, MixInv
  <2>2. s \notin MixedActions(actions', configured')
    <3>1. CASE a = NoAction
      BY <1>9, <3>1 DEF MixedActions, NoAction
    <3>2. CASE a = Action(id, configured') /\ configured' = configured + 1
      <4>1. configured' \in 1 .. configured' /\ a.id = id
        BY <2>1, <3>2 DEF Action
      <4>2. QED
        BY <1>9, <3>2, <4>1 DEF MixedActions
    <3>3. QED
      BY <1>3, <3>1, <3>2
  <2>3. MixedActions(actions', configured') \subseteq MixedActions(actions, configured)
    <3>1. ASSUME NEW i \in MixedActions(actions', configured')
          PROVE  i \in MixedActions(actions, configured)
      <4>1. i \in MsgSlots /\ i # s /\ actions'[i] = actions[i]
        BY <1>9, <2>2 DEF MixedActions
      <4>2. \A n \in 1 .. configured : n \in 1 .. configured'
        BY <2>1
      <4>3. QED
        BY <3>1, <4>1, <4>2 DEF MixedActions
    <3>2. QED
      BY <3>1
  <2>4. Cardinality(MixedActions(actions', configured'))
          <= Cardinality(MixedActions(actions, configured))
    BY <2>3, MixedIsFinite, OneMore
  <2>5. /\ MixedSub(subMap)' = MixedSub(subMap)
        /\ MixedActions(actions, configured)' = MixedActions(actions', configured')
        /\ RanForeign' = RanForeign
    BY <1>3, <1>4 DEF MixedSub, MixedActions, RanForeign
  <2>6. /\ Mixes(subMap, actions, configured)'
             = Cardinality(MixedActions(actions', configured')) + Cardinality(MixedSub(subMap))
        /\ Mixes(subMap, actions, configured)
             = Cardinality(MixedActions(actions, configured)) + Cardinality(MixedSub(subMap))
    BY <2>5 DEF Mixes
  <2>7. /\ Mixes(subMap, actions, configured)' <= Mixes(subMap, actions, configured)
        /\ Mixes(subMap, actions, configured)' \in Nat
        /\ Mixes(subMap, actions, configured) \in Nat
    BY <2>4, <2>6, MixedIsFinite
  <2>8. QED
    BY <1>4, <2>1, <2>5, <2>7 DEF TableInv, MixInv
<1>14. QED
  BY <1>7, <1>10, <1>11, <1>12, <1>13 DEF TableInv

\* Unless a crash mixed it, an action that matches has parts of its own only.
LEMMA MessageKeepsTables ==
  ASSUME TableInv, MessageComes
  PROVE  TableInv'
<1>1. PICK id \in MsgIds : Dispatch(id)
  BY DEF MessageComes, Receive
<1>2. /\ flash' = flash /\ todo' = todo /\ subMap' = subMap /\ subHead' = subHead
      /\ actions' = actions /\ configured' = configured /\ power' = power /\ torn' = torn
  BY <1>1 DEF MessageComes, Dispatch, flashVars, subVars, bootVars
<1>3. ASSUME torn = 0 PROVE RanForeign' = {}
  <2>1. RouterMixed = {}
    <3>1. Cardinality(RouterMixed) = 0 /\ IsFiniteSet(RouterMixed)
      <4>1. /\ Cardinality(MixedActions(actions, configured)) \in Nat
            /\ Cardinality(MixedSub(subMap)) \in Nat
            /\ IsFiniteSet(MixedActions(actions, configured))
        BY MixedIsFinite
      <4>2. Cardinality(MixedActions(actions, configured)) + Cardinality(MixedSub(subMap)) <= 0
        BY <1>3 DEF TableInv, MixInv, Mixes
      <4>3. QED
        BY <4>1, <4>2, MixedInRam
    <3>2. QED
      BY <3>1, FS_EmptySet
  <2>2. ASSUME NEW i \in MsgSlots, Matches(actions[i], id)
        PROVE  actions[i].wh.id \in {id, Wild} /\ actions[i].si.id \in {id, Wild}
    <3>1. actions[i].id \in {id, Wild} /\ actions[i].id # None
      BY <2>2, MessagesAssumption DEF Matches
    <3>2. PICK n \in 1 .. configured : actions[i] = Action(actions[i].id, n)
      BY <2>1, <3>1 DEF RouterMixed
    <3>3. actions[i].wh.id = actions[i].id /\ actions[i].si.id = actions[i].id
      BY <3>2 DEF Action, Part
    <3>4. QED
      BY <3>1, <3>3
  <2>3. ASSUME NEW r \in ran', r \notin ran PROVE r.part.id \in {r.msg, Wild}
    <3>1. PICK i \in MsgSlots : /\ Matches(actions[i], id)
                                /\ r \in {[msg |-> id, part |-> p] :
                                            p \in {actions[i].wh, actions[i].si}}
      BY <1>1, <2>3 DEF Dispatch
    <3>2. r.msg = id /\ r.part \in {actions[i].wh, actions[i].si}
      BY <3>1
    <3>3. QED
      BY <2>2, <3>1, <3>2
  <2>4. RanForeign = {}
    BY <1>3 DEF TableInv, MixInv
  <2>5. QED
    BY <2>3, <2>4 DEF RanForeign
<1>4. /\ StoredMap' = StoredMap /\ StoredActions' = StoredActions
      /\ Stored("head", 0)' = Stored("head", 0) /\ StoredHead' = StoredHead
  BY <1>2 DEF StoredMap, StoredActions, StoredHead, Stored
<1>5. FlashSound' /\ SubShape' /\ RouterShape' /\ SubMapSound' /\ OneSlotPerId'
  BY <1>2, <1>4 DEF TableInv, FlashSound, SubShape, RouterShape, SubMapSound, OneSlotPerId
<1>6. InStep'
  <2>1. Idle /\ power = "up"
    BY DEF MessageComes, NodeRuns
  <2>2. SubAllIn /\ RouterAllIn
    BY <2>1, IdleAllIn DEF TableInv
  <2>3. IsSeq(todo') /\ Elsewhere'
    BY <1>2, <2>1 DEF TableInv, InStep, Idle, Elsewhere, Puts, PutsIn
  <2>4. QED
    BY <1>2, <1>4, <2>1, <2>2, <2>3 DEF InStep, SubAllIn, RouterAllIn
<1>7. MixInv'
  BY <1>2, <1>3, <1>4 DEF TableInv, MixInv, Mixes, MixedSub, MixedActions
<1>8. QED
  BY <1>5, <1>6, <1>7 DEF TableInv

\* The node as it is shipped, or as an older firmware left it.
LEMMA InitTables == Init => TableInv
<1> SUFFICES ASSUME Init PROVE TableInv
  OBVIOUS
<1>1. /\ todo = <<>> /\ subMap = NoEntries /\ subHead = 0 /\ actions = NoActions
      /\ ran = {} /\ configured = 0 /\ torn = 0 /\ power = "off"
  BY DEF Init, SubEmpty, MessagesInit, MessagesEmpty, NoEntries, NoActions
<1>2. /\ flash \in {New, Old} /\ DOMAIN flash = Keys
  BY DEF Init, New, Old
<1>3. \A k \in Keys : k \notin {Key("privkey", 0), Key("pubkey", 0), Key("api_token", 0),
                                Key("t", 0), Key("p", 0)} => flash[k] = None
  BY <1>2 DEF New, Old
<1>4. /\ Stored("head", 0) = None
      /\ \A i \in MsgSlots : Stored("mid", i) = None
      /\ \A i \in SubSlots : i # 0 => Stored("t", i) = None
      /\ \A i \in SubSlots : i # 0 => Stored("p", i) = None
  <2>1. Stored("head", 0) = None
    BY <1>3, TableKeys, KeysDiffer DEF Stored
  <2>2. \A i \in MsgSlots : Stored("mid", i) = None
    BY <1>3, TableKeys, KeysDiffer DEF Stored
  <2>3. \A i \in SubSlots : i # 0 => Stored("t", i) = None /\ Stored("p", i) = None
    BY <1>3, TableKeys, KeysDiffer DEF Stored
  <2>4. QED
    BY <2>1, <2>2, <2>3
<1>5. 0 \in SubSlots /\ (Stored("p", 0) = Reserved \/ Stored("t", 0) = None)
  <2>1. 0 \in SubSlots /\ Key("p", 0) \in Keys /\ Key("t", 0) \in Keys
    BY TableKeys, SubAssumption DEF SubSlots
  <2>2. CASE flash = New
    BY <2>1, <2>2 DEF New, Stored
  <2>3. CASE flash = Old
    BY <2>1, <2>3 DEF Old, New, Stored
  <2>4. QED
    BY <1>2, <2>1, <2>2, <2>3
<1>6. FlashSound
  <2>1. \A i \in SubSlots : i # 0 => StoredMap[i].target = None
    BY <1>4 DEF StoredMap
  <2>2. \A i \in MsgSlots : StoredActions[i].id = None
    BY <1>4 DEF StoredActions
  <2>3. QED
    BY <1>2, <1>4, <2>1, <2>2 DEF FlashSound
<1>7. SubShape /\ RouterShape /\ SubMapSound /\ OneSlotPerId
  BY <1>1, EmptyTables, PrefixesDiffer DEF SubShape, RouterShape, SubMapSound, OneSlotPerId
<1>8. InStep
  BY <1>1, NoSaves DEF InStep, Elsewhere, Puts
<1>9. MixInv
  <2>1. MixedSub(StoredMap) = {}
    <3>1. \A i \in SubSlots : StoredMap[i].target = None \/ StoredMap[i].prefix = Default
      BY <1>4, <1>5 DEF StoredMap, Sanitized
    <3>2. QED
      BY <3>1 DEF MixedSub
  <2>2. MixedActions(StoredActions, configured) = {}
    BY <1>4 DEF MixedActions, StoredActions
  <2>3. Mixes(StoredMap, StoredActions, configured) = 0
    BY <2>1, <2>2, EmptyMixesNothing DEF Mixes
  <2>4. Mixes(subMap, actions, configured) = 0
    <3>1. Mixes(NoEntries, NoActions, 0) = 0
      BY EmptyMixesNothing DEF Mixes
    <3>2. QED
      BY <1>1, <3>1
  <2>5. RanForeign = {}
    BY <1>1 DEF RanForeign
  <2>6. QED
    BY <1>1, <2>3, <2>4, <2>5 DEF MixInv
<1>10. QED
  BY <1>6, <1>7, <1>8, <1>9 DEF TableInv

\* The saves of every boot and every request end before the next one begins.
LEMMA NextTables ==
  ASSUME TableInv, power = "off" => Idle, [Next]_vars
  PROVE  TableInv'
<1>1. CASE UNCHANGED vars
  BY <1>1, NothingKeeps DEF vars, lifeVars
<1>2. CASE Restart
  <2>1. GoDown(FALSE) /\ torn' = torn /\ Idle
    BY <1>2 DEF Restart
  <2>2. torn' = torn + (IF Idle THEN 0 ELSE 1)
    BY <2>1 DEF TableInv, MixInv
  <2>3. QED
    BY <2>1, <2>2, GoDownKeeps
<1>3. CASE Crash
  <2>1. PICK lost \in BOOLEAN : GoDown(lost)
    BY <1>3 DEF Crash
  <2>2. torn' = torn + (IF Idle THEN 0 ELSE 1)
    BY <1>3 DEF Crash, TableInv, MixInv
  <2>3. QED
    BY <2>1, <2>2, GoDownKeeps
<1>4. CASE Boot
  BY <1>4, BootKeepsTables DEF Boot
<1>5. CASE Halt
  <2>1. /\ Idle /\ power = "boot" /\ power' = "halted" /\ flash' = flash /\ todo' = todo
        /\ UNCHANGED <<subVars, routerVars, torn>>
    BY <1>5 DEF Halt, InSetup, flashVars
  <2>2. {power, power'} \subseteq {"off", "boot", "halted"}
    BY <2>1
  <2>3. IsSeq(todo') /\ Elsewhere'
    BY <2>1 DEF TableInv, InStep, Idle, Elsewhere, Puts, PutsIn
  <2>4. QED
    BY <2>1, <2>2, <2>3, OtherHandlerKeeps
<1>6. CASE \/ PortalEnds \/ LinkMoves \/ AppAtInbox \/ TunnelCommand \/ LanHost \/ Tick
  <2>1. UNCHANGED <<flashVars, subVars, routerVars, power, torn>>
    <3>1. CASE PortalEnds \/ LinkMoves \/ TunnelCommand
      BY <3>1 DEF PortalEnds, LinkMoves, TunnelCommand, bootVars
    <3>2. CASE AppAtInbox
      BY <3>2 DEF AppAtInbox, bootVars, ReadInbox, AckRead, AckSender, Keep
    <3>3. CASE LanHost \/ Tick
      BY <3>3 DEF LanHost, Tick, Ticks, lifeVars
    <3>4. QED
      BY <1>6, <3>1, <3>2, <3>3
  <2>2. QED
    BY <2>1, NothingKeeps
<1>7. QED
  BY <1>1, <1>2, <1>3, <1>4, <1>5, <1>6, SaveKeepsTables, EnterPortalKeeps, ComeUpKeeps,
     PortalSetIdKeepsTables, FactoryResetKeepsTables, UpdateKeepsTables,
     SubscribeKeepsTables, ConfigureKeepsTables, MessageKeepsTables
     DEF Next

-----------------------------------------------------------------------------
(***************************************************************************)
(* The identity: the halves of the key pair in flash and in RAM.           *)
(***************************************************************************)
Priv == Stored("privkey", 0)
Pub == Stored("pubkey", 0)

TokenPuts == {<<>>, <<Put("api_token", 0, TRUE)>>}
PairPuts == {<<Put("privkey", 0, made), Put("pubkey", 0, made)>>,
                <<Put("privkey", 0, made), Put("pubkey", 0, made), Put("api_token", 0, TRUE)>>}
PubPuts == {<<Put("pubkey", 0, made)>>,
            <<Put("pubkey", 0, made), Put("api_token", 0, TRUE)>>}

\* How far setup() has come with a pair it loaded, or made: nothing of it in
\* flash, its first half, all of it.
BootSaves ==
  \/ todo \in TokenPuts /\ priv = Priv /\ pub = Pub /\ Priv # None
  \/ priv = made /\ pub = made /\ made > 0 /\ Pub = None /\
       \/ todo \in PubPuts /\ Priv = made
       \/ todo \in PairPuts /\ Priv = None

IdByMode ==
  /\ power \in {"off", "boot", "halted", "portal", "up"}
  /\ power = "off" => priv = None /\ pub = None /\ deviceId = None /\ Idle
  /\ power = "boot" => BootSaves /\ deviceId = IdOf(pub)
  /\ power = "halted" => Idle /\ Pub = None /\ Priv # None
  /\ power \in {"portal", "up"} /\ ~ending =>
       priv = Priv /\ pub = Pub /\ Priv # None /\ Pub = Priv
  /\ power = "portal" =>
       \/ Idle /\ (~ending => deviceId = IdOf(Pub))
       \/ known = None /\ todo = <<Put("id_ovr", 0, deviceId)>> /\ deviceId # None
  /\ power = "up" => /\ ~ending => deviceId = IdOf(Pub)
                     /\ \A p \in Puts : p.key \notin IdentityKeys

\* A known id is in flash with a whole key pair.
KnownKept == known # None => /\ Priv # None /\ Pub = Priv /\ IdOf(Pub) = known
                             /\ deviceId \in {None, known} /\ power # "halted"

\* Half a pair is the work of a crash, or of a boot that is about to save the
\* other half.
HalfByCrash == Priv # None /\ Pub = None => torn > 0 \/ (power = "boot" /\ pub = priv)

IdInv == /\ made \in Nat
         /\ PairMatches /\ KnownKept /\ HalfByCrash /\ IdByMode

-----------------------------------------------------------------------------
IdentityFields == {"privkey", "pubkey", "api_token", "id_ovr"}

LEMMA IdentityKeyIs ==
  /\ \A f, i : Key(f, i) \in IdentityKeys <=> f \in IdentityFields /\ i = 0
  /\ IdentityKeys \subseteq Keys
BY KeysDiffer DEF IdentityKeys, IdentityFields, Keys

\* Every save is a put of a key the preferences have.
LEMMA HeadIsPut ==
  ASSUME TableInv, todo # <<>>
  PROVE  /\ Head(todo) \in Puts
         /\ \E f, i, v : Head(todo) = Put(f, i, v) /\ Key(f, i) \in Keys
<1>1. Head(todo) \in Puts
  BY QueueStep DEF TableInv, InStep, Puts
<1>2. ASSUME NEW p \in Puts, Elsewhere
      PROVE  \E f, i, v : p = Put(f, i, v) /\ Key(f, i) \in Keys
  BY <1>2 DEF Elsewhere, IsElsewhere, Keys
<1>3. ASSUME NEW p \in SubPuts
      PROVE  \E f, i, v : p = Put(f, i, v) /\ Key(f, i) \in Keys
  BY <1>3, TableKeys DEF SubPuts
<1>4. ASSUME NEW p \in RouterPuts
      PROVE  \E f, i, v : p = Put(f, i, v) /\ Key(f, i) \in Keys
  BY <1>4, TableKeys DEF RouterPuts
<1>5. QED
  BY <1>1, <1>2, <1>3, <1>4 DEF TableInv, InStep, SubBusy, RouterBusy

\* What a save does to the identity in flash.
LEMMA SaveIdentity ==
  ASSUME TableInv, SaveNext, NEW f, NEW v, Head(todo) = Put(f, 0, v), f \in IdentityFields
  PROVE  \A g \in IdentityFields : Stored(g, 0)' = IF g = f THEN v ELSE Stored(g, 0)
<1>1. \A g \in IdentityFields : Key(g, 0) \in Keys
  BY IdentityKeyIs
<1>2. DOMAIN flash = Keys
  BY DEF TableInv, FlashSound
<1>3. Stored(f, 0)' = v
  BY <1>1, <1>2, SaveEffect
<1>4. \A g, j : Key(g, j) \in Keys /\ ~(g = f /\ j = 0) => Stored(g, j)' = Stored(g, j)
  BY <1>1, <1>2, SaveEffect
<1>5. QED
  BY <1>1, <1>3, <1>4

LEMMA SaveOfOthers ==
  ASSUME TableInv, SaveNext, Head(todo).key \notin IdentityKeys
  PROVE  \A g \in IdentityFields : Stored(g, 0)' = Stored(g, 0)
<1>1. PICK f, i, v : Head(todo) = Put(f, i, v) /\ Key(f, i) \in Keys
  BY HeadIsPut DEF SaveNext, Idle
<1>2. Key(f, i) \notin IdentityKeys
  BY <1>1 DEF Put
<1>3. \A g \in IdentityFields : Key(g, 0) \in Keys /\ ~(g = f /\ 0 = i)
  BY <1>2, IdentityKeyIs
<1>4. DOMAIN flash = Keys
  BY DEF TableInv, FlashSound
<1>5. QED
  BY <1>1, <1>3, <1>4, SaveEffect

\* The identity as it is, and the flash behind it.
LEMMA SameIdentity ==
  ASSUME \A g \in IdentityFields : Stored(g, 0)' = Stored(g, 0)
  PROVE  /\ Priv' = Priv /\ Pub' = Pub /\ Stored("id_ovr", 0)' = Stored("id_ovr", 0)
         /\ \A k : IdOf(k)' = IdOf(k)
BY DEF IdentityFields, Priv, Pub, IdOf

LEMMA SameFlash ==
  ASSUME flash' = flash
  PROVE  \A g \in IdentityFields : Stored(g, 0)' = Stored(g, 0)
BY DEF Stored

\* No step is about the identity unless it changes one of these.
LEMMA IdentityStays ==
  ASSUME IdInv, flash' = flash, UNCHANGED <<identityVars, power, torn>>,
         todo' = todo \/ (power = "up" /\ \A p \in Puts' : p.key \notin IdentityKeys),
         ending' = ending \/ (ending' = TRUE)
  PROVE  IdInv'
<1>1. /\ priv' = priv /\ pub' = pub /\ deviceId' = deviceId /\ made' = made /\ known' = known
      /\ power' = power /\ torn' = torn
  BY DEF identityVars
<1>2. /\ Priv' = Priv /\ Pub' = Pub /\ \A k : IdOf(k)' = IdOf(k)
  BY SameFlash, SameIdentity
<1>3. PairMatches' /\ KnownKept' /\ HalfByCrash'
  BY <1>1, <1>2 DEF IdInv, PairMatches, KnownKept, HalfByCrash, Priv, Pub
<1>4. power # "up" => todo' = todo /\ Idle' = Idle /\ BootSaves' = BootSaves
  BY <1>1, <1>2 DEF Idle, BootSaves, TokenPuts, PairPuts, PubPuts
<1>5. todo' = todo => Puts' = Puts
  BY DEF Puts
<1>6. IdByMode'
  BY <1>1, <1>2, <1>4, <1>5 DEF IdInv, IdByMode
<1>7. QED
  BY <1>1, <1>3, <1>6 DEF IdInv

-----------------------------------------------------------------------------
LEMMA KeyPairIsSome ==
  ASSUME NEW k \in Nat
  PROVE  k # None
BY FlashAssumption

\* setup() has loaded a pair or made one.
LEMMA BootKeepsIdentity ==
  ASSUME IdInv, Boot
  PROVE  IdInv'
<1>1. /\ flash' = flash /\ power = "off" /\ power' = "boot" /\ torn' = torn /\ ending' = ending
      /\ known' = known
      /\ made' = (IF HasKey THEN made ELSE made + 1)
      /\ priv' = (IF HasKey THEN Priv ELSE made + 1)
      /\ pub' = (IF HasKey THEN Pub ELSE made + 1)
      /\ deviceId' = IdOf(pub') /\ todo' = IdentitySaves(made + 1)
  BY DEF Boot, LoadIdentity, Saves, Priv, Pub
<1>2. /\ Priv' = Priv /\ Pub' = Pub /\ \A k : IdOf(k)' = IdOf(k)
  BY <1>1, SameFlash, SameIdentity
<1>3. made \in Nat /\ made' \in Nat /\ (HasKey <=> Priv # None)
  BY <1>1 DEF IdInv, HasKey, Priv
<1>4. PairMatches'
  <2>1. Pub \in {None, Priv} /\ Priv \in {None} \cup 1 .. made
    BY DEF IdInv, PairMatches, Pub, Priv
  <2>2. Priv \in {None} \cup 1 .. made'
    BY <1>1, <1>3, <2>1
  <2>3. QED
    BY <1>2, <2>1, <2>2 DEF PairMatches, Pub, Priv
<1>5. IdOf(pub)' = IdOf(pub')
  BY <1>2 DEF IdOf
<1>6. BootSaves'
  <2>1. CASE HasKey
    <3>1. todo' \in TokenPuts
      BY <1>1, <2>1, Concatenations DEF IdentitySaves, KeySaves, TokenSaves, TokenPuts
    <3>2. QED
      BY <1>1, <1>2, <1>3, <2>1, <3>1 DEF BootSaves, TokenPuts
  <2>2. CASE ~HasKey
    <3>1. todo' \in {<<Put("privkey", 0, made'), Put("pubkey", 0, made')>>,
            <<Put("privkey", 0, made'), Put("pubkey", 0, made'), Put("api_token", 0, TRUE)>>}
      BY <1>1, <2>2, Concatenations DEF IdentitySaves, KeySaves, TokenSaves
    <3>2. Priv = None /\ Pub = None
      BY <1>3, <2>2 DEF IdInv, PairMatches, Pub, Priv
    <3>3. priv' = made' /\ pub' = made' /\ made' > 0
      BY <1>1, <1>3, <2>2
    <3>4. QED
      BY <1>2, <3>1, <3>2, <3>3 DEF BootSaves, PairPuts
  <2>3. QED
    BY <2>1, <2>2
<1>7. KnownKept'
  <2>1. ASSUME known # None PROVE deviceId' = known
    BY <1>1, <1>3, <2>1 DEF IdInv, KnownKept
  <2>2. QED
    BY <1>1, <1>2, <2>1 DEF IdInv, KnownKept
<1>8. HalfByCrash'
  BY <1>1, <1>2 DEF IdInv, HalfByCrash
<1>9. IdByMode'
  BY <1>1, <1>5, <1>6 DEF IdByMode
<1>10. QED
  BY <1>3, <1>4, <1>6, <1>7, <1>8, <1>9 DEF IdInv

\* With its saves made, a boot stands for what is in flash.
LEMMA BootIsLoaded ==
  ASSUME IdInv, power = "boot", Idle
  PROVE  priv = Priv /\ pub = Pub /\ Priv # None
<1>1. todo = <<>>
  BY DEF Idle
<1>2. todo \notin PubPuts /\ todo \notin PairPuts
  <2>1. \A p, q, r : <<>> # <<p>> /\ <<>> # <<p, q>> /\ <<>> # <<p, q, r>>
    OBVIOUS
  <2>2. QED
    BY <1>1, <2>1 DEF PubPuts, PairPuts
<1>3. QED
  BY <1>2 DEF IdInv, IdByMode, BootSaves

\* A crash or a restart keeps what is in flash.
LEMMA GoDownKeepsIdentity ==
  ASSUME IdInv, NEW lost, GoDown(lost), torn \in Nat,
         torn' = torn + (IF Idle THEN 0 ELSE 1)
  PROVE  IdInv'
<1>1. /\ todo' = <<>> /\ flash' = flash /\ power' = "off" /\ ending' = FALSE
      /\ priv' = None /\ pub' = None /\ deviceId' = None /\ made' = made /\ known' = known
  BY DEF GoDown, SavesLost, IdentityForgotten
<1>2. /\ Priv' = Priv /\ Pub' = Pub /\ \A k : IdOf(k)' = IdOf(k)
  BY <1>1, SameFlash, SameIdentity
<1>3. PairMatches' /\ KnownKept'
  BY <1>1, <1>2 DEF IdInv, PairMatches, KnownKept, Priv, Pub
<1>4. HalfByCrash'
  <2>1. ASSUME Priv # None, Pub = None PROVE torn' > 0
    <3>1. CASE torn > 0
      BY <3>1
    <3>2. CASE power = "boot" /\ pub = priv
      <4>1. ~Idle
        BY <2>1, <3>2, BootIsLoaded
      <4>2. QED
        BY <4>1
    <3>3. QED
      BY <2>1, <3>1, <3>2 DEF IdInv, HalfByCrash
  <2>2. QED
    BY <1>2, <2>1 DEF HalfByCrash
<1>5. IdByMode'
  BY <1>1 DEF IdByMode, Idle
<1>6. QED
  BY <1>1, <1>3, <1>4, <1>5 DEF IdInv

\* identity_init has failed.
LEMMA HaltKeepsIdentity ==
  ASSUME IdInv, Halt
  PROVE  IdInv'
<1>1. /\ flash' = flash /\ todo' = todo /\ power = "boot" /\ Idle /\ power' = "halted"
      /\ torn' = torn /\ UNCHANGED identityVars /\ ~SignWorks
  BY DEF Halt, InSetup, flashVars
<1>2. /\ priv' = priv /\ pub' = pub /\ deviceId' = deviceId /\ made' = made /\ known' = known
  BY <1>1 DEF identityVars
<1>3. /\ Priv' = Priv /\ Pub' = Pub /\ \A k : IdOf(k)' = IdOf(k)
  BY <1>1, SameFlash, SameIdentity
<1>4. priv = Priv /\ pub = Pub /\ Priv # None
  BY <1>1, BootIsLoaded
<1>5. Pub = None /\ pub # priv /\ known = None
  BY <1>1, <1>4 DEF IdInv, PairMatches, KnownKept, SignWorks, Priv, Pub
<1>6. PairMatches' /\ KnownKept' /\ HalfByCrash'
  BY <1>1, <1>2, <1>3, <1>5 DEF IdInv, PairMatches, KnownKept, HalfByCrash, Priv, Pub
<1>7. IdByMode'
  BY <1>1, <1>3, <1>4, <1>5 DEF IdByMode, Idle
<1>8. QED
  BY <1>2, <1>6, <1>7 DEF IdInv

\* A boot that worked makes its id known.
LEMMA SetupEndsKeepsIdentity ==
  ASSUME IdInv, EnterPortal \/ ComeUp
  PROVE  IdInv'
<1>1. /\ flash' = flash /\ power = "boot" /\ Idle /\ power' \in {"portal", "up"}
      /\ torn' = torn /\ SignWorks /\ known' = deviceId
      /\ priv' = priv /\ pub' = pub /\ deviceId' = deviceId /\ made' = made
  BY DEF EnterPortal, ComeUp, InSetup, BecomesKnown, flashVars, OtaLoad, Saves
<1>2. /\ Priv' = Priv /\ Pub' = Pub /\ \A k : IdOf(k)' = IdOf(k)
  BY <1>1, SameFlash, SameIdentity
<1>3. priv = Priv /\ pub = Pub /\ Priv # None /\ pub = priv
  BY <1>1, BootIsLoaded DEF SignWorks
<1>4. deviceId = IdOf(Pub)
  BY <1>1, <1>3 DEF IdInv, IdByMode
<1>5. PairMatches' /\ KnownKept' /\ HalfByCrash'
  BY <1>1, <1>2, <1>3, <1>4 DEF IdInv, PairMatches, KnownKept, HalfByCrash, Priv, Pub
<1>6. /\ power' = "portal" => Idle'
      /\ power' = "up" => \A p \in Puts' : p.key \notin IdentityKeys
  <2>1. CASE EnterPortal
    BY <1>1, <2>1 DEF EnterPortal, flashVars, Idle
  <2>2. CASE ComeUp
    <3>1. power' = "up" /\ todo' = StaleSaves
      BY <2>2 DEF ComeUp, OtaLoad, Saves
    <3>2. PutsIn(StaleSaves) \subseteq {Put("pending", 0, None)}
      BY NoSaves, OneSave DEF StaleSaves, NoteDropped
    <3>3. Put("pending", 0, None).key \notin IdentityKeys
      BY IdentityKeyIs DEF Put, IdentityFields
    <3>4. QED
      BY <3>1, <3>2, <3>3 DEF Puts
  <2>3. QED
    BY <2>1, <2>2
<1>7. IdByMode'
  BY <1>1, <1>2, <1>3, <1>4, <1>6 DEF IdByMode
<1>8. QED
  BY <1>1, <1>5, <1>7 DEF IdInv

\* The owner sets an id over the computed one.
LEMMA PortalSetIdKeepsIdentity ==
  ASSUME IdInv, PortalSetId
  PROVE  IdInv'
<1>1. PICK id \in Overrides : SetOverride(id)
  BY DEF PortalSetId
<1>2. /\ flash' = flash /\ todo' = <<Put("id_ovr", 0, id)>> /\ deviceId' = id /\ known' = None
      /\ priv' = priv /\ pub' = pub /\ made' = made /\ power = "portal" /\ power' = "portal"
      /\ torn' = torn /\ ending' = ending /\ id # None
  BY <1>1, IdentityAssumption DEF SetOverride, OverrideSaves, Saves, PortalSetId, PortalAnswers
<1>3. /\ Priv' = Priv /\ Pub' = Pub /\ \A k : IdOf(k)' = IdOf(k)
  BY <1>2, SameFlash, SameIdentity
<1>4. PairMatches' /\ KnownKept' /\ HalfByCrash'
  BY <1>2, <1>3 DEF IdInv, PairMatches, KnownKept, HalfByCrash, Priv, Pub
<1>5. IdByMode'
  BY <1>2, <1>3 DEF IdInv, IdByMode
<1>6. QED
  BY <1>2, <1>4, <1>5 DEF IdInv

\* A factory reset takes pair and id together.
LEMMA FactoryResetKeepsIdentity ==
  ASSUME IdInv, FactoryReset
  PROVE  IdInv'
<1>1. /\ flash' = Cleared /\ todo' = todo /\ Idle /\ ending' = TRUE /\ known' = None
      /\ priv' = priv /\ pub' = pub /\ deviceId' = deviceId /\ made' = made
      /\ power' = power /\ torn' = torn /\ power \in {"portal", "up"}
  BY DEF FactoryReset, NodeRuns, PortalAnswers
<1>2. Priv' = None /\ Pub' = None
  <2>1. /\ Key("privkey", 0) \in Keys \cap IdentityKeys
        /\ Key("pubkey", 0) \in Keys \cap IdentityKeys
    BY IdentityKeyIs DEF IdentityFields
  <2>2. QED
    BY <1>1, <2>1 DEF Cleared, Stored, Priv, Pub
<1>3. PairMatches' /\ KnownKept' /\ HalfByCrash'
  BY <1>1, <1>2 DEF PairMatches, KnownKept, HalfByCrash, Priv, Pub
<1>4. Puts' = {}
  BY <1>1 DEF Puts, PutsIn, Idle
<1>5. IdByMode'
  BY <1>1, <1>4 DEF IdByMode, Idle
<1>6. QED
  BY <1>1, <1>3, <1>5 DEF IdInv

\* A save of setup(): the token, or one half of the pair after the other.
LEMMA BootSaveKeeps ==
  ASSUME TableInv, IdInv, Save, power = "boot"
  PROVE  IdInv'
<1>1. /\ SaveNext /\ todo # <<>> /\ todo' = Tail(todo) /\ power' = "boot"
      /\ torn' = torn /\ ending' = ending
      /\ priv' = priv /\ pub' = pub /\ deviceId' = deviceId /\ made' = made /\ known' = known
  BY DEF Save, SaveNext, Idle, identityVars, lifeVars
<1>2. made \in Nat
  BY DEF IdInv
<1> DEFINE token == Put("api_token", 0, TRUE)
           first == Put("privkey", 0, made)
           second == Put("pubkey", 0, made)
<1>3. CASE todo = <<token>>
  <2>1. /\ Head(todo) = token /\ todo' = <<>>
    BY <1>1, <1>3
  <2>2. /\ Priv' = Priv /\ Pub' = Pub /\ \A k : IdOf(k)' = IdOf(k)
    BY <1>1, <2>1, SaveIdentity DEF IdentityFields, Priv, Pub, IdOf
  <2>3. priv = Priv /\ pub = Pub /\ Priv # None
    <3>1. todo \notin PubPuts /\ todo \notin PairPuts
      <4>1. \A p, q, r, s : <<p>> # <<q, r>> /\ <<p>> # <<q, r, s>>
        OBVIOUS
      <4>2. token # second
        <5>1. token.key = Key("api_token", 0) /\ second.key = Key("pubkey", 0)
          BY DEF Put
        <5>2. Key("api_token", 0) # Key("pubkey", 0)
          BY KeysDiffer
        <5>3. QED
          BY <5>1, <5>2
      <4>3. <<token>> # <<second>>
        BY <4>2
      <4>4. QED
        BY <1>3, <4>1, <4>3 DEF PubPuts, PairPuts
    <3>2. QED
      BY <1>1, <3>1 DEF Save, IdInv, IdByMode, BootSaves
  <2>4. BootSaves'
    BY <1>1, <2>1, <2>2, <2>3 DEF BootSaves, TokenPuts
  <2>5. PairMatches' /\ KnownKept' /\ HalfByCrash'
    BY <1>1, <2>2 DEF IdInv, PairMatches, KnownKept, HalfByCrash, Priv, Pub
  <2>6. IdByMode'
    BY <1>1, <2>2, <2>4 DEF IdInv, IdByMode
  <2>7. QED
    BY <1>1, <1>2, <2>5, <2>6 DEF IdInv
<1>4. CASE todo \in PubPuts /\ priv = made /\ pub = made /\ made > 0 /\ Pub = None /\ Priv = made
  <2>1. Head(todo) = second /\ todo' \in TokenPuts
    <3>1. CASE todo = <<second>>
      BY <1>1, <3>1 DEF TokenPuts
    <3>2. CASE todo = <<second, token>>
      <4>1. \A p, q : Head(<<p, q>>) = p /\ Tail(<<p, q>>) = <<q>>
        OBVIOUS
      <4>2. QED
        BY <1>1, <3>2, <4>1 DEF TokenPuts
    <3>3. QED
      BY <1>4, <3>1, <3>2 DEF PubPuts
  <2>2. /\ Priv' = Priv /\ Pub' = made /\ Stored("id_ovr", 0)' = Stored("id_ovr", 0)
        /\ \A k : IdOf(k)' = IdOf(k)
    BY <1>1, <2>1, SaveIdentity DEF IdentityFields, Priv, Pub, IdOf
  <2>3. made # None
    BY <1>2, KeyPairIsSome
  <2>4. BootSaves'
    BY <1>1, <1>4, <2>1, <2>2, <2>3 DEF BootSaves, TokenPuts
  <2>5. known = None
    BY <1>4, <2>3 DEF IdInv, KnownKept
  <2>6. PairMatches'
    <3>1. made \in 1 .. made
      BY <1>2, <1>4
    <3>2. QED
      BY <1>1, <1>4, <2>2, <3>1 DEF PairMatches, Priv, Pub
  <2>7. KnownKept' /\ HalfByCrash'
    BY <1>1, <2>2, <2>3, <2>5 DEF KnownKept, HalfByCrash
  <2>8. IdByMode'
    BY <1>1, <2>2, <2>4 DEF IdInv, IdByMode
  <2>9. QED
    BY <1>1, <1>2, <2>6, <2>7, <2>8 DEF IdInv
<1>5. CASE todo \in PairPuts /\ priv = made /\ pub = made /\ made > 0 /\ Pub = None /\ Priv = None
  <2>1. Head(todo) = first /\ todo' \in PubPuts
    <3>1. CASE todo = <<first, second>>
      BY <1>1, <3>1 DEF PubPuts
    <3>2. CASE todo = <<first, second, token>>
      <4>1. \A p, q, r : Head(<<p, q, r>>) = p /\ Tail(<<p, q, r>>) = <<q, r>>
        OBVIOUS
      <4>2. QED
        BY <1>1, <3>2, <4>1 DEF PubPuts
    <3>3. QED
      BY <1>5, <3>1, <3>2 DEF PairPuts
  <2>2. /\ Priv' = made /\ Pub' = Pub /\ Stored("id_ovr", 0)' = Stored("id_ovr", 0)
        /\ \A k : IdOf(k)' = IdOf(k)
    BY <1>1, <2>1, SaveIdentity DEF IdentityFields, Priv, Pub, IdOf
  <2>3. PubPuts' = PubPuts
    BY <1>1 DEF PubPuts
  <2>4. BootSaves'
    BY <1>1, <1>5, <2>1, <2>2, <2>3 DEF BootSaves
  <2>5. known = None
    BY <1>5 DEF IdInv, KnownKept
  <2>6. PairMatches'
    <3>1. made \in 1 .. made
      BY <1>2, <1>5
    <3>2. QED
      BY <1>1, <1>5, <2>2, <3>1 DEF PairMatches, Priv, Pub
  <2>7. KnownKept' /\ HalfByCrash'
    BY <1>1, <1>5, <2>5 DEF KnownKept, HalfByCrash
  <2>8. IdByMode'
    BY <1>1, <2>2, <2>4 DEF IdInv, IdByMode
  <2>9. QED
    BY <1>1, <1>2, <2>6, <2>7, <2>8 DEF IdInv
<1>6. QED
  BY <1>1, <1>3, <1>4, <1>5 DEF IdInv, IdByMode, BootSaves, TokenPuts

LEMMA SaveKeepsIdentity ==
  ASSUME TableInv, IdInv, Save
  PROVE  IdInv'
<1>1. /\ SaveNext /\ todo # <<>> /\ todo' = Tail(todo) /\ power' = power
      /\ torn' = torn /\ ending' = ending
      /\ priv' = priv /\ pub' = pub /\ deviceId' = deviceId /\ made' = made /\ known' = known
  BY DEF Save, SaveNext, Idle, identityVars, lifeVars
<1>2. CASE power = "portal"
  <2>1. known = None /\ todo = <<Put("id_ovr", 0, deviceId)>> /\ deviceId # None
    BY <1>1, <1>2 DEF IdInv, IdByMode, Idle
  <2>2. Head(todo) = Put("id_ovr", 0, deviceId) /\ todo' = <<>>
    BY <1>1, <2>1
  <2>3. Priv' = Priv /\ Pub' = Pub /\ \A k : IdOf(k)' = deviceId
    BY <1>1, <2>1, <2>2, SaveIdentity DEF IdentityFields, Priv, Pub, IdOf
  <2>4. PairMatches' /\ KnownKept' /\ HalfByCrash'
    BY <1>1, <2>1, <2>3 DEF IdInv, PairMatches, KnownKept, HalfByCrash, Priv, Pub
  <2>5. IdByMode'
    <3>1. IdOf(Pub)' = deviceId
      BY <2>1, <1>1, <2>2, SaveIdentity DEF IdentityFields, IdOf
    <3>2. QED
      BY <1>1, <1>2, <2>2, <2>3, <3>1 DEF IdInv, IdByMode, Idle
  <2>6. QED
    BY <1>1, <2>4, <2>5 DEF IdInv
<1>3. CASE power = "up"
  <2>1. Head(todo) \in Puts /\ Puts' \subseteq Puts
    BY <1>1, QueueStep DEF TableInv, InStep, Puts
  <2>2. /\ \A g \in IdentityFields : Stored(g, 0)' = Stored(g, 0)
    BY <1>1, <1>3, <2>1, SaveOfOthers DEF IdInv, IdByMode
  <2>3. /\ Priv' = Priv /\ Pub' = Pub /\ \A k : IdOf(k)' = IdOf(k)
    BY <2>2, SameIdentity
  <2>4. PairMatches' /\ KnownKept' /\ HalfByCrash'
    BY <1>1, <2>3 DEF IdInv, PairMatches, KnownKept, HalfByCrash, Priv, Pub
  <2>5. IdByMode'
    BY <1>1, <1>3, <2>1, <2>3 DEF IdInv, IdByMode
  <2>6. QED
    BY <1>1, <2>4, <2>5 DEF IdInv
<1>4. CASE power \in {"off", "halted"}
  BY <1>1, <1>4 DEF IdInv, IdByMode, Idle
<1>5. power \in {"off", "boot", "halted", "portal", "up"}
  BY DEF IdInv, IdByMode
<1>6. QED
  BY <1>2, <1>3, <1>4, <1>5, BootSaveKeeps

-----------------------------------------------------------------------------
\* What the handlers of a running node save is not of the identity, and only
\* the update and its confirmation save the note of the update.
LEMMA HandlersPuts ==
  ASSUME Subscribe \/ ConfigureMessage \/ Update \/ OtaTick
  PROVE  /\ flash' = flash /\ power = "up" /\ power' = power
         /\ \A p \in Puts' : p.key \notin IdentityKeys
         /\ Subscribe \/ ConfigureMessage => \A p \in Puts' : p.key # Key("pending", 0)
<1>1. \A f, i, v : /\ f \notin IdentityFields => Put(f, i, v).key \notin IdentityKeys
                   /\ f # "pending" => Put(f, i, v).key # Key("pending", 0)
  BY IdentityKeyIs, KeysDiffer DEF Put
<1>2. CASE Subscribe
  <2>1. PICK t, p : SubMapSet(t, p)
    BY <1>2 DEF Subscribe
  <2>2. todo' = SubSaves(subMap', subHead') /\ flash' = flash
    BY <2>1 DEF SubMapSet, Saves
  <2>3. Puts' = {Put("head", 0, subHead')}
                  \cup {Put("t", i, subMap'[i].target) : i \in SubSlots}
                  \cup {Put("p", i, subMap'[i].prefix) : i \in SubSlots}
    BY <2>2, SubSavesPuts DEF Puts
  <2>4. \A p1 \in Puts' : p1.key \notin IdentityKeys /\ p1.key # Key("pending", 0)
    <3>1. "head" \notin IdentityFields /\ "t" \notin IdentityFields /\ "p" \notin IdentityFields
      BY DEF IdentityFields
    <3>2. QED
      BY <1>1, <2>3, <3>1
  <2>5. power = "up" /\ power' = power
    BY <1>2 DEF Subscribe, NodeRuns, bootVars
  <2>6. QED
    BY <2>2, <2>4, <2>5
<1>3. CASE ConfigureMessage
  <2>1. PICK s, a : RouterSet(s, a)
    BY <1>3 DEF ConfigureMessage, SetById, DeleteById
  <2>2. todo' = ActionSaves(s, a) /\ flash' = flash
    BY <2>1 DEF RouterSet, Saves
  <2>3. Puts' = {Put("mid", s, a.id), Put("mwh", s, a.wh), Put("msi", s, a.si)}
    BY <2>2, ThreeSaves DEF Puts, ActionSaves
  <2>4. \A p \in Puts' : p.key \notin IdentityKeys /\ p.key # Key("pending", 0)
    <3>1. "mid" \notin IdentityFields /\ "mwh" \notin IdentityFields /\ "msi" \notin IdentityFields
      BY DEF IdentityFields
    <3>2. QED
      BY <1>1, <2>3, <3>1
  <2>5. power = "up" /\ power' = power
    BY <1>3 DEF ConfigureMessage, NodeRuns, bootVars
  <2>6. QED
    BY <2>2, <2>4, <2>5
<1>4. CASE Update \/ OtaTick
  <2>1. flash' = flash /\ power = "up" /\ power' = power /\ \E v : todo' = <<Put("pending", 0, v)>>
    BY <1>4 DEF Update, OtaTick, Flashed, Confirm, NoteDropped, Saves, NodeRuns, bootVars
  <2>2. PICK v : todo' = <<Put("pending", 0, v)>>
    BY <2>1
  <2>3. Puts' = {Put("pending", 0, v)}
    BY <2>2, OneSave DEF Puts
  <2>4. "pending" \notin IdentityFields
    BY DEF IdentityFields
  <2>5. ~(Subscribe \/ ConfigureMessage) \/ \A p \in Puts' : p.key # Key("pending", 0)
    BY <1>2, <1>3
  <2>6. QED
    BY <1>1, <2>1, <2>3, <2>4, <2>5
<1>5. QED
  BY <1>2, <1>3, <1>4

LEMMA InitIdentity == Init => IdInv
<1> SUFFICES ASSUME Init PROVE IdInv
  OBVIOUS
<1>1. /\ todo = <<>> /\ priv = None /\ pub = None /\ deviceId = None /\ known = None
      /\ power = "off"
  BY DEF Init, IdentityInit
<1>2. \/ Priv = None /\ Pub = None /\ made = 0
      \/ Priv = 1 /\ Pub = 1 /\ made = 1
  <2>1. Key("privkey", 0) \in Keys /\ Key("pubkey", 0) \in Keys
    BY IdentityKeyIs DEF IdentityFields
  <2>2. CASE flash = New /\ made = 0
    BY <2>1, <2>2 DEF New, Stored, Priv, Pub
  <2>3. CASE flash = Old /\ made = 1
    <3>1. /\ Key("privkey", 0) \notin {Key("pubkey", 0), Key("api_token", 0), Key("t", 0),
                                       Key("p", 0)}
          /\ Key("pubkey", 0) \notin {Key("api_token", 0), Key("t", 0), Key("p", 0)}
      BY KeysDiffer
    <3>2. flash[Key("privkey", 0)] = 1 /\ flash[Key("pubkey", 0)] = 1
      BY <2>1, <2>3, <3>1 DEF Old, New
    <3>3. QED
      BY <2>3, <3>2 DEF Stored, Priv, Pub
  <2>4. QED
    BY <2>2, <2>3 DEF Init
<1>3. 1 # None
  BY FlashAssumption
<1>4. PairMatches /\ made \in Nat
  BY <1>2 DEF PairMatches, Priv, Pub
<1>5. KnownKept /\ HalfByCrash /\ IdByMode
  BY <1>1, <1>2, <1>3 DEF KnownKept, HalfByCrash, IdByMode, Idle
<1>6. QED
  BY <1>4, <1>5 DEF IdInv

LEMMA NextIdentity ==
  ASSUME TableInv, IdInv, [Next]_vars
  PROVE  IdInv'
<1>1. CASE UNCHANGED vars
  BY <1>1, IdentityStays DEF vars, flashVars, lifeVars
<1>2. CASE Restart
  <2>1. GoDown(FALSE) /\ torn' = torn /\ Idle
    BY <1>2 DEF Restart
  <2>2. torn \in Nat /\ torn' = torn + (IF Idle THEN 0 ELSE 1)
    BY <2>1 DEF TableInv, MixInv
  <2>3. QED
    BY <2>1, <2>2, GoDownKeepsIdentity
<1>3. CASE Crash
  <2>1. PICK lost \in BOOLEAN : GoDown(lost)
    BY <1>3 DEF Crash
  <2>2. torn' = torn + (IF Idle THEN 0 ELSE 1) /\ torn \in Nat
    BY <1>3 DEF Crash, TableInv, MixInv
  <2>3. QED
    BY <2>1, <2>2, GoDownKeepsIdentity
<1>4. CASE Subscribe \/ ConfigureMessage \/ Update \/ OtaTick
  <2>1. UNCHANGED <<identityVars, torn>> /\ (ending' = ending \/ ending' = TRUE)
    BY <1>4 DEF Subscribe, ConfigureMessage, Update, OtaTick, bootVars
  <2>2. QED
    BY <1>4, <2>1, HandlersPuts, IdentityStays
<1>5. CASE PortalEnds \/ LinkMoves \/ MessageComes \/ AppAtInbox \/ TunnelCommand \/ LanHost \/ Tick
  <2>1. /\ UNCHANGED <<flashVars, identityVars, power, torn>>
        /\ ending' = ending \/ ending' = TRUE
    <3>1. CASE PortalEnds \/ LinkMoves \/ MessageComes
      BY <3>1 DEF PortalEnds, LinkMoves, MessageComes, bootVars
    <3>2. CASE AppAtInbox \/ TunnelCommand
      BY <3>2 DEF AppAtInbox, TunnelCommand, bootVars
    <3>3. CASE LanHost \/ Tick
      BY <3>3 DEF LanHost, Tick, Ticks, lifeVars
    <3>4. QED
      BY <1>5, <3>1, <3>2, <3>3
  <2>2. QED
    BY <2>1, IdentityStays DEF flashVars
<1>6. QED
  BY <1>1, <1>2, <1>3, <1>4, <1>5, BootKeepsIdentity, SaveKeepsIdentity, HaltKeepsIdentity,
     SetupEndsKeepsIdentity, PortalSetIdKeepsIdentity, FactoryResetKeepsIdentity
     DEF Next

-----------------------------------------------------------------------------
(***************************************************************************)
(* The note of an update, and the permission of the terminal.              *)
(***************************************************************************)
NoteSettles == \/ todo = NoteDropped /\ armed = FALSE
               \/ /\ Pending \in {None, fw} /\ armed = (Pending = fw)
                  /\ \A p \in Puts : p.key # Key("pending", 0)

OtaInv == /\ fw \in Versions /\ staged \in Versions \cup {None}
          /\ power = "up" /\ ~ending => NoteSettles /\ tEnabled = policy

LEMMA InitOtaInv == Init => OtaInv
BY OtaAssumption DEF Init, OtaInit, OtaInv

LEMMA OtaStays ==
  ASSUME OtaInv, UNCHANGED <<otaVars, power, tEnabled, policy>>, Pending' = Pending,
         todo' = todo \/ \A p \in Puts' : p.key # Key("pending", 0),
         todo' # todo => todo # NoteDropped,
         ending' = ending \/ ending' = TRUE
  PROVE  OtaInv'
<1>1. /\ fw' = fw /\ staged' = staged /\ armed' = armed /\ power' = power
      /\ tEnabled' = tEnabled /\ policy' = policy
  BY DEF otaVars
<1>2. NoteSettles => NoteSettles'
  <2>1. CASE todo' = todo
    BY <1>1, <2>1 DEF NoteSettles, Puts, NoteDropped
  <2>2. CASE todo' # todo
    BY <1>1, <2>2 DEF NoteSettles, NoteDropped
  <2>3. QED
    BY <2>1, <2>2
<1>3. QED
  BY <1>1, <1>2 DEF OtaInv

LEMMA SaveKeepsOta ==
  ASSUME TableInv, OtaInv, Save
  PROVE  OtaInv'
<1>1. /\ SaveNext /\ todo # <<>> /\ todo' = Tail(todo) /\ power' = power /\ ending' = ending
      /\ fw' = fw /\ staged' = staged /\ armed' = armed
      /\ tEnabled' = tEnabled /\ policy' = policy
  BY DEF Save, SaveNext, Idle, otaVars, lifeVars, tunnelVars
<1>2. DOMAIN flash = Keys /\ Key("pending", 0) \in Keys
  BY DEF TableInv, FlashSound, Keys, OtaKeys
<1>3. CASE todo = NoteDropped /\ armed = FALSE
  <2>1. Head(todo) = Put("pending", 0, None) /\ todo' = <<>>
    BY <1>1, <1>3 DEF NoteDropped
  <2>2. Pending' = None
    BY <1>1, <1>2, <2>1, SaveEffect DEF Pending
  <2>3. fw # None
    BY OtaAssumption DEF OtaInv
  <2>4. Puts' = {}
    BY <2>1, NoSaves DEF Puts
  <2>5. NoteSettles'
    BY <1>1, <1>3, <2>2, <2>3, <2>4 DEF NoteSettles
  <2>6. QED
    BY <1>1, <2>5 DEF OtaInv
<1>4. CASE /\ Pending \in {None, fw} /\ armed = (Pending = fw)
           /\ \A p \in Puts : p.key # Key("pending", 0)
  <2>1. /\ Head(todo) \in Puts /\ Puts' \subseteq Puts
    BY <1>1, QueueStep DEF TableInv, InStep, Puts
  <2>2. PICK f, i, v : Head(todo) = Put(f, i, v) /\ Key(f, i) \in Keys
    BY <1>1, HeadIsPut
  <2>3. Key(f, i) # Key("pending", 0)
    BY <1>4, <2>1, <2>2 DEF Put
  <2>4. ~("pending" = f /\ 0 = i)
    BY <2>3
  <2>5. Pending' = Pending
    BY <1>1, <1>2, <2>2, <2>4, SaveEffect DEF Pending
  <2>6. NoteSettles'
    BY <1>1, <1>4, <2>1, <2>5 DEF NoteSettles
  <2>7. QED
    BY <1>1, <2>6 DEF OtaInv
<1>5. CASE ~(power = "up" /\ ~ending)
  BY <1>1, <1>5 DEF OtaInv
<1>6. QED
  BY <1>3, <1>4, <1>5 DEF OtaInv, NoteSettles

LEMMA ComeUpKeepsOta ==
  ASSUME OtaInv, ComeUp
  PROVE  OtaInv'
<1>1. /\ flash' = flash /\ todo' = StaleSaves /\ fw' = fw /\ staged' = staged
      /\ armed' = (Pending = fw) /\ tEnabled' = policy /\ policy' = policy
  BY DEF ComeUp, OtaLoad, Saves, TunnelLoad
<1>2. Pending' = Pending
  BY <1>1 DEF Pending, Stored
<1>3. CASE Pending \in {None, fw}
  <2>1. todo' = <<>> /\ Puts' = {}
    BY <1>1, <1>3, NoSaves DEF StaleSaves, Puts
  <2>2. NoteSettles'
    BY <1>1, <1>2, <1>3, <2>1 DEF NoteSettles
  <2>3. QED
    BY <1>1, <2>2 DEF OtaInv
<1>4. CASE Pending \notin {None, fw}
  <2>1. todo' = NoteDropped /\ armed' = FALSE
    BY <1>1, <1>4 DEF StaleSaves
  <2>2. NoteSettles'
    BY <2>1 DEF NoteSettles, NoteDropped
  <2>3. QED
    BY <1>1, <2>2 DEF OtaInv
<1>5. QED
  BY <1>3, <1>4

LEMMA GoDownTypesOta ==
  ASSUME OtaInv, NEW lost \in BOOLEAN, GoDown(lost)
  PROVE  OtaInv'
BY DEF OtaInv, GoDown, BootLoader

LEMMA NextOta ==
  ASSUME TableInv, OtaInv, [Next]_vars
  PROVE  OtaInv'
<1>1. CASE UNCHANGED vars
  BY <1>1, OtaStays DEF vars, flashVars, otaVars, tunnelVars, lifeVars, Pending, Stored
<1>2. CASE Restart
  BY <1>2, GoDownTypesOta DEF Restart
<1>3. CASE Crash
  BY <1>3, GoDownTypesOta DEF Crash
<1>4. CASE Boot \/ Halt \/ EnterPortal \/ PortalSetId \/ PortalEnds
  <2>1. power' # "up" /\ fw' = fw /\ staged' = staged
    <3>1. CASE Boot \/ Halt \/ EnterPortal
      BY <3>1 DEF Boot, Halt, EnterPortal, otaVars
    <3>2. CASE PortalSetId \/ PortalEnds
      BY <3>2 DEF PortalSetId, PortalEnds, PortalAnswers, otaVars
    <3>3. QED
      BY <1>4, <3>1, <3>2
  <2>2. QED
    BY <2>1 DEF OtaInv
<1>5. CASE FactoryReset
  BY <1>5 DEF FactoryReset, otaVars, OtaInv
<1>6. CASE Update
  BY <1>6 DEF Update, Flashed, OtaInv
<1>7. CASE OtaTick
  <2>1. /\ todo' = NoteDropped /\ armed' = FALSE /\ fw' = fw /\ staged' = staged
        /\ power' = power /\ ending' = ending /\ tEnabled' = tEnabled /\ policy' = policy
    BY <1>7 DEF OtaTick, Confirm, Saves, bootVars, tunnelVars
  <2>2. NoteSettles'
    BY <2>1 DEF NoteSettles, NoteDropped
  <2>3. QED
    BY <2>1, <2>2 DEF OtaInv
<1>8. CASE Subscribe \/ ConfigureMessage
  <2>1. /\ UNCHANGED <<otaVars, tEnabled, policy>> /\ ending' = ending /\ todo = <<>>
    BY <1>8 DEF Subscribe, ConfigureMessage, tunnelVars, NodeRuns, Idle
  <2>2. todo # NoteDropped
    BY <2>1 DEF NoteDropped
  <2>3. /\ flash' = flash /\ power' = power
        /\ \A p \in Puts' : p.key # Key("pending", 0)
    BY <1>8, HandlersPuts
  <2>4. Pending' = Pending
    BY <2>3 DEF Pending, Stored
  <2>5. QED
    BY <2>1, <2>2, <2>3, <2>4, OtaStays
<1>9. CASE TunnelCommand
  <2>1. /\ UNCHANGED <<flash, todo, fw, staged, armed, power, ending>>
    BY <1>9 DEF TunnelCommand, flashVars, otaVars, bootVars
  <2>2. tEnabled = policy => tEnabled' = policy'
    BY <1>9 DEF TunnelCommand, OnTunOpen, OnTunData, OnTunClose, SetEnabled
  <2>3. NoteSettles => NoteSettles'
    BY <2>1 DEF NoteSettles, NoteDropped, Pending, Stored, Puts
  <2>4. QED
    BY <2>1, <2>2, <2>3 DEF OtaInv
<1>10. CASE LinkMoves \/ MessageComes \/ AppAtInbox \/ LanHost \/ Tick
  <2>1. UNCHANGED <<flashVars, otaVars, power, ending, tEnabled, policy>>
    <3>1. CASE LinkMoves \/ MessageComes
      BY <3>1 DEF LinkMoves, MessageComes, tunnelVars, bootVars
    <3>2. CASE AppAtInbox
      BY <3>2 DEF AppAtInbox, tunnelVars, bootVars
    <3>3. CASE LanHost
      BY <3>3 DEF LanHost, HostWrites, HostCloses, lifeVars
    <3>4. CASE Tick
      BY <3>4 DEF Tick, Ticks, SomeTick, TunTick, lifeVars
    <3>5. QED
      BY <1>10, <3>1, <3>2, <3>3, <3>4
  <2>2. Pending' = Pending
    BY <2>1 DEF Pending, Stored, flashVars
  <2>3. QED
    BY <2>1, <2>2, OtaStays DEF flashVars
<1>11. QED
  BY <1>1, <1>2, <1>3, <1>4, <1>5, <1>6, <1>7, <1>8, <1>9, <1>10, SaveKeepsOta, ComeUpKeepsOta
     DEF Next

-----------------------------------------------------------------------------
\* What RAM and flash agree on, whatever the node was doing.
SettledInv == TableInv /\ IdInv /\ OtaInv

LEMMA NextSettled ==
  ASSUME SettledInv, [Next]_vars
  PROVE  SettledInv'
<1>1. power = "off" => Idle
  BY DEF SettledInv, IdInv, IdByMode
<1>2. QED
  BY <1>1, NextTables, NextIdentity, NextOta DEF SettledInv

\* The inductive invariant of what is kept in flash, at every point of every
\* handler: what RAM and flash differ in is still to be saved, a mixed slot
\* costs a crash, and the identity is that of the pair in flash.
THEOREM NodeLifeSettled == Spec => []SettledInv
<1>1. Init => SettledInv
  BY InitTables, InitIdentity, InitOtaInv DEF SettledInv
<1>2. SettledInv /\ [Next]_vars => SettledInv'
  BY NextSettled
<1>3. QED
  BY <1>1, <1>2, PTL DEF Spec

\* identity_init, sub_map_init, message_router_init, ota_init and tunnel_init
\* against their setters: between two handlers a restart would load what RAM
\* holds, whatever crashed before.
THEOREM NodeLifeRestart == Spec => []RestartChangesNothing
<1>1. SettledInv => RestartChangesNothing
  <2> SUFFICES ASSUME SettledInv PROVE RestartChangesNothing
    OBVIOUS
  <2>1. ASSUME power \in {"portal", "up"}, Idle, ~ending
        PROVE  /\ priv = Stored("privkey", 0) /\ deviceId = IdOf(Stored("pubkey", 0))
               /\ subMap = StoredMap /\ subHead = StoredHead
    <3>1. priv = Stored("privkey", 0) /\ deviceId = IdOf(Stored("pubkey", 0))
      BY <2>1 DEF SettledInv, IdInv, IdByMode, Priv, Pub, Idle
    <3>2. subMap = StoredMap /\ subHead = StoredHead
      BY <2>1, IdleAllIn DEF SettledInv, TableInv, InStep, SubAllIn
    <3>3. QED
      BY <3>1, <3>2
  <2>2. ASSUME NodeRuns
        PROVE  /\ actions = StoredActions /\ tEnabled = policy
               /\ Pending \in {None, fw} /\ (armed <=> Pending = fw)
    <3>1. power = "up" /\ Idle /\ ~ending
      BY <2>2 DEF NodeRuns
    <3>2. actions = StoredActions
      BY <3>1, IdleAllIn DEF SettledInv, TableInv, RouterAllIn
    <3>3. tEnabled = policy /\ NoteSettles
      BY <3>1 DEF SettledInv, OtaInv
    <3>4. Pending \in {None, fw} /\ (armed <=> Pending = fw)
      BY <3>1, <3>3 DEF NoteSettles, NoteDropped, Idle
    <3>5. QED
      BY <3>2, <3>3, <3>4
  <2>3. QED
    BY <2>1, <2>2 DEF RestartChangesNothing
<1>2. QED
  BY <1>1, NodeLifeSettled, PTL

\* message_router_set and sub_map_set save key by key: no more slots hold
\* parts of two settings than crashes came within a handler, and without such
\* a crash no message runs what was configured for another id.
THEOREM NodeLifeMixes == Spec => []OnlyCrashesMix
<1>1. SettledInv => OnlyCrashesMix
  BY MixedInRam DEF SettledInv, TableInv, MixInv, Mixes, OnlyCrashesMix
<1>2. QED
  BY <1>1, NodeLifeSettled, PTL

-----------------------------------------------------------------------------
(***************************************************************************)
(* The terminal: where the chunks of the LAN hosts are.                    *)
(***************************************************************************)
Chunks == [n : Nat, tid : Tids]
Frames == [tid : Tids, chunk : Chunks]

\* The chunks 1 .. m are with the BE (t, in order), unsent (u) or cut (c),
\* each with one of them.
Shared(t, u, c, m) ==
  /\ m \in Nat /\ t \in Seq(Frames)
  /\ u \in SUBSET Chunks /\ IsFiniteSet(u)
  /\ c \in SUBSET Chunks /\ IsFiniteSet(c)
  /\ \A i, j \in DOMAIN t : i < j => t[i].chunk.n < t[j].chunk.n
  /\ \A i \in DOMAIN t : t[i].tid = t[i].chunk.tid
  /\ {x.n : x \in {t[i].chunk : i \in DOMAIN t} \cup u \cup c} = 1 .. m
  /\ Len(t) + Cardinality(u) + Cardinality(c) = m

\* The chunks of q follow chunk m without a gap.
Follow(q, m) == q \in Seq(Chunks) /\ \A i \in DOMAIN q : q[i].n = m + i

LEMMA IntervalSize ==
  ASSUME NEW n \in Nat
  PROVE  IsFiniteSet(1 .. n) /\ Cardinality(1 .. n) = n
BY FS_Interval

LEMMA ChunksCount ==
  ASSUME NEW m \in Nat, NEW q, Follow(q, m)
  PROVE  /\ IsFiniteSet(ChunksIn(q)) /\ Cardinality(ChunksIn(q)) = Len(q)
         /\ ChunksIn(q) \in SUBSET Chunks
         /\ {x.n : x \in ChunksIn(q)} = m + 1 .. m + Len(q)
<1> DEFINE L == Len(q)
           f == [i \in 1 .. L |-> q[i]]
<1>1. q \in Seq(Chunks) /\ L \in Nat /\ DOMAIN q = 1 .. L /\ \A i \in 1 .. L : q[i].n = m + i
  BY DEF Follow
<1>2. ChunksIn(q) \in SUBSET Chunks
  BY <1>1 DEF ChunksIn
<1>3. f \in Surjection(1 .. L, ChunksIn(q))
  <2>1. f \in [1 .. L -> ChunksIn(q)]
    BY <1>1 DEF ChunksIn
  <2>2. \A x \in ChunksIn(q) : \E i \in 1 .. L : f[i] = x
    BY <1>1 DEF ChunksIn
  <2>3. QED
    BY <2>1, <2>2 DEF Surjection
<1>4. f \in Injection(1 .. L, ChunksIn(q))
  <2>1. \A i, j \in 1 .. L : f[i] = f[j] => i = j
    <3> TAKE i, j \in 1 .. L
    <3>1. HAVE f[i] = f[j]
    <3>2. q[i].n = m + i /\ q[j].n = m + j /\ q[i] = q[j]
      BY <1>1, <3>1
    <3>3. QED
      BY <3>2
  <2>2. QED
    BY <1>3, <2>1 DEF Surjection, Injection, IsInjective
<1>5. IsFiniteSet(1 .. L) /\ Cardinality(1 .. L) = L
  BY <1>1, IntervalSize
<1>6. IsFiniteSet(ChunksIn(q)) /\ Cardinality(ChunksIn(q)) = L
  <2> HIDE DEF f, L
  <2>1. QED
    BY <1>3, <1>4, <1>5, FS_Surjection
<1>7. {x.n : x \in ChunksIn(q)} = m + 1 .. m + L
  <2>1. ASSUME NEW x \in ChunksIn(q) PROVE x.n \in m + 1 .. m + L
    BY <1>1 DEF ChunksIn
  <2>2. ASSUME NEW k \in m + 1 .. m + L PROVE \E x \in ChunksIn(q) : x.n = k
    <3>1. k - m \in 1 .. L
      BY <1>1
    <3>2. q[k - m].n = m + (k - m) /\ m + (k - m) = k
      BY <1>1, <3>1
    <3>3. QED
      BY <1>1, <3>1, <3>2 DEF ChunksIn
  <2>3. QED
    BY <2>1, <2>2
<1>8. QED
  BY <1>2, <1>6, <1>7

\* A session is cut off: what is left in the TCP buffer joins the cut.
LEMMA CutAdds ==
  ASSUME NEW t, NEW u, NEW c, NEW m, Shared(t, u, c, m), NEW q, Follow(q, m)
  PROVE  Shared(t, u, c \cup ChunksIn(q), m + Len(q))
<1> DEFINE d == c \cup ChunksIn(q)
           Sent == {t[i].chunk : i \in DOMAIN t}
<1>1. m \in Nat /\ Len(q) \in Nat
  BY DEF Shared, Follow
<1>2. /\ IsFiniteSet(ChunksIn(q)) /\ Cardinality(ChunksIn(q)) = Len(q)
      /\ ChunksIn(q) \in SUBSET Chunks
      /\ {x.n : x \in ChunksIn(q)} = m + 1 .. m + Len(q)
  BY <1>1, ChunksCount
<1>3. {x.n : x \in Sent \cup u \cup c} = 1 .. m
  BY DEF Shared
<1>4. c \cap ChunksIn(q) = {}
  <2>1. \A x \in c : x.n \in 1 .. m
    BY <1>3
  <2>2. \A x \in ChunksIn(q) : x.n \in m + 1 .. m + Len(q)
    BY <1>2
  <2>3. QED
    BY <1>1, <2>1, <2>2
<1>5. IsFiniteSet(d) /\ Cardinality(d) = Cardinality(c) + Len(q)
  <2>1. IsFiniteSet(c) /\ Cardinality(c) \in Nat
    BY FS_CardinalityType DEF Shared
  <2>2. Cardinality(c \cap ChunksIn(q)) = 0
    BY <1>4, FS_EmptySet
  <2>3. QED
    <3>1. /\ IsFiniteSet(c \cup ChunksIn(q))
          /\ Cardinality(c \cup ChunksIn(q))
               = Cardinality(c) + Cardinality(ChunksIn(q)) - Cardinality(c \cap ChunksIn(q))
      BY <1>2, <2>1, FS_Union
    <3>2. QED
      BY <1>1, <1>2, <2>1, <2>2, <3>1
<1>6. {x.n : x \in Sent \cup u \cup d} = 1 .. m + Len(q)
  <2>1. {x.n : x \in Sent \cup u \cup d}
          = {x.n : x \in Sent \cup u \cup c} \cup {x.n : x \in ChunksIn(q)}
    <3> HIDE DEF Sent
    <3>1. QED
      OBVIOUS
  <2>2. (1 .. m) \cup (m + 1 .. m + Len(q)) = 1 .. m + Len(q)
    BY <1>1
  <2>3. QED
    BY <1>2, <1>3, <2>1, <2>2
<1>7. Len(t) + Cardinality(u) + Cardinality(d) = m + Len(q)
  <2>1. Len(t) \in Nat /\ Cardinality(u) \in Nat /\ Cardinality(c) \in Nat
    BY FS_CardinalityType DEF Shared
  <2>2. Len(t) + Cardinality(u) + Cardinality(c) = m
    BY DEF Shared
  <2> HIDE DEF d
  <2>3. QED
    BY <1>1, <1>5, <2>1, <2>2
<1>8. QED
  BY <1>1, <1>2, <1>5, <1>6, <1>7 DEF Shared

\* A send fails: the next chunk is lost.
LEMMA LostAdds ==
  ASSUME NEW t, NEW u, NEW c, NEW m, Shared(t, u, c, m), NEW x \in Chunks, x.n = m + 1
  PROVE  Shared(t, u \cup {x}, c, m + 1)
<1> DEFINE v == u \cup {x}
           Sent == {t[i].chunk : i \in DOMAIN t}
<1>1. m \in Nat
  BY DEF Shared
<1>2. {y.n : y \in Sent \cup u \cup c} = 1 .. m
  BY DEF Shared
<1>3. x \notin u
  BY <1>1, <1>2
<1>4. IsFiniteSet(v) /\ Cardinality(v) = Cardinality(u) + 1
  BY <1>3, FS_AddElement DEF Shared
<1>5. {y.n : y \in Sent \cup v \cup c} = 1 .. m + 1
  <2>1. {y.n : y \in Sent \cup v \cup c} = {y.n : y \in Sent \cup u \cup c} \cup {x.n}
    <3> HIDE DEF Sent
    <3>1. QED
      OBVIOUS
  <2>2. (1 .. m) \cup {m + 1} = 1 .. m + 1
    BY <1>1
  <2>3. QED
    BY <1>2, <2>1, <2>2
<1>6. Len(t) + Cardinality(v) + Cardinality(c) = m + 1
  <2>1. Len(t) \in Nat /\ Cardinality(u) \in Nat /\ Cardinality(c) \in Nat
    BY FS_CardinalityType DEF Shared
  <2>2. Len(t) + Cardinality(u) + Cardinality(c) = m
    BY DEF Shared
  <2> HIDE DEF v
  <2>3. QED
    BY <1>1, <1>4, <2>1, <2>2
<1>7. QED
  BY <1>1, <1>4, <1>5, <1>6 DEF Shared

\* The first k chunks of the buffer are sent on.
LEMMA SentAdds ==
  ASSUME NEW t, NEW u, NEW c, NEW m, Shared(t, u, c, m), NEW q, Follow(q, m),
         NEW d \in Tids, \A i \in DOMAIN q : q[i].tid = d,
         NEW k \in 0 .. Len(q)
  PROVE  Shared(t \o [i \in 1 .. k |-> [tid |-> d, chunk |-> q[i]]], u, c, m + k)
<1> DEFINE e == [i \in 1 .. k |-> [tid |-> d, chunk |-> q[i]]]
           s == t \o e
<1>1. /\ m \in Nat /\ q \in Seq(Chunks) /\ Len(q) \in Nat /\ k \in Nat
      /\ DOMAIN q = 1 .. Len(q)
      /\ \A i \in 1 .. k : q[i] \in Chunks /\ q[i].n = m + i /\ q[i].tid = d
  BY DEF Shared, Follow
<1>2. t \in Seq(Frames) /\ Len(t) \in Nat /\ DOMAIN t = 1 .. Len(t)
  BY DEF Shared
<1>3. e \in Seq(Frames) /\ Len(e) = k
  <2>1. e \in [1 .. k -> Frames]
    BY <1>1 DEF Frames
  <2> HIDE DEF e
  <2>2. QED
    BY <1>1, <2>1
<1>4. \A i \in 1 .. k : e[i].tid = d /\ e[i].chunk = q[i]
  OBVIOUS
<1> HIDE DEF e
<1>5. /\ s \in Seq(Frames) /\ Len(s) = Len(t) + k /\ DOMAIN s = 1 .. Len(t) + k
      /\ \A i \in 1 .. Len(t) : s[i] = t[i]
      /\ \A i \in 1 .. k : s[Len(t) + i] = e[i]
  <2>1. s \in Seq(Frames) /\ Len(s) = Len(t) + Len(e)
    BY <1>2, <1>3
  <2>2. \A i \in 1 .. Len(t) + Len(e) : s[i] = IF i <= Len(t) THEN t[i] ELSE e[i - Len(t)]
    BY <1>2, <1>3
  <2>3. \A i \in 1 .. k : /\ Len(t) + i \in 1 .. Len(t) + k /\ ~(Len(t) + i <= Len(t))
                          /\ Len(t) + i - Len(t) = i
    BY <1>1, <1>2
  <2>4. \A i \in 1 .. Len(t) : i \in 1 .. Len(t) + k /\ i <= Len(t)
    BY <1>1, <1>2
  <2> HIDE DEF s
  <2>5. Len(s) = Len(t) + k /\ DOMAIN s = 1 .. Len(t) + k
    BY <1>3, <2>1
  <2>6. \A i \in 1 .. Len(t) : s[i] = t[i]
    BY <1>3, <2>2, <2>4
  <2>7. \A i \in 1 .. k : s[Len(t) + i] = e[i]
    BY <1>3, <2>2, <2>3
  <2>8. QED
    BY <2>1, <2>5, <2>6, <2>7
<1>6. \A i \in 1 .. Len(t) + k : i \in 1 .. Len(t) \/ (i - Len(t) \in 1 .. k /\ i = Len(t) + (i - Len(t)))
  BY <1>1, <1>2
<1> HIDE DEF s
<1>7. \A i \in 1 .. k : /\ s[Len(t) + i].chunk = q[i] /\ s[Len(t) + i].tid = d
                        /\ s[Len(t) + i].chunk.n = m + i
  BY <1>1, <1>4, <1>5
<1>8. {x.n : x \in {t[i].chunk : i \in DOMAIN t} \cup u \cup c} = 1 .. m
  BY DEF Shared
<1>9. \A i \in 1 .. Len(t) : t[i].chunk.n \in 1 .. m /\ s[i].chunk.n = t[i].chunk.n
  BY <1>2, <1>5, <1>8
<1>10. \A i, j \in DOMAIN s : i < j => s[i].chunk.n < s[j].chunk.n
  <2> TAKE i, j \in DOMAIN s
  <2>1. HAVE i < j
  <2>2. i \in Nat /\ j \in Nat
    BY <1>1, <1>2, <1>5
  <2>3. CASE j \in 1 .. Len(t)
    <3>1. i \in 1 .. Len(t)
      BY <1>2, <1>5, <2>1, <2>3
    <3>2. QED
      BY <1>2, <1>9, <2>1, <2>3, <3>1 DEF Shared
  <2>4. CASE i \in 1 .. Len(t) /\ j \notin 1 .. Len(t)
    <3>1. s[j].chunk.n = m + (j - Len(t)) /\ j - Len(t) \in 1 .. k
      BY <1>5, <1>6, <1>7, <2>4
    <3>2. QED
      <4>1. s[i].chunk.n \in 1 .. m
        BY <1>9, <2>4
      <4>2. QED
        BY <1>1, <1>2, <2>2, <3>1, <4>1
  <2>5. CASE i \notin 1 .. Len(t)
    <3>1. j \notin 1 .. Len(t)
      BY <1>2, <1>5, <2>1, <2>5
    <3>2. /\ s[j].chunk.n = m + (j - Len(t)) /\ j - Len(t) \in 1 .. k
          /\ s[i].chunk.n = m + (i - Len(t)) /\ i - Len(t) \in 1 .. k
      BY <1>5, <1>6, <1>7, <2>5, <3>1
    <3>3. QED
      BY <1>1, <1>2, <2>1, <2>2, <3>2
  <2>6. QED
    BY <2>3, <2>4, <2>5
<1>11. \A i \in DOMAIN s : s[i].tid = s[i].chunk.tid
  <2> TAKE i \in DOMAIN s
  <2>1. CASE i \in 1 .. Len(t)
    BY <1>2, <1>5, <2>1 DEF Shared
  <2>2. CASE i \notin 1 .. Len(t)
    <3>1. i - Len(t) \in 1 .. k /\ i = Len(t) + (i - Len(t))
      BY <1>5, <1>6, <2>2
    <3>2. QED
      BY <1>1, <1>7, <3>1
  <2>3. QED
    BY <2>1, <2>2
<1>12. {x.n : x \in {s[i].chunk : i \in DOMAIN s} \cup u \cup c} = 1 .. m + k
  <2>1. ASSUME NEW x \in {s[i].chunk : i \in DOMAIN s} \cup u \cup c PROVE x.n \in 1 .. m + k
    <3>1. CASE x \in u \cup c
      BY <1>1, <1>8, <3>1
    <3>2. CASE x \in {s[i].chunk : i \in DOMAIN s}
      <4>1. PICK i \in DOMAIN s : x = s[i].chunk
        BY <3>2
      <4>2. CASE i \in 1 .. Len(t)
        BY <1>1, <1>9, <4>1, <4>2
      <4>3. CASE i \notin 1 .. Len(t)
        <5>1. i - Len(t) \in 1 .. k /\ i = Len(t) + (i - Len(t))
          BY <1>5, <1>6, <4>3
        <5>2. x.n = m + (i - Len(t))
          BY <1>7, <4>1, <5>1
        <5>3. QED
          BY <1>1, <5>1, <5>2
      <4>4. QED
        BY <4>2, <4>3
    <3>3. QED
      BY <3>1, <3>2
  <2>2. ASSUME NEW y \in 1 .. m + k
        PROVE  \E x \in {s[i].chunk : i \in DOMAIN s} \cup u \cup c : x.n = y
    <3>1. CASE y \in 1 .. m
      <4>1. PICK x \in {t[i].chunk : i \in DOMAIN t} \cup u \cup c : x.n = y
        BY <1>8, <3>1
      <4>2. x \in {s[i].chunk : i \in DOMAIN s} \cup u \cup c
        <5>1. CASE x \in u \cup c
          BY <5>1
        <5>2. CASE x \in {t[i].chunk : i \in DOMAIN t}
          <6>1. PICK i \in 1 .. Len(t) : x = t[i].chunk
            BY <1>2, <5>2
          <6>2. i \in DOMAIN s /\ s[i] = t[i]
            BY <1>1, <1>2, <1>5
          <6>3. QED
            BY <6>1, <6>2
        <5>3. QED
          BY <4>1, <5>1, <5>2
      <4>3. QED
        BY <4>1, <4>2
    <3>2. CASE y \notin 1 .. m
      <4>1. y - m \in 1 .. k /\ y = m + (y - m)
        BY <1>1, <3>2
      <4>2. Len(t) + (y - m) \in DOMAIN s
        BY <1>1, <1>2, <1>5, <4>1
      <4>3. s[Len(t) + (y - m)].chunk.n = y
        BY <1>7, <4>1
      <4>4. QED
        BY <4>2, <4>3
    <3>3. QED
      BY <3>1, <3>2
  <2>3. QED
    BY <2>1, <2>2
<1>13. Len(s) + Cardinality(u) + Cardinality(c) = m + k
  <2>1. Cardinality(u) \in Nat /\ Cardinality(c) \in Nat
    BY FS_CardinalityType DEF Shared
  <2>2. Len(t) + Cardinality(u) + Cardinality(c) = m
    BY DEF Shared
  <2>3. QED
    BY <1>1, <1>2, <1>5, <2>1, <2>2
<1>14. m + k \in Nat
  BY <1>1
<1>15. QED
  BY <1>5, <1>10, <1>11, <1>12, <1>13, <1>14 DEF Shared, s, e

-----------------------------------------------------------------------------
\* Every chunk written has one place, and those of the TCP buffer are the
\* newest, of the session that is open.
TunnelInv ==
  /\ TunnelTypeOK /\ RunsOnlyAllowed
  /\ Follow(lan, written - Len(lan)) /\ \A i \in DOMAIN lan : lan[i].tid = tTid
  /\ gone = [unsent |-> gone.unsent, cut |-> gone.cut]
  /\ Shared(toBe, gone.unsent, gone.cut, written - Len(lan))
  /\ \A f \in toLan : f.frame = f.host

LEMMA NothingFollows == \A m : Follow(<<>>, m)
BY DEF Follow

LEMMA InitTunnel == Init => TunnelInv
<1> SUFFICES ASSUME Init PROVE TunnelInv
  OBVIOUS
<1>1. TunnelInit /\ policy \in BOOLEAN
  BY DEF Init
<1>2. TunnelTypeOK /\ RunsOnlyAllowed
  <2>1. 0 \in 0 .. MaxChunks
    BY TunnelAssumption
  <2>2. TunnelTypeOK
    BY <1>1, <2>1 DEF TunnelInit, TunnelTypeOK
  <2>3. RunsOnlyAllowed
    BY <1>1 DEF TunnelInit, RunsOnlyAllowed, TunnelActive
  <2>4. QED
    BY <2>2, <2>3
<1>3. Follow(lan, written - Len(lan)) /\ \A i \in DOMAIN lan : lan[i].tid = tTid
  BY <1>1, NothingFollows DEF TunnelInit
<1>4. gone = [unsent |-> {}, cut |-> {}] /\ toBe = <<>> /\ written - Len(lan) = 0
  <2>1. Len(<<>>) = 0 /\ 0 - 0 = 0
    OBVIOUS
  <2>2. QED
    BY <1>1, <2>1 DEF TunnelInit
<1>5. Shared(<<>>, {}, {}, 0)
  BY FS_EmptySet DEF Shared
<1>6. Shared(toBe, gone.unsent, gone.cut, written - Len(lan))
  BY <1>4, <1>5
<1>7. QED
  BY <1>1, <1>2, <1>3, <1>4, <1>6 DEF TunnelInv, TunnelInit

LEMMA TunnelTypes ==
  ASSUME TunnelInv
  PROVE  /\ written \in Nat /\ Len(lan) \in Nat /\ lan \in Seq(Chunks)
         /\ written - Len(lan) \in Nat /\ written - Len(lan) + Len(lan) = written
BY TunnelAssumption DEF TunnelInv, TunnelTypeOK, Follow, Shared

\* The chunks stay where they are.
LEMMA ChunksStay ==
  ASSUME TunnelInv, UNCHANGED <<lan, gone, written, toBe>>,
         TunnelTypeOK', RunsOnlyAllowed', \A f \in toLan' : f.frame = f.host,
         tTid' = tTid \/ lan = <<>>
  PROVE  TunnelInv'
<1>1. lan' = lan /\ gone' = gone /\ written' = written /\ toBe' = toBe
  OBVIOUS
<1>2. \A i \in DOMAIN lan' : lan'[i].tid = tTid'
  BY <1>1 DEF TunnelInv
<1>3. Follow(lan', written' - Len(lan'))
  BY <1>1 DEF TunnelInv
<1>4. Shared(toBe', gone'.unsent, gone'.cut, written' - Len(lan'))
  BY <1>1 DEF TunnelInv
<1>5. QED
  BY <1>1, <1>2, <1>3, <1>4 DEF TunnelInv

LEMMA TunnelStays ==
  ASSUME TunnelInv, UNCHANGED tunnelVars
  PROVE  TunnelInv'
<1>1. TunnelTypeOK' /\ RunsOnlyAllowed'
  BY DEF TunnelInv, TunnelTypeOK, RunsOnlyAllowed, TunnelActive, tunnelVars, socketVars
<1>2. QED
  BY <1>1, ChunksStay DEF TunnelInv, tunnelVars, socketVars

\* A session that ends leaves its chunks to the cut.
LEMMA CloseKeepsTunnel ==
  ASSUME TunnelInv, DoClose, UNCHANGED <<written, toBe, toLan>>,
         tUp' \in BOOLEAN, tEnabled' \in BOOLEAN, policy' \in BOOLEAN, lingers' \in BOOLEAN
  PROVE  TunnelInv'
<1>1. /\ tTid' = NoTid /\ peerOpen' = FALSE /\ lan' = <<>>
      /\ gone' = [gone EXCEPT !.cut = @ \cup ChunksIn(lan)]
      /\ written' = written /\ toBe' = toBe
  BY DEF DoClose
<1>2. gone' = [unsent |-> gone.unsent, cut |-> gone.cut \cup ChunksIn(lan)]
  BY <1>1 DEF TunnelInv
<1>3. TunnelTypeOK' /\ RunsOnlyAllowed'
  BY <1>1 DEF TunnelInv, TunnelTypeOK, RunsOnlyAllowed, TunnelActive
<1>4. Shared(toBe, gone.unsent, gone.cut \cup ChunksIn(lan), written)
  BY TunnelTypes, CutAdds DEF TunnelInv
<1>5. written' - Len(lan') = written
  BY <1>1, TunnelTypes
<1>6. Shared(toBe', gone'.unsent, gone'.cut, written' - Len(lan'))
  BY <1>1, <1>2, <1>4, <1>5
<1>7. Follow(lan', written' - Len(lan')) /\ \A i \in DOMAIN lan' : lan'[i].tid = tTid'
  BY <1>1, NothingFollows
<1>8. QED
  BY <1>2, <1>3, <1>6, <1>7 DEF TunnelInv

LEMMA ForgottenKeepsTunnel ==
  ASSUME TunnelInv, TunnelForgotten
  PROVE  TunnelInv'
<1>1. policy' \in BOOLEAN
  BY DEF TunnelInv, TunnelTypeOK, TunnelForgotten
<1>2. QED
  BY <1>1, CloseKeepsTunnel DEF TunnelForgotten

LEMMA LoadKeepsTunnel ==
  ASSUME TunnelInv, ~TunnelActive, TunnelLoad
  PROVE  TunnelInv'
<1>1. TunnelTypeOK' /\ RunsOnlyAllowed'
  BY DEF TunnelInv, TunnelTypeOK, RunsOnlyAllowed, TunnelActive, TunnelLoad, socketVars
<1>2. QED
  BY <1>1, ChunksStay DEF TunnelInv, TunnelLoad, socketVars

LEMMA OpenKeepsTunnel ==
  ASSUME TunnelInv, NEW t \in Tids, NEW memory \in BOOLEAN, NEW connects \in BOOLEAN,
         OnTunOpen(t, memory, connects)
  PROVE  TunnelInv'
<1> USE DEF TunnelInv, TunnelTypeOK, RunsOnlyAllowed, TunnelActive
<1>1. CASE ~tEnabled
  <2>1. UNCHANGED tunnelVars
    BY <1>1 DEF OnTunOpen, tunnelVars, socketVars
  <2>2. QED
    BY <2>1, TunnelStays
<1>2. CASE tEnabled
  <2>1. /\ UNCHANGED <<tEnabled, policy, lan, written, toBe, toLan, gone>>
        /\ tUp' = (tUp \/ memory) /\ lingers' = (lingers /\ tUp)
        /\ \/ tTid' = tTid /\ peerOpen' = peerOpen
           \/ tTid' = t /\ tUp' /\ ~TunnelActive /\ peerOpen' = TRUE
    BY <1>2 DEF OnTunOpen
  <2>2. t # NoTid
    BY TunnelAssumption
  <2>3. TunnelTypeOK'
    BY <2>1
  <2>4. RunsOnlyAllowed'
    BY <1>2, <2>1, <2>2
  <2>5. tTid' = tTid \/ lan = <<>>
    BY <2>1
  <2>6. QED
    BY <2>1, <2>3, <2>4, <2>5, ChunksStay
<1>3. QED
  BY <1>1, <1>2

LEMMA DataKeepsTunnel ==
  ASSUME TunnelInv, NEW t \in Tids, NEW wrote \in BOOLEAN, OnTunData(t, wrote)
  PROVE  TunnelInv'
<1>1. /\ UNCHANGED <<tUp, tEnabled, policy, lingers, tTid, peerOpen, lan, gone, written, toBe>>
      /\ \A f \in toLan' : f \in toLan \/ f = [frame |-> tTid, host |-> tTid]
  BY DEF OnTunData, Accepted, socketVars
<1>2. TunnelTypeOK' /\ RunsOnlyAllowed'
  BY <1>1 DEF TunnelInv, TunnelTypeOK, RunsOnlyAllowed, TunnelActive
<1>3. \A f \in toLan' : f.frame = f.host
  BY <1>1 DEF TunnelInv
<1>4. QED
  BY <1>1, <1>2, <1>3, ChunksStay

LEMMA EndKeepsTunnel ==
  ASSUME TunnelInv, OnTunClose \/ \E on \in BOOLEAN : SetEnabled(on)
  PROVE  TunnelInv'
<1> USE DEF TunnelInv, TunnelTypeOK
<1>1. CASE OnTunClose
  <2>1. CASE TunnelActive
    BY <1>1, <2>1, CloseKeepsTunnel DEF OnTunClose, CloseIfOpen
  <2>2. CASE ~TunnelActive
    BY <1>1, <2>2, TunnelStays DEF OnTunClose, CloseIfOpen, tunnelVars
  <2>3. QED
    BY <2>1, <2>2
<1>2. ASSUME NEW on \in BOOLEAN, SetEnabled(on) PROVE TunnelInv'
  <2>1. /\ policy' = on /\ tEnabled' = on /\ UNCHANGED <<tUp, lingers, written, toBe, toLan>>
        /\ IF on \/ ~TunnelActive THEN UNCHANGED socketVars ELSE DoClose
    BY <1>2 DEF SetEnabled, CloseIfOpen
  <2>2. CASE on \/ ~TunnelActive
    <3>1. UNCHANGED <<tUp, lingers, written, toBe, toLan, tTid, peerOpen, lan, gone>>
      BY <2>1, <2>2 DEF socketVars
    <3>2. TunnelTypeOK' /\ RunsOnlyAllowed'
      BY <2>1, <2>2, <3>1 DEF RunsOnlyAllowed, TunnelActive
    <3>3. QED
      BY <3>1, <3>2, ChunksStay
  <2>3. CASE ~(on \/ ~TunnelActive)
    BY <2>1, <2>3, CloseKeepsTunnel
  <2>4. QED
    BY <2>2, <2>3
<1>3. QED
  BY <1>1, <1>2

LEMMA HostKeepsTunnel ==
  ASSUME TunnelInv, HostWrites \/ HostCloses
  PROVE  TunnelInv'
<1>1. CASE HostCloses
  <2>1. TunnelTypeOK' /\ RunsOnlyAllowed'
    BY <1>1 DEF TunnelInv, TunnelTypeOK, RunsOnlyAllowed, TunnelActive, HostCloses
  <2>2. QED
    BY <1>1, <2>1, ChunksStay DEF TunnelInv, HostCloses
<1>2. CASE HostWrites
  <2> DEFINE x == Chunk(written + 1, tTid)
             m == written - Len(lan)
  <2>1. /\ TunnelActive /\ written < MaxChunks /\ written' = written + 1
        /\ lan' = Append(lan, x)
        /\ UNCHANGED <<tUp, tEnabled, policy, lingers, tTid, peerOpen, gone, toBe, toLan>>
    BY <1>2 DEF HostWrites
  <2>2. /\ written \in Nat /\ Len(lan) \in Nat /\ lan \in Seq(Chunks)
        /\ m \in Nat /\ m + Len(lan) = written
    BY TunnelTypes
  <2>3. TunnelTypeOK' /\ RunsOnlyAllowed'
    BY <2>1, <2>2, TunnelAssumption
       DEF TunnelInv, TunnelTypeOK, RunsOnlyAllowed, TunnelActive
  <2>4. x \in Chunks /\ x.n = written + 1 /\ x.tid = tTid
    BY <2>1, <2>2 DEF TunnelInv, TunnelTypeOK, TunnelActive, Chunk, Chunks
  <2> HIDE DEF x
  <2>5. /\ lan' \in Seq(Chunks) /\ Len(lan') = Len(lan) + 1 /\ DOMAIN lan' = 1 .. Len(lan) + 1
        /\ \A i \in 1 .. Len(lan) : lan'[i] = lan[i]
        /\ lan'[Len(lan) + 1] = x
    BY <2>1, <2>2, <2>4
  <2>6. written' - Len(lan') = m
    BY <2>1, <2>2, <2>5
  <2>7. \A i \in DOMAIN lan' : lan'[i].n = m + i /\ lan'[i].tid = tTid'
    <3> TAKE i \in DOMAIN lan'
    <3>1. CASE i \in 1 .. Len(lan)
      <4>1. i \in DOMAIN lan
        BY <2>2, <3>1
      <4>2. QED
        BY <2>1, <2>5, <3>1, <4>1 DEF TunnelInv, Follow
    <3>2. CASE i = Len(lan) + 1
      <4>1. written + 1 = m + i
        BY <2>2, <3>2
      <4>2. QED
        BY <2>1, <2>4, <2>5, <3>2, <4>1
    <3>3. QED
      BY <2>2, <2>5, <3>1, <3>2
  <2>8. Follow(lan', written' - Len(lan'))
    BY <2>5, <2>6, <2>7 DEF Follow
  <2>9. Shared(toBe', gone'.unsent, gone'.cut, written' - Len(lan'))
    BY <2>1, <2>6 DEF TunnelInv
  <2>10. QED
    BY <2>1, <2>3, <2>7, <2>8, <2>9 DEF TunnelInv
<1>3. QED
  BY <1>1, <1>2

\* What is left after the first k of them.
LEMMA RestFollows ==
  ASSUME NEW m \in Nat, NEW q, Follow(q, m), NEW k \in 0 .. Len(q)
  PROVE  /\ Follow(SubSeq(q, k + 1, Len(q)), m + k)
         /\ Len(SubSeq(q, k + 1, Len(q))) = Len(q) - k
         /\ \A i \in DOMAIN SubSeq(q, k + 1, Len(q)) :
              k + i \in DOMAIN q /\ SubSeq(q, k + 1, Len(q))[i] = q[k + i]
<1> DEFINE r == SubSeq(q, k + 1, Len(q))
<1>1. q \in Seq(Chunks) /\ Len(q) \in Nat /\ k \in Nat /\ k <= Len(q) /\ DOMAIN q = 1 .. Len(q)
  BY DEF Follow
<1>2. /\ r \in Seq(Chunks) /\ Len(r) = (IF k + 1 <= Len(q) THEN Len(q) - (k + 1) + 1 ELSE 0)
      /\ \A i \in 1 .. Len(q) - (k + 1) + 1 : r[i] = q[k + 1 + i - 1]
  <2>1. \A i \in k + 1 .. Len(q) : q[i] \in Chunks
    BY <1>1
  <2>2. k + 1 \in Int /\ Len(q) \in Int
    BY <1>1
  <2> HIDE DEF r
  <2>3. QED
    BY <2>1, <2>2, SubSeqProperties DEF r
<1> HIDE DEF r
<1>3. Len(r) = Len(q) - k /\ Len(q) - (k + 1) + 1 = Len(q) - k
  <2>1. Len(q) - (k + 1) + 1 = Len(q) - k /\ (k + 1 <= Len(q) \/ Len(q) - k = 0)
    <3>1. \A x, y \in Nat : x <= y => y - (x + 1) + 1 = y - x /\ (x + 1 <= y \/ y - x = 0)
      OBVIOUS
    <3>2. QED
      BY <1>1, <3>1
  <2>2. CASE k + 1 <= Len(q)
    BY <1>2, <2>1, <2>2
  <2>3. CASE ~(k + 1 <= Len(q))
    BY <1>2, <2>1, <2>3
  <2>4. QED
    BY <2>2, <2>3
<1>4. /\ DOMAIN r = 1 .. Len(q) - k /\ \A i \in 1 .. Len(q) - k : k + i \in DOMAIN q
      /\ \A i \in 1 .. Len(q) - k : r[i] = q[k + i]
  <2>1. \A i \in 1 .. Len(q) - k : k + 1 + i - 1 = k + i /\ k + i \in 1 .. Len(q)
    BY <1>1
  <2>2. \A i \in 1 .. Len(q) - k : r[i] = q[k + i]
    BY <1>2, <1>3, <2>1
  <2>3. DOMAIN r = 1 .. Len(q) - k
    BY <1>2, <1>3
  <2>4. QED
    BY <1>1, <2>1, <2>2, <2>3
<1>5. \A i \in DOMAIN r : k + i \in DOMAIN q /\ r[i] = q[k + i] /\ r[i].n = m + k + i
  <2> TAKE i \in DOMAIN r
  <2>1. k + i \in DOMAIN q /\ r[i] = q[k + i]
    BY <1>4
  <2>2. r[i].n = m + (k + i)
    BY <2>1 DEF Follow
  <2>3. i \in Nat
    BY <1>1, <1>4
  <2>4. QED
    BY <1>1, <2>1, <2>2, <2>3
<1>6. QED
  BY <1>2, <1>3, <1>5 DEF Follow, r

\* A tick takes chunks from the front of the buffer: some are sent on, at most
\* one is lost, and a time limit cuts off the rest.
LEMMA RelayKeepsTunnel ==
  ASSUME TunnelInv, TunnelActive, tUp,
         NEW k \in 0 .. TickMax, NEW fails \in BOOLEAN, NEW late \in BOOLEAN,
         NEW over \in BOOLEAN,
         k + (IF fails THEN 1 ELSE 0) <= Len(lan),
         Relay(k, fails, late), GiveBack(over),
         UNCHANGED <<tEnabled, policy, written, toLan>>
  PROVE  TunnelInv'
<1> DEFINE m == written - Len(lan)
           read == IF fails THEN k + 1 ELSE k
           rest == SubSeq(lan, read + 1, Len(lan))
           ends == late \/ HostDone(rest)
           sent == toBe \o [i \in 1 .. k |-> [tid |-> tTid, chunk |-> lan[i]]]
           u == gone.unsent \cup (IF fails THEN {lan[read]} ELSE {})
           c == gone.cut \cup (IF late THEN ChunksIn(rest) ELSE {})
<1>1. /\ written \in Nat /\ Len(lan) \in Nat /\ lan \in Seq(Chunks)
      /\ m \in Nat /\ m + Len(lan) = written /\ Follow(lan, m)
      /\ Shared(toBe, gone.unsent, gone.cut, m)
      /\ \A i \in DOMAIN lan : lan[i].tid = tTid
      /\ tTid \in Tids
  BY TunnelTypes DEF TunnelInv, TunnelTypeOK, TunnelActive
<1>2. k \in 0 .. Len(lan) /\ read \in 0 .. Len(lan) /\ k \in Nat /\ read \in Nat
  BY <1>1, TunnelAssumption
<1>3. /\ toBe' = sent /\ lan' = (IF ends THEN <<>> ELSE rest)
      /\ gone' = [unsent |-> u, cut |-> c]
      /\ tTid' = (IF ends THEN NoTid ELSE tTid) /\ peerOpen' = (peerOpen /\ ~ends)
      /\ written' = written /\ toLan' = toLan
  BY DEF Relay
<1>4. Shared(sent, gone.unsent, gone.cut, m + k)
  <2> HIDE DEF m
  <2>1. QED
    BY <1>1, <1>2, SentAdds
<1>5. Shared(sent, u, gone.cut, m + read)
  <2>1. CASE fails
    <3>1. read = k + 1 /\ read \in DOMAIN lan /\ m + read = m + k + 1
      BY <1>1, <1>2, <2>1
    <3>2. lan[read] \in Chunks /\ lan[read].n = m + read
      BY <1>1, <3>1 DEF Follow
    <3>3. u = gone.unsent \cup {lan[read]}
      BY <2>1
    <3> HIDE DEF read, sent, m, u
    <3>4. QED
      BY <1>4, <3>1, <3>2, <3>3, LostAdds
  <2>2. CASE ~fails
    BY <1>4, <2>2
  <2>3. QED
    BY <2>1, <2>2
<1>6. /\ Follow(rest, m + read) /\ Len(rest) = Len(lan) - read
      /\ \A i \in DOMAIN rest : read + i \in DOMAIN lan /\ rest[i] = lan[read + i]
  <2> HIDE DEF m, read
  <2>1. QED
    BY <1>1, <1>2, RestFollows
<1>7. m + read + Len(rest) = written /\ m + read \in Nat
  <2> HIDE DEF m, read, rest
  <2>1. QED
    BY <1>1, <1>2, <1>6
<1> HIDE DEF m, read, rest, sent, u
<1>8. Shared(sent, u, c, IF late THEN written ELSE m + read)
  BY <1>5, <1>6, <1>7, CutAdds
<1>9. rest \in Seq(Chunks)
  BY <1>6 DEF Follow
<1> HIDE DEF c
<1>10. HostDone(rest) => rest = <<>> /\ Len(rest) = 0
  BY DEF HostDone
<1>11. Follow(lan', written' - Len(lan')) /\ Shared(sent, u, c, written' - Len(lan'))
  <2>1. CASE late
    <3>1. lan' = <<>> /\ written' - Len(lan') = written
      BY <1>1, <1>3, <2>1
    <3>2. QED
      BY <1>8, <2>1, <3>1, NothingFollows
  <2>2. CASE ~late /\ HostDone(rest)
    <3>1. lan' = <<>> /\ written' - Len(lan') = written
      BY <1>1, <1>3, <2>2
    <3>2. written = m + read
      BY <1>7, <1>10, <2>2
    <3>3. QED
      BY <1>8, <2>2, <3>1, <3>2, NothingFollows
  <2>3. CASE ~ends
    <3>1. lan' = rest /\ ~late
      BY <1>3, <2>3
    <3>2. written' - Len(lan') = m + read
      <4>1. Len(rest) \in Nat /\ written' = written /\ Len(lan') = Len(rest)
        BY <1>3, <1>9, <3>1
      <4>2. \A x, y, z \in Nat : x + y = z => z - y = x
        OBVIOUS
      <4>3. written - Len(rest) = m + read
        BY <1>1, <1>7, <4>1, <4>2
      <4>4. QED
        BY <4>1, <4>3
    <3>3. QED
      BY <1>6, <1>8, <3>1, <3>2
  <2>4. QED
    BY <2>1, <2>2, <2>3
<1>12. \A i \in DOMAIN lan' : lan'[i].tid = tTid'
  BY <1>1, <1>3, <1>6
<1>13. ends => lan' = <<>> /\ ~peerOpen' /\ tTid' = NoTid
  BY <1>3
<1>14. ~ends => tTid' = tTid
  BY <1>3
<1> HIDE DEF ends
<1>15. TunnelTypeOK' /\ RunsOnlyAllowed'
  BY <1>1, <1>3, <1>13, <1>14
     DEF TunnelInv, TunnelTypeOK, RunsOnlyAllowed, TunnelActive, GiveBack
<1>16. gone' = [unsent |-> gone'.unsent, cut |-> gone'.cut]
  BY <1>3
<1>17. Shared(toBe', gone'.unsent, gone'.cut, written' - Len(lan'))
  BY <1>3, <1>11
<1>18. QED
  BY <1>3, <1>11, <1>12, <1>15, <1>16, <1>17 DEF TunnelInv

LEMMA TickKeepsTunnel ==
  ASSUME TunnelInv, SomeTick(link)
  PROVE  TunnelInv'
<1>1. PICK mv \in Moves(link), late \in BOOLEAN, over \in BOOLEAN :
        TunTick(mv.k, mv.fails, late, over)
  BY DEF SomeTick
<1>2. /\ mv.k \in 0 .. TickMax /\ mv.fails \in BOOLEAN
      /\ mv.k + (IF mv.fails THEN 1 ELSE 0) <= Len(lan)
  BY DEF Moves
<1>3. tUp /\ GiveBack(over) /\ UNCHANGED <<tEnabled, policy, written, toLan>>
  BY <1>1 DEF TunTick
<1>4. CASE TunnelActive
  BY <1>1, <1>2, <1>3, <1>4, RelayKeepsTunnel DEF TunTick
<1>5. CASE ~TunnelActive
  <2>1. UNCHANGED <<tTid, peerOpen, lan, gone, toBe>>
    BY <1>1, <1>5 DEF TunTick, socketVars
  <2>2. tTid' = NoTid /\ tUp' \in BOOLEAN /\ lingers' \in BOOLEAN
    BY <1>3, <1>5, <2>1 DEF GiveBack, TunnelActive, TunnelInv, TunnelTypeOK
  <2>3. TunnelTypeOK' /\ RunsOnlyAllowed'
    BY <1>3, <2>1, <2>2 DEF TunnelInv, TunnelTypeOK, RunsOnlyAllowed, TunnelActive
  <2>4. QED
    BY <1>3, <2>1, <2>3, ChunksStay DEF TunnelInv
<1>6. QED
  BY <1>4, <1>5

\* While the node is down no session is open.
LEMMA NextTunnel ==
  ASSUME TunnelInv, power # "up" => ~TunnelActive, [Next]_vars
  PROVE  TunnelInv' /\ (power # "up" => ~TunnelActive)'
<1>1. CASE UNCHANGED <<tunnelVars, power>>
  <2>1. (power # "up" => ~TunnelActive)'
    BY <1>1 DEF tunnelVars, socketVars, TunnelActive
  <2>2. QED
    BY <1>1, <2>1, TunnelStays
<1>2. CASE UNCHANGED vars
  BY <1>1, <1>2 DEF vars, lifeVars
<1>3. CASE Restart \/ Crash
  <2>1. TunnelForgotten
    BY <1>3 DEF Restart, Crash, GoDown
  <2>2. ~TunnelActive'
    BY <2>1 DEF TunnelForgotten, DoClose, TunnelActive
  <2>3. QED
    BY <2>1, <2>2, ForgottenKeepsTunnel
<1>4. CASE Save
  BY <1>1, <1>4 DEF Save, lifeVars
<1>5. CASE Boot \/ Halt \/ EnterPortal
  <2>1. UNCHANGED tunnelVars /\ power # "up"
    BY <1>5 DEF Boot, Halt, EnterPortal, InSetup
  <2>2. ~TunnelActive'
    BY <2>1 DEF tunnelVars, socketVars, TunnelActive
  <2>3. QED
    BY <2>1, <2>2, TunnelStays
<1>6. CASE ComeUp
  <2>1. TunnelLoad /\ power' = "up" /\ ~TunnelActive
    BY <1>6 DEF ComeUp, InSetup
  <2>2. QED
    BY <2>1, LoadKeepsTunnel
<1>7. CASE PortalSetId \/ PortalEnds
  BY <1>1, <1>7 DEF PortalSetId, PortalEnds
<1>8. CASE FactoryReset
  <2>1. /\ policy' = FALSE /\ power' = power
        /\ UNCHANGED <<tUp, tEnabled, lingers, tTid, peerOpen, lan, gone, written, toBe, toLan>>
    BY <1>8 DEF FactoryReset, socketVars
  <2>2. TunnelTypeOK' /\ RunsOnlyAllowed' /\ TunnelActive' = TunnelActive
    BY <2>1 DEF TunnelInv, TunnelTypeOK, RunsOnlyAllowed, TunnelActive
  <2>3. QED
    BY <2>1, <2>2, ChunksStay DEF TunnelInv
<1>9. CASE LinkMoves \/ Update \/ OtaTick \/ Subscribe \/ ConfigureMessage
  <2>1. UNCHANGED <<tunnelVars, power>>
    BY <1>9 DEF LinkMoves, Update, OtaTick, Subscribe, ConfigureMessage, bootVars
  <2>2. QED
    BY <1>1, <2>1
<1>10. CASE MessageComes \/ AppAtInbox
  BY <1>1, <1>10 DEF MessageComes, AppAtInbox, bootVars
<1>11. CASE TunnelCommand
  <2>1. power' = "up"
    BY <1>11 DEF TunnelCommand, NodeRuns, bootVars
  <2>2. CASE \E t \in Tids, memory, connects \in BOOLEAN : OnTunOpen(t, memory, connects)
    BY <2>1, <2>2, OpenKeepsTunnel
  <2>3. CASE \E t \in Tids, wrote \in BOOLEAN : OnTunData(t, wrote)
    BY <2>1, <2>3, DataKeepsTunnel
  <2>4. CASE OnTunClose \/ \E on \in BOOLEAN : SetEnabled(on)
    BY <2>1, <2>4, EndKeepsTunnel
  <2>5. QED
    BY <1>11, <2>2, <2>3, <2>4 DEF TunnelCommand
<1>12. CASE LanHost
  BY <1>12, HostKeepsTunnel DEF LanHost, lifeVars
<1>13. CASE Tick
  BY <1>13, TickKeepsTunnel DEF Tick, Ticks, NodeRuns, lifeVars
<1>14. QED
  BY <1>2, <1>3, <1>4, <1>5, <1>6, <1>7, <1>8, <1>9, <1>10, <1>11, <1>12, <1>13 DEF Next

LEMMA TunnelSound ==
  ASSUME TunnelInv
  PROVE  RunsOnlyAllowed /\ BytesAccountedFor /\ NoCrossTalk
<1>1. /\ written \in Nat /\ Len(lan) \in Nat /\ written - Len(lan) \in Nat
      /\ written - Len(lan) + Len(lan) = written
  BY TunnelTypes
<1>2. ChunksIn(lan) \in SUBSET Chunks
      /\ {x.n : x \in ChunksIn(lan)} = written - Len(lan) + 1 .. written
  BY <1>1, ChunksCount DEF TunnelInv
<1>3. {x.n : x \in Delivered \cup gone.unsent \cup gone.cut} = 1 .. written - Len(lan)
  BY DEF TunnelInv, Shared, Delivered
<1>4. {x.n : x \in ChunksIn(lan) \cup Delivered \cup gone.unsent \cup gone.cut} = 1 .. written
  <2>1. {x.n : x \in ChunksIn(lan) \cup Delivered \cup gone.unsent \cup gone.cut}
          = {x.n : x \in ChunksIn(lan)} \cup {x.n : x \in Delivered \cup gone.unsent \cup gone.cut}
    OBVIOUS
  <2>2. (1 .. written - Len(lan)) \cup (written - Len(lan) + 1 .. written) = 1 .. written
    BY <1>1
  <2>3. QED
    BY <1>2, <1>3, <2>1, <2>2
<1>5. Len(lan) + Len(toBe) + Cardinality(gone.unsent) + Cardinality(gone.cut) = written
  <2>1. /\ Len(toBe) \in Nat /\ Cardinality(gone.unsent) \in Nat /\ Cardinality(gone.cut) \in Nat
        /\ Len(toBe) + Cardinality(gone.unsent) + Cardinality(gone.cut) = written - Len(lan)
    BY FS_CardinalityType DEF TunnelInv, Shared
  <2>2. QED
    BY <1>1, <2>1
<1>6. BytesAccountedFor
  BY <1>4, <1>5 DEF BytesAccountedFor, TunnelInv, Shared
<1>7. NoCrossTalk
  BY DEF NoCrossTalk, TunnelInv, Shared, ChunksIn
<1>8. QED
  BY <1>6, <1>7 DEF TunnelInv

-----------------------------------------------------------------------------
(***************************************************************************)
(* The inbox.                                                              *)
(***************************************************************************)
\* What holds of 0 and, with a number, of the next holds up to L.
LEMMA Counting ==
  ASSUME NEW L \in Nat, NEW Good, 0 \in Good,
         \A n \in 1 .. L : n - 1 \in Good => n \in Good
  PROVE  \A n \in 0 .. L : n \in Good
<1> DEFINE Bad == {n \in 0 .. L : n \notin Good}
<1>1. SUFFICES ASSUME Bad # {} PROVE FALSE
  OBVIOUS
<1>2. PICK n \in Bad : \A m \in Bad : <<m, n>> \notin OpToRel(<, Nat)
  <2>1. Bad \in SUBSET Nat
    OBVIOUS
  <2> HIDE DEF Bad
  <2>2. QED
    BY <1>1, <2>1, NatLessThanWellFounded, WFMin
<1>3. n \in 1 .. L /\ n - 1 \in 0 .. L /\ n - 1 \in Nat /\ n \in Nat /\ n - 1 < n
  <2>1. n \in 0 .. L /\ n # 0
    OBVIOUS
  <2>2. QED
    BY <2>1
<1>4. n - 1 \notin Bad
  <2>1. n - 1 \in Bad => <<n - 1, n>> \notin OpToRel(<, Nat)
    BY <1>2
  <2>2. <<n - 1, n>> \in {p \in Nat \X Nat : p[1] < p[2]}
    BY <1>3
  <2>3. <<n - 1, n>> \in OpToRel(<, Nat)
    BY <2>2, Zenon DEF OpToRel
  <2>4. QED
    BY <2>1, <2>3
<1>5. n - 1 \in Good
  BY <1>3, <1>4
<1>6. QED
  BY <1>2, <1>3, <1>5

\* Rising numbers up to r: each leaves room for those behind it.
LEMMA RoomAbove ==
  ASSUME NEW L \in Nat, NEW r \in Nat, NEW f \in [1 .. L -> 1 .. r],
         \A i, j \in 1 .. L : i < j => f[i] < f[j]
  PROVE  \A i \in 1 .. L : f[i] <= r - L + i
<1> DEFINE Good == {d \in 0 .. L : L - d \in 1 .. L => f[L - d] <= r - d}
<1>1. 0 \in Good
  <2>1. L - 0 = L /\ r - 0 = r /\ (L \in 1 .. L => f[L] \in 1 .. r)
    OBVIOUS
  <2>2. QED
    BY <2>1
<1>2. \A d \in 1 .. L : d - 1 \in Good => d \in Good
  <2> SUFFICES ASSUME NEW d \in 1 .. L, d - 1 \in Good, L - d \in 1 .. L
               PROVE  f[L - d] <= r - d
    OBVIOUS
  <2>1. L - (d - 1) \in 1 .. L /\ L - d < L - (d - 1)
    OBVIOUS
  <2>2. f[L - (d - 1)] <= r - (d - 1) /\ f[L - d] < f[L - (d - 1)]
    BY <2>1
  <2>3. f[L - d] \in Nat /\ f[L - (d - 1)] \in Nat
    BY <2>1
  <2>4. QED
    BY <2>2, <2>3
<1>3. \A d \in 0 .. L : d \in Good
  <2> HIDE DEF Good
  <2>1. QED
    BY <1>1, <1>2, Counting
<1>4. SUFFICES ASSUME NEW i \in 1 .. L PROVE f[i] <= r - L + i
  OBVIOUS
<1>5. L - i \in 0 .. L /\ L - (L - i) = i /\ r - (L - i) = r - L + i
  OBVIOUS
<1>6. L - i \in Good
  BY <1>3, <1>5
<1>7. QED
  BY <1>5, <1>6

\* r has the elements of q at the places "stay", once and in their order.
PickedBy(g, q, stay, r) ==
  /\ g \in [1 .. Cardinality(stay) -> stay]
  /\ \A i, j \in 1 .. Cardinality(stay) : i < j => g[i] < g[j]
  /\ \A k \in stay : \E n \in 1 .. Cardinality(stay) : g[n] = k
  /\ r = [n \in 1 .. Cardinality(stay) |-> q[g[n]]]

LEMMA CompactedIs ==
  ASSUME NEW q, NEW L \in Nat, NEW stay \in SUBSET (1 .. L)
  PROVE  /\ Cardinality(stay) \in 0 .. L
         /\ \E g : PickedBy(g, q, stay, Compacted(q, stay))
<1> DEFINE upTo(k) == {i \in stay : i <= k}
           N == Cardinality(stay)
           c == [k \in stay |-> Cardinality(upTo(k))]
           nth(n) == CHOOSE k \in stay : Cardinality(upTo(k)) = n
           g == [n \in 1 .. N |-> nth(n)]
<1>1. IsFiniteSet(stay) /\ N \in Nat /\ N <= L
  <2>1. IsFiniteSet(1 .. L) /\ Cardinality(1 .. L) = L
    BY IntervalSize
  <2>2. QED
    BY <2>1, FS_Subset, FS_CardinalityType
<1>2. \A k \in stay : k \in Nat
  OBVIOUS
<1>3. Compacted(q, stay) = [n \in 1 .. N |-> q[nth(n)]]
  BY DEF Compacted
<1> HIDE DEF N
<1>4. \A k \in stay : IsFiniteSet(upTo(k)) /\ c[k] \in Nat /\ c[k] <= N /\ upTo(k) \in SUBSET stay
  <2>1. \A k \in stay : upTo(k) \in SUBSET stay
    OBVIOUS
  <2>2. QED
    BY <1>1, <2>1, FS_Subset, FS_CardinalityType DEF N
<1>5. \A k \in stay : c[k] \in 1 .. N
  <2> TAKE k \in stay
  <2>1. k \in upTo(k)
    BY <1>2
  <2>2. c[k] # 0
    BY <1>4, <2>1, FS_EmptySet
  <2>3. QED
    BY <1>1, <1>4, <2>2
<1>6. \A k, l \in stay : k < l => c[k] < c[l]
  <2> TAKE k, l \in stay
  <2>1. HAVE k < l
  <2>2. upTo(k) \in SUBSET upTo(l) /\ l \in upTo(l) /\ l \notin upTo(k)
    <3>1. l <= l /\ ~(l <= k) /\ \A i \in stay : i <= k => i <= l
      BY <1>2, <2>1
    <3>2. QED
      BY <3>1
  <2>3. upTo(k) # upTo(l)
    BY <2>2
  <2>4. Cardinality(upTo(k)) <= Cardinality(upTo(l)) /\ Cardinality(upTo(k)) # Cardinality(upTo(l))
    BY <1>4, <2>2, <2>3, FS_Subset
  <2>5. c[k] <= c[l] /\ c[k] # c[l] /\ c[k] \in Nat /\ c[l] \in Nat
    BY <1>4, <2>4
  <2> HIDE DEF c
  <2>6. QED
    BY <2>5
<1>7. c \in Injection(stay, 1 .. N)
  <2>1. c \in [stay -> 1 .. N]
    BY <1>5
  <2>2. \A k, l \in stay : c[k] = c[l] => k = l
    <3> TAKE k, l \in stay
    <3>1. k < l \/ l < k \/ k = l
      BY <1>2
    <3>2. c[k] \in Nat /\ c[l] \in Nat
      BY <1>4
    <3> HIDE DEF c
    <3>3. QED
      BY <1>6, <3>1, <3>2
  <2> HIDE DEF c
  <2>3. QED
    BY <2>1, <2>2 DEF Injection, IsInjective
<1>8. c \in Surjection(stay, 1 .. N)
  <2>1. IsFiniteSet(1 .. N) /\ Cardinality(1 .. N) = N
    BY <1>1, IntervalSize
  <2> HIDE DEF c
  <2>2. QED
    BY <1>7, <2>1, FS_Injection DEF N
<1>9. \A n \in 1 .. N : nth(n) \in stay /\ c[nth(n)] = n
  <2> TAKE n \in 1 .. N
  <2>1. PICK k \in stay : c[k] = n
    <3> HIDE DEF c
    <3>1. QED
      BY <1>8 DEF Surjection
  <2>2. Cardinality(upTo(k)) = n
    BY <2>1
  <2>3. nth(n) \in stay /\ Cardinality(upTo(nth(n))) = n
    BY <2>2
  <2>4. QED
    BY <2>3
<1>10. \A k \in stay : nth(c[k]) = k
  BY <1>5, <1>7, <1>9 DEF Injection, IsInjective
<1> HIDE DEF c, nth
<1>11. g \in [1 .. N -> stay] /\ \A n \in 1 .. N : g[n] = nth(n)
  BY <1>9
<1>12. Compacted(q, stay) = [n \in 1 .. N |-> q[g[n]]]
  BY <1>3
<1> HIDE DEF g
<1>13. \A i, j \in 1 .. N : i < j => g[i] < g[j]
  <2> TAKE i, j \in 1 .. N
  <2>1. HAVE i < j
  <2>2. g[i] \in stay /\ g[j] \in stay /\ c[g[i]] = i /\ c[g[j]] = j
    BY <1>9, <1>11
  <2>3. ~(g[j] < g[i]) /\ g[j] # g[i]
    <3>1. g[j] < g[i] => j < i
      BY <1>6, <2>2
    <3>2. ~(j < i) /\ i # j
      BY <1>1, <2>1
    <3>3. QED
      BY <2>2, <3>1, <3>2
  <2>4. \A x, y \in Nat : ~(y < x) /\ y # x => x < y
    OBVIOUS
  <2>5. QED
    BY <1>2, <2>2, <2>3, <2>4
<1>14. \A k \in stay : \E n \in 1 .. N : g[n] = k
  BY <1>5, <1>10, <1>11
<1>15. N \in 0 .. L
  BY <1>1
<1> HIDE DEF upTo
<1>16. PickedBy(g, q, stay, Compacted(q, stay))
  BY <1>11, <1>12, <1>13, <1>14 DEF N, PickedBy
<1>17. QED
  BY <1>15, <1>16 DEF N

-----------------------------------------------------------------------------
Mails == [n : Nat, from : Senders, read : BOOLEAN]

InboxInv == /\ received \in Nat /\ inbox \in Seq(Mails)
            /\ \A i \in DOMAIN inbox : inbox[i].n \in 1 .. received
            /\ NewestKept

LEMMA EmptyInbox ==
  ASSUME NEW q, q = <<>>
  PROVE  q \in Seq(Mails) /\ DOMAIN q = {} /\ Len(q) = 0
OBVIOUS

LEMMA InitInbox == Init => InboxInv
<1> SUFFICES ASSUME Init PROVE InboxInv
  OBVIOUS
<1>1. inbox = <<>> /\ received = 0
  BY DEF Init, MessagesInit, MessagesEmpty
<1>2. inbox \in Seq(Mails) /\ DOMAIN inbox = {} /\ Len(inbox) = 0
  BY <1>1, EmptyInbox
<1>3. InboxSize \in Nat /\ 1 .. 0 = {}
  BY MessagesAssumption
<1>4. NewestKept
  BY <1>1, <1>2, <1>3 DEF NewestKept
<1>5. QED
  BY <1>1, <1>2, <1>4 DEF InboxInv

LEMMA ForgottenKeepsInbox ==
  ASSUME InboxInv, MessagesForgotten
  PROVE  InboxInv'
<1>1. inbox' = <<>> /\ received' = 0
  BY DEF MessagesForgotten
<1>2. inbox' \in Seq(Mails) /\ DOMAIN inbox' = {} /\ Len(inbox') = 0
  BY <1>1, EmptyInbox
<1>3. InboxSize \in Nat /\ 1 .. 0 = {}
  BY MessagesAssumption
<1>4. NewestKept'
  BY <1>1, <1>2, <1>3 DEF NewestKept
<1>5. QED
  BY <1>1, <1>2, <1>4 DEF InboxInv

LEMMA InboxStays ==
  ASSUME InboxInv, UNCHANGED inboxVars
  PROVE  InboxInv'
BY DEF InboxInv, NewestKept, Numbers, inboxVars

\* A full inbox has room for one more once its oldest is gone, and that one
\* is no longer of the newest.
LEMMA ReceiveKeepsInbox ==
  ASSUME InboxInv, NEW from \in Senders, NEW id, Receive(from, id)
  PROVE  InboxInv'
<1> DEFINE q == IF Len(inbox) >= InboxSize THEN Tail(inbox) ELSE inbox
           m == [n |-> received + 1, from |-> from, read |-> FALSE]
<1>1. /\ received' = received + 1 /\ inbox' = Append(q, m) /\ acked' = acked
  BY DEF Receive, WithMessage
<1>2. /\ received \in Nat /\ inbox \in Seq(Mails) /\ Len(inbox) \in Nat
      /\ DOMAIN inbox = 1 .. Len(inbox)
      /\ \A i \in 1 .. Len(inbox) : inbox[i].n \in 1 .. received
      /\ \A i, j \in 1 .. Len(inbox) : i < j => inbox[i].n < inbox[j].n
      /\ Len(inbox) <= InboxSize /\ InboxSize \in Nat \ {0}
      /\ \A n \in 1 .. received :
           n > received - InboxSize /\ n \notin acked => \E i \in 1 .. Len(inbox) : inbox[i].n = n
  BY MessagesAssumption DEF InboxInv, NewestKept, Numbers
<1>3. m \in Mails /\ m.n = received + 1
  BY <1>2 DEF Mails
<1>4. /\ q \in Seq(Mails) /\ Len(q) \in Nat /\ Len(q) < InboxSize
      /\ DOMAIN q = 1 .. Len(q)
      /\ \A i \in 1 .. Len(q) : q[i].n \in 1 .. received
      /\ \A i, j \in 1 .. Len(q) : i < j => q[i].n < q[j].n
      /\ \A n \in 1 .. received :
           n > received + 1 - InboxSize /\ n \notin acked => \E i \in 1 .. Len(q) : q[i].n = n
  <2>1. CASE Len(inbox) >= InboxSize
    <3>1. q = Tail(inbox) /\ Len(inbox) = InboxSize /\ inbox # <<>>
      BY <1>2, <2>1
    <3>2. /\ q \in Seq(Mails) /\ Len(q) = Len(inbox) - 1 /\ DOMAIN q = 1 .. Len(inbox) - 1
          /\ \A i \in 1 .. Len(inbox) - 1 : q[i] = inbox[i + 1]
      <4>1. /\ Tail(inbox) \in Seq(Mails) /\ Len(Tail(inbox)) = Len(inbox) - 1
            /\ \A i \in 1 .. Len(Tail(inbox)) : Tail(inbox)[i] = inbox[i + 1]
        BY <1>2, <3>1, HeadTailProperties
      <4> HIDE DEF q
      <4>2. QED
        BY <3>1, <4>1
    <3> HIDE DEF q
    <3>3. \A i \in 1 .. Len(inbox) - 1 : i + 1 \in 1 .. Len(inbox)
      BY <1>2
    <3>4. inbox[1].n <= received - Len(inbox) + 1
      <4> DEFINE f == [i \in 1 .. Len(inbox) |-> inbox[i].n]
      <4>1. f \in [1 .. Len(inbox) -> 1 .. received]
        BY <1>2
      <4>2. \A i, j \in 1 .. Len(inbox) : i < j => f[i] < f[j]
        BY <1>2
      <4>3. 1 \in 1 .. Len(inbox) /\ f[1] = inbox[1].n
        BY <1>2, <3>1
      <4> HIDE DEF f
      <4>4. QED
        BY <1>2, <4>1, <4>2, <4>3, RoomAbove
    <3>5. \A i \in 1 .. Len(q) : q[i].n \in 1 .. received
      BY <1>2, <3>2, <3>3
    <3>6. \A i, j \in 1 .. Len(q) : i < j => q[i].n < q[j].n
      <4> TAKE i, j \in 1 .. Len(q)
      <4>1. HAVE i < j
      <4>2. /\ i + 1 \in 1 .. Len(inbox) /\ j + 1 \in 1 .. Len(inbox) /\ i + 1 < j + 1
            /\ q[i] = inbox[i + 1] /\ q[j] = inbox[j + 1]
        BY <1>2, <3>2, <3>3, <4>1
      <4>3. QED
        BY <1>2, <4>2
    <3>7. ASSUME NEW n \in 1 .. received, n > received + 1 - InboxSize, n \notin acked
          PROVE  \E i \in 1 .. Len(q) : q[i].n = n
      <4>1. n > received - InboxSize
        BY <1>2, <3>7
      <4>2. PICK i \in 1 .. Len(inbox) : inbox[i].n = n
        BY <1>2, <3>7, <4>1
      <4>3. i # 1
        BY <1>2, <3>1, <3>4, <3>7, <4>2
      <4>4. i - 1 \in 1 .. Len(q) /\ i - 1 + 1 = i
        BY <1>2, <3>2, <4>3
      <4>5. q[i - 1] = inbox[i]
        BY <3>2, <4>4
      <4>6. QED
        BY <4>2, <4>4, <4>5
    <3>8. Len(q) \in Nat /\ Len(q) < InboxSize /\ DOMAIN q = 1 .. Len(q)
      BY <1>2, <3>1, <3>2
    <3>9. QED
      BY <3>2, <3>5, <3>6, <3>7, <3>8
  <2>2. CASE ~(Len(inbox) >= InboxSize)
    <3>1. q = inbox /\ Len(inbox) < InboxSize
      BY <1>2, <2>2
    <3>2. \A n \in 1 .. received : n > received + 1 - InboxSize => n > received - InboxSize
      BY <1>2
    <3> HIDE DEF q
    <3>3. QED
      BY <1>2, <3>1, <3>2
  <2>3. QED
    BY <2>1, <2>2
<1> HIDE DEF q, m
<1>5. /\ inbox' \in Seq(Mails) /\ Len(inbox') = Len(q) + 1 /\ DOMAIN inbox' = 1 .. Len(q) + 1
      /\ \A i \in 1 .. Len(q) : inbox'[i] = q[i]
      /\ inbox'[Len(q) + 1] = m
  BY <1>1, <1>3, <1>4
<1>6. \A i \in 1 .. Len(q) + 1 : i \in 1 .. Len(q) \/ i = Len(q) + 1
  BY <1>4
<1>7. \A i \in DOMAIN inbox' : inbox'[i].n \in 1 .. received'
  <2>1. \A n \in 1 .. received : n \in 1 .. received + 1
    BY <1>2
  <2>2. received + 1 \in 1 .. received + 1
    BY <1>2
  <2>3. QED
    BY <1>1, <1>3, <1>4, <1>5, <1>6, <2>1, <2>2
<1>8. \A i, j \in DOMAIN inbox' : i < j => inbox'[i].n < inbox'[j].n
  <2> TAKE i, j \in DOMAIN inbox'
  <2>1. HAVE i < j
  <2>2. i \in 1 .. Len(q)
    BY <1>4, <1>5, <1>6, <2>1
  <2>3. CASE j \in 1 .. Len(q)
    BY <1>4, <1>5, <2>1, <2>2, <2>3
  <2>4. CASE j = Len(q) + 1
    <3>1. inbox'[i].n \in 1 .. received /\ inbox'[j].n = received + 1
      BY <1>3, <1>4, <1>5, <2>2, <2>4
    <3>2. QED
      BY <1>2, <3>1
  <2>5. QED
    BY <1>5, <1>6, <2>3, <2>4
<1>9. Len(inbox') <= InboxSize
  BY <1>2, <1>4, <1>5
<1>10. ASSUME NEW n \in 1 .. received', n > received' - InboxSize, n \notin acked'
       PROVE  n \in Numbers(inbox')
  <2>1. CASE n = received + 1
    <3>1. Len(q) + 1 \in DOMAIN inbox'
      BY <1>4, <1>5
    <3>2. QED
      BY <1>3, <1>5, <2>1, <3>1 DEF Numbers
  <2>2. CASE n # received + 1
    <3>1. n \in 1 .. received /\ n > received + 1 - InboxSize
      BY <1>1, <1>2, <1>10, <2>2
    <3>2. PICK i \in 1 .. Len(q) : q[i].n = n
      BY <1>1, <1>4, <1>10, <3>1
    <3>3. i \in DOMAIN inbox' /\ inbox'[i] = q[i]
      BY <1>4, <1>5
    <3>4. QED
      BY <3>2, <3>3 DEF Numbers
  <2>3. QED
    BY <2>1, <2>2
<1>11. NewestKept'
  BY <1>8, <1>9, <1>10 DEF NewestKept
<1>12. received' \in Nat
  BY <1>1, <1>2
<1>13. QED
  BY <1>5, <1>7, <1>11, <1>12 DEF InboxInv

LEMMA ReadKeepsInbox ==
  ASSUME InboxInv, ReadInbox
  PROVE  InboxInv'
<1>1. /\ inbox' = [k \in DOMAIN inbox |-> [inbox[k] EXCEPT !.read = TRUE]]
      /\ received' = received /\ acked' = acked
  BY DEF ReadInbox
<1>2. /\ received \in Nat /\ inbox \in Seq(Mails) /\ Len(inbox) \in Nat
      /\ DOMAIN inbox = 1 .. Len(inbox) /\ \A k \in DOMAIN inbox : inbox[k] \in Mails
  BY DEF InboxInv
<1>3. \A k \in DOMAIN inbox : /\ [inbox[k] EXCEPT !.read = TRUE] \in Mails
                              /\ [inbox[k] EXCEPT !.read = TRUE].n = inbox[k].n
  BY <1>2 DEF Mails
<1>4. DOMAIN inbox' = DOMAIN inbox /\ \A k \in DOMAIN inbox : inbox'[k] \in Mails /\ inbox'[k].n = inbox[k].n
  BY <1>1, <1>3
<1>5. inbox' \in Seq(Mails) /\ Len(inbox') = Len(inbox)
  <2>1. inbox' \in [1 .. Len(inbox) -> Mails]
    BY <1>1, <1>2, <1>3
  <2>2. QED
    BY <1>2, <2>1
<1>6. Numbers(inbox') = Numbers(inbox)
  BY <1>4 DEF Numbers
<1>7. QED
  BY <1>1, <1>4, <1>5, <1>6 DEF InboxInv, NewestKept

LEMMA KeepKeepsInbox ==
  ASSUME InboxInv, NEW stay \in SUBSET (DOMAIN inbox), Keep(stay)
  PROVE  InboxInv'
<1> DEFINE N == Cardinality(stay)
<1>1. /\ inbox' = Compacted(inbox, stay) /\ received' = received
      /\ acked' = acked \cup (Numbers(inbox) \ Numbers(inbox'))
  BY DEF Keep
<1>2. /\ received \in Nat /\ inbox \in Seq(Mails) /\ Len(inbox) \in Nat
      /\ DOMAIN inbox = 1 .. Len(inbox) /\ \A k \in DOMAIN inbox : inbox[k] \in Mails
      /\ Len(inbox) <= InboxSize /\ InboxSize \in Nat
  BY MessagesAssumption DEF InboxInv, NewestKept
<1>3. stay \in SUBSET (1 .. Len(inbox))
  BY <1>2
<1>4. N \in 0 .. Len(inbox)
  BY <1>2, <1>3, CompactedIs
<1>5. PICK g : PickedBy(g, inbox, stay, inbox')
  BY <1>1, <1>2, <1>3, CompactedIs
<1>6. /\ g \in [1 .. N -> stay]
      /\ \A i, j \in 1 .. N : i < j => g[i] < g[j]
      /\ inbox' = [n \in 1 .. N |-> inbox[g[n]]]
  BY <1>5 DEF PickedBy
<1> HIDE DEF N
<1>7. DOMAIN inbox' = 1 .. N /\ \A n \in 1 .. N : inbox'[n] = inbox[g[n]] /\ g[n] \in DOMAIN inbox
  BY <1>6
<1>8. inbox' \in Seq(Mails) /\ Len(inbox') = N /\ N \in Nat /\ N <= Len(inbox)
  <2>1. inbox' \in [1 .. N -> Mails]
    BY <1>2, <1>6
  <2>2. N \in Nat /\ N <= Len(inbox)
    BY <1>2, <1>4
  <2>3. QED
    BY <2>1, <2>2
<1>9. \A i \in DOMAIN inbox' : inbox'[i].n \in 1 .. received'
  BY <1>1, <1>7 DEF InboxInv
<1>10. \A i, j \in DOMAIN inbox' : i < j => inbox'[i].n < inbox'[j].n
  BY <1>6, <1>7 DEF InboxInv, NewestKept
<1>11. Len(inbox') <= InboxSize
  BY <1>2, <1>8
<1>12. \A n \in 1 .. received' :
        n > received' - InboxSize /\ n \notin acked' => n \in Numbers(inbox')
  BY <1>1 DEF InboxInv, NewestKept
<1>13. QED
  BY <1>1, <1>2, <1>8, <1>9, <1>10, <1>11, <1>12 DEF InboxInv, NewestKept

LEMMA NextInbox ==
  ASSUME InboxInv, [Next]_vars
  PROVE  InboxInv'
<1>1. CASE UNCHANGED vars
  BY <1>1, InboxStays DEF vars
<1>2. CASE Restart \/ Crash
  BY <1>2, ForgottenKeepsInbox DEF Restart, Crash, GoDown
<1>3. CASE Save \/ Boot \/ Halt \/ EnterPortal \/ ComeUp
  <2>1. UNCHANGED inboxVars
    BY <1>3 DEF Save, Boot, Halt, EnterPortal, ComeUp
  <2>2. QED
    BY <2>1, InboxStays
<1>4. CASE PortalSetId \/ PortalEnds \/ FactoryReset \/ LinkMoves \/ Update \/ OtaTick
  <2>1. UNCHANGED inboxVars
    BY <1>4 DEF PortalSetId, PortalEnds, FactoryReset, LinkMoves, Update, OtaTick
  <2>2. QED
    BY <2>1, InboxStays
<1>5. CASE Subscribe \/ ConfigureMessage \/ TunnelCommand \/ LanHost \/ Tick
  <2>1. UNCHANGED inboxVars
    BY <1>5 DEF Subscribe, ConfigureMessage, TunnelCommand, LanHost, Tick, Ticks
  <2>2. QED
    BY <2>1, InboxStays
<1>6. CASE MessageComes
  BY <1>6, ReceiveKeepsInbox DEF MessageComes
<1>7. CASE AppAtInbox
  <2>1. CASE ReadInbox
    BY <2>1, ReadKeepsInbox
  <2>2. CASE AckRead
    BY <2>2, KeepKeepsInbox DEF AckRead
  <2>3. ASSUME NEW from \in Senders, AckSender(from) PROVE InboxInv'
    BY <2>3, KeepKeepsInbox DEF AckSender
  <2>4. QED
    BY <1>7, <2>1, <2>2, <2>3 DEF AppAtInbox
<1>8. QED
  BY <1>1, <1>2, <1>3, <1>4, <1>5, <1>6, <1>7 DEF Next

-----------------------------------------------------------------------------
(***************************************************************************)
(* The invariants of the run.                                              *)
(***************************************************************************)
\* The types of what no part has, and the bounds.
Bounds == /\ ending \in BOOLEAN /\ link \in BOOLEAN
          /\ ops \in 0 .. MaxOps /\ crashes \in 0 .. MaxCrashes /\ torn \in 0 .. crashes

LEMMA InitBounds == Init => Bounds
<1>1. 0 \in 0 .. MaxOps /\ 0 \in 0 .. MaxCrashes /\ 0 \in 0 .. 0
  BY LifeAssumption
<1>2. QED
  BY <1>1 DEF Init, Bounds

LEMMA BoundsStay ==
  ASSUME Bounds, ending' \in BOOLEAN, link' \in BOOLEAN, UNCHANGED <<crashes, torn>>,
         ops' = ops \/ Op
  PROVE  Bounds'
<1>1. ops' \in 0 .. MaxOps
  BY LifeAssumption DEF Bounds, Op
<1>2. QED
  BY <1>1 DEF Bounds

LEMMA NextBounds ==
  ASSUME Bounds, [Next]_vars
  PROVE  Bounds'
<1>1. CASE UNCHANGED vars
  BY <1>1, BoundsStay DEF Bounds, vars, lifeVars
<1>2. CASE Restart
  BY <1>2, BoundsStay DEF Restart, GoDown
<1>3. CASE Crash
  <2>1. /\ ending' = FALSE /\ link' = FALSE /\ ops' = ops
        /\ crashes' = crashes + 1 /\ crashes < MaxCrashes
        /\ torn' = torn \/ torn' = torn + 1
    BY <1>3 DEF Crash, GoDown
  <2>2. crashes' \in 0 .. MaxCrashes /\ torn' \in 0 .. crashes'
    BY <2>1, LifeAssumption DEF Bounds
  <2>3. QED
    BY <2>1, <2>2 DEF Bounds
<1>4. CASE Save \/ Boot \/ Halt \/ EnterPortal \/ ComeUp
  <2>1. UNCHANGED <<ending, link, ops, crashes, torn>>
    BY <1>4 DEF Save, Boot, Halt, EnterPortal, ComeUp, lifeVars
  <2>2. QED
    BY <2>1, BoundsStay DEF Bounds
<1>5. CASE PortalSetId \/ PortalEnds \/ FactoryReset \/ LinkMoves \/ Update \/ OtaTick
  <2>1. /\ UNCHANGED <<crashes, torn>> /\ (ops' = ops \/ Op)
        /\ ending' = ending \/ ending' = TRUE
        /\ link' = link \/ link' = ~link
    BY <1>5 DEF PortalSetId, PortalEnds, FactoryReset, LinkMoves, Update, OtaTick, bootVars
  <2>2. QED
    BY <2>1, BoundsStay DEF Bounds
<1>6. CASE Subscribe \/ ConfigureMessage \/ MessageComes \/ AppAtInbox \/ TunnelCommand
  <2>1. UNCHANGED <<ending, link, crashes, torn>> /\ Op
    BY <1>6 DEF Subscribe, ConfigureMessage, MessageComes, AppAtInbox, TunnelCommand, bootVars
  <2>2. QED
    BY <2>1, BoundsStay DEF Bounds
<1>7. CASE LanHost \/ Tick
  <2>1. UNCHANGED lifeVars
    BY <1>7 DEF LanHost, Tick, Ticks
  <2>2. QED
    BY <2>1, BoundsStay DEF Bounds, lifeVars
<1>8. QED
  BY <1>1, <1>2, <1>3, <1>4, <1>5, <1>6, <1>7 DEF Next

\* The inductive invariant.
NodeInv == /\ SettledInv /\ TunnelInv /\ (power # "up" => ~TunnelActive)
           /\ InboxInv /\ Bounds

\* The invariant of the run: no id has two slots and no reserved prefix is in
\* use; the newest messages are in the inbox, in order, but for those the app
\* removed; the terminal runs only with its buffers and the permission, loses
\* no chunk but to a failed send or a close the host did not ask for, and
\* mixes no two sessions; the id stays, and only a crash makes a node halt.
THEOREM NodeLifeInv == Spec => []Inv
<1>1. Init => NodeInv
  <2>1. Init => (power # "up" => ~TunnelActive)
    BY DEF Init, TunnelInit, TunnelActive
  <2>2. QED
    BY <2>1, InitTables, InitIdentity, InitOtaInv, InitTunnel, InitInbox, InitBounds
       DEF NodeInv, SettledInv
<1>2. NodeInv /\ [Next]_vars => NodeInv'
  <2> SUFFICES ASSUME NodeInv, [Next]_vars PROVE NodeInv'
    OBVIOUS
  <2>1. SettledInv'
    BY NextSettled DEF NodeInv
  <2>2. TunnelInv' /\ (power # "up" => ~TunnelActive)'
    BY NextTunnel DEF NodeInv
  <2>3. QED
    BY <2>1, <2>2, NextInbox, NextBounds DEF NodeInv
<1>3. NodeInv => Inv
  <2> SUFFICES ASSUME NodeInv PROVE Inv
    OBVIOUS
  <2>1. TypeOK
    BY DEF NodeInv, TypeOK, TunnelInv, Bounds, SettledInv, IdInv, IdByMode
  <2>2. SubMapSound /\ OneSlotPerId /\ PairMatches
    BY DEF NodeInv, SettledInv, TableInv, IdInv
  <2>3. IdentityKept
    <3>1. known # None => power # "halted" /\ deviceId \in {None, known}
      BY DEF NodeInv, SettledInv, IdInv, KnownKept
    <3>2. power = "halted" => Stored("pubkey", 0) = None /\ torn > 0
      BY DEF NodeInv, SettledInv, IdInv, IdByMode, HalfByCrash, Priv, Pub
    <3>3. QED
      BY <2>2, <3>1, <3>2 DEF IdentityKept
  <2>4. QED
    BY <2>1, <2>2, <2>3, TunnelSound DEF Inv, NodeInv, InboxInv
<1>4. QED
  BY <1>1, <1>2, <1>3, PTL DEF Spec

\* The id others know the node by (identity_init) is a different one only
\* after a factory reset or an id set by hand.
IdMovesOnPurpose == known # None => known' = known \/ FactoryReset \/ PortalSetId

\* identity.cpp over all restarts, updates, power cuts and crashes: none of them
\* gives a node another id.
THEOREM NodeLifeIdMoves == Spec => [][IdMovesOnPurpose]_vars
<1>1. SettledInv /\ [Next]_vars => [IdMovesOnPurpose]_vars
  <2> SUFFICES ASSUME SettledInv, Next, known # None, ~FactoryReset, ~PortalSetId
               PROVE  known' = known
    BY DEF IdMovesOnPurpose
  <2>1. CASE EnterPortal \/ ComeUp
    <3>1. known' = deviceId /\ power = "boot" /\ Idle /\ SignWorks
      BY <2>1 DEF EnterPortal, ComeUp, InSetup, BecomesKnown
    <3>2. pub = Pub /\ deviceId = IdOf(pub) /\ IdOf(Pub) = known
      BY <3>1, BootIsLoaded DEF SettledInv, IdInv, IdByMode, KnownKept, SignWorks
    <3>3. QED
      BY <3>1, <3>2
  <2>2. CASE Restart \/ Crash
    BY <2>2 DEF Restart, Crash, GoDown, IdentityForgotten
  <2>3. CASE Boot
    BY <2>3 DEF Boot, LoadIdentity
  <2>4. CASE Save \/ Halt \/ PortalEnds
    BY <2>4 DEF Save, Halt, PortalEnds, identityVars
  <2>5. CASE LinkMoves \/ Update \/ OtaTick \/ Subscribe \/ ConfigureMessage
    BY <2>5 DEF LinkMoves, Update, OtaTick, Subscribe, ConfigureMessage, bootVars, identityVars
  <2>6. CASE MessageComes \/ AppAtInbox \/ TunnelCommand
    BY <2>6 DEF MessageComes, AppAtInbox, TunnelCommand, bootVars, identityVars
  <2>7. CASE LanHost \/ Tick
    BY <2>7 DEF LanHost, Tick, Ticks, identityVars
  <2>8. QED
    BY <2>1, <2>2, <2>3, <2>4, <2>5, <2>6, <2>7 DEF Next
<1>2. QED
  BY <1>1, NodeLifeSettled, PTL DEF Spec
=============================================================================

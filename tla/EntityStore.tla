---------------------------- MODULE EntityStore -----------------------------
(***************************************************************************)
(* The entity store (entity_store.cpp): what the node measures itself      *)
(* (pub, mon), what its user feeds in (own) and what other nodes and       *)
(* scripts leave (pool), each in a table of fixed size.  Values and units  *)
(* are left out: an entry is its id and the time since it was written.     *)
(* An entry has room for 35 characters of an id.  A longer one is kept cut *)
(* off, but looked for whole.                                              *)
(* tmp[], which nothing outside the scripts reads, is a ring like pool[].  *)
(***************************************************************************)
EXTENDS Naturals, FiniteSets, Sequences

CONSTANTS PubMax, MonMax, OwnMax, PoolMax,   \* ENTITY_PUB_MAX, ...
          NativeMax,                         \* NATIVE_MAX
          Cut,      \* what an entry keeps of each id that does not fit entity_id[36]
          AgeMax    \* bound: ages are counted up to this, entries as old are equally old

ASSUME StoreAssumption == /\ {PubMax, MonMax, OwnMax, PoolMax} \subseteq Nat \ {0}
                          /\ NativeMax \in Nat /\ AgeMax \in Nat \ {0}

\* Only what other nodes name can be too long (push_remote_entities); the
\* prefix they get is not one of the node's own, and it fits.
ASSUME CutAssumption == \A id \in DOMAIN Cut : /\ id.prefix \notin {"pub", "mon", "own", ""}
                                               /\ Cut[id].prefix = id.prefix
                                               /\ Cut[id] \notin DOMAIN Cut

VARIABLES store,    \* the four tables
          native    \* g_native: the keys the BE named, in no order

storeVars == <<store, native>>

\* An id is a prefix and a key; the prefix of a bare name is "".
Id(prefix, key) == [prefix |-> prefix, key |-> key]

EmptyStore == [pub |-> <<>>, mon |-> <<>>, own |-> <<>>, pool |-> <<>>]

\* Mistakes used by the project's mutants only.
FirstSlot(t) == 1

-----------------------------------------------------------------------------
\* entity_is_native
IsNative(id, natives) == id.prefix \in {"pub", "mon", ""} /\ id.key \in natives

\* entity_load_native, for each key of a list
WithNative(natives, key) == IF Cardinality(natives) < NativeMax THEN natives \cup {key} ELSE natives
WithNatives(natives, keys) ==
  LET after[n \in 0 .. Len(keys)] == IF n = 0 THEN natives ELSE WithNative(after[n - 1], keys[n])
  IN after[Len(keys)]

\* entity_classify: a bare name becomes pub. if the BE knows it, else own.
Classify(id, natives) ==
  IF id.prefix # "" THEN id
  ELSE IF IsNative(id, natives) THEN Id("pub", id.key) ELSE Id("own", id.key)

\* fill_entry
Stored(id) == IF id \in DOMAIN Cut THEN Cut[id] ELSE id
Entry(id) == [id |-> Stored(id), age |-> 0]

\* The whole id is compared, so a long one is never found (find_in, and the
\* loops over the rings, which stop at the first entry with the id).
Holds(t, id) == \E k \in DOMAIN t : t[k].id = id
SlotOf(t, id) == CHOOSE k \in DOMAIN t : /\ t[k].id = id
                                          /\ \A l \in DOMAIN t : t[l].id = id => k <= l

\* An id that is there is written in place.
Refresh(t, id) == [t EXCEPT ![SlotOf(t, id)] = Entry(id)]

\* The first of the entries that were not written for longest.
OldestSlot(t) ==
  CHOOSE k \in DOMAIN t : \A l \in DOMAIN t : \/ t[k].age > t[l].age
                                              \/ t[k].age = t[l].age /\ k <= l

\* A new id into a table: at its end, or in the place of the oldest.
PutTable(t, id, max) ==
  IF Holds(t, id) THEN Refresh(t, id)
  ELSE IF Len(t) < max THEN Append(t, Entry(id))
  ELSE [t EXCEPT ![OldestSlot(t)] = Entry(id)]

\* A new id into a ring: over the entry that came first, however lately it
\* was refreshed.
PutRing(t, id, max) ==
  IF Holds(t, id) THEN Refresh(t, id)
  ELSE IF Len(t) < max THEN Append(t, Entry(id)) ELSE Append(Tail(t), Entry(id))

\* Until the BE has named the natives, every pub. and mon. is taken.
Blocked(id, natives) == natives # {} /\ ~IsNative(id, natives)

\* entity_push
Push(s, id, natives) ==
  CASE id.prefix = "pub" -> IF Blocked(id, natives) THEN s
                            ELSE [s EXCEPT !.pub = PutTable(@, id, PubMax)]
    [] id.prefix = "mon" -> IF Blocked(id, natives) THEN s
                            ELSE [s EXCEPT !.mon = PutTable(@, id, MonMax)]
    [] id.prefix = "own" -> [s EXCEPT !.own = PutTable(@, id, OwnMax)]
    [] OTHER             -> [s EXCEPT !.pool = PutRing(@, id, PoolMax)]

\* One push after the other.
PushAll(s, ids, natives) ==
  LET after[n \in 0 .. Len(ids)] == IF n = 0 THEN s ELSE Push(after[n - 1], ids[n], natives)
  IN after[Len(ids)]

\* entity_own_prune: the fresh entries move up, in their order; ttl 0 turns it off.
Prune(t, ttl) ==
  LET fresh == {k \in DOMAIN t : t[k].age <= ttl}
      nth(n) == CHOOSE k \in fresh : Cardinality({i \in fresh : i <= k}) = n
  IN IF ttl = 0 THEN t ELSE [n \in 1 .. Cardinality(fresh) |-> t[nth(n)]]

\* Time passes for the entries; nothing asks for the age of one in the pool.
Aged(t) == [k \in DOMAIN t |-> [t[k] EXCEPT !.age = IF @ < AgeMax THEN @ + 1 ELSE @]]
AgedStore(s) == [s EXCEPT !.pub = Aged(@), !.mon = Aged(@), !.own = Aged(@)]

-----------------------------------------------------------------------------
\* What a batch carries (build_entity_payload): of pub. only what is native,
\* a bare native as pub., every own., and of the pool nothing else.
Public(id, natives) == IsNative(id, natives) /\ id.prefix \in {"pub", ""}
BatchEntities(s, natives) ==
  {id \in {s.pub[k].id : k \in DOMAIN s.pub} \cup {s.pool[k].id : k \in DOMAIN s.pool} :
     Public(id, natives)}
=============================================================================

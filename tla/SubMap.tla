------------------------------- MODULE SubMap -------------------------------
(***************************************************************************)
(* The subscription map (subscription_map.cpp): under which prefix the     *)
(* entities of another node are kept.  A ring of SubMax slots in RAM, all  *)
(* of it saved on every change, key by key.                                *)
(***************************************************************************)
EXTENDS NodeFlash

CONSTANTS Targets,    \* ids of other nodes
          SubMax      \* SUB_MAP_MAX

VARIABLES subMap,     \* _map: target and prefix of each slot
          subHead     \* _head

subVars == <<subMap, subHead>>

SubSlots == 0 .. SubMax - 1
SubKeys == {Key("head", 0)} \cup {Key(f, i) : f \in {"t", "p"}, i \in SubSlots}

\* A prefix is known by the node it was chosen for.  "sub" is the default,
\* and "mon" stands for the reserved ones, which an older firmware let the
\* user choose.
PrefixFor(t) == [of |-> t]
Default == [of |-> "sub"]
Reserved == [of |-> "mon"]

ASSUME SubAssumption == SubMax \in Nat \ {0} /\ None # Reserved

NoEntry == [target |-> None, prefix |-> None]

SubEmpty == subMap = [i \in SubSlots |-> NoEntry] /\ subHead = 0

-----------------------------------------------------------------------------
SlotsOf(t) == {i \in SubSlots : subMap[i].target = t}

Sanitized(p) == IF p = Reserved THEN Default ELSE p

\* nvsSave.
SubSaves(m, h) ==
  <<Put("head", 0, h)>> \o
    [n \in 1 .. 2 * SubMax |->
       LET i == (n - 1) \div 2
       IN IF n % 2 = 1 THEN Put("t", i, m[i].target) ELSE Put("p", i, m[i].prefix)]

StoredHead == IF Stored("head", 0) = None THEN 0 ELSE Stored("head", 0)
StoredMap == [i \in SubSlots |-> [target |-> Stored("t", i),
                                  prefix |-> Sanitized(Stored("p", i))]]

\* sub_map_init.
SubLoad == subHead' = StoredHead /\ subMap' = StoredMap

\* sub_map_set: the slot of the target, or the next one of the ring.
SubMapSet(t, p) ==
  \E i \in SubSlots :
    /\ IF SlotsOf(t) # {} THEN i \in SlotsOf(t) /\ subHead' = subHead
                          ELSE i = subHead /\ subHead' = (subHead + 1) % SubMax
    /\ subMap' = [subMap EXCEPT ![i] = [target |-> t, prefix |-> Sanitized(p)]]
    /\ Saves(SubSaves(subMap', subHead'))

SubForgotten == subMap' = [i \in SubSlots |-> NoEntry] /\ subHead' = 0

-----------------------------------------------------------------------------
\* A node has one slot, and no slot a reserved prefix: entities of another
\* node never enter the namespace of this node's own measurements, whatever
\* an older firmware left in flash.
SubMapSound == /\ \A i, j \in SubSlots :
                    subMap[i].target = subMap[j].target /\ subMap[i].target # None => i = j
               /\ \A i \in SubSlots : subMap[i].prefix # Reserved

\* Slots whose prefix was chosen for another node.
SubMixed == {i \in SubSlots : /\ subMap[i].target # None
                              /\ subMap[i].prefix \notin {Default, PrefixFor(subMap[i].target)}}
=============================================================================

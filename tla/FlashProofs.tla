---------------------------- MODULE FlashProofs -----------------------------
(***************************************************************************)
(* Proofs about what a node keeps in flash.                                *)
(*                                                                         *)
(* UserScripts, for every set of scripts, every number of slots, and a     *)
(* node that can read its files and write them to the end: the temporary   *)
(* file and the rename make a store that is replaced as a whole.           *)
(*                                                                         *)
(* Onboarding, for every set of owners, access points and typed names and  *)
(* every bound: a node acts on what its flash says, wherever it crashes.   *)
(***************************************************************************)
EXTENDS UserScripts, Onboarding, WellFoundedInduction, SequenceTheorems, TLAPS

Slots == 0..MaxScripts-1

\* Documents and edits in which the count is a number and the slots hold
\* scripts.
GoodDocs == {d \in Docs : /\ d[Count] \in Numbers \cup {NoValue}
                          /\ \A n \in Slots : d[Us(n)] \in Scripts \cup {NoValue}}
CountEdits == [key : {Count}, value : Numbers]
SlotEdits == [key : {Us(n) : n \in Slots}, value : Scripts \cup {NoValue}]
Edits == CountEdits \cup SlotEdits \cup {NoEdit}

\* The inductive invariant.
StoreInv == /\ file \in GoodDocs \cup {Absent}
            /\ tmp \in GoodDocs \cup {Absent, Torn}
            /\ doc \in GoodDocs \cup {Closed}
            /\ saving \in {"no", "open", "write", "rename"}
            /\ saving # "no" => doc # Closed
            /\ saving = "rename" => tmp = doc
            /\ toEdit \in Seq(Edits)

-----------------------------------------------------------------------------
\* The empty document is a good one, and no document is one of the marks.
LEMMA EmptyIsGood == Empty \in GoodDocs
BY DEF Empty, GoodDocs, Docs, StoreKeys, Slots, Count, Us

LEMMA DocIsNoMark ==
  ASSUME NEW d \in GoodDocs
  PROVE  d \notin {Closed, Torn, Absent}
BY ScriptsAssumption DEF GoodDocs, Docs

\* What a file is read as is a good document.
LEMMA ReadIsGood ==
  ASSUME StoreInv, NEW d \in ReadAs(file)
  PROVE  d \in GoodDocs
BY EmptyIsGood DEF StoreInv, ReadAs, Loaded

\* A set of slots has a first one.
LEMMA FirstExists ==
  ASSUME NEW S \in SUBSET Nat, S # {}
  PROVE  First(S) \in S
<1>1. PICK n \in S : \A m \in S : <<m, n>> \notin OpToRel(<, Nat)
  BY NatLessThanWellFounded, WFMin
<1>2. ASSUME NEW m \in S PROVE ~(m < n)
  <2>1. <<m, n>> \notin {p \in Nat \X Nat : p[1] < p[2]}
    BY <1>1, Zenon DEF OpToRel
  <2>2. QED
    BY <2>1
<1>3. \A m \in S : n <= m
  BY <1>2
<1>4. QED
  BY <1>3 DEF First

\* A slot that holds the id is one of the table.
LEMMA FirstSlot ==
  ASSUME NEW d \in GoodDocs, NEW id, SlotsOf(d, id) # {}
  PROVE  First(SlotsOf(d, id)) \in {n \in Slots : n < Stored(d)}
<1>1. SlotsOf(d, id) \in SUBSET Nat /\ SlotsOf(d, id) \subseteq {n \in Slots : n < Stored(d)}
  BY ScriptsAssumption DEF SlotsOf, Slots
<1>2. QED
  BY <1>1, FirstExists

LEMMA StoredType ==
  ASSUME NEW d \in GoodDocs
  PROVE  Stored(d) \in 0..MaxScripts
BY ScriptsAssumption DEF GoodDocs, Stored, Numbers, Number

\* What a handler is going to write are edits of the namespace.
LEMMA PostEditsType ==
  ASSUME NEW d \in GoodDocs, NEW s \in Scripts, ~PostRefused(d, s)
  PROVE  PostEdits(d, s) \in Seq(Edits)
<1>1. CASE SlotsOf(d, s.id) # {}
  <2>1. Put(Us(First(SlotsOf(d, s.id))), s) \in Edits
    BY <1>1, FirstSlot DEF Edits, SlotEdits, Put
  <2>2. QED
    BY <1>1, <2>1 DEF PostEdits
<1>2. CASE SlotsOf(d, s.id) = {}
  <2>1. Stored(d) \in Slots
    BY <1>2, StoredType, ScriptsAssumption DEF PostRefused, Slots
  <2>2. Put(Count, Number(Stored(d) + 1)) \in Edits
    BY <2>1, ScriptsAssumption DEF Edits, CountEdits, Numbers, Slots, Put
  <2>3. Put(Us(Stored(d)), s) \in Edits
    BY <2>1 DEF Edits, SlotEdits, Put
  <2>4. QED
    BY <1>2, <2>2, <2>3 DEF PostEdits
<1>3. QED
  BY <1>1, <1>2

LEMMA DeleteEditsType ==
  ASSUME NEW d \in GoodDocs, NEW id, SlotsOf(d, id) # {}
  PROVE  DeleteEdits(d, id) \in Seq(Edits)
<1> DEFINE n == First(SlotsOf(d, id))
           count == Stored(d)
           moves == [k \in 1..2 * (count - 1 - n) |-> MoveEdit(d, n, k - 1)]
<1>1. n \in Slots /\ n < count /\ count \in 1..MaxScripts
  BY FirstSlot, StoredType, ScriptsAssumption DEF Slots
<1> HIDE DEF n, count
<1>2. ASSUME NEW k \in 1..2 * (count - 1 - n) PROVE MoveEdit(d, n, k - 1) \in Edits
  <2> DEFINE half == (k - 1) \div 2
  <2>1. half \in Nat /\ n + half + 1 \in Slots /\ n + half \in Slots /\ (k - 1) % 2 \in {0, 1}
    BY <1>1, ScriptsAssumption DEF Slots
  <2>2. d[Us(n + half + 1)] \in Scripts \cup {NoValue}
    BY <2>1 DEF GoodDocs
  <2>3. Put(Us(n + half), d[Us(n + half + 1)]) \in Edits /\ RemoveKey(Us(n + half + 1)) \in Edits
    BY <2>1, <2>2 DEF Edits, SlotEdits, Put, RemoveKey
  <2>4. Move(d, n + half)[1 + ((k - 1) % 2)] \in Edits
    BY <2>1, <2>3 DEF Move
  <2>5. QED
    BY <2>4 DEF MoveEdit, Edits
<1>3. moves \in Seq(Edits)
  <2>1. 2 * (count - 1 - n) \in Nat
    BY <1>1 DEF Slots
  <2>2. QED
    BY <1>2, <2>1, IsASeq
<1>4. RemoveKey(Us(n)) \in Edits /\ Put(Count, Number(count - 1)) \in Edits
  BY <1>1, ScriptsAssumption DEF Edits, SlotEdits, CountEdits, Put, RemoveKey, Numbers
<1>5. InOrder(count, n, moves) \in Seq(Edits)
  BY <1>3, <1>4, ConcatProperties DEF InOrder
<1>6. QED
  BY <1>5 DEF DeleteEdits, n, count

\* An edit makes a good document of a good one.
LEMMA EditKeepsGood ==
  ASSUME NEW d \in GoodDocs, NEW e \in Edits, e # NoEdit
  PROVE  [d EXCEPT ![e.key] = e.value] \in GoodDocs
<1>1. CASE e \in CountEdits
  BY <1>1 DEF GoodDocs, Docs, CountEdits, StoreKeys, StoreValues, Slots, Count, Us
<1>2. CASE e \in SlotEdits
  BY <1>2 DEF GoodDocs, Docs, SlotEdits, StoreKeys, StoreValues, Slots, Count, Us
<1>3. QED
  BY <1>1, <1>2 DEF Edits

-----------------------------------------------------------------------------
LEMMA StoreInit == Init => StoreInv
<1> SUFFICES ASSUME Init PROVE StoreInv
  OBVIOUS
<1>1. QED
  BY DEF Init, PrefsInit, StoreInv

\* The start of a handler of either kind.
LEMMA StartKeeps ==
  ASSUME StoreInv, NEW d, NEW edits \in Seq(Edits), Starts(d, edits)
  PROVE  StoreInv'
BY ReadIsGood DEF StoreInv, Starts, Begin

LEMMA PostKeeps ==
  ASSUME StoreInv, NEW s \in Scripts, Post(s)
  PROVE  StoreInv'
<1>1. PICK d \in ReadAs(file) : Starts(d, IF PostRefused(d, s) THEN <<>> ELSE PostEdits(d, s))
  BY DEF Post
<1>2. (IF PostRefused(d, s) THEN <<>> ELSE PostEdits(d, s)) \in Seq(Edits)
  BY ReadIsGood, PostEditsType
<1>3. QED
  BY <1>1, <1>2, StartKeeps

LEMMA DeleteKeeps ==
  ASSUME StoreInv, NEW id \in Ids, Delete(id)
  PROVE  StoreInv'
<1>1. PICK d \in ReadAs(file) :
        Starts(d, IF SlotsOf(d, id) = {} THEN <<>> ELSE DeleteEdits(d, id))
  BY DEF Delete
<1>2. (IF SlotsOf(d, id) = {} THEN <<>> ELSE DeleteEdits(d, id)) \in Seq(Edits)
  BY ReadIsGood, DeleteEditsType
<1>3. QED
  BY <1>1, <1>2, StartKeeps

LEMMA NextEditKeeps ==
  ASSUME StoreInv, NextEdit
  PROVE  StoreInv'
<1>1. Head(toEdit) \in Edits /\ Tail(toEdit) \in Seq(Edits)
  BY HeadTailProperties DEF StoreInv, NextEdit
<1>2. CASE Head(toEdit) = NoEdit
  BY <1>1, <1>2 DEF StoreInv, NextEdit
<1>3. CASE Head(toEdit) # NoEdit
  <2>1. doc \in GoodDocs /\ doc' = [doc EXCEPT ![Head(toEdit).key] = Head(toEdit).value]
    BY <1>3 DEF StoreInv, NextEdit, Edit
  <2>2. doc' \in GoodDocs
    BY <1>1, <1>3, <2>1, EditKeepsGood
  <2>3. QED
    BY <1>1, <1>3, <2>2, DocIsNoMark DEF StoreInv, NextEdit, Edit
<1>4. QED
  BY <1>2, <1>3

LEMMA SaveKeeps ==
  ASSUME ~FlashFull, StoreInv, SaveStep, toEdit' = toEdit
  PROVE  StoreInv'
<1>1. CASE OpenTmp
  BY <1>1 DEF StoreInv, OpenTmp, TruncateTmp
<1>2. CASE WriteTmp
  BY <1>2 DEF StoreInv, WriteTmp, WrittenAs
<1>3. CASE Rename
  BY <1>3 DEF StoreInv, Rename
<1>4. QED
  BY <1>1, <1>2, <1>3 DEF SaveStep

LEMMA NextStoreInv ==
  ASSUME ~FlashFull, StoreInv, [Next]_vars
  PROVE  StoreInv'
<1>1. CASE Finish
  BY <1>1 DEF StoreInv, Finish, End
<1>2. CASE Reset
  BY <1>2 DEF StoreInv, Reset, LoseDoc
<1>3. CASE UNCHANGED vars
  BY <1>3 DEF StoreInv, vars, prefsVars
<1>4. QED
  BY <1>1, <1>2, <1>3, PostKeeps, DeleteKeeps, NextEditKeeps, SaveKeeps DEF Next

-----------------------------------------------------------------------------
\* Each step is one of the store's or leaves it as it is.
LEMMA RenameCommits ==
  ASSUME StoreInv, Rename
  PROVE  [Store!Next]_<<Loaded(file), doc>>
<1>1. doc \in GoodDocs /\ tmp = doc
  BY DEF StoreInv, Rename
<1>2. CASE file' = tmp
  BY <1>1, <1>2, DocIsNoMark DEF Rename, Loaded, Store!Next, Store!Commit
<1>3. CASE file' = file
  BY <1>3 DEF Rename, Loaded
<1>4. QED
  BY <1>2, <1>3 DEF Rename

LEMMA EditRefines ==
  ASSUME StoreInv, NextEdit
  PROVE  [Store!Next]_<<Loaded(file), doc>>
<1>1. CASE Head(toEdit) = NoEdit
  BY <1>1 DEF NextEdit, Loaded
<1>2. CASE Head(toEdit) # NoEdit
  <2>1. Head(toEdit) \in Edits \ {NoEdit}
    BY <1>2, HeadTailProperties DEF StoreInv, NextEdit
  <2>2. Head(toEdit).key \in StoreKeys
    BY <2>1 DEF Edits, CountEdits, SlotEdits, StoreKeys, Slots
  <2>3. doc \in Docs /\ doc # Closed /\ file' = file
    BY <1>2 DEF StoreInv, NextEdit, Edit, GoodDocs
  <2>4. doc' = [doc EXCEPT ![Head(toEdit).key] = Head(toEdit).value]
    BY <1>2 DEF NextEdit, Edit
  <2>5. doc' \in GoodDocs
    BY <2>1, <2>3, <2>4, EditKeepsGood DEF StoreInv
  <2>6. \A l \in StoreKeys \ {Head(toEdit).key} : doc'[l] = doc[l]
    BY <2>3, <2>4 DEF Docs
  <2>7. Store!Edit
    BY <2>2, <2>3, <2>5, <2>6 DEF Store!Edit, GoodDocs, Docs, Loaded
  <2>8. QED
    BY <2>7 DEF Store!Next
<1>3. QED
  BY <1>1, <1>2

LEMMA NextRefines ==
  ASSUME ~LowHeap, StoreInv, [Next]_vars
  PROVE  [Store!Next]_<<Loaded(file), doc>>
<1>1. ASSUME NEW d, NEW edits, Starts(d, edits) PROVE Store!Open
  BY <1>1 DEF Starts, Begin, ReadAs, Loaded, Store!Open
<1>2. CASE \E s \in Scripts : Post(s)
  BY <1>1, <1>2 DEF Post, Store!Next
<1>3. CASE \E id \in Ids : Delete(id)
  BY <1>1, <1>3 DEF Delete, Store!Next
<1>4. CASE SaveStep
  BY <1>4, RenameCommits DEF SaveStep, OpenTmp, TruncateTmp, WriteTmp, Loaded
<1>5. CASE Finish
  BY <1>5 DEF Finish, End, Loaded, Store!Next, Store!Close
<1>6. CASE Reset
  BY <1>6 DEF Reset, LoseDoc, Loaded, Store!Next, Store!Close
<1>7. CASE UNCHANGED vars
  BY <1>7 DEF vars, prefsVars, Loaded
<1>8. QED
  BY <1>2, <1>3, <1>4, <1>5, <1>6, <1>7, EditRefines DEF Next

\* The namespace is a map that is replaced as a whole or not at all, for
\* every reset between two steps of save() (prefs_store.cpp), whatever the
\* handlers of the scripts write, as long as memory and flash suffice.
THEOREM ScriptsImplementStore ==
  ASSUME ~FlashFull, ~LowHeap
  PROVE  Spec => ImplementsStore
<1>1. Spec => []StoreInv
  BY StoreInit, NextStoreInv, PTL DEF Spec
<1>2. Init => Store!Init
  BY DEF Init, PrefsInit, Loaded, Empty, Store!Init, Store!Empty
<1>3. StoreInv /\ [Next]_vars => [Store!Next]_<<Loaded(file), doc>>
  BY NextRefines
<1>4. QED
  BY <1>1, <1>2, <1>3, PTL DEF Spec, ImplementsStore, Store!Spec

-----------------------------------------------------------------------------
\* What the handlers do to the document: the inductive invariant of NoStrays, with the
\* edits left to make described by the document as it stands.

\* From place k on, the scripts behind slot n move down and the count goes last.
MovesLeft(n) == 2 * (Stored(doc) - 1 - n)
Moving(n, k) ==
  /\ Len(toEdit) = k + MovesLeft(n) + 1
  /\ \A i \in 1..MovesLeft(n) : toEdit[k + i] = MoveEdit(doc, n, i - 1)
  /\ toEdit[k + MovesLeft(n) + 1] = Put(Count, Number(Stored(doc) - 1))

\* The stages of POST: a new id before its two edits, and before the last edit of either
\* kind of request.
Growing == /\ Stored(doc) < MaxScripts
           /\ \E s \in Scripts : toEdit = <<Put(Count, Number(Stored(doc) + 1)), Put(Us(Stored(doc)), s)>>
Filling == \E n \in Slots, s \in Scripts : n < Stored(doc) /\ toEdit = <<Put(Us(n), s)>>

\* The stages of DELETE: slot n is about to be emptied, or is empty and about to be
\* filled from the next.
Clears(n) == toEdit[1] = RemoveKey(Us(n)) \/ (toEdit[1] = NoEdit /\ doc[Us(n)] = NoValue)
Clearing == \E n \in Slots : n < Stored(doc) /\ Moving(n, 1) /\ Clears(n)
Holed == \E n \in Slots : n < Stored(doc) /\ Moving(n, 0) /\ doc[Us(n)] = NoValue

Stage == toEdit = <<>> \/ Growing \/ Filling \/ Clearing \/ Holed

StageInv == /\ busy = (doc # Closed)
            /\ NoStrays(Loaded(file))
            /\ doc # Closed => NoStrays(doc) /\ Stage

\* The scripts in the slots other than n.
Elsewhere(d, n) == {d[Us(m)] : m \in {x \in Slots : x # n /\ x < Stored(d) /\ d[Us(x)] # NoValue}}

\* What the next edit overwrites need not be kept or stands in another slot as well.
KeptInv == /\ kept \subseteq OnFlash(Loaded(file))
           /\ doc # Closed => kept \subseteq OnFlash(doc)
           /\ doc # Closed /\ toEdit # <<>> => \A n \in Slots :
                Head(toEdit).key = Us(n) /\ doc[Us(n)] # NoValue => kept \subseteq Elsewhere(doc, n)

-----------------------------------------------------------------------------
\* Keys are told apart by what they are for and by their number.
LEMMA KeysApart ==
  /\ Count \in StoreKeys /\ Count # NoValue
  /\ \A n \in Slots : Us(n) \in StoreKeys /\ Us(n) # Count /\ Us(n) # NoValue
  /\ \A n, m : Us(n) = Us(m) => n = m
BY ScriptsAssumption DEF Count, Us, StoreKeys, Slots

LEMMA NoStraysSlots ==
  ASSUME NEW d \in GoodDocs
  PROVE  NoStrays(d) <=> \A n \in Slots : n >= Stored(d) => d[Us(n)] = NoValue
BY DEF NoStrays, GoodDocs, Slots

LEMMA OnFlashSlots ==
  ASSUME NEW d
  PROVE  OnFlash(d) = {d[Us(n)] : n \in {m \in Slots : m < Stored(d) /\ d[Us(m)] # NoValue}}
BY DEF OnFlash, Slots

\* The document after an edit.
Edited(d, key, value) == [d EXCEPT ![key] = value]

\* An edit of a slot leaves the count and the other slots, an edit of the count the slots.
LEMMA SlotEdit ==
  ASSUME NEW d \in GoodDocs, NEW n \in Slots, NEW v
  PROVE  /\ Stored(Edited(d, Us(n), v)) = Stored(d)
         /\ Edited(d, Us(n), v)[Us(n)] = v
         /\ \A m \in Slots : m # n => Edited(d, Us(n), v)[Us(m)] = d[Us(m)]
<1> DEFINE e == Edited(d, Us(n), v)
<1>1. d \in [StoreKeys -> StoreValues \cup {NoValue}]
  BY DEF GoodDocs, Docs
<1>2. e[Count] = d[Count] /\ e[Us(n)] = v /\ \A m \in Slots : m # n => e[Us(m)] = d[Us(m)]
  BY <1>1, KeysApart DEF Edited
<1> HIDE DEF e
<1>3. Stored(e) = Stored(d)
  BY <1>2 DEF Stored
<1>4. QED
  BY <1>2, <1>3 DEF e

LEMMA CountEdit ==
  ASSUME NEW d \in GoodDocs, NEW c \in 0..MaxScripts
  PROVE  /\ Stored(Edited(d, Count, Number(c))) = c
         /\ \A m \in Slots : Edited(d, Count, Number(c))[Us(m)] = d[Us(m)]
<1> DEFINE e == Edited(d, Count, Number(c))
<1>1. d \in [StoreKeys -> StoreValues \cup {NoValue}]
  BY DEF GoodDocs, Docs
<1>2. e[Count] = Number(c) /\ \A m \in Slots : e[Us(m)] = d[Us(m)]
  BY <1>1, KeysApart DEF Edited
<1>3. Number(c) # NoValue
  BY ScriptsAssumption DEF StoreValues, Numbers
<1> HIDE DEF e
<1>4. Stored(e) = c
  BY <1>2, <1>3 DEF Stored, Number
<1>5. QED
  BY <1>2, <1>4 DEF e

\* The moves from a slot on depend on the slots behind it only.
LEMMA MovesAlike ==
  ASSUME NEW d, NEW e, NEW n \in Slots, NEW i \in Nat, n + (i \div 2) + 1 < MaxScripts,
         \A m \in Slots : m > n => e[Us(m)] = d[Us(m)]
  PROVE  MoveEdit(e, n, i) = MoveEdit(d, n, i)
<1> DEFINE half == i \div 2
<1>1. half \in Nat /\ n + half + 1 \in Slots /\ n + half + 1 > n
  BY ScriptsAssumption DEF Slots
<1> HIDE DEF half
<1>2. e[Us(n + half + 1)] = d[Us(n + half + 1)]
  BY <1>1
<1>3. Move(e, n + half) = Move(d, n + half)
  BY <1>2 DEF Move
<1>4. QED
  BY <1>2, <1>3 DEF MoveEdit, half

\* The places of three sequences in a row, the first and the last of length one.
InARow(row, a, b, c) == /\ Len(row) = 1 + Len(b) + 1
                        /\ row[1] = a[1]
                        /\ \A k \in 1..Len(b) : row[1 + k] = b[k]
                        /\ row[1 + Len(b) + 1] = c[1]

LEMMA ThreeInARow ==
  ASSUME NEW S, NEW a \in Seq(S), NEW b \in Seq(S), NEW c \in Seq(S), Len(a) = 1, Len(c) = 1
  PROVE  InARow((a \o b) \o c, a, b, c)
<1> DEFINE p == a \o b
           q == p \o c
<1>1. Len(b) \in Nat
  OBVIOUS
<1>2. /\ p \in Seq(S) /\ Len(p) = Len(a) + Len(b)
      /\ \A i \in 1..Len(a) + Len(b) : p[i] = IF i <= Len(a) THEN a[i] ELSE b[i - Len(a)]
  BY ConcatProperties, Zenon
<1> HIDE DEF p
<1>3. /\ q \in Seq(S) /\ Len(q) = Len(p) + Len(c)
      /\ \A i \in 1..Len(p) + Len(c) : q[i] = IF i <= Len(p) THEN p[i] ELSE c[i - Len(p)]
  <2>1. p \in Seq(S)
    BY <1>2
  <2>2. QED
    BY <2>1, ConcatProperties, Zenon
<1> HIDE DEF q
<1>4. q[1] = a[1]
  BY <1>1, <1>2, <1>3
<1>5. ASSUME NEW k \in 1..Len(b) PROVE q[1 + k] = b[k]
  <2>1. p[1 + k] = b[(1 + k) - 1]
    BY <1>1, <1>2
  <2>2. q[1 + k] = p[1 + k]
    BY <1>1, <1>2, <1>3
  <2>3. (1 + k) - 1 = k
    BY <1>1
  <2>4. QED
    BY <2>1, <2>2, <2>3
<1>6. q[1 + Len(b) + 1] = c[1]
  <2>1. q[1 + Len(b) + 1] = c[(1 + Len(b) + 1) - (1 + Len(b))]
    BY <1>1, <1>2, <1>3
  <2>2. (1 + Len(b) + 1) - (1 + Len(b)) = 1
    BY <1>1
  <2>3. QED
    BY <2>1, <2>2
<1>7. QED
  <2>1. InARow(q, a, b, c)
    BY <1>2, <1>3, <1>4, <1>5, <1>6 DEF InARow
  <2>2. QED
    BY <2>1 DEF p, q

\* After the two edits that fill slot n from the next, the moves from there are left.
LEMMA MovesShift ==
  ASSUME NEW d, NEW n \in Nat, NEW i \in Nat
  PROVE  MoveEdit(d, n, i + 2) = MoveEdit(d, n + 1, i)
<1>1. (i + 2) \div 2 = (i \div 2) + 1 /\ (i + 2) % 2 = i % 2 /\ i \div 2 \in Nat
  OBVIOUS
<1>2. n + ((i \div 2) + 1) = (n + 1) + (i \div 2)
  BY <1>1
<1>3. QED
  BY <1>1, <1>2 DEF MoveEdit

LEMMA FirstTwoMoves ==
  ASSUME NEW d, NEW n \in Nat
  PROVE  /\ MoveEdit(d, n, 0) = IF d[Us(n + 1)] = NoValue THEN NoEdit ELSE Put(Us(n), d[Us(n + 1)])
         /\ MoveEdit(d, n, 1) = IF d[Us(n + 1)] = NoValue THEN NoEdit ELSE RemoveKey(Us(n + 1))
<1>1. 0 \div 2 = 0 /\ 1 \div 2 = 0 /\ 0 % 2 = 0 /\ 1 % 2 = 1 /\ n + 0 = n
  OBVIOUS
<1>2. QED
  BY <1>1 DEF MoveEdit, Move

-----------------------------------------------------------------------------
\* The edits of a request, as stages of the document it has just read.
LEMMA PostStage ==
  ASSUME NEW d \in GoodDocs, NEW s \in Scripts, ~PostRefused(d, s),
         doc' = d, toEdit' = PostEdits(d, s)
  PROVE  (Growing \/ Filling)'
<1>1. CASE SlotsOf(d, s.id) # {}
  <2> DEFINE n == First(SlotsOf(d, s.id))
  <2>1. n \in Slots /\ n < Stored(d)
    BY <1>1, FirstSlot
  <2>2. toEdit' = <<Put(Us(n), s)>>
    BY <1>1 DEF PostEdits
  <2> HIDE DEF n
  <2>3. Filling'
    BY <2>1, <2>2 DEF Filling
  <2>4. QED
    BY <2>3
<1>2. CASE SlotsOf(d, s.id) = {}
  <2>1. Stored(d) < MaxScripts
    BY <1>2, StoredType, ScriptsAssumption DEF PostRefused
  <2>2. Growing'
    BY <1>2, <2>1 DEF Growing, PostEdits
  <2>3. QED
    BY <2>2
<1>3. QED
  BY <1>1, <1>2

LEMMA DeleteStage ==
  ASSUME NEW d \in GoodDocs, NEW id, SlotsOf(d, id) # {},
         doc' = d, toEdit' = DeleteEdits(d, id)
  PROVE  /\ Clearing'
         /\ First(SlotsOf(d, id)) \in Slots /\ First(SlotsOf(d, id)) < Stored(d)
         /\ Head(toEdit') = RemoveKey(Us(First(SlotsOf(d, id))))
<1> DEFINE n == First(SlotsOf(d, id))
           count == Stored(d)
           len == 2 * (count - 1 - n)
           moves == [k \in 1..len |-> MoveEdit(d, n, k - 1)]
           first == <<RemoveKey(Us(n))>>
           final == <<Put(Count, Number(count - 1))>>
<1>1. n \in Slots /\ n < count /\ count \in 1..MaxScripts /\ len \in Nat
  BY FirstSlot, StoredType, ScriptsAssumption DEF Slots
<1>2. toEdit' = (first \o moves) \o final
  BY DEF DeleteEdits, InOrder
<1> DEFINE All == {moves[k] : k \in 1..len} \cup {first[1], final[1]}
<1>3. moves \in Seq(All) /\ Len(moves) = len /\ \A k \in 1..len : moves[k] = MoveEdit(d, n, k - 1)
  <2>1. moves \in [1..len -> All]
    OBVIOUS
  <2>2. QED
    BY <1>1, <2>1
<1>4. first \in Seq(All) /\ Len(first) = 1 /\ first[1] = RemoveKey(Us(n))
  OBVIOUS
<1>5. final \in Seq(All) /\ Len(final) = 1 /\ final[1] = Put(Count, Number(count - 1))
  OBVIOUS
<1> HIDE DEF n, count, len, moves, first, final, All
<1>6. /\ Len(toEdit') = 1 + len + 1
      /\ toEdit'[1] = first[1]
      /\ \A k \in 1..len : toEdit'[1 + k] = moves[k]
      /\ toEdit'[1 + len + 1] = final[1]
  <2> DEFINE row == (first \o moves) \o final
  <2>1. /\ first \in Seq(All) /\ moves \in Seq(All) /\ final \in Seq(All)
        /\ Len(first) = 1 /\ Len(final) = 1 /\ Len(moves) = len
    BY <1>3, <1>4, <1>5
  <2>2. InARow(row, first, moves, final)
    BY <2>1, ThreeInARow
  <2>3. toEdit' = row
    BY <1>2
  <2> HIDE DEF row
  <2>4. QED
    BY <2>1, <2>2, <2>3 DEF InARow
<1>7. toEdit' \in Seq(All)
  BY <1>2, <1>3, <1>4, <1>5, ConcatProperties
<1>8. toEdit'[1] = RemoveKey(Us(n)) /\ Head(toEdit') = toEdit'[1]
  BY <1>1, <1>4, <1>6, <1>7, HeadTailProperties
<1>9. MovesLeft(n)' = len /\ Stored(doc)' = count
  BY DEF MovesLeft, len, count
<1>10. Moving(n, 1)'
  <2>1. \A k \in 1..len : toEdit'[1 + k] = MoveEdit(d, n, k - 1)
    BY <1>3, <1>6
  <2>2. QED
    BY <1>5, <1>6, <1>9, <2>1 DEF Moving
<1>11. Clearing'
  BY <1>1, <1>8, <1>9, <1>10 DEF Clearing, Clears
<1>12. QED
  BY <1>1, <1>8, <1>11 DEF n, count

\* Slot n is emptied, or stands empty: what is left are the moves from n on.
LEMMA ClearingStep ==
  ASSUME StoreInv, NEW n \in Slots, n < Stored(doc), Moving(n, 1), Clears(n), NoStrays(doc),
         doc \in GoodDocs, doc' \in GoodDocs, toEdit' = Tail(toEdit),
         IF toEdit[1] = NoEdit THEN doc' = doc ELSE doc' = Edited(doc, toEdit[1].key, toEdit[1].value)
  PROVE  /\ NoStrays(doc)' /\ n < Stored(doc') /\ Moving(n, 0)' /\ doc'[Us(n)] = NoValue
         /\ Stored(doc') = Stored(doc)
         /\ \A m \in Slots : m # n => doc'[Us(m)] = doc[Us(m)]
<1> DEFINE len == MovesLeft(n)
<1>1. Stored(doc) \in 1..MaxScripts /\ len \in Nat
  BY StoredType, ScriptsAssumption DEF Slots, MovesLeft
<1>2. /\ Stored(doc') = Stored(doc) /\ doc'[Us(n)] = NoValue
      /\ \A m \in Slots : m # n => doc'[Us(m)] = doc[Us(m)]
  <2>1. CASE toEdit[1] = NoEdit
    <3>1. doc[Us(n)] = NoValue
      BY <2>1, KeysApart DEF Clears, RemoveKey, NoEdit, Put
    <3>2. QED
      BY <2>1, <3>1
  <2>2. CASE toEdit[1] # NoEdit
    <3>1. doc' = Edited(doc, Us(n), NoValue)
      BY <2>2 DEF Clears, RemoveKey, Put
    <3>2. QED
      BY <3>1, SlotEdit
  <2>3. QED
    BY <2>1, <2>2
<1>3. NoStrays(doc')
  BY <1>2, NoStraysSlots DEF Slots
<1>4. MovesLeft(n)' = len
  BY <1>2 DEF MovesLeft
<1> HIDE DEF len
<1>5. \A i \in 1..len : MoveEdit(doc', n, i - 1) = MoveEdit(doc, n, i - 1)
  <2> SUFFICES ASSUME NEW i \in 1..len PROVE MoveEdit(doc', n, i - 1) = MoveEdit(doc, n, i - 1)
    OBVIOUS
  <2>1. i - 1 \in Nat /\ n + ((i - 1) \div 2) + 1 < MaxScripts
    BY <1>1, ScriptsAssumption DEF len, MovesLeft, Slots
  <2>2. \A m \in Slots : m > n => doc'[Us(m)] = doc[Us(m)]
    BY <1>2 DEF Slots
  <2>3. QED
    BY <2>1, <2>2, MovesAlike
<1>6. /\ Len(toEdit) = 1 + len + 1
      /\ \A i \in 1..len : toEdit[1 + i] = MoveEdit(doc, n, i - 1)
      /\ toEdit[1 + len + 1] = Put(Count, Number(Stored(doc) - 1))
  BY DEF Moving, len
<1>7. Len(toEdit') = len + 1 /\ \A i \in 1..len + 1 : toEdit'[i] = toEdit[i + 1]
  BY <1>1, <1>6, HeadTailProperties DEF StoreInv
<1>8. Moving(n, 0)'
  <2>1. \A i \in 1..len : toEdit'[0 + i] = MoveEdit(doc', n, i - 1)
    <3> SUFFICES ASSUME NEW i \in 1..len PROVE toEdit'[0 + i] = MoveEdit(doc', n, i - 1)
      OBVIOUS
    <3>1. 0 + i = i /\ i \in 1..len + 1 /\ i + 1 = 1 + i
      BY <1>1
    <3>2. QED
      BY <1>5, <1>6, <1>7, <3>1
  <2>2. toEdit'[0 + len + 1] = Put(Count, Number(Stored(doc') - 1))
    BY <1>1, <1>2, <1>6, <1>7
  <2>3. QED
    BY <1>1, <1>4, <1>7, <2>1, <2>2 DEF Moving
<1>9. QED
  BY <1>2, <1>3, <1>8

\* Slot n is empty and has one behind it, which it takes: that one is to be emptied next.
LEMMA MoveStep ==
  ASSUME StoreInv, NEW n \in Slots, n + 1 < Stored(doc), Moving(n, 0), NoStrays(doc),
         doc[Us(n)] = NoValue,
         doc \in GoodDocs, doc' \in GoodDocs, toEdit' = Tail(toEdit),
         IF toEdit[1] = NoEdit THEN doc' = doc ELSE doc' = Edited(doc, toEdit[1].key, toEdit[1].value)
  PROVE  /\ NoStrays(doc)' /\ n + 1 \in Slots /\ n + 1 < Stored(doc')
         /\ Moving(n + 1, 1)' /\ Clears(n + 1)'
         /\ Stored(doc') = Stored(doc)
         /\ doc'[Us(n)] = doc[Us(n + 1)]
         /\ \A m \in Slots : m # n => doc'[Us(m)] = doc[Us(m)]
<1> DEFINE len == MovesLeft(n)
<1>1. /\ Stored(doc) \in 1..MaxScripts /\ len \in Nat /\ len >= 2 /\ n \in Nat /\ n + 1 \in Slots
      /\ len - 2 = 2 * (Stored(doc) - 1 - (n + 1))
  <2>1. Stored(doc) \in 0..MaxScripts /\ n \in Nat
    BY StoredType, ScriptsAssumption DEF Slots
  <2>2. Stored(doc) \in 1..MaxScripts /\ n + 1 \in Slots
    BY <2>1, ScriptsAssumption DEF Slots
  <2>3. len = 2 * (Stored(doc) - 1 - n)
    BY DEF MovesLeft
  <2>4. len \in Nat /\ len >= 2 /\ len - 2 = 2 * (Stored(doc) - 1 - (n + 1))
    BY ONLY <2>1, <2>2, <2>3, n + 1 < Stored(doc), ScriptsAssumption
  <2>5. QED
    BY <2>1, <2>2, <2>4
<1> HIDE DEF len
<1>2. /\ Len(toEdit) = len + 1
      /\ \A i \in 1..len : toEdit[i] = MoveEdit(doc, n, i - 1)
      /\ toEdit[len + 1] = Put(Count, Number(Stored(doc) - 1))
  <2>1. \A i \in 1..len : 0 + i = i
    BY <1>1
  <2>2. 0 + len + 1 = len + 1
    BY <1>1
  <2>3. QED
    BY <2>1, <2>2 DEF Moving, len
<1>3. /\ toEdit[1] = IF doc[Us(n + 1)] = NoValue THEN NoEdit ELSE Put(Us(n), doc[Us(n + 1)])
      /\ toEdit[2] = IF doc[Us(n + 1)] = NoValue THEN NoEdit ELSE RemoveKey(Us(n + 1))
  <2>1. toEdit[1] = MoveEdit(doc, n, 1 - 1) /\ toEdit[2] = MoveEdit(doc, n, 2 - 1)
    BY <1>1, <1>2
  <2>2. 1 - 1 = 0 /\ 2 - 1 = 1
    OBVIOUS
  <2>3. QED
    BY <1>1, <2>1, <2>2, FirstTwoMoves
<1>4. doc[Us(n + 1)] \in Scripts \cup {NoValue}
  BY <1>1 DEF GoodDocs
<1>5. /\ Stored(doc') = Stored(doc) /\ doc'[Us(n)] = doc[Us(n + 1)]
      /\ \A m \in Slots : m # n => doc'[Us(m)] = doc[Us(m)]
  <2>1. CASE doc[Us(n + 1)] = NoValue
    BY <1>3, <2>1
  <2>2. CASE doc[Us(n + 1)] # NoValue
    <3>1. toEdit[1] # NoEdit
      BY <1>3, <2>2, KeysApart DEF NoEdit, Put
    <3>2. doc' = Edited(doc, Us(n), doc[Us(n + 1)])
      BY <1>3, <2>2, <3>1 DEF Put
    <3>3. QED
      BY <1>4, <3>2, SlotEdit
  <2>3. QED
    BY <2>1, <2>2
<1>6. NoStrays(doc')
  BY <1>1, <1>5, NoStraysSlots DEF Slots
<1>7. Len(toEdit') = len /\ \A i \in 1..len : toEdit'[i] = toEdit[i + 1]
  BY <1>1, <1>2, HeadTailProperties DEF StoreInv
<1>8. MovesLeft(n + 1)' = len - 2
  BY <1>1, <1>5 DEF MovesLeft
<1>9. Moving(n + 1, 1)'
  <2>1. ASSUME NEW i \in 1..len - 2
        PROVE  toEdit'[1 + i] = MoveEdit(doc', n + 1, i - 1)
    <3>1. toEdit'[1 + i] = toEdit[i + 2] /\ i + 2 \in 1..len
      BY <1>1, <1>7
    <3>2. toEdit[i + 2] = MoveEdit(doc, n, (i + 2) - 1) /\ (i + 2) - 1 = (i - 1) + 2 /\ i - 1 \in Nat
      BY <1>1, <1>2, <3>1
    <3>3. MoveEdit(doc, n, (i - 1) + 2) = MoveEdit(doc, n + 1, i - 1)
      BY <1>1, <3>2, MovesShift
    <3>4. MoveEdit(doc', n + 1, i - 1) = MoveEdit(doc, n + 1, i - 1)
      <4>1. i - 1 \in Nat /\ (n + 1) + ((i - 1) \div 2) + 1 < MaxScripts
        BY <1>1, ScriptsAssumption
      <4>2. \A m \in Slots : m > n + 1 => doc'[Us(m)] = doc[Us(m)]
        BY <1>1, <1>5 DEF Slots
      <4>3. QED
        BY <1>1, <4>1, <4>2, MovesAlike
    <3>5. QED
      BY <3>1, <3>2, <3>3, <3>4
  <2>2. toEdit'[1 + (len - 2) + 1] = Put(Count, Number(Stored(doc') - 1))
    <3>1. 1 + (len - 2) + 1 = len /\ len \in 1..len
      BY <1>1
    <3>2. QED
      BY <1>2, <1>5, <1>7, <3>1
  <2>3. Len(toEdit') = 1 + (len - 2) + 1
    BY <1>1, <1>7
  <2>4. QED
    BY <1>8, <2>1, <2>2, <2>3 DEF Moving
<1>10. Clears(n + 1)'
  <2>1. toEdit'[1] = toEdit[2]
    BY <1>1, <1>7
  <2>2. doc'[Us(n + 1)] = doc[Us(n + 1)]
    BY <1>1, <1>5
  <2>3. QED
    BY <1>3, <2>1, <2>2 DEF Clears
<1>11. QED
  BY <1>1, <1>5, <1>6, <1>9, <1>10

\* The count is raised: the slot it now covers is still empty.
LEMMA GrowStep ==
  ASSUME Growing, NoStrays(doc), doc \in GoodDocs, doc' \in GoodDocs, toEdit' = Tail(toEdit),
         doc' = Edited(doc, toEdit[1].key, toEdit[1].value)
  PROVE  /\ NoStrays(doc)' /\ Filling'
         /\ Stored(doc) \in Slots /\ Stored(doc') = Stored(doc) + 1
         /\ Head(toEdit').key = Us(Stored(doc)) /\ doc'[Us(Stored(doc))] = NoValue
         /\ \A m \in Slots : doc'[Us(m)] = doc[Us(m)]
<1> DEFINE c == Stored(doc)
<1>1. c \in Slots /\ c + 1 \in 0..MaxScripts
  BY StoredType, ScriptsAssumption DEF Growing, Slots
<1>2. PICK s \in Scripts : toEdit = <<Put(Count, Number(c + 1)), Put(Us(c), s)>>
  BY DEF Growing
<1> HIDE DEF c
<1>3. doc' = Edited(doc, Count, Number(c + 1)) /\ toEdit' = <<Put(Us(c), s)>>
  BY <1>2 DEF Put
<1>4. Stored(doc') = c + 1 /\ \A m \in Slots : doc'[Us(m)] = doc[Us(m)]
  BY <1>1, <1>3, CountEdit
<1>5. \A m \in Slots : m >= c => doc[Us(m)] = NoValue
  BY NoStraysSlots DEF c
<1>6. NoStrays(doc')
  <2>1. \A m \in Slots : m >= c + 1 => m >= c
    BY <1>1 DEF Slots
  <2>2. QED
    BY <1>4, <1>5, <2>1, NoStraysSlots
<1>7. Filling' /\ Head(toEdit').key = Us(c)
  <2>1. c < Stored(doc')
    BY <1>1, <1>4 DEF Slots
  <2>2. Filling'
    BY <1>1, <1>3, <2>1 DEF Filling
  <2>3. Put(Us(c), s).key = Us(c)
    BY DEF Put
  <2>4. Head(toEdit') = Put(Us(c), s)
    <3>1. ASSUME NEW e PROVE Head(<<e>>) = e
      OBVIOUS
    <3>2. QED
      BY ONLY <1>3, <3>1, Zenon
  <2>5. QED
    BY <2>2, <2>3, <2>4
<1>8. doc'[Us(c)] = NoValue
  <2>1. c >= c
    BY <1>1 DEF Slots
  <2>2. QED
    BY <1>1, <1>4, <1>5, <2>1
<1>9. QED
  BY <1>1, <1>4, <1>6, <1>7, <1>8 DEF c

\* The script is written.
LEMMA FillStep ==
  ASSUME Filling, NoStrays(doc), doc \in GoodDocs, doc' \in GoodDocs, toEdit' = Tail(toEdit),
         doc' = Edited(doc, toEdit[1].key, toEdit[1].value)
  PROVE  /\ NoStrays(doc)' /\ toEdit' = <<>>
         /\ \E n \in Slots : /\ Head(toEdit).key = Us(n) /\ Stored(doc') = Stored(doc)
                             /\ \A m \in Slots : m # n => doc'[Us(m)] = doc[Us(m)]
<1>1. PICK n \in Slots, s \in Scripts : n < Stored(doc) /\ toEdit = <<Put(Us(n), s)>>
  BY DEF Filling
<1>2. doc' = Edited(doc, Us(n), s) /\ toEdit' = <<>> /\ Head(toEdit).key = Us(n)
  BY <1>1 DEF Put
<1>3. Stored(doc') = Stored(doc) /\ \A m \in Slots : m # n => doc'[Us(m)] = doc[Us(m)]
  BY <1>2, SlotEdit
<1>4. NoStrays(doc')
  BY <1>1, <1>3, NoStraysSlots, StoredType DEF Slots
<1>5. QED
  BY <1>2, <1>3, <1>4

\* The last slot stands empty and the count comes down to it.
LEMMA LowerStep ==
  ASSUME StoreInv, NEW n \in Slots, n + 1 = Stored(doc), Moving(n, 0), NoStrays(doc),
         doc[Us(n)] = NoValue,
         doc \in GoodDocs, doc' \in GoodDocs, toEdit' = Tail(toEdit),
         doc' = Edited(doc, toEdit[1].key, toEdit[1].value)
  PROVE  /\ NoStrays(doc)' /\ toEdit' = <<>>
         /\ Stored(doc') = n
         /\ \A m \in Slots : doc'[Us(m)] = doc[Us(m)]
<1>1. MovesLeft(n) = 0 /\ Stored(doc) - 1 = n /\ n \in 0..MaxScripts /\ n \in Nat
  BY ScriptsAssumption DEF MovesLeft, Slots
<1>2. Len(toEdit) = 1 /\ toEdit[1] = Put(Count, Number(n))
  BY <1>1 DEF Moving
<1>3. Tail(toEdit) \in Seq(Edits) /\ Len(Tail(toEdit)) = 0
  <2>1. toEdit \in Seq(Edits) /\ toEdit # <<>>
    <3>1. toEdit \in Seq(Edits)
      BY DEF StoreInv
    <3>2. Len(toEdit) = 1
      BY <1>2
    <3>3. QED
      BY ONLY <3>1, <3>2
  <2>2. QED
    BY <1>2, <2>1, HeadTailProperties
<1>4. toEdit' = <<>>
  BY <1>3
<1>5. doc' = Edited(doc, Count, Number(n))
  BY <1>2 DEF Put
<1>6. Stored(doc') = n /\ \A m \in Slots : doc'[Us(m)] = doc[Us(m)]
  BY <1>1, <1>5, CountEdit
<1>7. NoStrays(doc')
  <2>1. \A m \in Slots : m >= n => m = n \/ m >= Stored(doc)
    BY <1>1 DEF Slots
  <2>2. QED
    BY <1>6, <2>1, NoStraysSlots
<1>8. QED
  BY <1>4, <1>6, <1>7

\* The next edit, made or passed over.
LEMMA EditFacts ==
  ASSUME StoreInv, StageInv, NextEdit
  PROVE  /\ doc \in GoodDocs /\ doc' \in GoodDocs /\ toEdit # <<>> /\ toEdit' = Tail(toEdit)
         /\ Head(toEdit) = toEdit[1]
         /\ IF toEdit[1] = NoEdit THEN doc' = doc
            ELSE doc' = Edited(doc, toEdit[1].key, toEdit[1].value)
         /\ UNCHANGED <<file, busy, kept>>
<1>1. /\ doc \in GoodDocs /\ toEdit \in Seq(Edits) /\ toEdit # <<>> /\ toEdit' = Tail(toEdit)
      /\ UNCHANGED <<file, busy, kept>>
  BY DEF StoreInv, StageInv, NextEdit, Edit
<1>2. Head(toEdit) = toEdit[1]
  BY <1>1
<1>3. CASE Head(toEdit) = NoEdit
  BY <1>1, <1>2, <1>3 DEF NextEdit
<1>4. CASE Head(toEdit) # NoEdit
  <2>1. doc' = [doc EXCEPT ![Head(toEdit).key] = Head(toEdit).value]
    BY <1>4 DEF NextEdit, Edit
  <2>2. Head(toEdit) \in Edits
    BY <1>1, HeadTailProperties
  <2>3. doc' \in GoodDocs
    BY <1>1, <1>4, <2>1, <2>2, EditKeepsGood
  <2>4. QED
    BY <1>1, <1>2, <1>4, <2>1, <2>3 DEF Edited
<1>5. QED
  BY <1>3, <1>4

\* An edit of the count or of a slot is no passed-over one.
LEMMA NoPassing ==
  ASSUME NEW key \in StoreKeys, NEW value
  PROVE  Put(key, value) # NoEdit
BY ScriptsAssumption DEF Put, NoEdit

LEMMA EditStage ==
  ASSUME StoreInv, StageInv, NextEdit
  PROVE  StageInv'
<1>1. /\ doc \in GoodDocs /\ doc' \in GoodDocs /\ toEdit # <<>> /\ toEdit' = Tail(toEdit)
      /\ IF toEdit[1] = NoEdit THEN doc' = doc ELSE doc' = Edited(doc, toEdit[1].key, toEdit[1].value)
      /\ UNCHANGED <<file, busy, kept>>
  BY EditFacts
<1>2. doc # Closed /\ doc' # Closed /\ NoStrays(doc) /\ busy
  BY <1>1, DocIsNoMark DEF StageInv, NextEdit
<1> SUFFICES (NoStrays(doc) /\ Stage)'
  BY <1>1, <1>2 DEF StageInv
<1>3. CASE Growing
  <2>1. toEdit[1] # NoEdit
    BY <1>3, NoPassing, KeysApart DEF Growing
  <2>2. QED
    BY <1>1, <1>2, <1>3, <2>1, GrowStep DEF Stage
<1>4. CASE Filling
  <2>1. toEdit[1] # NoEdit
    BY <1>4, NoPassing, KeysApart DEF Filling
  <2>2. QED
    BY <1>1, <1>2, <1>4, <2>1, FillStep DEF Stage
<1>5. CASE Clearing
  <2>1. PICK n \in Slots : n < Stored(doc) /\ Moving(n, 1) /\ Clears(n)
    BY <1>5 DEF Clearing
  <2>2. NoStrays(doc)' /\ n < Stored(doc') /\ Moving(n, 0)' /\ doc'[Us(n)] = NoValue
    BY <1>1, <1>2, <2>1, ClearingStep
  <2>3. Holed'
    BY <2>2 DEF Holed
  <2>4. QED
    BY <2>2, <2>3 DEF Stage
<1>6. CASE Holed
  <2>1. PICK n \in Slots : n < Stored(doc) /\ Moving(n, 0) /\ doc[Us(n)] = NoValue
    BY <1>6 DEF Holed
  <2>2. CASE n + 1 < Stored(doc)
    <3>1. NoStrays(doc)' /\ n + 1 \in Slots /\ n + 1 < Stored(doc')
          /\ Moving(n + 1, 1)' /\ Clears(n + 1)'
      BY <1>1, <1>2, <2>1, <2>2, MoveStep
    <3>2. Clearing'
      BY <3>1 DEF Clearing
    <3>3. QED
      BY <3>1, <3>2 DEF Stage
  <2>3. CASE n + 1 = Stored(doc)
    <3>1. MovesLeft(n) = 0
      BY <2>3, ScriptsAssumption DEF MovesLeft, Slots
    <3>2. toEdit[1] # NoEdit
      BY <2>1, <3>1, NoPassing, KeysApart DEF Moving
    <3>3. NoStrays(doc)' /\ toEdit' = <<>>
      BY <1>1, <1>2, <2>1, <2>3, <3>2, LowerStep
    <3>4. QED
      BY <3>3 DEF Stage
  <2>4. n + 1 < Stored(doc) \/ n + 1 = Stored(doc)
    BY <1>1, <2>1, StoredType, ScriptsAssumption DEF Slots
  <2>5. QED
    BY <2>2, <2>3, <2>4
<1>7. QED
  BY <1>1, <1>2, <1>3, <1>4, <1>5, <1>6 DEF StageInv, Stage

LEMMA StartStage ==
  ASSUME StoreInv, StageInv,
         \/ \E s \in Scripts : Post(s)
         \/ \E id \in Ids : Delete(id)
  PROVE  StageInv'
<1>1. ASSUME NEW d, NEW edits, d \in ReadAs(file), Starts(d, edits)
      PROVE  /\ d \in GoodDocs /\ doc' = d /\ doc' # Closed /\ toEdit' = edits /\ NoStrays(d)
             /\ busy' = TRUE /\ file' = file
  <2>1. d \in GoodDocs
    BY <1>1, ReadIsGood
  <2>2. NoStrays(Empty)
    BY EmptyIsGood, NoStraysSlots, KeysApart DEF Empty
  <2>3. NoStrays(d)
    BY <1>1, <2>2 DEF ReadAs, StageInv
  <2>4. QED
    BY <1>1, <2>1, <2>3, DocIsNoMark DEF Starts, Begin
<1>2. ASSUME NEW s \in Scripts, Post(s) PROVE StageInv'
  <2>1. PICK d \in ReadAs(file) : Starts(d, IF PostRefused(d, s) THEN <<>> ELSE PostEdits(d, s))
    BY <1>2 DEF Post
  <2>2. /\ d \in GoodDocs /\ doc' = d /\ doc' # Closed /\ NoStrays(d) /\ busy' = TRUE /\ file' = file
        /\ toEdit' = IF PostRefused(d, s) THEN <<>> ELSE PostEdits(d, s)
    <3> DEFINE edits == IF PostRefused(d, s) THEN <<>> ELSE PostEdits(d, s)
    <3>1. Starts(d, edits)
      BY <2>1
    <3> HIDE DEF edits
    <3>2. /\ d \in GoodDocs /\ doc' = d /\ doc' # Closed /\ NoStrays(d) /\ busy' = TRUE
          /\ file' = file /\ toEdit' = edits
      BY <1>1, <3>1
    <3>3. QED
      BY <3>2 DEF edits
  <2>3. Stage'
    BY <2>2, PostStage DEF Stage
  <2>4. QED
    BY <2>2, <2>3 DEF StageInv
<1>3. ASSUME NEW id \in Ids, Delete(id) PROVE StageInv'
  <2>1. PICK d \in ReadAs(file) :
          Starts(d, IF SlotsOf(d, id) = {} THEN <<>> ELSE DeleteEdits(d, id))
    BY <1>3 DEF Delete
  <2>2. /\ d \in GoodDocs /\ doc' = d /\ doc' # Closed /\ NoStrays(d) /\ busy' = TRUE /\ file' = file
        /\ toEdit' = IF SlotsOf(d, id) = {} THEN <<>> ELSE DeleteEdits(d, id)
    <3> DEFINE edits == IF SlotsOf(d, id) = {} THEN <<>> ELSE DeleteEdits(d, id)
    <3>1. Starts(d, edits)
      BY <2>1
    <3> HIDE DEF edits
    <3>2. /\ d \in GoodDocs /\ doc' = d /\ doc' # Closed /\ NoStrays(d) /\ busy' = TRUE
          /\ file' = file /\ toEdit' = edits
      BY <1>1, <3>1
    <3>3. QED
      BY <3>2 DEF edits
  <2>3. Stage'
    BY <2>2, DeleteStage DEF Stage
  <2>4. QED
    BY <2>2, <2>3 DEF StageInv
<1>4. QED
  BY <1>2, <1>3

\* Saving replaces the file by the document, or leaves it.
LEMMA SaveStage ==
  ASSUME StoreInv, StageInv, SaveStep, UNCHANGED <<toEdit, busy>>
  PROVE  StageInv'
<1>1. doc' = doc /\ (file' = file \/ (file' = doc /\ doc \in GoodDocs))
  BY DEF StoreInv, SaveStep, OpenTmp, TruncateTmp, WriteTmp, Rename
<1>2. NoStrays(Loaded(file'))
  BY <1>1, DocIsNoMark DEF StageInv, Loaded
<1>3. QED
  BY <1>1, <1>2 DEF StageInv, Stage, Growing, Filling, Clearing, Holed, Moving, MovesLeft, Clears

LEMMA NextStage ==
  ASSUME StoreInv, StageInv, [Next]_vars
  PROVE  StageInv'
<1>1. CASE Finish \/ Reset
  BY <1>1 DEF StageInv, Finish, End, Reset, LoseDoc
<1>2. CASE UNCHANGED vars
  BY <1>2 DEF vars, prefsVars, StageInv, Stage, Growing, Filling, Clearing, Holed, Moving,
     MovesLeft, Clears
<1>3. QED
  BY <1>1, <1>2, StartStage, EditStage, SaveStage DEF Next

LEMMA InitStage == Init => StageInv
<1>1. NoStrays(Empty)
  BY EmptyIsGood, NoStraysSlots, KeysApart DEF Empty
<1>2. QED
  BY <1>1 DEF Init, PrefsInit, StageInv, Loaded

\* Whatever the handlers of POST and DELETE write, key by key, with crashes and failed
\* saves anywhere and even where a file is read as empty for want of memory: the file is
\* never cut off and no script stands beyond the count (property Inv of http_config.cpp
\* and prefs_store.cpp), as long as the flash has room.
THEOREM ScriptsInv ==
  ASSUME ~FlashFull
  PROVE  Spec => []Inv
<1>1. StoreInv /\ StageInv => Inv
  <2> SUFFICES ASSUME StoreInv, StageInv PROVE Inv
    OBVIOUS
  <2>1. GoodDocs \subseteq Docs
    BY DEF GoodDocs
  <2>2. PrefsTypeOK
    BY <2>1 DEF StoreInv, PrefsTypeOK
  <2>3. FileWhole
    BY DocIsNoMark, ScriptsAssumption DEF StoreInv, FileWhole
  <2>4. QED
    BY <2>2, <2>3 DEF Inv, StageInv
<1>2. QED
  BY <1>1, StoreInit, NextStoreInv, InitStage, NextStage, PTL DEF Spec

-----------------------------------------------------------------------------
\* A slot whose script need not be kept, or stands elsewhere, may be overwritten.
LEMMA OverwriteKeeps ==
  ASSUME NEW d \in GoodDocs, NEW e \in GoodDocs, NEW n \in Slots, NEW K,
         K \subseteq OnFlash(d), d[Us(n)] # NoValue => K \subseteq Elsewhere(d, n),
         Stored(e) = Stored(d), \A m \in Slots : m # n => e[Us(m)] = d[Us(m)]
  PROVE  K \subseteq OnFlash(e)
<1> SUFFICES ASSUME NEW k \in K PROVE k \in OnFlash(e)
  OBVIOUS
<1>1. PICK m \in Slots : m # n /\ m < Stored(d) /\ d[Us(m)] # NoValue /\ d[Us(m)] = k
  <2>1. CASE d[Us(n)] # NoValue
    BY <2>1 DEF Elsewhere
  <2>2. CASE d[Us(n)] = NoValue
    BY <2>2, OnFlashSlots
  <2>3. QED
    BY <2>1, <2>2
<1>2. e[Us(m)] = k /\ e[Us(m)] # NoValue /\ m < Stored(e)
  BY <1>1
<1>3. QED
  BY <1>1, <1>2, OnFlashSlots

\* A change of the count that uncovers no script loses none.
LEMMA RecountKeeps ==
  ASSUME NEW d, NEW e,
         \A m \in Slots : /\ e[Us(m)] = d[Us(m)]
                          /\ m < Stored(d) /\ d[Us(m)] # NoValue => m < Stored(e)
  PROVE  OnFlash(d) \subseteq OnFlash(e)
BY OnFlashSlots

\* The first of the moves fills the empty slot or makes no edit; without moves it is the
\* count's turn.
LEMMA HoledHead ==
  ASSUME NEW n \in Slots, n < Stored(doc'), Moving(n, 0)', doc' \in GoodDocs,
         toEdit' \in Seq(Edits)
  PROVE  /\ toEdit' # <<>> /\ Head(toEdit') = toEdit'[1]
         /\ Head(toEdit').key \in {NoValue, Us(n), Count}
<1> DEFINE len == MovesLeft(n)'
<1>1. len \in Nat /\ n \in Nat /\ Stored(doc') \in 0..MaxScripts
  BY StoredType, ScriptsAssumption DEF MovesLeft, Slots
<1>2. /\ Len(toEdit') = 0 + len + 1
      /\ \A i \in 1..len : toEdit'[0 + i] = MoveEdit(doc', n, i - 1)
      /\ toEdit'[0 + len + 1] = Put(Count, Number(Stored(doc') - 1))
  BY DEF Moving
<1> HIDE DEF len
<1>3. toEdit' # <<>> /\ Head(toEdit') = toEdit'[1]
  <2>1. Len(toEdit') # 0
    BY <1>1, <1>2
  <2>2. QED
    BY <2>1
<1>4. CASE len = 0
  BY <1>2, <1>3, <1>4 DEF Put
<1>5. CASE len # 0
  <2>1. 1 \in 1..len /\ 0 + 1 = 1 /\ 1 - 1 = 0
    BY <1>1, <1>5
  <2>2. toEdit'[1] = MoveEdit(doc', n, 0)
    BY <1>2, <2>1
  <2>3. QED
    BY <1>1, <1>3, <2>2, FirstTwoMoves DEF NoEdit, Put
<1>6. QED
  BY <1>3, <1>4, <1>5

\* The condition on the next edit, for the stages after an edit.
HeadInv == toEdit # <<>> => \A n \in Slots :
             Head(toEdit).key = Us(n) /\ doc[Us(n)] # NoValue => kept \subseteq Elsewhere(doc, n)

LEMMA EditKept ==
  ASSUME StoreInv, StoreInv', StageInv, KeptInv, NextEdit
  PROVE  KeptInv'
<1>1. /\ doc \in GoodDocs /\ doc' \in GoodDocs /\ toEdit # <<>> /\ toEdit' = Tail(toEdit)
      /\ Head(toEdit) = toEdit[1]
      /\ IF toEdit[1] = NoEdit THEN doc' = doc ELSE doc' = Edited(doc, toEdit[1].key, toEdit[1].value)
      /\ UNCHANGED <<file, busy, kept>>
  BY EditFacts
<1>2. doc # Closed /\ NoStrays(doc) /\ Stage /\ toEdit' \in Seq(Edits)
  BY <1>1, DocIsNoMark DEF StageInv, StoreInv
<1>3. /\ kept \subseteq OnFlash(doc) /\ kept \subseteq OnFlash(Loaded(file))
      /\ \A n \in Slots : toEdit[1].key = Us(n) /\ doc[Us(n)] # NoValue => kept \subseteq Elsewhere(doc, n)
  BY <1>1, <1>2 DEF KeptInv
<1> SUFFICES kept \subseteq OnFlash(doc') /\ HeadInv'
  BY <1>1, <1>3 DEF KeptInv, HeadInv
<1>4. CASE Growing
  <2>1. toEdit[1] # NoEdit
    BY <1>4, NoPassing, KeysApart DEF Growing
  <2>2. /\ Stored(doc) \in Slots /\ Stored(doc') = Stored(doc) + 1
        /\ Head(toEdit').key = Us(Stored(doc)) /\ doc'[Us(Stored(doc))] = NoValue
        /\ \A m \in Slots : doc'[Us(m)] = doc[Us(m)]
    BY <1>1, <1>2, <1>4, <2>1, GrowStep
  <2>3. kept \subseteq OnFlash(doc')
    BY <1>3, <2>2, RecountKeeps DEF Slots
  <2>4. HeadInv'
    BY <2>2, KeysApart DEF HeadInv
  <2>5. QED
    BY <2>3, <2>4
<1>5. CASE Filling
  <2>1. toEdit[1] # NoEdit
    BY <1>5, NoPassing, KeysApart DEF Filling
  <2>2. toEdit' = <<>> /\ \E n \in Slots : /\ toEdit[1].key = Us(n) /\ Stored(doc') = Stored(doc)
                                         /\ \A m \in Slots : m # n => doc'[Us(m)] = doc[Us(m)]
    BY <1>1, <1>2, <1>5, <2>1, FillStep
  <2>3. kept \subseteq OnFlash(doc')
    BY <1>1, <1>3, <2>2, OverwriteKeeps
  <2>4. QED
    BY <2>2, <2>3 DEF HeadInv
<1>6. CASE Clearing
  <2>1. PICK n \in Slots : n < Stored(doc) /\ Moving(n, 1) /\ Clears(n)
    BY <1>6 DEF Clearing
  <2>2. /\ n < Stored(doc') /\ Moving(n, 0)' /\ doc'[Us(n)] = NoValue /\ Stored(doc') = Stored(doc)
        /\ \A m \in Slots : m # n => doc'[Us(m)] = doc[Us(m)]
    BY <1>1, <1>2, <2>1, ClearingStep
  <2>3. doc[Us(n)] # NoValue => kept \subseteq Elsewhere(doc, n)
    BY <1>3, <2>1 DEF Clears, RemoveKey, Put
  <2>4. kept \subseteq OnFlash(doc')
    BY <1>1, <1>3, <2>2, <2>3, OverwriteKeeps
  <2>5. HeadInv'
    <3>1. Head(toEdit').key \in {NoValue, Us(n), Count}
      BY <1>1, <1>2, <2>2, HoledHead
    <3>2. QED
      BY <2>2, <3>1, KeysApart DEF HeadInv
  <2>6. QED
    BY <2>4, <2>5
<1>7. CASE Holed
  <2>1. PICK n \in Slots : n < Stored(doc) /\ Moving(n, 0) /\ doc[Us(n)] = NoValue
    BY <1>7 DEF Holed
  <2>2. CASE n + 1 < Stored(doc)
    <3>1. /\ n + 1 \in Slots /\ n + 1 < Stored(doc') /\ Moving(n + 1, 1)' /\ Clears(n + 1)'
          /\ Stored(doc') = Stored(doc) /\ doc'[Us(n)] = doc[Us(n + 1)]
          /\ \A m \in Slots : m # n => doc'[Us(m)] = doc[Us(m)]
      BY <1>1, <1>2, <2>1, <2>2, MoveStep
    <3>2. kept \subseteq OnFlash(doc')
      BY <1>1, <1>3, <2>1, <3>1, OverwriteKeeps
    <3>3. n # n + 1 /\ n < Stored(doc') /\ doc'[Us(n)] = doc'[Us(n + 1)]
      BY <2>1, <3>1, StoredType, ScriptsAssumption DEF Slots
    <3>4. doc'[Us(n + 1)] # NoValue => kept \subseteq Elsewhere(doc', n + 1)
      BY <3>1, <3>2, <3>3, OnFlashSlots DEF Elsewhere
    <3>5. HeadInv'
      <4>1. ASSUME toEdit' # <<>> PROVE Head(toEdit').key \in {NoValue, Us(n + 1)}
        <5>1. Head(toEdit') = toEdit'[1]
          BY <1>2, <4>1
        <5>2. QED
          BY <3>1, <5>1 DEF Clears, RemoveKey, NoEdit, Put
      <4>2. ASSUME toEdit' # <<>>, NEW m \in Slots, Head(toEdit').key = Us(m), doc'[Us(m)] # NoValue
            PROVE  kept \subseteq Elsewhere(doc', m)
        <5>1. Us(m) # NoValue
          BY <4>2, KeysApart
        <5>2. m = n + 1
          BY <4>1, <4>2, <5>1, KeysApart
        <5>3. QED
          BY <3>4, <4>2, <5>2
      <4>3. QED
        BY <1>1, <4>2 DEF HeadInv, Elsewhere
    <3>6. QED
      BY <3>2, <3>5
  <2>3. CASE n + 1 = Stored(doc)
    <3>1. MovesLeft(n) = 0
      BY <2>3, ScriptsAssumption DEF MovesLeft, Slots
    <3>2. toEdit[1] # NoEdit
      BY <2>1, <3>1, NoPassing, KeysApart DEF Moving
    <3>3. toEdit' = <<>> /\ Stored(doc') = n /\ \A m \in Slots : doc'[Us(m)] = doc[Us(m)]
      BY <1>1, <1>2, <2>1, <2>3, <3>2, LowerStep
    <3>4. \A m \in Slots : m < Stored(doc) /\ doc[Us(m)] # NoValue => m < n
      BY <2>1, <2>3, ScriptsAssumption DEF Slots
    <3>5. kept \subseteq OnFlash(doc')
      BY <1>3, <3>3, <3>4, RecountKeeps
    <3>6. QED
      BY <3>3, <3>5 DEF HeadInv
  <2>4. n + 1 < Stored(doc) \/ n + 1 = Stored(doc)
    BY <1>1, <2>1, StoredType, ScriptsAssumption DEF Slots
  <2>5. QED
    BY <2>2, <2>3, <2>4
<1>8. QED
  BY <1>1, <1>2, <1>4, <1>5, <1>6, <1>7 DEF Stage

\* What is kept when a handler for another id starts is not in the slot it empties or
\* writes.
LEMMA NotItsOwn ==
  ASSUME NEW d \in GoodDocs, NEW id, SlotsOf(d, id) # {}, NEW K, K \subseteq OnFlash(d),
         \A t \in K : t.id # id
  PROVE  K \subseteq Elsewhere(d, First(SlotsOf(d, id)))
<1> DEFINE n == First(SlotsOf(d, id))
<1>1. n \in SlotsOf(d, id)
  <2>1. SlotsOf(d, id) \in SUBSET Nat
    BY ScriptsAssumption DEF SlotsOf
  <2>2. QED
    BY <2>1, FirstExists
<1>2. d[Us(n)].id = id
  BY <1>1 DEF SlotsOf
<1> HIDE DEF n
<1>3. ASSUME NEW k \in K PROVE k \in Elsewhere(d, n)
  <2>1. PICK m \in Slots : m < Stored(d) /\ d[Us(m)] # NoValue /\ d[Us(m)] = k
    BY OnFlashSlots
  <2>2. m # n
    BY <1>2, <2>1
  <2>3. QED
    BY <2>1, <2>2 DEF Elsewhere
<1>4. QED
  BY <1>3 DEF n

LEMMA StartKept ==
  ASSUME ~LowHeap, StoreInv, KeptInv,
         \/ \E s \in Scripts : Post(s)
         \/ \E id \in Ids : Delete(id)
  PROVE  KeptInv'
<1>1. Loaded(file) \in GoodDocs /\ ReadAs(file) = {Loaded(file)}
  BY ReadIsGood DEF ReadAs
<1> DEFINE d == Loaded(file)
<1>2. kept \subseteq OnFlash(d)
  BY DEF KeptInv
<1>3. ASSUME NEW s \in Scripts, Post(s) PROVE KeptInv'
  <2> DEFINE edits == IF PostRefused(d, s) THEN <<>> ELSE PostEdits(d, s)
  <2>1. /\ Starts(d, edits)
        /\ kept' = IF edits = <<>> THEN kept ELSE {t \in kept : t.id # s.id}
    BY <1>1, <1>3 DEF Post
  <2>2. doc' = d /\ toEdit' = edits /\ file' = file
    BY <2>1 DEF Starts, Begin
  <2>3. kept' \subseteq OnFlash(d)
    BY <1>2, <2>1
  <2>4. HeadInv'
    <3>1. CASE PostRefused(d, s)
      BY <2>2, <3>1 DEF HeadInv
    <3>2. CASE ~PostRefused(d, s) /\ SlotsOf(d, s.id) = {}
      <4>1. toEdit' = <<Put(Count, Number(Stored(d) + 1)), Put(Us(Stored(d)), s)>>
        BY <2>2, <3>2 DEF PostEdits
      <4>2. Head(toEdit').key = Count
        BY <4>1 DEF Put
      <4>3. QED
        BY <4>2, KeysApart DEF HeadInv
    <3>3. CASE ~PostRefused(d, s) /\ SlotsOf(d, s.id) # {}
      <4> DEFINE n == First(SlotsOf(d, s.id))
      <4>1. toEdit' = <<Put(Us(n), s)>>
        BY <2>2, <3>3 DEF PostEdits
      <4>2. Head(toEdit').key = Us(n)
        BY <4>1 DEF Put
      <4>3. kept' = {t \in kept : t.id # s.id}
        <5>1. kept' = IF toEdit' = <<>> THEN kept ELSE {t \in kept : t.id # s.id}
          BY <2>1, <2>2
        <5> HIDE DEF n
        <5>2. toEdit' # <<>>
          BY <4>1
        <5>3. QED
          BY <5>1, <5>2
      <4>4. kept' \subseteq Elsewhere(d, n)
        BY <1>1, <2>3, <3>3, <4>3, NotItsOwn
      <4> HIDE DEF n
      <4>5. QED
        BY <2>2, <4>2, <4>4, KeysApart DEF HeadInv
    <3>4. QED
      BY <3>1, <3>2, <3>3
  <2>5. QED
    BY <2>2, <2>3, <2>4 DEF KeptInv, HeadInv
<1>4. ASSUME NEW id \in Ids, Delete(id) PROVE KeptInv'
  <2> DEFINE edits == IF SlotsOf(d, id) = {} THEN <<>> ELSE DeleteEdits(d, id)
  <2>1. Starts(d, edits) /\ kept' = {t \in kept : t.id # id}
    BY <1>1, <1>4 DEF Delete
  <2>2. doc' = d /\ toEdit' = edits /\ file' = file
    BY <2>1 DEF Starts, Begin
  <2>3. kept' \subseteq OnFlash(d)
    BY <1>2, <2>1
  <2>4. HeadInv'
    <3>1. CASE SlotsOf(d, id) = {}
      BY <2>2, <3>1 DEF HeadInv
    <3>2. CASE SlotsOf(d, id) # {}
      <4> DEFINE n == First(SlotsOf(d, id))
      <4>1. Head(toEdit').key = Us(n)
        <5>1. d \in GoodDocs /\ doc' = d /\ toEdit' = DeleteEdits(d, id)
          BY <1>1, <2>2, <3>2
        <5>2. Head(toEdit') = RemoveKey(Us(n))
          BY <3>2, <5>1, DeleteStage
        <5>3. QED
          BY <5>2 DEF RemoveKey, Put
      <4>2. kept' \subseteq Elsewhere(d, n)
        BY <1>1, <2>1, <2>3, <3>2, NotItsOwn
      <4> HIDE DEF n
      <4>3. QED
        BY <2>2, <4>1, <4>2, KeysApart DEF HeadInv
    <3>3. QED
      BY <3>1, <3>2
  <2>5. QED
    BY <2>2, <2>3, <2>4 DEF KeptInv, HeadInv
<1>5. QED
  BY <1>3, <1>4

LEMMA NextKept ==
  ASSUME ~LowHeap, StoreInv, StoreInv', StageInv, KeptInv, [Next]_vars
  PROVE  KeptInv'
<1>1. ASSUME SaveStep, UNCHANGED <<toEdit, busy, kept>> PROVE KeptInv'
  <2>1. doc' = doc /\ (file' = file \/ (file' = doc /\ doc \in GoodDocs))
    BY <1>1 DEF StoreInv, SaveStep, OpenTmp, TruncateTmp, WriteTmp, Rename
  <2>2. kept \subseteq OnFlash(Loaded(file'))
    BY <2>1, DocIsNoMark DEF KeptInv, Loaded
  <2>3. QED
    BY <1>1, <2>1, <2>2 DEF KeptInv
<1>2. CASE Finish
  <2>1. Sole(Loaded(file)) \subseteq OnFlash(Loaded(file))
    BY DEF Sole
  <2>2. QED
    BY <1>2, <2>1 DEF KeptInv, Finish, End
<1>3. CASE Reset
  BY <1>3 DEF KeptInv, Reset, LoseDoc
<1>4. CASE UNCHANGED vars
  BY <1>4 DEF vars, prefsVars, KeptInv
<1>5. QED
  BY <1>1, <1>2, <1>3, <1>4, StartKept, EditKept DEF Next

\* A script that was once stored is still on flash until a request for its own id comes,
\* for every table size: neither the moves of a deletion, nor a crash between two saves,
\* nor a save that fails loses it (property NoneLost of handle_scripts_post and
\* handle_scripts_delete), as long as memory and flash suffice.
THEOREM ScriptsNoneLost ==
  ASSUME ~FlashFull, ~LowHeap
  PROVE  Spec => []NoneLost
<1>1. Init => KeptInv
  BY DEF Init, PrefsInit, KeptInv
<1>2. StoreInv /\ StageInv /\ [Next]_vars => StoreInv' /\ StageInv'
  BY NextStoreInv, NextStage
<1>3. StoreInv /\ StageInv /\ KeptInv /\ [Next]_vars => KeptInv'
  BY <1>2, NextKept
<1>4. KeptInv => NoneLost
  BY DEF KeptInv, NoneLost
<1>5. QED
  BY <1>1, <1>2, <1>3, <1>4, StoreInit, InitStage, PTL DEF Spec

-----------------------------------------------------------------------------
(***************************************************************************)
(* Onboarding                                                              *)
(***************************************************************************)
\* The keys of the flash and what each may hold.
Flags == {"deleted", "force", "confirmed", "done", "giveup"}
Names == {"owner", "ssid", "password"}
Passwords == {c.password : c \in Typed}
Holds(f) == IF f \in Flags THEN BOOLEAN
            ELSE IF f = "owner" THEN Owners \cup {None}
            ELSE IF f = "ssid" THEN SavedNames \cup {None}
            ELSE Passwords \cup {None}

Flashes == [owner : Owners \cup {None}, deleted : BOOLEAN, force : BOOLEAN,
            confirmed : BOOLEAN, done : BOOLEAN, giveup : BOOLEAN,
            ssid : SavedNames \cup {None}, password : Passwords \cup {None}]
Rams == [owner : Owners \cup {None}, done : BOOLEAN, gaveUp : BOOLEAN,
         rejects : 0..MaxRejects, watchdog : {"off", "armed", "confirmed"},
         online : BOOLEAN, ap : Aps \cup {Own, None}]
Afters == {"go on", "restart", "restart soon"}

\* The writes of a handler: some of the keys, with what they may hold.
AnyOf == UNION {Holds(f) : f \in Flags \cup Names}
Writes == {w \in UNION {[D -> AnyOf] : D \in SUBSET (Flags \cup Names)} :
             \A f \in DOMAIN w : w[f] \in Holds(f)}
Of(s) == {s[k] : k \in DOMAIN s}

\* Once the writes W are made over the flash n, key f holds v.
Settles(n, W, f, v) == /\ \A w \in W : f \in DOMAIN w => w[f] = v
                       /\ (\A w \in W : f \notin DOMAIN w) => n[f] = v

\* What a running node acts on is what the flash will say: whose it is, and
\* whether it is registered, confirmed and deleted.
Agrees(n, W, r) == /\ Settles(n, W, "owner", r.owner)
                   /\ Settles(n, W, "done", r.done)
                   /\ Settles(n, W, "confirmed", r.watchdog = "confirmed")
                   /\ n.deleted = FALSE
                   /\ \A w \in W : "deleted" \in DOMAIN w => w.deleted = FALSE

HeardOf(n, W, t) == n.done = TRUE \/ (\E w \in W : "done" \in DOMAIN w /\ w.done = TRUE)
                      => t # None

TypeInv == /\ nvs \in Flashes /\ mode \in {"boot", "portal", "node"}
           /\ ram \in Rams /\ todo \in Seq(Writes) /\ Len(todo) <= 4 /\ after \in Afters
           /\ inRange \subseteq Aps /\ told \in Owners \cup {None}
           /\ commands \in 0..MaxCommands /\ crashes \in 0..MaxCrashes

\* The inductive invariant.
OnbIInv == /\ TypeInv
           /\ mode = "boot" => todo = <<>> /\ after = "go on"
           /\ mode = "node" /\ after = "go on" => Agrees(nvs, Of(todo), ram)
           /\ HeardOf(nvs, Of(todo), told)
           /\ ram.gaveUp = TRUE \/ ram.rejects < MaxRejects

-----------------------------------------------------------------------------
LEMMA EveryKey == Flags \cup Names = {"owner", "deleted", "force", "confirmed", "done", "giveup",
                                      "ssid", "password"}
BY DEF Flags, Names

LEMMA FlashIs ==
  ASSUME NEW n
  PROVE  n \in Flashes <=> /\ n = [f \in Flags \cup Names |-> n[f]]
                           /\ \A f \in Flags \cup Names : n[f] \in Holds(f)
<1>1. ASSUME n \in Flashes
      PROVE  /\ n = [f \in Flags \cup Names |-> n[f]]
             /\ \A f \in Flags \cup Names : n[f] \in Holds(f)
  BY <1>1, EveryKey DEF Flashes, Holds, Flags
<1>2. ASSUME n = [f \in Flags \cup Names |-> n[f]], \A f \in Flags \cup Names : n[f] \in Holds(f)
      PROVE  n \in Flashes
  <2>1. /\ n.owner \in Owners \cup {None} /\ n.deleted \in BOOLEAN /\ n.force \in BOOLEAN
        /\ n.confirmed \in BOOLEAN /\ n.done \in BOOLEAN /\ n.giveup \in BOOLEAN
        /\ n.ssid \in SavedNames \cup {None} /\ n.password \in Passwords \cup {None}
    BY <1>2, EveryKey DEF Holds, Flags
  <2>2. n = [owner |-> n.owner, deleted |-> n.deleted, force |-> n.force,
             confirmed |-> n.confirmed, done |-> n.done, giveup |-> n.giveup,
             ssid |-> n.ssid, password |-> n.password]
    BY <1>2, EveryKey
  <2>3. QED
    BY <2>1, <2>2 DEF Flashes
<1>3. QED
  BY <1>1, <1>2

\* The writes that the handlers make.
LEMMA WriteIs ==
  ASSUME NEW w, NEW D \in SUBSET (Flags \cup Names), w = [f \in D |-> w[f]],
         \A f \in D : w[f] \in Holds(f)
  PROVE  w \in Writes /\ DOMAIN w = D
<1>1. DOMAIN w = D
  OBVIOUS
<1>2. \A f \in D : w[f] \in AnyOf
  BY DEF AnyOf
<1>3. w \in [D -> AnyOf]
  BY <1>2
<1>4. QED
  BY <1>1, <1>3 DEF Writes

LEMMA OneKey ==
  /\ \A v \in Owners \cup {None} : [owner |-> v] \in Writes
  /\ \A v \in BOOLEAN : /\ [deleted |-> v] \in Writes /\ [force |-> v] \in Writes
                        /\ [confirmed |-> v] \in Writes /\ [done |-> v] \in Writes
                        /\ [giveup |-> v] \in Writes
  /\ \A v \in SavedNames \cup {None} : [ssid |-> v] \in Writes
  /\ \A v \in Passwords \cup {None} : [password |-> v] \in Writes
<1>1. ASSUME NEW v \in Owners \cup {None} PROVE [owner |-> v] \in Writes
  <2>1. [owner |-> v] = [f \in {"owner"} |-> v]
    OBVIOUS
  <2>2. QED
    BY <2>1, WriteIs DEF Flags, Names, Holds
<1>2. ASSUME NEW v \in BOOLEAN, NEW f \in Flags PROVE [g \in {f} |-> v] \in Writes
  BY WriteIs DEF Flags, Names, Holds
<1>3. ASSUME NEW v \in SavedNames \cup {None} PROVE [ssid |-> v] \in Writes
  <2>1. [ssid |-> v] = [f \in {"ssid"} |-> v]
    OBVIOUS
  <2>2. QED
    BY <2>1, WriteIs DEF Flags, Names, Holds
<1>4. ASSUME NEW v \in Passwords \cup {None} PROVE [password |-> v] \in Writes
  <2>1. [password |-> v] = [f \in {"password"} |-> v]
    OBVIOUS
  <2>2. QED
    BY <2>1, WriteIs DEF Flags, Names, Holds
<1>5. ASSUME NEW v \in BOOLEAN
      PROVE  /\ [deleted |-> v] \in Writes /\ [force |-> v] \in Writes
             /\ [confirmed |-> v] \in Writes /\ [done |-> v] \in Writes
             /\ [giveup |-> v] \in Writes
  <2>1. /\ [deleted |-> v] = [g \in {"deleted"} |-> v] /\ [force |-> v] = [g \in {"force"} |-> v]
        /\ [confirmed |-> v] = [g \in {"confirmed"} |-> v] /\ [done |-> v] = [g \in {"done"} |-> v]
        /\ [giveup |-> v] = [g \in {"giveup"} |-> v]
    OBVIOUS
  <2>2. QED
    BY <1>2, <2>1 DEF Flags
<1>6. QED
  BY <1>1, <1>3, <1>4, <1>5

LEMMA Wipes ==
  /\ Erased \in Writes /\ NoWifi \in Writes /\ Over(Erased, NoWifi) \in Flashes
<1>1. Erased \in Writes
  <2>1. /\ Erased = [f \in {"owner"} \cup Flags |-> Erased[f]]
        /\ \A f \in {"owner"} \cup Flags : Erased[f] \in Holds(f)
    BY DEF Erased, Flags, Holds
  <2>2. QED
    BY <2>1, WriteIs DEF Names
<1>2. NoWifi \in Writes
  <2>1. /\ NoWifi = [f \in {"ssid", "password"} |-> NoWifi[f]]
        /\ \A f \in {"ssid", "password"} : NoWifi[f] \in Holds(f)
    BY DEF NoWifi, Flags, Holds
  <2>2. QED
    BY <2>1, WriteIs DEF Names
<1>3. Over(Erased, NoWifi) \in Flashes
  <2> DEFINE g == Over(Erased, NoWifi)
  <2>1. /\ DOMAIN Erased = {"owner"} \cup Flags /\ DOMAIN NoWifi = {"ssid", "password"}
        /\ DOMAIN Erased \cup DOMAIN NoWifi = Flags \cup Names
    BY DEF Erased, NoWifi, Flags, Names
  <2>2. g = [f \in Flags \cup Names |-> IF f \in DOMAIN Erased THEN Erased[f] ELSE NoWifi[f]]
    BY <2>1 DEF Over
  <2>3. g = [f \in Flags \cup Names |-> g[f]]
    BY <2>2
  <2>4. /\ \A f \in DOMAIN Erased : Erased[f] \in Holds(f)
        /\ \A f \in DOMAIN NoWifi : NoWifi[f] \in Holds(f)
    BY <1>1, <1>2 DEF Writes
  <2>5. \A f \in Flags \cup Names : g[f] \in Holds(f)
    BY <2>1, <2>2, <2>4
  <2> HIDE DEF g
  <2>6. g \in Flashes
    BY <2>3, <2>5, FlashIs
  <2>7. QED
    BY <2>6 DEF g
<1>4. QED
  BY <1>1, <1>2, <1>3

LEMMA NothingWritten ==
  ASSUME NEW n \in Flashes
  PROVE  Over(<<>>, n) = n
<1>1. DOMAIN <<>> = {}
  OBVIOUS
<1>2. n = [f \in DOMAIN n |-> n[f]]
  BY FlashIs
<1>3. QED
  BY <1>1, <1>2 DEF Over

\* A write over the flash.
LEMMA Overwrites ==
  ASSUME NEW n \in Flashes, NEW w \in Writes
  PROVE  /\ Over(w, n) \in Flashes
         /\ \A f \in Flags \cup Names : Over(w, n)[f] = IF f \in DOMAIN w THEN w[f] ELSE n[f]
<1>1. /\ n = [f \in Flags \cup Names |-> n[f]]
      /\ \A f \in Flags \cup Names : n[f] \in Holds(f)
  BY FlashIs
<1>2. DOMAIN w \subseteq Flags \cup Names /\ \A f \in DOMAIN w : w[f] \in Holds(f)
  BY DEF Writes
<1>3. DOMAIN w \cup DOMAIN n = Flags \cup Names
  BY <1>1, <1>2
<1>4. Over(w, n) = [f \in Flags \cup Names |-> IF f \in DOMAIN w THEN w[f] ELSE n[f]]
  BY <1>3 DEF Over
<1> DEFINE g == Over(w, n)
<1>5. \A f \in Flags \cup Names : g[f] = IF f \in DOMAIN w THEN w[f] ELSE n[f]
  BY <1>4
<1>6. g = [f \in Flags \cup Names |-> g[f]]
  BY <1>4
<1>7. \A f \in Flags \cup Names : g[f] \in Holds(f)
  BY <1>1, <1>2, <1>5
<1> HIDE DEF g
<1>8. g \in Flashes
  BY <1>6, <1>7, FlashIs
<1>9. QED
  BY <1>5, <1>8 DEF g

-----------------------------------------------------------------------------
(***************************************************************************)
(* The writes a handler leaves to be made.                                 *)
(***************************************************************************)
LEMMA OfSequences ==
  /\ Of(<<>>) = {}
  /\ \A w : Of(<<w>>) = {w}
  /\ \A s, t \in Seq(Writes) : Of(s \o t) = Of(s) \cup Of(t)
<1>1. Of(<<>>) = {}
  BY DEF Of
<1>2. ASSUME NEW w PROVE Of(<<w>>) = {w}
  BY DEF Of
<1>3. ASSUME NEW s \in Seq(Writes), NEW t \in Seq(Writes)
      PROVE  Of(s \o t) = Of(s) \cup Of(t)
  <2>1. /\ Len(s) \in Nat /\ Len(t) \in Nat
        /\ DOMAIN s = 1 .. Len(s) /\ DOMAIN t = 1 .. Len(t)
        /\ DOMAIN (s \o t) = 1 .. Len(s) + Len(t)
    OBVIOUS
  <2>2. \A k \in 1 .. Len(s) + Len(t) :
          (s \o t)[k] = IF k <= Len(s) THEN s[k] ELSE t[k - Len(s)]
    OBVIOUS
  <2>3. \A k \in 1 .. Len(s) : (s \o t)[k] = s[k] /\ k \in DOMAIN (s \o t)
    BY <2>1, <2>2
  <2>4. \A k \in 1 .. Len(t) : /\ (s \o t)[Len(s) + k] = t[k]
                               /\ Len(s) + k \in DOMAIN (s \o t)
    BY <2>1, <2>2
  <2>5. ASSUME NEW x \in Of(s \o t) PROVE x \in Of(s) \cup Of(t)
    <3>1. PICK k \in DOMAIN (s \o t) : x = (s \o t)[k]
      BY DEF Of
    <3>2. CASE k <= Len(s)
      BY <2>1, <2>2, <3>1, <3>2 DEF Of
    <3>3. CASE ~(k <= Len(s))
      <4>1. k - Len(s) \in DOMAIN t /\ x = t[k - Len(s)]
        BY <2>1, <2>2, <3>1, <3>3
      <4>2. QED
        BY <4>1 DEF Of
    <3>4. QED
      BY <3>2, <3>3
  <2>6. ASSUME NEW x \in Of(s) PROVE x \in Of(s \o t)
    BY <2>1, <2>3 DEF Of
  <2>7. ASSUME NEW x \in Of(t) PROVE x \in Of(s \o t)
    BY <2>1, <2>4 DEF Of
  <2>8. QED
    BY <2>5, <2>6, <2>7
<1>4. QED
  BY <1>1, <1>2, <1>3

LEMMA Joins ==
  ASSUME NEW s \in Seq(Writes), NEW t \in Seq(Writes)
  PROVE  s \o t \in Seq(Writes) /\ Len(s \o t) = Len(s) + Len(t)
OBVIOUS

\* The first write and the others.
LEMMA FirstAndRest ==
  ASSUME NEW s \in Seq(Writes), s # <<>>
  PROVE  /\ Head(s) \in Writes /\ Tail(s) \in Seq(Writes) /\ Len(Tail(s)) = Len(s) - 1
         /\ Of(s) = {Head(s)} \cup Of(Tail(s))
<1>1. /\ Head(s) \in Writes /\ Tail(s) \in Seq(Writes) /\ Len(Tail(s)) = Len(s) - 1
      /\ Len(s) \in Nat \ {0} /\ DOMAIN s = 1 .. Len(s) /\ Head(s) = s[1]
      /\ DOMAIN Tail(s) = 1 .. (Len(s) - 1)
      /\ \A k \in 1 .. (Len(s) - 1) : Tail(s)[k] = s[k + 1]
  OBVIOUS
<1>2. ASSUME NEW x \in Of(s) PROVE x \in {Head(s)} \cup Of(Tail(s))
  <2>1. PICK k \in DOMAIN s : x = s[k]
    BY DEF Of
  <2>2. CASE k = 1
    BY <1>1, <2>1, <2>2
  <2>3. CASE k # 1
    <3>1. k - 1 \in DOMAIN Tail(s) /\ x = Tail(s)[k - 1]
      BY <1>1, <2>1, <2>3
    <3>2. QED
      BY <3>1 DEF Of
  <2>4. QED
    BY <2>2, <2>3
<1>3. ASSUME NEW x \in Of(Tail(s)) PROVE x \in Of(s)
  <2>1. PICK k \in 1 .. (Len(s) - 1) : x = s[k + 1]
    BY <1>1 DEF Of
  <2>2. k + 1 \in DOMAIN s
    BY <1>1
  <2>3. QED
    BY <2>1, <2>2 DEF Of
<1>4. Head(s) \in Of(s)
  <2>1. 1 \in DOMAIN s
    BY <1>1
  <2>2. QED
    BY <1>1, <2>1 DEF Of
<1>5. QED
  BY <1>1, <1>2, <1>3, <1>4

\* A write that is made leaves the flash to settle to what it settled to.
LEMMA WriteSettles ==
  ASSUME NEW n \in Flashes, NEW s \in Seq(Writes), s # <<>>, NEW f \in Flags \cup Names,
         NEW v, Settles(n, Of(s), f, v)
  PROVE  Settles(Over(Head(s), n), Of(Tail(s)), f, v)
<1>1. /\ Head(s) \in Writes
      /\ Of(s) = {Head(s)} \cup Of(Tail(s))
  BY FirstAndRest
<1>2. Over(Head(s), n)[f] = IF f \in DOMAIN Head(s) THEN Head(s)[f] ELSE n[f]
  BY <1>1, Overwrites
<1>3. QED
  BY <1>1, <1>2 DEF Settles

-----------------------------------------------------------------------------
(***************************************************************************)
(* Where an attempt to connect may end, and what name it saves.            *)
(***************************************************************************)
LEMMA ConnectGives ==
  ASSUME inRange \subseteq Aps, NEW ssid, NEW p, NEW o \in Connect(ssid, p)
  PROVE  o.ap \in Aps \cup {None} /\ o.name \in {None, Stripped(ssid)}
<1>1. \A s : ByName(s) \subseteq Aps \cup {None}
  BY DEF ByName, Named
<1>2. Aim(ssid) \subseteq Aps \cup {None}
  <2>1. Match(ssid) \subseteq Aps
    BY DEF Match, Exact, Loose, Fuzzy, Visible
  <2>2. QED
    BY <1>1, <2>1 DEF Aim
<1>3. \A a : Joined(a, p) \in {a, None}
  BY DEF Joined
<1>4. Static(ssid, p) \subseteq Aps \cup {None}
  BY <1>1, <1>3 DEF Static
<1>5. FirstTry(ssid, p) \subseteq Aps \cup {None}
  BY <1>2, <1>3, <1>4 DEF FirstTry
<1>6. SecondTry(ssid, p) \subseteq Aps \cup {None}
  BY <1>1, <1>3 DEF SecondTry
<1>7. \A a, m : Outcome(a, m).ap = a /\ Outcome(a, m).name = m
  BY DEF Outcome
<1>8. \/ \E a \in FirstTry(ssid, p) : o = Outcome(a, None)
      \/ \E a \in SecondTry(ssid, p) \cup {None} :
           o = Outcome(a, IF a = None THEN None ELSE Stripped(ssid))
  BY DEF Connect
<1>9. QED
  BY <1>5, <1>6, <1>7, <1>8

\* Spaces taken away twice are taken away once.
LEMMA StrippedNames ==
  ASSUME NEW s \in SavedNames
  PROVE  Stripped(s) \in SavedNames
<1>1. \A n : Stripped(Trimmed(n)) = Stripped(n) /\ Stripped(Stripped(n)) = Stripped(n)
  BY DEF Stripped, Trimmed
<1>2. QED
  BY <1>1 DEF SavedNames

LEMMA CorrectedIs ==
  ASSUME NEW o, o.name \in SavedNames \cup {None}
  PROVE  Corrected(o) = <<>> \/ (Corrected(o) \in Writes /\ DOMAIN Corrected(o) = {"ssid"})
BY OneKey DEF Corrected

LEMMA SavedWifi ==
  ASSUME NEW c \in Typed
  PROVE  /\ SaveWifi(c) \in Seq(Writes) /\ Len(SaveWifi(c)) = 3
         /\ \A w \in Of(SaveWifi(c)) :
              /\ "owner" \notin DOMAIN w /\ "done" \notin DOMAIN w /\ "confirmed" \notin DOMAIN w
              /\ "deleted" \in DOMAIN w => w.deleted = FALSE
<1> DEFINE a == [ssid |-> Trimmed(c.ssid)]
           b == [password |-> c.password]
           d == [deleted |-> FALSE]
<1>1. a \in Writes /\ b \in Writes /\ d \in Writes
  BY OneKey DEF SavedNames, Passwords
<1>2. DOMAIN a = {"ssid"} /\ DOMAIN b = {"password"} /\ DOMAIN d = {"deleted"} /\ d.deleted = FALSE
  OBVIOUS
<1>3. SaveWifi(c) = <<a, b, d>>
  BY DEF SaveWifi
<1> HIDE DEF a, b, d
<1>4. SaveWifi(c) \in Seq(Writes) /\ Len(SaveWifi(c)) = 3 /\ Of(SaveWifi(c)) = {a, b, d}
  BY <1>1, <1>3 DEF Of
<1>5. QED
  BY <1>2, <1>4

-----------------------------------------------------------------------------
(***************************************************************************)
(* The handlers.                                                           *)
(***************************************************************************)
LEMMA CommandCounts ==
  ASSUME TypeInv, commands' = commands \/ Command
  PROVE  commands' \in 0..MaxCommands
<1>1. commands \in 0..MaxCommands /\ MaxCommands \in Nat
  BY OnbAssumption DEF TypeInv
<1>2. CASE Command
  <2>1. commands < MaxCommands /\ commands' = commands + 1
    BY <1>2 DEF Command
  <2>2. QED
    BY <1>1, <2>1
<1>3. QED
  BY <1>1, <1>2

LEMMA HandlerKeeps ==
  ASSUME OnbIInv, NEW W \in Seq(Writes), NEW then \in Afters, NEW r \in Rams,
         mode # "boot", Handle(W, then, r), Len(W) <= 4,
         told' \in Owners \cup {None}, told # None => told' # None,
         commands' \in 0..MaxCommands,
         \A w \in Of(W) : "done" \in DOMAIN w /\ w.done = TRUE => told' # None,
         r.gaveUp = TRUE \/ r.rejects < MaxRejects,
         mode = "node" /\ then = "go on" => Agrees(nvs, Of(W), r)
  PROVE  OnbIInv'
<1>1. /\ todo' = W /\ after' = then /\ ram' = r
      /\ nvs' = nvs /\ mode' = mode /\ inRange' = inRange /\ crashes' = crashes
  BY DEF Handle
<1>2. TypeInv'
  BY <1>1 DEF OnbIInv, TypeInv
<1>3. HeardOf(nvs, Of(W), told')
  BY DEF OnbIInv, HeardOf
<1>4. QED
  BY <1>1, <1>2, <1>3 DEF OnbIInv

\* A handler that ends in a restart, and tells the BE nothing.
TellsNothing(W) == /\ W \in Seq(Writes) /\ Len(W) <= 4
                   /\ \A w \in Of(W) : "done" \in DOMAIN w => w.done = FALSE
CountsNothing(r) == r \in Rams /\ r.gaveUp = ram.gaveUp /\ r.rejects = ram.rejects

LEMMA NoWrites == TellsNothing(<<>>)
<1>1. <<>> \in Seq(Writes) /\ Len(<<>>) = 0 /\ Of(<<>>) = {}
  BY OfSequences
<1>2. QED
  BY <1>1 DEF TellsNothing

LEMMA OneWrite ==
  ASSUME NEW w \in Writes, "done" \notin DOMAIN w
  PROVE  TellsNothing(<<w>>)
<1>1. <<w>> \in Seq(Writes) /\ Len(<<w>>) = 1 /\ Of(<<w>>) = {w}
  BY OfSequences
<1>2. QED
  BY <1>1 DEF TellsNothing

LEMMA WifiWrites ==
  ASSUME NEW c \in Typed
  PROVE  /\ TellsNothing(SaveWifi(c))
         /\ \A w \in Writes : "done" \notin DOMAIN w => TellsNothing(SaveWifi(c) \o <<w>>)
<1>1. /\ SaveWifi(c) \in Seq(Writes) /\ Len(SaveWifi(c)) = 3
      /\ \A w \in Of(SaveWifi(c)) : "done" \notin DOMAIN w
  BY SavedWifi
<1>2. TellsNothing(SaveWifi(c))
  BY <1>1 DEF TellsNothing
<1>3. ASSUME NEW w \in Writes, "done" \notin DOMAIN w
      PROVE  TellsNothing(SaveWifi(c) \o <<w>>)
  <2> DEFINE z == <<w>>
  <2>1. z \in Seq(Writes) /\ Len(z) = 1 /\ Of(z) = {w}
    BY OfSequences
  <2> HIDE DEF z
  <2>2. Of(SaveWifi(c) \o z) = Of(SaveWifi(c)) \cup {w}
    BY <1>1, <2>1, OfSequences
  <2>3. SaveWifi(c) \o z \in Seq(Writes) /\ Len(SaveWifi(c) \o z) = 4
    <3>1. /\ SaveWifi(c) \o z \in Seq(Writes)
          /\ Len(SaveWifi(c) \o z) = Len(SaveWifi(c)) + Len(z)
      BY <1>1, <2>1, Joins
    <3>2. QED
      BY <1>1, <2>1, <3>1
  <2>4. TellsNothing(SaveWifi(c) \o z)
    BY <1>1, <1>3, <2>2, <2>3 DEF TellsNothing
  <2>5. QED
    BY <2>4 DEF z
<1>4. QED
  BY <1>2, <1>3

LEMMA RamUpdates ==
  ASSUME ram \in Rams
  PROVE  /\ CountsNothing(ram)
         /\ \A o \in Owners \cup {None} : CountsNothing([ram EXCEPT !.owner = o])
         /\ \A a \in Aps \cup {None} : CountsNothing([ram EXCEPT !.ap = a])
BY DEF CountsNothing, Rams

LEMMA RestartKeeps ==
  ASSUME OnbIInv, NEW W, TellsNothing(W), NEW then \in {"restart", "restart soon"},
         NEW r, CountsNothing(r), mode # "boot", Handle(W, then, r), told' = told,
         commands' = commands \/ Command
  PROVE  OnbIInv'
<1>1. told \in Owners \cup {None} /\ commands' \in 0..MaxCommands
  BY CommandCounts DEF OnbIInv, TypeInv
<1>2. then \in Afters /\ then # "go on"
  BY DEF Afters
<1>3. r \in Rams /\ (r.gaveUp = TRUE \/ r.rejects < MaxRejects)
  BY DEF OnbIInv, CountsNothing
<1>4. W \in Seq(Writes) /\ Len(W) <= 4
  BY DEF TellsNothing
<1>5. \A w \in Of(W) : "done" \in DOMAIN w /\ w.done = TRUE => told' # None
  BY DEF TellsNothing
<1>6. QED
  BY <1>1, <1>2, <1>3, <1>4, <1>5, HandlerKeeps

\* A factory reset.
LEMMA WipedAll == TellsNothing(<<Erased, NoWifi>>)
<1>1. Erased.done = FALSE /\ "done" \notin DOMAIN NoWifi
  BY DEF Erased, NoWifi
<1>2. /\ <<Erased, NoWifi>> \in Seq(Writes) /\ Len(<<Erased, NoWifi>>) = 2
      /\ Of(<<Erased, NoWifi>>) = {Erased, NoWifi}
  BY Wipes DEF Of
<1>3. QED
  BY <1>1, <1>2 DEF TellsNothing

\* One that goes on, and tells the BE nothing: where a node runs, it changes
\* memory and flash alike.
LEMMA GoingOnKeeps ==
  ASSUME OnbIInv, NEW W, TellsNothing(W), NEW then \in Afters, NEW r \in Rams,
         r.gaveUp = TRUE \/ r.rejects < MaxRejects,
         mode # "boot", Handle(W, then, r), told' = told, commands' = commands \/ Command,
         mode = "node" /\ then = "go on" => Agrees(nvs, Of(W), r)
  PROVE  OnbIInv'
<1>1. told \in Owners \cup {None} /\ commands' \in 0..MaxCommands
  BY CommandCounts DEF OnbIInv, TypeInv
<1>2. W \in Seq(Writes) /\ Len(W) <= 4
  BY DEF TellsNothing
<1>3. \A w \in Of(W) : "done" \in DOMAIN w /\ w.done = TRUE => told' # None
  BY DEF TellsNothing
<1>4. QED
  BY <1>1, <1>2, <1>3, HandlerKeeps

\* The parts of the invariant where the node runs and no handler does.
LEMMA AtRest ==
  ASSUME OnbIInv, NodeRuns
  PROVE  /\ mode = "node" /\ todo = <<>> /\ after = "go on"
         /\ nvs.owner = ram.owner /\ nvs.done = ram.done /\ nvs.deleted = FALSE
         /\ nvs.confirmed = (ram.watchdog = "confirmed")
<1>1. mode = "node" /\ todo = <<>> /\ after = "go on"
  BY DEF NodeRuns, Idle
<1>2. Agrees(nvs, {}, ram)
  BY <1>1, OfSequences DEF OnbIInv
<1>3. QED
  BY <1>1, <1>2 DEF Agrees, Settles

LEMMA PortalKeeps ==
  ASSUME OnbIInv,
         \/ \E o \in Owners \cup {None} : PortalReregister(o) \/ \E c \in Typed : PortalRegister(c, o)
         \/ \E c \in Typed : PortalWifiSet(c)
         \/ TrustSign \/ PortalFactoryReset \/ PortalTimeout
  PROVE  OnbIInv'
<1>1. ram \in Rams
  BY DEF OnbIInv, TypeInv
<1>2. ASSUME NEW o \in Owners \cup {None}
      PROVE  [owner |-> o] \in Writes /\ "done" \notin DOMAIN [owner |-> o]
  BY OneKey
<1>3. ASSUME NEW o \in Owners \cup {None}, PortalReregister(o) PROVE OnbIInv'
  <2>1. /\ Handle(<<[owner |-> o]>>, "restart", [ram EXCEPT !.owner = o])
        /\ told' = told /\ Command /\ mode # "boot"
    BY <1>3 DEF PortalReregister, PortalAnswers, InPortal
  <2>2. TellsNothing(<<[owner |-> o]>>) /\ CountsNothing([ram EXCEPT !.owner = o])
    BY <1>1, <1>2, OneWrite, RamUpdates
  <2>3. QED
    BY <2>1, <2>2, RestartKeeps
<1>4. ASSUME NEW o \in Owners \cup {None}, NEW c \in Typed, PortalRegister(c, o) PROVE OnbIInv'
  <2>1. /\ Handle(SaveWifi(c) \o <<[owner |-> o]>>, "restart", [ram EXCEPT !.owner = o])
        /\ told' = told /\ Command /\ mode # "boot"
    BY <1>4 DEF PortalRegister, PortalAnswers, InPortal
  <2>2. TellsNothing(SaveWifi(c) \o <<[owner |-> o]>>) /\ CountsNothing([ram EXCEPT !.owner = o])
    BY <1>1, <1>2, WifiWrites, RamUpdates
  <2>3. QED
    BY <2>1, <2>2, RestartKeeps
<1>5. ASSUME NEW c \in Typed, PortalWifiSet(c) PROVE OnbIInv'
  <2>1. Handle(SaveWifi(c), "restart", ram) /\ told' = told /\ Command /\ mode # "boot"
    BY <1>5 DEF PortalWifiSet, PortalAnswers, InPortal
  <2>2. QED
    BY <1>1, <2>1, WifiWrites, RamUpdates, RestartKeeps
<1>6. ASSUME TrustSign \/ PortalTimeout PROVE OnbIInv'
  <2>1. /\ Handle(<<>>, "restart", ram) /\ told' = told /\ (commands' = commands \/ Command)
        /\ mode # "boot"
    BY <1>6 DEF TrustSign, PortalTimeout, PortalAnswers, InPortal
  <2>2. QED
    BY <1>1, <2>1, NoWrites, RamUpdates, RestartKeeps
<1>7. ASSUME PortalFactoryReset PROVE OnbIInv'
  <2>1. Handle(<<Erased, NoWifi>>, "restart soon", ram) /\ told' = told /\ Command /\ mode # "boot"
    BY <1>7 DEF PortalFactoryReset, PortalAnswers, InPortal
  <2>2. QED
    BY <1>1, <2>1, WipedAll, RamUpdates, RestartKeeps
<1>8. QED
  BY <1>3, <1>4, <1>5, <1>6, <1>7

LEMMA WatchdogKeeps ==
  ASSUME OnbIInv, WatchdogTimeout
  PROVE  OnbIInv'
<1> DEFINE a == [owner |-> None]
           b == [confirmed |-> FALSE]
<1>1. a \in Writes /\ b \in Writes /\ NoWifi \in Writes /\ WatchdogWipe = <<a, b, NoWifi>>
  BY OneKey, Wipes DEF WatchdogWipe
<1>2. "done" \notin DOMAIN a /\ "done" \notin DOMAIN b /\ "done" \notin DOMAIN NoWifi
  BY DEF NoWifi
<1> HIDE DEF a, b
<1>3. /\ WatchdogWipe \in Seq(Writes) /\ Len(WatchdogWipe) = 3
      /\ Of(WatchdogWipe) = {a, b, NoWifi}
  BY <1>1 DEF Of
<1>4. TellsNothing(WatchdogWipe)
  BY <1>2, <1>3 DEF TellsNothing
<1>5. /\ Handle(WatchdogWipe, "restart", ram) /\ told' = told /\ commands' = commands
      /\ mode # "boot"
  BY DEF WatchdogTimeout, NodeRuns
<1>6. CountsNothing(ram)
  BY RamUpdates DEF OnbIInv, TypeInv
<1>7. QED
  BY <1>4, <1>5, <1>6, RestartKeeps

LEMMA OrdersKeep ==
  ASSUME OnbIInv, PortalMode \/ FactoryReset \/ Restart \/ OnDeleted \/ WifiDown
  PROVE  OnbIInv'
<1>1. CountsNothing(ram)
  BY RamUpdates DEF OnbIInv, TypeInv
<1>2. TellsNothing(<<[force |-> TRUE]>>) /\ TellsNothing(<<[deleted |-> TRUE]>>)
  <2>1. [force |-> TRUE] \in Writes /\ [deleted |-> TRUE] \in Writes
    BY OneKey
  <2>2. "done" \notin DOMAIN [force |-> TRUE] /\ "done" \notin DOMAIN [deleted |-> TRUE]
    OBVIOUS
  <2>3. QED
    BY <2>1, <2>2, OneWrite
<1>3. ASSUME PortalMode PROVE OnbIInv'
  BY <1>1, <1>2, <1>3, RestartKeeps DEF PortalMode, Responds
<1>4. ASSUME OnDeleted PROVE OnbIInv'
  BY <1>1, <1>2, <1>4, RestartKeeps DEF OnDeleted, NodeRuns
<1>5. ASSUME FactoryReset PROVE OnbIInv'
  BY <1>1, <1>5, WipedAll, RestartKeeps DEF FactoryReset, Responds
<1>6. ASSUME Restart \/ WifiDown PROVE OnbIInv'
  <2>1. /\ Handle(<<>>, "restart", ram) /\ told' = told /\ (commands' = commands \/ Command)
        /\ mode # "boot"
    BY <1>6 DEF Restart, WifiDown, Responds, NodeRuns
  <2>2. QED
    BY <1>1, <2>1, NoWrites, RestartKeeps
<1>7. QED
  BY <1>3, <1>4, <1>5, <1>6

LEMMA Confirms ==
  ASSUME OnbIInv, NodeRuns, NEW r, r.owner = ram.owner, r.done = ram.done,
         r.watchdog = "confirmed"
  PROVE  TellsNothing(ConfirmWrites) /\ Agrees(nvs, Of(ConfirmWrites), r)
<1>1. CASE ram.watchdog = "confirmed"
  <2>1. ConfirmWrites = <<>> /\ Of(<<>>) = {}
    BY <1>1, OfSequences DEF ConfirmWrites
  <2>2. Agrees(nvs, {}, r)
    BY <1>1, AtRest DEF Agrees, Settles
  <2>3. QED
    BY <2>1, <2>2, NoWrites
<1>2. CASE ram.watchdog # "confirmed"
  <2> DEFINE w == [confirmed |-> TRUE]
  <2>1. w \in Writes /\ ConfirmWrites = <<w>> /\ Of(<<w>>) = {w}
    BY <1>2, OneKey, OfSequences DEF ConfirmWrites
  <2>2. DOMAIN w = {"confirmed"} /\ w["confirmed"] = TRUE
    OBVIOUS
  <2> HIDE DEF w
  <2>3. (r.watchdog = "confirmed") = TRUE
    OBVIOUS
  <2>4. Settles(nvs, {w}, "confirmed", TRUE)
    BY <2>2 DEF Settles
  <2>5. Settles(nvs, {w}, "owner", r.owner) /\ Settles(nvs, {w}, "done", r.done)
    <3>1. nvs.owner = r.owner /\ nvs.done = r.done
      BY AtRest
    <3>2. "owner" \notin DOMAIN w /\ "done" \notin DOMAIN w
      BY <2>2
    <3>3. QED
      BY <3>1, <3>2 DEF Settles
  <2>6. nvs.deleted = FALSE /\ "deleted" \notin DOMAIN w
    BY <2>2, AtRest
  <2>7. Agrees(nvs, {w}, r)
    BY <2>3, <2>4, <2>5, <2>6 DEF Agrees
  <2>8. QED
    BY <2>1, <2>2, <2>7, OneWrite
<1>3. QED
  BY <1>1, <1>2

LEMMA ConfirmedKeeps ==
  ASSUME OnbIInv, AppConfirms \/ WsIdentified
  PROVE  OnbIInv'
<1>1. ram \in Rams /\ (ram.gaveUp = TRUE \/ ram.rejects < MaxRejects)
  BY DEF OnbIInv, TypeInv
<1>2. \E r \in {[ram EXCEPT !.watchdog = "confirmed"],
               [ram EXCEPT !.watchdog = "confirmed", !.online = TRUE]} :
        /\ NodeRuns /\ Handle(ConfirmWrites, "go on", r)
        /\ told' = told /\ (commands' = commands \/ Command)
  BY DEF AppConfirms, WsIdentified
<1>3. ASSUME NEW r \in {[ram EXCEPT !.watchdog = "confirmed"],
                       [ram EXCEPT !.watchdog = "confirmed", !.online = TRUE]}
      PROVE  /\ r \in Rams /\ r.owner = ram.owner /\ r.done = ram.done
             /\ r.gaveUp = ram.gaveUp /\ r.rejects = ram.rejects /\ r.watchdog = "confirmed"
  BY <1>1 DEF Rams
<1>4. PICK r : /\ r \in Rams /\ r.owner = ram.owner /\ r.done = ram.done
               /\ r.gaveUp = ram.gaveUp /\ r.rejects = ram.rejects /\ r.watchdog = "confirmed"
               /\ NodeRuns /\ Handle(ConfirmWrites, "go on", r)
               /\ told' = told /\ (commands' = commands \/ Command)
  BY <1>2, <1>3
<1>5. TellsNothing(ConfirmWrites) /\ Agrees(nvs, Of(ConfirmWrites), r)
  BY <1>4, Confirms
<1>6. "go on" \in Afters /\ (r.gaveUp = TRUE \/ r.rejects < MaxRejects)
  BY <1>1, <1>4 DEF Afters
<1>7. QED
  BY <1>4, <1>5, <1>6, AtRest, GoingOnKeeps

LEMMA AcceptedKeeps ==
  ASSUME OnbIInv, Accepted
  PROVE  OnbIInv'
<1> DEFINE r == [ram EXCEPT !.done = TRUE, !.watchdog = "confirmed"]
           d == [done |-> TRUE]
           one == <<d>>
<1>1. /\ NodeRuns /\ ram.owner # None /\ told' = ram.owner /\ commands' = commands
      /\ Handle(one \o ConfirmWrites, "go on", r)
  BY DEF Accepted, Attempting
<1>2. ram \in Rams /\ (ram.gaveUp = TRUE \/ ram.rejects < MaxRejects)
  BY DEF OnbIInv, TypeInv
<1>3. /\ r \in Rams /\ r.owner = ram.owner /\ r.done = TRUE /\ r.watchdog = "confirmed"
      /\ r.gaveUp = ram.gaveUp /\ r.rejects = ram.rejects
  BY <1>2 DEF Rams
<1>4. d \in Writes /\ DOMAIN d = {"done"} /\ d["done"] = TRUE
  BY OneKey
<1> HIDE DEF d
<1>5. one \in Seq(Writes) /\ Len(one) = 1 /\ Of(one) = {d}
  BY <1>4, OfSequences
<1> HIDE DEF one
<1>6. \/ ConfirmWrites = <<>> /\ ram.watchdog = "confirmed"
      \/ ConfirmWrites = <<[confirmed |-> TRUE]>> /\ ram.watchdog # "confirmed"
  BY DEF ConfirmWrites
<1>7. [confirmed |-> TRUE] \in Writes
  BY OneKey
<1>8. ConfirmWrites \in Seq(Writes) /\ Len(ConfirmWrites) <= 1
  <2> DEFINE none == <<>>
             z == <<[confirmed |-> TRUE]>>
  <2>1. /\ none \in Seq(Writes) /\ Len(none) <= 1
        /\ z \in Seq(Writes) /\ Len(z) <= 1
    BY <1>7
  <2>2. ConfirmWrites = none \/ ConfirmWrites = z
    BY <1>6
  <2> HIDE DEF none, z
  <2>3. QED
    BY <2>1, <2>2
<1>9. Of(one \o ConfirmWrites) = {d} \cup Of(ConfirmWrites)
  BY <1>5, <1>8, OfSequences
<1>10. Of(ConfirmWrites) = {} \/ Of(ConfirmWrites) = {[confirmed |-> TRUE]}
  BY <1>6, OfSequences
<1>11. one \o ConfirmWrites \in Seq(Writes) /\ Len(one \o ConfirmWrites) <= 4
  BY <1>5, <1>8, Joins
<1>12. Agrees(nvs, {d} \cup Of(ConfirmWrites), r)
  <2> DEFINE q == [ram EXCEPT !.watchdog = "confirmed"]
  <2>1. q.owner = ram.owner /\ q.done = ram.done /\ q.watchdog = "confirmed"
    BY <1>2 DEF Rams
  <2> HIDE DEF q
  <2>2. Agrees(nvs, Of(ConfirmWrites), q)
    BY <1>1, <2>1, Confirms
  <2>3. \A w \in Of(ConfirmWrites) : "done" \notin DOMAIN w
    BY <1>10
  <2> HIDE DEF r
  <2> DEFINE C == Of(ConfirmWrites)
  <2>4. /\ Settles(nvs, C, "owner", ram.owner) /\ Settles(nvs, C, "confirmed", TRUE)
        /\ nvs.deleted = FALSE /\ \A w \in C : "deleted" \in DOMAIN w => w.deleted = FALSE
    BY <2>1, <2>2 DEF Agrees
  <2> HIDE DEF C
  <2>5. /\ Settles(nvs, {d} \cup C, "owner", ram.owner) /\ Settles(nvs, {d} \cup C, "confirmed", TRUE)
        /\ \A w \in {d} \cup C : "deleted" \in DOMAIN w => w.deleted = FALSE
    BY <1>4, <2>4 DEF Settles
  <2>6. Settles(nvs, {d} \cup C, "done", TRUE)
    BY <1>4, <2>3 DEF Settles, C
  <2>7. (r.watchdog = "confirmed") = TRUE
    BY <1>3
  <2>8. Agrees(nvs, {d} \cup C, r)
    BY <1>3, <2>4, <2>5, <2>6, <2>7 DEF Agrees
  <2>9. QED
    BY <2>8 DEF C
<1> HIDE DEF r
<1>13. /\ told' \in Owners \cup {None} /\ told' # None /\ "go on" \in Afters
       /\ commands' \in 0..MaxCommands
  BY <1>1, <1>2, CommandCounts DEF Rams, Afters, OnbIInv
<1>14. QED
  BY <1>1, <1>2, <1>3, <1>9, <1>11, <1>12, <1>13, AtRest, HandlerKeeps

LEMMA UnheardKeeps ==
  ASSUME OnbIInv, AcceptedUnheard
  PROVE  OnbIInv'
<1>1. /\ told' = ram.owner /\ ram.owner # None /\ commands' = commands
      /\ UNCHANGED <<nvs, mode, ram, todo, after, inRange, crashes>>
  BY DEF AcceptedUnheard, Attempting
<1>2. TypeInv'
  BY <1>1 DEF OnbIInv, TypeInv, Rams
<1>3. HeardOf(nvs, Of(todo), told')
  BY <1>1 DEF HeardOf
<1>4. QED
  BY <1>1, <1>2, <1>3 DEF OnbIInv

LEMMA RejectedKeeps ==
  ASSUME OnbIInv, Rejected \/ NoOwnerToTell
  PROVE  OnbIInv'
<1>1. ram \in Rams /\ (ram.gaveUp = TRUE \/ ram.rejects < MaxRejects) /\ "go on" \in Afters
  BY DEF OnbIInv, TypeInv, Afters
<1>2. NodeRuns /\ told' = told /\ commands' = commands /\ ~ram.gaveUp
  BY DEF Rejected, Attempting, NoOwnerToTell
<1>3. /\ nvs.owner = ram.owner /\ nvs.done = ram.done /\ nvs.deleted = FALSE
      /\ nvs.confirmed = (ram.watchdog = "confirmed") /\ mode = "node"
  BY <1>2, AtRest
<1>4. ASSUME NEW r, r.owner = ram.owner, r.done = ram.done, r.watchdog = ram.watchdog,
             NEW W, \A w \in W : DOMAIN w = {"giveup"}
      PROVE  Agrees(nvs, W, r)
  BY <1>3, <1>4 DEF Agrees, Settles
<1>5. CASE Rejected
  <2> DEFINE n == ram.rejects + 1
             r == [ram EXCEPT !.rejects = n, !.gaveUp = GivesUp(n)]
  <2>1. Handle(RejectWrites(n), "go on", r)
    BY <1>5 DEF Rejected
  <2>2. ram.rejects \in 0..MaxRejects /\ ram.rejects < MaxRejects /\ MaxRejects \in Nat
    BY <1>1, <1>2, OnbAssumption DEF Rams
  <2>3. n \in 0..MaxRejects
    BY <2>2
  <2> HIDE DEF n
  <2>4. GivesUp(n) \in BOOLEAN /\ (GivesUp(n) \/ n < MaxRejects)
    BY <2>2, <2>3 DEF GivesUp
  <2>5. /\ r \in Rams /\ r.owner = ram.owner /\ r.done = ram.done /\ r.watchdog = ram.watchdog
        /\ r.gaveUp = GivesUp(n) /\ r.rejects = n
    BY <1>1, <2>3, <2>4 DEF Rams
  <2> HIDE DEF r
  <2> DEFINE w == [giveup |-> TRUE]
  <2>6. w \in Writes /\ DOMAIN w = {"giveup"}
    BY OneKey
  <2>7. RejectWrites(n) = <<>> \/ RejectWrites(n) = <<w>>
    BY DEF RejectWrites
  <2> HIDE DEF w
  <2>8. TellsNothing(RejectWrites(n)) /\ \A x \in Of(RejectWrites(n)) : DOMAIN x = {"giveup"}
    BY <2>6, <2>7, NoWrites, OneWrite, OfSequences
  <2>9. Agrees(nvs, Of(RejectWrites(n)), r)
    BY <1>4, <2>5, <2>8
  <2>10. r.gaveUp = TRUE \/ r.rejects < MaxRejects
    BY <2>4, <2>5
  <2>11. QED
    BY <1>1, <1>2, <1>3, <2>1, <2>5, <2>8, <2>9, <2>10, GoingOnKeeps
<1>6. CASE NoOwnerToTell
  <2> DEFINE r == [ram EXCEPT !.gaveUp = TRUE]
  <2>1. Handle(<<>>, "go on", r)
    BY <1>6 DEF NoOwnerToTell
  <2>2. /\ r \in Rams /\ r.owner = ram.owner /\ r.done = ram.done /\ r.watchdog = ram.watchdog
        /\ r.gaveUp = TRUE
    BY <1>1 DEF Rams
  <2> HIDE DEF r
  <2>3. Agrees(nvs, Of(<<>>), r)
    BY <1>4, <2>2, OfSequences
  <2>4. QED
    BY <1>1, <1>2, <1>3, <2>1, <2>2, <2>3, NoWrites, GoingOnKeeps
<1>7. QED
  BY <1>5, <1>6

LEMMA SerialKeeps ==
  ASSUME OnbIInv, (\E o \in Owners : SerialRegister(o)) \/ SerialUnregister
  PROVE  OnbIInv'
<1>1. ram \in Rams /\ after \in Afters /\ (ram.gaveUp = TRUE \/ ram.rejects < MaxRejects)
  BY DEF OnbIInv, TypeInv
<1>2. ASSUME NEW o \in Owners, SerialRegister(o) PROVE OnbIInv'
  <2> DEFINE a == [owner |-> o]
             b == [done |-> FALSE]
             c == [giveup |-> FALSE]
             W == <<a, b, c>>
  <2>1. /\ Handle(W, "restart", [ram EXCEPT !.owner = o]) /\ told' = told /\ Command
        /\ mode # "boot"
    BY <1>2 DEF SerialRegister, Responds
  <2>2. a \in Writes /\ b \in Writes /\ c \in Writes
    BY OneKey
  <2>3. /\ DOMAIN a = {"owner"} /\ DOMAIN b = {"done"} /\ b["done"] = FALSE
        /\ DOMAIN c = {"giveup"}
    OBVIOUS
  <2> HIDE DEF a, b, c
  <2>4. W \in Seq(Writes) /\ Len(W) = 3 /\ Of(W) = {a, b, c}
    BY <2>2 DEF Of
  <2> HIDE DEF W
  <2>5. TellsNothing(W)
    BY <2>3, <2>4 DEF TellsNothing
  <2>6. CountsNothing([ram EXCEPT !.owner = o])
    BY <1>1, RamUpdates
  <2>7. QED
    BY <2>1, <2>5, <2>6, RestartKeeps
<1>3. ASSUME SerialUnregister PROVE OnbIInv'
  <2> DEFINE r == WithoutOwner(ram)
             w == [owner |-> None]
  <2>1. Handle(<<w>>, after, r) /\ told' = told /\ Command /\ Responds
    BY <1>3 DEF SerialUnregister
  <2>2. /\ r \in Rams /\ r.owner = None /\ r.done = ram.done /\ r.watchdog = ram.watchdog
        /\ r.gaveUp = ram.gaveUp /\ r.rejects = ram.rejects
    BY <1>1 DEF WithoutOwner, Rams
  <2>3. w \in Writes /\ DOMAIN w = {"owner"} /\ w["owner"] = None
    BY OneKey
  <2> HIDE DEF r, w
  <2>4. TellsNothing(<<w>>) /\ Of(<<w>>) = {w}
    BY <2>3, OneWrite, OfSequences
  <2>5. ASSUME mode = "node", after = "go on"
        PROVE  Agrees(nvs, {w}, r)
    <3>1. NodeRuns
      BY <2>1, <2>5 DEF NodeRuns, Idle, Responds
    <3>2. /\ nvs.done = r.done /\ nvs.confirmed = (r.watchdog = "confirmed")
          /\ nvs.deleted = FALSE
      BY <2>2, <3>1, AtRest
    <3>3. Settles(nvs, {w}, "done", r.done) /\ Settles(nvs, {w}, "owner", r.owner)
      BY <2>2, <2>3, <3>2 DEF Settles
    <3>4. Settles(nvs, {w}, "confirmed", r.watchdog = "confirmed")
      BY <2>3, <3>2 DEF Settles
    <3>5. "deleted" \notin DOMAIN w
      BY <2>3
    <3>6. QED
      BY <3>2, <3>3, <3>4, <3>5 DEF Agrees
  <2>6. r.gaveUp = TRUE \/ r.rejects < MaxRejects
    BY <1>1, <2>2
  <2>7. mode # "boot"
    BY <2>1 DEF Responds
  <2>8. QED
    BY <1>1, <2>1, <2>2, <2>4, <2>5, <2>6, <2>7, GoingOnKeeps
<1>4. QED
  BY <1>2, <1>3

LEMMA SetWifiKeeps ==
  ASSUME OnbIInv, NEW c \in Typed, SerialSetWifi(c)
  PROVE  OnbIInv'
<1>1. /\ ram \in Rams /\ after \in Afters /\ (ram.gaveUp = TRUE \/ ram.rejects < MaxRejects)
      /\ inRange \subseteq Aps
  BY DEF OnbIInv, TypeInv
<1>2. PICK o \in Connect(c.ssid, c.password) :
        Handle(SaveWifi(c) \o (IF o.name = None THEN <<>> ELSE <<Corrected(o)>>), after,
               [ram EXCEPT !.ap = o.ap])
  BY DEF SerialSetWifi
<1>3. told' = told /\ Command /\ Responds
  BY DEF SerialSetWifi
<1>4. o.ap \in Aps \cup {None} /\ o.name \in {None, Stripped(c.ssid)}
  BY <1>1, ConnectGives
<1> DEFINE r == [ram EXCEPT !.ap = o.ap]
<1>5. /\ r \in Rams /\ r.owner = ram.owner /\ r.done = ram.done /\ r.watchdog = ram.watchdog
      /\ r.gaveUp = ram.gaveUp /\ r.rejects = ram.rejects
  BY <1>1, <1>4 DEF Rams
<1> HIDE DEF r
<1>6. ASSUME NEW W, Handle(W, after, r), TellsNothing(W),
             \A w \in Of(W) : /\ "owner" \notin DOMAIN w /\ "done" \notin DOMAIN w
                              /\ "confirmed" \notin DOMAIN w
                              /\ "deleted" \in DOMAIN w => w.deleted = FALSE
      PROVE  OnbIInv'
  <2>1. ASSUME mode = "node", after = "go on"
        PROVE  Agrees(nvs, Of(W), r)
    <3>1. NodeRuns
      BY <1>3, <2>1 DEF NodeRuns, Idle, Responds
    <3>2. /\ nvs.done = r.done /\ nvs.confirmed = (r.watchdog = "confirmed")
          /\ nvs.deleted = FALSE /\ nvs.owner = r.owner
      BY <1>5, <3>1, AtRest
    <3>3. Settles(nvs, Of(W), "done", r.done) /\ Settles(nvs, Of(W), "owner", r.owner)
      BY <1>6, <3>2 DEF Settles
    <3>4. Settles(nvs, Of(W), "confirmed", r.watchdog = "confirmed")
      BY <1>6, <3>2 DEF Settles
    <3>5. QED
      BY <1>6, <3>2, <3>3, <3>4 DEF Agrees
  <2>2. r.gaveUp = TRUE \/ r.rejects < MaxRejects
    BY <1>1, <1>5
  <2>3. mode # "boot"
    BY <1>3 DEF Responds
  <2>4. QED
    BY <1>1, <1>3, <1>5, <1>6, <2>1, <2>2, <2>3, GoingOnKeeps
<1>7. CASE o.name = None
  <2>1. SaveWifi(c) \o <<>> = SaveWifi(c)
    BY SavedWifi
  <2>2. Handle(SaveWifi(c), after, r)
    BY <1>2, <1>7, <2>1 DEF r
  <2>3. QED
    BY <1>6, <2>2, SavedWifi, WifiWrites
<1>8. CASE o.name # None
  <2> DEFINE w == Corrected(o)
             z == <<w>>
  <2>1. w \in Writes /\ DOMAIN w = {"ssid"}
    <3>1. Stripped(c.ssid) \in SavedNames
      BY DEF SavedNames
    <3>2. w = [ssid |-> o.name]
      BY <1>8 DEF Corrected
    <3>3. QED
      BY <1>4, <1>8, <3>1, <3>2, OneKey
  <2>2. Handle(SaveWifi(c) \o z, after, r)
    BY <1>2, <1>8 DEF r
  <2> HIDE DEF w
  <2>3. TellsNothing(SaveWifi(c) \o z)
    BY <2>1, WifiWrites
  <2>4. z \in Seq(Writes) /\ Of(z) = {w}
    BY <2>1, OfSequences
  <2> HIDE DEF z
  <2>5. /\ SaveWifi(c) \in Seq(Writes)
        /\ \A x \in Of(SaveWifi(c)) :
             /\ "owner" \notin DOMAIN x /\ "done" \notin DOMAIN x /\ "confirmed" \notin DOMAIN x
             /\ "deleted" \in DOMAIN x => x.deleted = FALSE
    BY SavedWifi
  <2>6. Of(SaveWifi(c) \o z) = Of(SaveWifi(c)) \cup {w}
    BY <2>4, <2>5, OfSequences
  <2>7. \A x \in Of(SaveWifi(c) \o z) :
          /\ "owner" \notin DOMAIN x /\ "done" \notin DOMAIN x /\ "confirmed" \notin DOMAIN x
          /\ "deleted" \in DOMAIN x => x.deleted = FALSE
    BY <2>1, <2>5, <2>6
  <2>8. QED
    BY <1>6, <2>2, <2>3, <2>7
<1>9. QED
  BY <1>7, <1>8

-----------------------------------------------------------------------------
(***************************************************************************)
(* A write, a restart, setup(), and what goes on around the node.          *)
(***************************************************************************)
LEMMA WriteKeeps ==
  ASSUME OnbIInv, Write
  PROVE  OnbIInv'
<1>1. /\ todo # <<>> /\ nvs' = Over(Head(todo), nvs) /\ todo' = Tail(todo)
      /\ UNCHANGED <<mode, ram, after, inRange, told, commands, crashes>>
  BY DEF Write
<1>2. /\ nvs \in Flashes /\ todo \in Seq(Writes) /\ Len(todo) <= 4 /\ mode # "boot"
  BY <1>1 DEF OnbIInv, TypeInv
<1>3. /\ Head(todo) \in Writes /\ Tail(todo) \in Seq(Writes) /\ Len(Tail(todo)) = Len(todo) - 1
      /\ Of(todo) = {Head(todo)} \cup Of(Tail(todo))
  BY <1>1, <1>2, FirstAndRest
<1>4. /\ nvs' \in Flashes
      /\ \A f \in Flags \cup Names :
           nvs'[f] = IF f \in DOMAIN Head(todo) THEN Head(todo)[f] ELSE nvs[f]
  BY <1>1, <1>2, <1>3, Overwrites
<1>5. TypeInv'
  <2>1. Len(todo) \in Nat
    BY <1>2
  <2>2. Len(Tail(todo)) <= 4
    BY <1>2, <1>3, <2>1
  <2>3. QED
    BY <1>1, <1>3, <1>4, <2>2 DEF OnbIInv, TypeInv
<1>6. ASSUME mode = "node", after = "go on"
      PROVE  Agrees(nvs', Of(todo'), ram)
  <2>1. Agrees(nvs, Of(todo), ram)
    BY <1>6 DEF OnbIInv
  <2>2. {"owner", "done", "confirmed", "deleted"} \subseteq Flags \cup Names
    BY DEF Flags, Names
  <2>3. /\ Settles(nvs', Of(todo'), "owner", ram.owner)
        /\ Settles(nvs', Of(todo'), "done", ram.done)
        /\ Settles(nvs', Of(todo'), "confirmed", ram.watchdog = "confirmed")
    BY <1>1, <1>2, <2>1, <2>2, WriteSettles DEF Agrees
  <2>4. nvs'["deleted"] = FALSE
    BY <1>3, <1>4, <2>1, <2>2 DEF Agrees
  <2>5. \A w \in Of(todo') : "deleted" \in DOMAIN w => w.deleted = FALSE
    BY <1>1, <1>3, <2>1 DEF Agrees
  <2>6. QED
    BY <2>3, <2>4, <2>5 DEF Agrees
<1>7. HeardOf(nvs', Of(todo'), told)
  <2>1. "done" \in Flags \cup Names
    BY DEF Flags
  <2>2. nvs'["done"] = IF "done" \in DOMAIN Head(todo) THEN Head(todo)["done"] ELSE nvs["done"]
    BY <1>4, <2>1
  <2>3. HeardOf(nvs, {Head(todo)} \cup Of(Tail(todo)), told)
    BY <1>3 DEF OnbIInv
  <2>4. QED
    BY <1>1, <2>2, <2>3 DEF HeardOf
<1>8. QED
  BY <1>1, <1>2, <1>5, <1>6, <1>7 DEF OnbIInv

LEMMA FreshRamIs ==
  /\ FreshRam \in Rams /\ FreshRam.gaveUp = FALSE /\ FreshRam.rejects = 0
  /\ 0 < MaxRejects
BY OnbAssumption DEF FreshRam, Rams

LEMMA DownKeeps ==
  ASSUME OnbIInv, Reboot \/ Crash
  PROVE  OnbIInv'
<1>1. /\ mode' = "boot" /\ ram' = FreshRam /\ todo' = <<>> /\ after' = "go on"
      /\ UNCHANGED <<nvs, inRange, told, commands>>
  BY DEF Reboot, Crash, GoDown
<1>2. crashes' \in 0..MaxCrashes
  <2>1. crashes \in 0..MaxCrashes /\ MaxCrashes \in Nat
    BY OnbAssumption DEF OnbIInv, TypeInv
  <2>2. crashes' = crashes \/ (crashes < MaxCrashes /\ crashes' = crashes + 1)
    BY DEF Reboot, Crash
  <2>3. QED
    BY <2>1, <2>2
<1>3. <<>> \in Seq(Writes) /\ Len(<<>>) = 0 /\ Of(<<>>) = {}
  BY OfSequences
<1>4. TypeInv'
  <2> DEFINE none == <<>>
  <2>1. todo' = none
    BY <1>1
  <2>2. none \in Seq(Writes) /\ Len(none) = 0
    OBVIOUS
  <2>3. Len(none) <= 4
    BY <2>2
  <2> HIDE DEF none
  <2>4. todo' \in Seq(Writes) /\ Len(todo') <= 4 /\ after' \in Afters
    BY <1>1, <2>1, <2>2, <2>3 DEF Afters
  <2>5. /\ nvs' \in Flashes /\ inRange' \subseteq Aps /\ told' \in Owners \cup {None}
        /\ commands' \in 0..MaxCommands
    BY <1>1 DEF OnbIInv, TypeInv
  <2>6. ram' \in Rams
    BY <1>1, FreshRamIs
  <2>7. QED
    BY <1>1, <1>2, <2>4, <2>5, <2>6 DEF TypeInv
<1>5. HeardOf(nvs, {}, told)
  BY DEF OnbIInv, HeardOf
<1>6. QED
  BY <1>1, <1>3, <1>4, <1>5, FreshRamIs DEF OnbIInv

LEMMA BootKeeps ==
  ASSUME OnbIInv, Boot
  PROVE  OnbIInv'
<1>1. /\ mode = "boot" /\ todo = <<>> /\ after = "go on" /\ Of(todo) = {}
      /\ UNCHANGED <<todo, after, inRange, told, commands, crashes>>
  BY OfSequences DEF Boot, OnbIInv
<1>2. /\ nvs \in Flashes /\ inRange \subseteq Aps
      /\ nvs.done = TRUE => told # None
  BY <1>1 DEF OnbIInv, TypeInv, HeardOf
<1>3. ASSUME nvs' \in Flashes, mode' \in {"boot", "portal", "node"}, ram' \in Rams,
             ram'.gaveUp = TRUE \/ ram'.rejects < MaxRejects, nvs'.done = nvs.done,
             mode' = "node" => Agrees(nvs', {}, ram')
      PROVE  OnbIInv'
  <2>1. TypeInv'
    BY <1>1, <1>3 DEF OnbIInv, TypeInv
  <2>2. HeardOf(nvs', {}, told')
    BY <1>1, <1>2, <1>3 DEF HeardOf
  <2>3. QED
    BY <1>1, <1>3, <2>1, <2>2 DEF OnbIInv
<1>4. ASSUME NEW n \in Flashes, n.done = nvs.done, EnterPortal(n)
      PROVE  OnbIInv'
  <2>1. nvs.owner \in Owners \cup {None}
    BY <1>2 DEF Flashes
  <2>2. ram' = [FreshRam EXCEPT !.owner = nvs.owner, !.ap = Own] /\ mode' = "portal" /\ nvs' = n
    BY <1>4 DEF EnterPortal
  <2>3. ram' \in Rams /\ ram'.gaveUp = FALSE /\ ram'.rejects = 0
    BY <2>1, <2>2, FreshRamIs DEF Rams
  <2>4. QED
    BY <1>3, <1>4, <2>2, <2>3, FreshRamIs
<1>5. Over(ClearForced, nvs) \in Flashes /\ Over(ClearForced, nvs)["done"] = nvs["done"]
  <2>1. ClearForced \in Writes /\ DOMAIN ClearForced = {"force"}
    BY OneKey DEF ClearForced
  <2>2. "done" \in Flags \cup Names
    BY DEF Flags
  <2>3. QED
    BY <1>2, <2>1, <2>2, Overwrites
<1>6. CASE EnterPortal(nvs)
  BY <1>2, <1>4, <1>6
<1>7. CASE EnterPortal(Over(ClearForced, nvs))
  BY <1>4, <1>5, <1>7
<1>8. ASSUME nvs.ssid # None, ~DeletedBoot(nvs), NEW o \in Connect(nvs.ssid, nvs.password),
             ComesUp(o) \/ FailsToConnect(o)
      PROVE  OnbIInv'
  <2>1. o.ap \in Aps \cup {None} /\ o.name \in {None, Stripped(nvs.ssid)}
    BY <1>2, ConnectGives
  <2>2. nvs.ssid \in SavedNames /\ Stripped(nvs.ssid) \in SavedNames
    BY <1>2, <1>8, StrippedNames DEF Flashes
  <2>3. Corrected(o) = <<>> \/ (Corrected(o) \in Writes /\ DOMAIN Corrected(o) = {"ssid"})
    BY <2>1, <2>2, CorrectedIs
  <2>4. {"owner", "done", "confirmed", "deleted"} \subseteq Flags \cup Names
    BY DEF Flags, Names
  <2>5. CASE ComesUp(o)
    <3>1. nvs' = Over(Corrected(o), nvs) /\ mode' = "node" /\ ram' = [LoadedRam EXCEPT !.ap = o.ap]
      BY <2>5 DEF ComesUp
    <3>2. /\ nvs' \in Flashes
          /\ nvs'["owner"] = nvs["owner"] /\ nvs'["done"] = nvs["done"]
          /\ nvs'["confirmed"] = nvs["confirmed"] /\ nvs'["deleted"] = nvs["deleted"]
      <4>1. CASE Corrected(o) = <<>>
        BY <1>2, <3>1, <4>1, NothingWritten
      <4>2. CASE Corrected(o) \in Writes /\ DOMAIN Corrected(o) = {"ssid"}
        BY <1>2, <2>4, <3>1, <4>2, Overwrites
      <4>3. QED
        BY <2>3, <4>1, <4>2
    <3>3. /\ nvs.owner \in Owners \cup {None} /\ nvs.done \in BOOLEAN
          /\ nvs.confirmed \in BOOLEAN /\ nvs.giveup \in BOOLEAN /\ nvs.deleted \in BOOLEAN
      BY <1>2 DEF Flashes
    <3>4. /\ ram' \in Rams /\ ram'.rejects = 0
          /\ ram'.owner = nvs.owner /\ ram'.done = nvs.done
          /\ ram'.watchdog = IF nvs.confirmed THEN "confirmed" ELSE "armed"
      BY <2>1, <3>1, <3>3, FreshRamIs DEF LoadedRam, Rams
    <3>5. nvs.deleted = FALSE
      BY <1>8, <3>3 DEF DeletedBoot
    <3>6. (ram'.watchdog = "confirmed") = nvs.confirmed
      BY <3>3, <3>4
    <3>7. Agrees(nvs', {}, ram')
      BY <3>2, <3>4, <3>5, <3>6 DEF Agrees, Settles
    <3>8. QED
      BY <1>3, <3>1, <3>2, <3>4, <3>7, FreshRamIs
  <2>6. CASE FailsToConnect(o)
    <3> DEFINE w == [force |-> TRUE]
    <3>1. nvs' = Over(w, nvs) /\ mode' = "boot" /\ ram' = ram
      BY <1>1, <2>6 DEF FailsToConnect
    <3>2. w \in Writes /\ DOMAIN w = {"force"}
      BY OneKey
    <3> HIDE DEF w
    <3>3. nvs' \in Flashes /\ nvs'["done"] = nvs["done"]
      BY <1>2, <2>4, <3>1, <3>2, Overwrites
    <3>4. ram \in Rams /\ (ram.gaveUp = TRUE \/ ram.rejects < MaxRejects)
      BY DEF OnbIInv, TypeInv
    <3>5. QED
      BY <1>3, <3>1, <3>3, <3>4
  <2>7. QED
    BY <1>8, <2>5, <2>6
<1>9. QED
  BY <1>6, <1>7, <1>8 DEF Boot

LEMMA AroundKeeps ==
  ASSUME OnbIInv, Reconnects \/ ApComesOrGoes \/ UNCHANGED onbVars
  PROVE  OnbIInv'
<1>1. UNCHANGED <<nvs, mode, todo, after, told, commands, crashes>>
  BY DEF Reconnects, ApComesOrGoes, onbVars
<1>2. inRange' \subseteq Aps
  BY DEF Reconnects, ApComesOrGoes, onbVars, OnbIInv, TypeInv
<1>3. \/ ram' = ram
      \/ \E a \in Aps : ram' = [ram EXCEPT !.ap = a]
  BY DEF Reconnects, ApComesOrGoes, onbVars, OnbIInv, TypeInv, Regains, Named
<1>4. /\ ram' \in Rams /\ ram'.owner = ram.owner /\ ram'.done = ram.done
      /\ ram'.watchdog = ram.watchdog /\ ram'.gaveUp = ram.gaveUp /\ ram'.rejects = ram.rejects
  <2>1. ram \in Rams
    BY DEF OnbIInv, TypeInv
  <2>2. QED
    BY <1>3, <2>1 DEF Rams
<1>5. TypeInv'
  BY <1>1, <1>2, <1>4 DEF OnbIInv, TypeInv
<1>6. ASSUME Agrees(nvs, Of(todo), ram) PROVE Agrees(nvs, Of(todo), ram')
  BY <1>4, <1>6 DEF Agrees
<1>7. QED
  BY <1>1, <1>4, <1>5, <1>6 DEF OnbIInv

-----------------------------------------------------------------------------
LEMMA OnbStart ==
  ASSUME OnbInit
  PROVE  OnbIInv
<1> DEFINE none == <<>>
<1>1. /\ nvs = Over(Erased, NoWifi) /\ mode = "boot" /\ ram = FreshRam /\ todo = none
      /\ after = "go on" /\ inRange \subseteq Aps /\ told = None /\ commands = 0 /\ crashes = 0
  BY DEF OnbInit
<1>2. none \in Seq(Writes) /\ Len(none) <= 4 /\ Of(none) = {}
  BY OfSequences
<1>3. todo = <<>>
  BY <1>1
<1> HIDE DEF none
<1>4. /\ commands \in 0..MaxCommands /\ crashes \in 0..MaxCrashes
      /\ told \in Owners \cup {None} /\ after \in Afters
  <2>1. 0 \in 0..MaxCommands /\ 0 \in 0..MaxCrashes
    BY OnbAssumption
  <2>2. QED
    BY <1>1, <2>1 DEF Afters
<1>5. TypeInv
  BY <1>1, <1>2, <1>4, Wipes, FreshRamIs DEF TypeInv
<1>6. nvs.done = FALSE
  BY <1>1 DEF Over, Erased, NoWifi
<1>7. HeardOf(nvs, Of(todo), told)
  BY <1>1, <1>2, <1>6 DEF HeardOf
<1>8. QED
  BY <1>1, <1>3, <1>5, <1>7, FreshRamIs DEF OnbIInv

\* Every action, or none.
LEMMA OnbNextKeeps ==
  ASSUME OnbIInv, [OnbNext]_onbVars
  PROVE  OnbIInv'
<1>1. CASE Write
  BY <1>1, WriteKeeps
<1>2. CASE Reboot \/ Crash
  BY <1>2, DownKeeps
<1>3. CASE Boot
  BY <1>3, BootKeeps
<1>4. CASE \/ \E o \in Owners \cup {None} : PortalReregister(o) \/ \E c \in Typed : PortalRegister(c, o)
           \/ \E c \in Typed : PortalWifiSet(c)
           \/ TrustSign \/ PortalFactoryReset \/ PortalTimeout
  BY <1>4, PortalKeeps
<1>5. CASE \E c \in Typed : SerialSetWifi(c)
  BY <1>5, SetWifiKeeps
<1>6. CASE WatchdogTimeout
  BY <1>6, WatchdogKeeps
<1>7. CASE AppConfirms \/ WsIdentified
  BY <1>7, ConfirmedKeeps
<1>8. CASE Accepted
  BY <1>8, AcceptedKeeps
<1>9. CASE AcceptedUnheard
  BY <1>9, UnheardKeeps
<1>10. CASE Rejected \/ NoOwnerToTell
  BY <1>10, RejectedKeeps
<1>11. CASE PortalMode \/ FactoryReset \/ Restart \/ OnDeleted \/ WifiDown
  BY <1>11, OrdersKeep
<1>12. CASE (\E o \in Owners : SerialRegister(o)) \/ SerialUnregister
  BY <1>12, SerialKeeps
<1>13. CASE Reconnects \/ ApComesOrGoes \/ UNCHANGED onbVars
  BY <1>13, AroundKeeps
<1>14. QED
  BY <1>1, <1>2, <1>3, <1>4, <1>5, <1>6, <1>7, <1>8, <1>9, <1>10, <1>11, <1>12, <1>13
     DEF OnbNext

LEMMA OnbStrongEnough ==
  ASSUME OnbIInv
  PROVE  OnbInv /\ DeletedStaysOut
<1>1. nvs \in Flashes
  BY DEF OnbIInv, TypeInv
<1>2. OnbTypeOK
  BY DEF OnbTypeOK, OnbIInv, TypeInv, Flashes, Rams, Passwords, Afters
<1>3. CacheAgrees /\ DeletedStaysOut
  BY AtRest DEF CacheAgrees, DeletedStaysOut, NodeRuns
<1>4. nvs.done \in BOOLEAN
  BY <1>1 DEF Flashes
<1>5. DoneOnlyIfHeard
  BY <1>4 DEF DoneOnlyIfHeard, OnbIInv, HeardOf
<1>6. QED
  BY <1>2, <1>3, <1>5 DEF OnbInv

\* What a running node remembers is what its flash says, whatever was typed, ordered,
\* refused, lost or crashed before, and no registration is lost between two writes.
THEOREM OnboardingInv == OnbSpec => []OnbInv
<1>1. OnbInit => OnbIInv
  BY OnbStart
<1>2. OnbIInv /\ [OnbNext]_onbVars => OnbIInv'
  BY OnbNextKeeps
<1>3. OnbIInv => OnbInv
  BY OnbStrongEnough
<1>4. QED
  BY <1>1, <1>2, <1>3, PTL DEF OnbSpec

\* A node that its owner deleted does not run as a node again before somebody set it up
\* anew, wherever it crashes and however the portal times out (main.cpp, setup()).
THEOREM OnboardingDeletedStaysOut == OnbSpec => []DeletedStaysOut
<1>1. OnbInit => OnbIInv
  BY OnbStart
<1>2. OnbIInv /\ [OnbNext]_onbVars => OnbIInv'
  BY OnbNextKeeps
<1>3. OnbIInv => DeletedStaysOut
  BY OnbStrongEnough
<1>4. QED
  BY <1>1, <1>2, <1>3, PTL DEF OnbSpec
=============================================================================

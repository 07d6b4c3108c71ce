---------------------------- MODULE UserScripts -----------------------------
(***************************************************************************)
(* The user's scripts in flash (http_config.cpp): a count and the keys     *)
(* us_0, us_1, ... in a namespace of PrefsStore, written by POST and       *)
(* DELETE /config/scripts key by key.  A handler reads the document, which *)
(* decides its edits (toEdit), and makes them one save after the other;    *)
(* the node may crash anywhere.  The reload of the scripts that ends both  *)
(* handlers is UserUpdate of ScriptEngine.                                 *)
(***************************************************************************)
EXTENDS Naturals, Sequences

CONSTANTS Ids, Bodies,   \* of scripts
          MaxScripts,    \* MAX_USERSCRIPTS
          NoValue, Closed, Torn, Absent, FlashFull, LowHeap

VARIABLES file, tmp, doc, saving,
          toEdit,  \* edits the running handler still makes
          busy,    \* a handler is running
          kept     \* history: the scripts the user may count on being stored

Count == <<"count", 0>>
Us(n) == <<"us", n>>
Scripts == [id : Ids, body : Bodies]
Number(n) == [int |-> n]
Numbers == {Number(n) : n \in 0..MaxScripts}

StoreKeys == {Count} \cup {Us(n) : n \in 0..MaxScripts-1}
StoreValues == Scripts \cup Numbers

ASSUME ScriptsAssumption ==
  /\ MaxScripts \in Nat \ {0}
  /\ NoValue \notin StoreValues
  /\ {Closed, Torn, Absent} \cap [StoreKeys -> StoreValues \cup {NoValue}] = {}
  /\ Torn # Absent
  /\ NoValue \notin StoreKeys
  /\ {FlashFull, LowHeap} \subseteq BOOLEAN

INSTANCE PrefsStore WITH Keys <- StoreKeys, Values <- StoreValues, None <- NoValue

vars == <<prefsVars, toEdit, busy, kept>>

Put(key, value) == [key |-> key, value |-> value]
RemoveKey(key) == Put(key, NoValue)
NoEdit == Put(NoValue, NoValue)     \* the loop passes over a script that is not there

Init == /\ PrefsInit
        /\ toEdit = <<>>
        /\ busy = FALSE
        /\ kept = {}

-----------------------------------------------------------------------------
Stored(d) == IF d[Count] = NoValue THEN 0 ELSE d[Count].int    \* getInt("count", 0)

\* The slots that hold a script id; both handlers stop at the first.
SlotsOf(d, id) == {n \in 0..MaxScripts-1 : n < Stored(d) /\ d[Us(n)] # NoValue /\ d[Us(n)].id = id}
First(slots) == CHOOSE n \in slots : \A m \in slots : n <= m

\* Mistakes used by the project's mutants only.
MoveRemoveFirst(d, n) == <<RemoveKey(Us(n + 1)), Put(Us(n), d[Us(n + 1)])>>
CountBeforeMoves(count, n, moves) ==
  <<Put(Count, Number(count - 1)), RemoveKey(Us(n))>> \o moves

\* handle_scripts_post: a new id takes the next slot, the count goes first.
PostEdits(d, s) ==
  IF SlotsOf(d, s.id) # {} THEN <<Put(Us(First(SlotsOf(d, s.id))), s)>>
  ELSE <<Put(Count, Number(Stored(d) + 1)), Put(Us(Stored(d)), s)>>

PostRefused(d, s) == SlotsOf(d, s.id) = {} /\ Stored(d) >= MaxScripts

\* handle_scripts_delete: the scripts behind move down by one each, if they
\* are there (if not, there is nothing under the new key either), and the
\* count goes last.
Move(d, n) == <<Put(Us(n), d[Us(n + 1)]), RemoveKey(Us(n + 1))>>
MoveEdit(d, n, k) ==
  IF d[Us(n + (k \div 2) + 1)] = NoValue THEN NoEdit ELSE Move(d, n + (k \div 2))[1 + (k % 2)]
InOrder(count, n, moves) == <<RemoveKey(Us(n))>> \o moves \o <<Put(Count, Number(count - 1))>>
DeleteEdits(d, id) ==
  LET n     == First(SlotsOf(d, id))
      count == Stored(d)
  IN InOrder(count, n, [k \in 1..2 * (count - 1 - n) |-> MoveEdit(d, n, k - 1)])

\* The start of a handler: begin() and all its reading.
Starts(d, edits) == /\ ~busy
                    /\ Begin(d)
                    /\ busy' = TRUE
                    /\ toEdit' = edits

\* A refused request makes no edits and ends like the others.
Post(s) == \E d \in ReadAs(file) :
             LET edits == IF PostRefused(d, s) THEN <<>> ELSE PostEdits(d, s) IN
             /\ Starts(d, edits)
             /\ kept' = IF edits = <<>> THEN kept ELSE {t \in kept : t.id # s.id}

Delete(id) == \E d \in ReadAs(file) :
                /\ Starts(d, IF SlotsOf(d, id) = {} THEN <<>> ELSE DeleteEdits(d, id))
                /\ kept' = {t \in kept : t.id # id}

NextEdit == /\ busy /\ toEdit # <<>> /\ saving = "no"
            /\ IF Head(toEdit) = NoEdit THEN UNCHANGED <<file, tmp, doc, saving>>
               ELSE Edit(Head(toEdit).key, Head(toEdit).value)
            /\ toEdit' = Tail(toEdit)
            /\ UNCHANGED <<busy, kept>>

OnFlash(d) == {d[Us(n)] : n \in {m \in 0..MaxScripts-1 : m < Stored(d) /\ d[Us(m)] # NoValue}}

\* The end of a handler: from now on the user may count on what was really
\* stored under an id that is there once.
Sole(d) == {s \in OnFlash(d) : \A t \in OnFlash(d) : t.id = s.id => t = s}
Finish == /\ busy /\ toEdit = <<>>
          /\ End
          /\ busy' = FALSE
          /\ kept' = Sole(Loaded(file))
          /\ UNCHANGED toEdit

Reset == /\ LoseDoc
         /\ toEdit' = <<>>
         /\ busy' = FALSE
         /\ UNCHANGED kept

Next == \/ \E s \in Scripts : Post(s)
        \/ \E id \in Ids : Delete(id)
        \/ NextEdit
        \/ SaveStep /\ UNCHANGED <<toEdit, busy, kept>>
        \/ Finish
        \/ Reset

Spec == Init /\ [][Next]_vars

-----------------------------------------------------------------------------
\* A document is well-formed: no key stands beyond the count, where a later
\* POST, which raises the count before it writes the key, would bring a
\* deleted script back to life if the power went between its two saves.
NoStrays(d) == /\ d[Count] \in {NoValue} \cup Numbers
               /\ \A n \in 0..MaxScripts-1 : /\ d[Us(n)] \in Scripts \cup {NoValue}
                                      /\ n >= Stored(d) => d[Us(n)] = NoValue

\* Types, whole files, and no stray keys on flash.
Inv == /\ PrefsTypeOK
       /\ FileWhole
       /\ NoStrays(Loaded(file))

\* A script that was stored stays stored until a request for its own id,
\* though handlers of other ids move it from slot to slot and may be cut off
\* between any two of their saves.
NoneLost == kept \subseteq OnFlash(Loaded(file))

\* prefs_store.cpp:51-52, "a reset mid-write leaves either the complete old
\* file or the complete new file": the store is a map replaced as a whole.
Store == INSTANCE AtomicStore WITH Keys <- StoreKeys, Values <- StoreValues,
                                   None <- NoValue, contents <- Loaded(file), view <- doc
ImplementsStore == Store!Spec

\* prefs_store.cpp:52, "never a truncated file": not so where FlashFull holds,
\* since nothing asks whether the temporary file was written to its end.
NeverTruncated == file # Torn

\* What one would like and the code does not give: every slot that is
\* counted holds a script.  A crash between the two saves of a POST leaves a
\* hole that no request fills or removes.
Here(n) == Loaded(file)[Us(n)] # NoValue
NoHoles == ~busy => \A n \in 0..MaxScripts-1 : n < Stored(Loaded(file)) => Here(n)
=============================================================================

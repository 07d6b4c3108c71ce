------------------------------ MODULE NodeFlash ------------------------------
(***************************************************************************)
(* The preferences as the components that keep settings see them: a value  *)
(* per key, and every put a save of its own (prefs_store.cpp; PrefsStore   *)
(* has what a save consists of and how it may fail).  A handler runs to    *)
(* its end before loop() goes on, so only a crash comes between the saves  *)
(* of one handler: "todo" holds those it has not made yet, and nothing     *)
(* else happens while there are some.                                      *)
(***************************************************************************)
EXTENDS Naturals, Sequences

CONSTANT None      \* no such key

ASSUME FlashAssumption == None \notin Nat

VARIABLES flash,   \* value of each key
          todo     \* the saves the running handler still makes, in order

flashVars == <<flash, todo>>

Key(f, i) == [f |-> f, i |-> i]
Put(f, i, v) == [key |-> Key(f, i), val |-> v]
Stored(f, i) == flash[Key(f, i)]

Idle == todo = <<>>

\* A handler whose saves are "puts" starts.
Saves(puts) == todo' = puts /\ UNCHANGED flash

SaveNext == /\ ~Idle
            /\ flash' = [flash EXCEPT ![Head(todo).key] = Head(todo).val]
            /\ todo' = Tail(todo)

\* The node stops, within a handler or between two.
SavesLost == todo' = <<>> /\ UNCHANGED flash
=============================================================================

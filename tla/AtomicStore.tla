---------------------------- MODULE AtomicStore -----------------------------
(***************************************************************************)
(* What the users of PrefsStore rely on: a map in flash that is read into  *)
(* a view when it is opened, edited there, and replaced by the view as a   *)
(* whole or not at all, whenever the power may go.                         *)
(***************************************************************************)
CONSTANTS Keys, Values, None,   \* None: no value
          Closed                \* no view

VARIABLES contents, view

Empty == [k \in Keys |-> None]

Init == contents = Empty /\ view = Closed

Open == view = Closed /\ view' = contents /\ UNCHANGED contents

Edit == /\ view # Closed
        /\ view' \in [Keys -> Values \cup {None}]
        /\ \E k \in Keys : \A l \in Keys \ {k} : view'[l] = view[l]
        /\ UNCHANGED contents

Commit == view # Closed /\ contents' = view /\ UNCHANGED view

\* Closed by its user, or by a crash.
Close == view' = Closed /\ UNCHANGED contents

Next == Open \/ Edit \/ Commit \/ Close

Spec == Init /\ [][Next]_<<contents, view>>
=============================================================================

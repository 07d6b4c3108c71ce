----------------------------- MODULE JobService -----------------------------
(***************************************************************************)
(* What the net worker promises its clients: every job it accepts gets     *)
(* exactly one answer, which is its own, and the answer reaches the        *)
(* client.  Nothing is lost, doubled or mixed up on the way.               *)
(***************************************************************************)
CONSTANT Job      \* the jobs clients may hand in

VARIABLES waiting,    \* jobs accepted and not yet answered
          answered    \* answers not yet handed to the client

serviceVars == <<waiting, answered>>

Init == waiting = {} /\ answered = {}

\* A job that is already on its way is not handed in again.
Accept(j) == /\ j \notin waiting
             /\ \A r \in answered : r.job # j
             /\ waiting' = waiting \cup {j}
             /\ UNCHANGED answered

Answer(r) == /\ r.job \in waiting
             /\ waiting' = waiting \ {r.job}
             /\ answered' = answered \cup {r}

\* The client gets its answer and may hand in a job at once, the same one
\* again included.
Deliver(r) == /\ r \in answered
              /\ answered' = answered \ {r}
              /\ \/ UNCHANGED waiting
                 \/ \E j \in Job : /\ j \notin waiting
                                  /\ \A a \in answered \ {r} : a.job # j
                                  /\ waiting' = waiting \cup {j}

Next == \/ \E j \in Job : Accept(j)
        \/ \E j \in waiting :
             \E ok, deferred, blocked \in BOOLEAN :
               Answer([job |-> j, ok |-> ok, deferred |-> deferred,
                       blocked |-> blocked])
        \/ \E r \in answered : Deliver(r)

Spec == Init /\ [][Next]_serviceVars
=============================================================================

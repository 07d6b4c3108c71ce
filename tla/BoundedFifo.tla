---------------------------- MODULE BoundedFifo ----------------------------
(***************************************************************************)
(* What a queue of the net worker promises its callers: a first-in,        *)
(* first-out sequence of at most N values.  A put is refused when the      *)
(* queue is full and a get finds nothing when it is empty; what the caller *)
(* is told about the last call is part of the state.                       *)
(***************************************************************************)
EXTENDS Naturals, Sequences

CONSTANTS N,      \* capacity
          T       \* the values a queue can hold

VARIABLES q,      \* the queued values, oldest first
          last    \* the answer to the last call

fifoVars == <<q, last>>

Ok(v)   == [call |-> "push", done |-> TRUE,  val |-> v]
Full(v) == [call |-> "push", done |-> FALSE, val |-> v]
Got(v)  == [call |-> "pop",  done |-> TRUE,  val |-> v]
Empty   == [call |-> "pop",  done |-> FALSE]

Init == q = <<>> /\ last = Empty

Put(v) == \/ /\ Len(q) < N
             /\ q' = Append(q, v)
             /\ last' = Ok(v)
          \/ /\ Len(q) = N
             /\ last' = Full(v)
             /\ UNCHANGED q

Get == \/ /\ q # <<>>
          /\ q' = Tail(q)
          /\ last' = Got(Head(q))
       \/ /\ q = <<>>
          /\ last' = Empty
          /\ UNCHANGED q

Next == (\E v \in T : Put(v)) \/ Get

Spec == Init /\ [][Next]_fifoVars
=============================================================================

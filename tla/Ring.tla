-------------------------------- MODULE Ring --------------------------------
(***************************************************************************)
(* The ring buffer template of net_worker.cpp (struct Ring<T, N>), of      *)
(* which the worker has three instances.  The cells are never cleared: a   *)
(* cell keeps the value it last held, so only head and count say which     *)
(* cells are live.                                                         *)
(***************************************************************************)
EXTENDS Naturals

CONSTANTS N,      \* the template's capacity parameter
          T,      \* the values a queue can hold
          Blank   \* what a cell holds before it is first written

ASSUME RingAssumption == N \in Nat \ {0}

VARIABLES buf,    \* buf[0 .. N-1]
          head,   \* index of the oldest live cell
          count,  \* number of live cells
          last    \* what the last call returned to its caller

ringVars == <<buf, head, count, last>>

Cell == 0 .. N - 1

\* Mistakes the index arithmetic invites; used by the project's mutants only.
WriteAtHead == head
RoomForOneMore == count <= N

\* The cell i places behind cell h, and the index expressions of push and pop.
At(h, i) == (h + i) % N
WriteAt == At(head, count)
NextHead == At(head, 1)
HasCell == count < N

Answer(call, done) == [call |-> call, done |-> done]
AnswerWith(call, done, v) == [call |-> call, done |-> done, val |-> v]

RingInit == /\ buf = [c \in Cell |-> Blank]
            /\ head = 0
            /\ count = 0
            /\ last = Answer("pop", FALSE)

\* push: false when full, else write behind the newest live cell.
Push(v) == \/ /\ HasCell
              /\ buf' = [buf EXCEPT ![WriteAt] = v]
              /\ count' = count + 1
              /\ last' = AnswerWith("push", TRUE, v)
              /\ UNCHANGED head
           \/ /\ ~HasCell
              /\ last' = AnswerWith("push", FALSE, v)
              /\ UNCHANGED <<buf, head, count>>

\* pop: false when empty, else hand out the oldest live cell.
Pop == \/ /\ count # 0
          /\ last' = AnswerWith("pop", TRUE, buf[head])
          /\ head' = NextHead
          /\ count' = count - 1
          /\ UNCHANGED buf
       \/ /\ count = 0
          /\ last' = Answer("pop", FALSE)
          /\ UNCHANGED <<buf, head, count>>

RingNext == (\E v \in T : Push(v)) \/ Pop

RingSpec == RingInit /\ [][RingNext]_ringVars

-----------------------------------------------------------------------------
RingTypeOK == /\ buf \in [Cell -> T \cup {Blank}]
              /\ head \in Cell
              /\ count \in 0 .. N

\* The c live cells of b from h on, in queue order.
QueueOf(b, h, c) == [i \in 1 .. c |-> b[At(h, i - 1)]]

\* The queue this ring stands for.
Contents == QueueOf(buf, head, count)

Fifo == INSTANCE BoundedFifo WITH q <- Contents

\* Whatever the wrap-around of head and the stale cells, callers of push and
\* pop see a bounded FIFO: net_worker_enqueue never overwrites a waiting job
\* and net_worker_tick never pops a job twice or out of order.
ImplementsFifo == Fifo!Spec
=============================================================================

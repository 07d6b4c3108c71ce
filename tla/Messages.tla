------------------------------ MODULE Messages ------------------------------
(***************************************************************************)
(* Messages from other nodes: the inbox the owner's app reads, in RAM      *)
(* (http_messages.cpp), and the router that runs what the owner configured *)
(* for a message id, saved key by key (message_router.cpp).  Of an         *)
(* action's parts the webhook and the script are kept; an entity prefix    *)
(* and the push texts are saved between them in the same way.              *)
(***************************************************************************)
EXTENDS NodeFlash, FiniteSets

CONSTANTS MsgIds,      \* message ids
          Wild,        \* "*", which matches every id
          Senders,     \* nodes that send messages
          MaxSlots,    \* MAX_MESSAGE_SLOTS
          InboxSize    \* INBOX_SIZE

ASSUME MessagesAssumption == /\ Wild \notin MsgIds /\ None \notin MsgIds \cup {Wild}
                             /\ MaxSlots \in Nat /\ InboxSize \in Nat \ {0}

VARIABLES actions,    \* _actions: id, webhook and script of each slot
          inbox,      \* inbox[0 .. inbox_count)
          received,   \* history: messages since the last start
          acked,      \* history: those removed by the app
          ran,        \* history: message id and configured part, if one ran
          configured  \* history: actions configured so far

routerVars == <<actions, ran, configured>>
inboxVars == <<inbox, received, acked>>

MsgSlots == 0 .. MaxSlots - 1
RouterKeys == {Key(f, i) : f \in {"mid", "mwh", "msi"}, i \in MsgSlots}

\* A configured part is known by the action it was configured in.
Part(id, n) == [id |-> id, n |-> n]
Action(id, n) == [id |-> id, wh |-> Part(id, n), si |-> Part(id, n)]
NoAction == [id |-> None, wh |-> None, si |-> None]

MessagesEmpty == /\ actions = [i \in MsgSlots |-> NoAction]
                 /\ inbox = <<>> /\ received = 0 /\ acked = {}

MessagesInit == MessagesEmpty /\ ran = {} /\ configured = 0

-----------------------------------------------------------------------------
SlotsWith(id) == {i \in MsgSlots : actions[i].id = id}
First(S) == CHOOSE i \in S : \A j \in S : i <= j

\* Mistakes used by the project's mutants only.
IdOnly(i, a) == <<Put("mid", i, a.id)>>

\* The slot an action goes to: that of its id, or the first empty one.
SlotFor(id) == IF SlotsWith(id) # {} THEN SlotsWith(id) ELSE SlotsWith(None)

\* message_router_set.
ActionSaves(i, a) == <<Put("mid", i, a.id), Put("mwh", i, a.wh), Put("msi", i, a.si)>>

RouterSet(i, a) == /\ actions' = [actions EXCEPT ![i] = a]
                   /\ Saves(ActionSaves(i, a))

\* message_router_set_by_id and delete_by_id; where they have no slot they
\* are refused.
SetById(id) == /\ SlotFor(id) # {}
               /\ RouterSet(First(SlotFor(id)), Action(id, configured + 1))
               /\ configured' = configured + 1
               /\ UNCHANGED ran

DeleteById(id) == /\ SlotsWith(id) # {}
                  /\ RouterSet(First(SlotsWith(id)), NoAction)
                  /\ UNCHANGED <<ran, configured>>

\* message_router_init.
StoredActions == [i \in MsgSlots |-> [id |-> Stored("mid", i), wh |-> Stored("mwh", i),
                                      si |-> Stored("msi", i)]]

RouterLoad == actions' = StoredActions /\ UNCHANGED <<ran, configured>>

Matches(a, id) == a.id \in {id, Wild}

\* message_router_dispatch.
Dispatch(id) ==
  /\ ran' = ran \cup {[msg |-> id, part |-> p] :
                        p \in UNION {{actions[i].wh, actions[i].si} :
                                       i \in {i \in MsgSlots : Matches(actions[i], id)}}}
  /\ UNCHANGED <<actions, configured>>

-----------------------------------------------------------------------------
\* http_inbox_push: a full inbox gives up its oldest.
WithMessage(m) == Append(IF Len(inbox) >= InboxSize THEN Tail(inbox) ELSE inbox, m)

Receive(from, id) == /\ received' = received + 1
                     /\ inbox' = WithMessage([n |-> received + 1, from |-> from,
                                              read |-> FALSE])
                     /\ Dispatch(id)
                     /\ UNCHANGED acked

\* GET /message/inbox.
ReadInbox == /\ inbox' = [k \in DOMAIN inbox |-> [inbox[k] EXCEPT !.read = TRUE]]
             /\ UNCHANGED <<received, acked, routerVars>>

Numbers(q) == {q[k].n : k \in DOMAIN q}

\* What is to stay moves up, in its order.
Compacted(q, stay) ==
  LET nth(n) == CHOOSE k \in stay : Cardinality({i \in stay : i <= k}) = n
  IN  [n \in 1 .. Cardinality(stay) |-> q[nth(n)]]

Keep(stay) == /\ inbox' = Compacted(inbox, stay)
              /\ acked' = acked \cup (Numbers(inbox) \ Numbers(inbox'))
              /\ UNCHANGED <<received, routerVars>>

\* POST /message/ack: what was read, or all of one sender, read or not.
AckRead == Keep({k \in DOMAIN inbox : ~inbox[k].read})
AckSender(from) == Keep({k \in DOMAIN inbox : inbox[k].from # from})

\* RAM is gone.
MessagesForgotten == /\ actions' = [i \in MsgSlots |-> NoAction]
                     /\ inbox' = <<>> /\ received' = 0 /\ acked' = {}
                     /\ UNCHANGED <<ran, configured>>

-----------------------------------------------------------------------------
\* An id has one slot: setting it again replaces its action, deleting it
\* leaves none behind.
OneSlotPerId == \A i, j \in MsgSlots :
                  actions[i].id = actions[j].id /\ actions[i].id # None => i = j

\* Since the start the newest InboxSize messages can all be read, in order,
\* except those the app removed.
NewestKept == /\ \A i, j \in DOMAIN inbox : i < j => inbox[i].n < inbox[j].n
              /\ Len(inbox) <= InboxSize
              /\ \A n \in 1 .. received :
                   n > received - InboxSize /\ n \notin acked => n \in Numbers(inbox)

\* Slots whose parts were not configured together.
RouterMixed == {i \in MsgSlots : LET a == actions[i]
                                 IN a.id # None /\ \A n \in 1 .. configured : a # Action(a.id, n)}

\* Parts that ran for messages they were not configured for.
RanForeign == {r \in ran : r.part # None /\ r.part.id \notin {r.msg, Wild}}
=============================================================================

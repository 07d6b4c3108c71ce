----------------------------- MODULE WsSession ------------------------------
(***************************************************************************)
(* The WebSocket session with the BE (ws_client.cpp) and its sealed frames *)
(* (ws_enc.cpp): identify, the key derived from the answer, the frames     *)
(* with their sequence numbers both ways, and the guard over an identify   *)
(* the BE leaves unanswered because it still holds the session of a        *)
(* connection that died without a close frame (a ghost session).           *)
(*                                                                         *)
(* The BE, the socket and the network are external.  What the node sends   *)
(* after identify reaches the BE at once; what the BE sends waits in the   *)
(* socket.  A nonce stands for the pair of nonces and for the key derived  *)
(* from it; it differs from every nonce still of use to anybody.           *)
(***************************************************************************)
EXTENDS Naturals, Sequences, FiniteSets

CONSTANTS AnswerTime,   \* seconds: the BE's slowest answer to an identify
          MaxTries,     \* bound on s_identify_tries (250): the wait has long stopped growing
          MaxFaults,    \* bound: failures of the network, the BE and the heap
          MaxSends,     \* bound: frames the node seals in one connection
          MaxCommands   \* bound: commands of the BE

ASSUME WsAssumption == /\ AnswerTime \in 1..35 /\ MaxTries \in Nat
                       /\ MaxFaults \in Nat /\ MaxSends \in Nat /\ MaxCommands \in Nat

Nonces == 1..3
None == 0

VARIABLES ws,       \* the socket: "closed", "open", or "dead" (open for the node only)
          node,     \* g_ws_connected, s_identify_sent_ms # 0, s_identify_tries, s_fw_nonce,
                    \* and of ws_enc: the key, s_seq_tx, the least seq acceptable in s_seq_rx
          be,       \* BE: identify unanswered, the session's key, live or ghost, its seqs
          inbox,    \* frames in the socket for the node
          faults, commands,
          \* For the properties:
          wire,     \* what the BE sent in this connection
          sealed,   \* the pairs of key and sequence number the node sealed with
          reused,   \* one of them was used twice
          handled   \* the commands the node handled, in order

hist == <<wire, sealed, reused, handled>>
vars == <<ws, node, be, inbox, faults, commands, hist>>

NoKey == [key |-> None, seqTx |-> 0, seqRx |-> 0]
FreshNode == [connected |-> FALSE, armed |-> FALSE, tries |-> 0, nonce |-> None, enc |-> NoKey]
NoSession == [key |-> None, live |-> FALSE, seqTx |-> 0, seqRx |-> 0]

Init == /\ ws = "closed"
        /\ node = FreshNode
        /\ be = [asked |-> FALSE, session |-> NoSession]
        /\ inbox = <<>> /\ faults = 0 /\ commands = 0
        /\ wire = {} /\ sealed = {} /\ reused = FALSE /\ handled = <<>>

\* Mistakes used by the project's mutants only.
ConstantWait(n) == 12
SameAgain(seq, least) == seq + 1 >= least
TakesText(e) == FALSE
KeepsConnected(n) == [n EXCEPT !.armed = FALSE, !.enc = NoKey]

Fault == faults < MaxFaults /\ faults' = faults + 1

(***************************************************************************)
(* ws_enc.cpp                                                              *)
(***************************************************************************)
Active(e) == e.key # None
Derive(nonce) == [NoKey EXCEPT !.key = nonce]
Sealed(e) == [e EXCEPT !.seqTx = @ + 1]
Newer(seq, least) == seq >= least
Opens(e, f) == f.key = e.key /\ Newer(f.seq, e.seqRx)
Opened(e, f) == [e EXCEPT !.seqRx = f.seq + 1]

(***************************************************************************)
(* The connection.  WStype_DISCONNECTED forgets it; a close the node makes *)
(* itself reaches the BE, which drops the session, unless the socket is    *)
(* dead.                                                                   *)
(***************************************************************************)
Forget(n) == [n EXCEPT !.connected = FALSE, !.armed = FALSE, !.enc = NoKey]

BeSeesClose == [asked |-> FALSE, session |-> IF be.session.live THEN NoSession ELSE be.session]

Disconnect(n) == /\ ws' = "closed" /\ node' = Forget(n) /\ inbox' = <<>> /\ wire' = {}
                 /\ be' = IF ws = "open" THEN BeSeesClose ELSE be

\* The library reconnects every 5 s; WStype_CONNECTED sends identify.
FreshNonce == CHOOSE n \in Nonces : n \notin {node.nonce, be.session.key}

Connected == /\ ws = "closed" /\ ws' = "open"
             /\ node' = [node EXCEPT !.nonce = FreshNonce, !.armed = TRUE]
             /\ be' = [be EXCEPT !.asked = TRUE]
             /\ sealed' = {p \in sealed : p[1] # FreshNonce}
             /\ UNCHANGED <<inbox, faults, commands, wire, reused, handled>>

\* The socket dies unnoticed: for the BE the session is a ghost, or it is gone with the BE.
Dies == /\ ws = "open" /\ Fault /\ ws' = "dead" /\ inbox' = <<>>
        /\ \/ be' = [asked |-> FALSE, session |-> [be.session EXCEPT !.live = FALSE]]
           \/ be' = [asked |-> FALSE, session |-> NoSession]
        /\ UNCHANGED <<node, commands, hist>>

\* The library's heartbeat, or the other side's close.
Disconnected == /\ ws = "dead" /\ Disconnect(node)
                /\ UNCHANGED <<faults, commands, sealed, reused, handled>>

\* The node restarts, after a close frame if it could send one (ws_client_graceful_close).
Restart(graceful) ==
    /\ Fault /\ ws' = "closed" /\ node' = FreshNode /\ inbox' = <<>> /\ wire' = {}
    /\ be' = IF graceful /\ ws = "open" THEN BeSeesClose
             ELSE [asked |-> FALSE, session |-> [be.session EXCEPT !.live = FALSE]]
    /\ UNCHANGED <<commands, sealed, reused, handled>>

(***************************************************************************)
(* The BE (external).                                                      *)
(***************************************************************************)
Put(f) == inbox' = Append(inbox, f) /\ wire' = wire \cup {f}
Identified == [type |-> "identified", key |-> None, seq |-> 0, id |-> 0]
WithoutNonce == [type |-> "no enonce", key |-> None, seq |-> 0, id |-> 0]
Command(seq) == [type |-> "command", key |-> be.session.key, seq |-> seq, id |-> commands + 1]

BeAnswers ==
    /\ be.asked
    /\ \/ /\ be.session = NoSession
          /\ be' = [asked |-> FALSE,
                    session |-> [NoSession EXCEPT !.key = node.nonce, !.live = TRUE]]
          /\ Put(Identified) /\ UNCHANGED faults
       \/ /\ be.session = NoSession /\ Fault
          /\ be' = [be EXCEPT !.asked = FALSE] /\ Put(WithoutNonce)
       \/ /\ be.session # NoSession     \* a ghost: the BE never answers this identify
          /\ be' = [be EXCEPT !.asked = FALSE] /\ UNCHANGED <<inbox, wire, faults>>
    /\ UNCHANGED <<ws, node, commands, sealed, reused, handled>>

BeReaps == /\ be.session # NoSession /\ ~be.session.live
           /\ be' = [be EXCEPT !.session = NoSession]
           /\ UNCHANGED <<ws, node, inbox, faults, commands, hist>>

BeCommands == /\ be.session.live /\ commands < MaxCommands /\ commands' = commands + 1
              /\ Put(Command(be.session.seqTx))
              /\ be' = [be EXCEPT !.session.seqTx = @ + 1]
              /\ UNCHANGED <<ws, node, faults, sealed, reused, handled>>

\* A frame of this connection comes a second time.
ComesTwice == /\ ws = "open" /\ Fault
              /\ \E f \in wire : inbox' = Append(inbox, f)
              /\ UNCHANGED <<ws, node, be, commands, hist>>

(***************************************************************************)
(* wsEvent                                                                 *)
(***************************************************************************)
DropsText(e) == Active(e)

Drop == /\ inbox' = Tail(inbox)
        /\ UNCHANGED <<ws, node, be, faults, commands, hist>>

\* The heap is too small for the JSON.
ParseFails == /\ inbox # <<>> /\ Head(inbox).type # "command" /\ Fault
              /\ inbox' = Tail(inbox)
              /\ UNCHANGED <<ws, node, be, commands, hist>>

ReceiveText ==
    /\ inbox # <<>> /\ Head(inbox).type # "command"
    /\ \/ DropsText(node.enc) /\ Drop
       \/ /\ ~DropsText(node.enc) /\ Head(inbox).type = "identified"    \* on_identified
          /\ node' = [node EXCEPT !.enc = Derive(node.nonce), !.connected = TRUE,
                                  !.armed = FALSE, !.tries = 0]
          /\ inbox' = Tail(inbox)
          /\ UNCHANGED <<ws, be, faults, commands, hist>>
       \/ /\ ~DropsText(node.enc) /\ Head(inbox).type = "no enonce" /\ Disconnect(node)
          /\ UNCHANGED <<faults, commands, sealed, reused, handled>>

ReceiveBin ==
    /\ inbox # <<>> /\ Head(inbox).type = "command"
    /\ \/ ~Active(node.enc) /\ Drop
       \/ /\ Active(node.enc) /\ Opens(node.enc, Head(inbox))
          /\ node' = [node EXCEPT !.enc = Opened(@, Head(inbox))]
          /\ inbox' = Tail(inbox)
          /\ \/ handled' = Append(handled, Head(inbox).id) /\ UNCHANGED faults
             \/ Fault /\ UNCHANGED handled     \* no heap for the JSON of what was opened
          /\ UNCHANGED <<ws, be, commands, wire, sealed, reused>>
       \/ /\ Active(node.enc) /\ ~Opens(node.enc, Head(inbox)) /\ Disconnect(node)
          /\ UNCHANGED <<faults, commands, sealed, reused, handled>>

Receive == ReceiveText \/ ReceiveBin

(***************************************************************************)
(* ws_client_send_raw, for any module of the node: seal, then sendBIN.     *)
(* The number is spent whether or not the frame gets through.              *)
(***************************************************************************)
Send == /\ node.connected /\ node.enc.seqTx < MaxSends
        /\ LET pair == <<node.enc.key, node.enc.seqTx>>
           IN sealed' = sealed \cup {pair} /\ reused' = (reused \/ pair \in sealed)
        /\ node' = [node EXCEPT !.enc = Sealed(@)]
        /\ be' = IF ws = "open" THEN [be EXCEPT !.session.seqRx = node.enc.seqTx + 1] ELSE be
        /\ UNCHANGED <<ws, inbox, faults, commands, wire, handled>>

(***************************************************************************)
(* ws_client_tick, the ghost-session guard.  With no answer on its way the *)
(* wait always ends; one that is on its way may be overtaken only by a     *)
(* wait shorter than it takes.                                             *)
(***************************************************************************)
Wait(tries) == IF 12 + 6 * tries > 36 THEN 36 ELSE 12 + 6 * tries
NextTry(tries) == IF tries < MaxTries THEN tries + 1 ELSE tries

AnswerComes == \/ be.asked /\ be.session = NoSession
               \/ \E i \in DOMAIN inbox : inbox[i].type = "identified"

GuardFires == /\ ~node.connected /\ node.armed
              /\ AnswerComes => Wait(node.tries) < AnswerTime
              /\ Disconnect([node EXCEPT !.tries = NextTry(@)])
              /\ UNCHANGED <<faults, commands, sealed, reused, handled>>

Next == \/ Connected \/ Dies \/ Disconnected \/ Restart(TRUE) \/ Restart(FALSE)
        \/ BeAnswers \/ BeReaps \/ BeCommands \/ ComesTwice
        \/ ParseFails \/ Receive \/ Send \/ GuardFires

Spec == Init /\ [][Next]_vars

\* The library reconnects and notices a dead socket, loop() runs, the guard's clock is read
\* on every pass; the BE answers and reaps its ghosts.
Fairness == /\ WF_vars(Connected) /\ WF_vars(Disconnected) /\ WF_vars(Receive)
            /\ WF_vars(GuardFires) /\ WF_vars(BeAnswers) /\ WF_vars(BeReaps)
FairSpec == Spec /\ Fairness
-----------------------------------------------------------------------------
Frames == [type : {"identified", "no enonce", "command"}, key : Nonces \cup {None},
           seq : 0..MaxCommands, id : 0..MaxCommands]

Keys == [key : Nonces \cup {None}, seqTx : 0..MaxSends, seqRx : 0..MaxCommands]
Nodes == [connected : BOOLEAN, armed : BOOLEAN, tries : 0..MaxTries,
          nonce : Nonces \cup {None}, enc : Keys]
Sessions == [key : Nonces \cup {None}, live : BOOLEAN, seqTx : 0..MaxCommands,
             seqRx : 0..MaxSends]

\* Every variable has its type; the count of tries stops at its bound (ws_client_tick).
TypeOK == /\ ws \in {"closed", "open", "dead"}
          /\ node \in Nodes /\ be \in [asked : BOOLEAN, session : Sessions]
          /\ inbox \in Seq(Frames) /\ wire \subseteq Frames
          /\ faults \in 0..MaxFaults /\ commands \in 0..MaxCommands

\* The node only believes itself connected on an open socket with a key, so that nothing
\* but identify ever leaves it in plain text, and never waits for an answer it had.
ConnectedMeansSealed == /\ node.connected <=> Active(node.enc)
                        /\ node.connected => ws # "closed" /\ ~node.armed

\* Types, and connected only with a key.
Inv == TypeOK /\ ConnectedMeansSealed

\* On a working socket both sides hold the same key, the node's next frame is the one
\* the BE accepts next, and the node expects none that the BE has already sent past.
\* So commands are handled in the order the BE sent them and each at most once, though
\* a frame come twice or a connection end between two of them (ws_enc_open, s_seq_rx).
SessionsAgree ==
  /\ node.connected /\ ws = "open" => /\ be.session.live /\ be.session.key = node.enc.key
                                      /\ be.session.seqRx = node.enc.seqTx
                                      /\ node.enc.seqRx <= be.session.seqTx
  /\ \A i, j \in DOMAIN handled : i < j => handled[i] < handled[j]

\* No key seals two frames under one sequence number, whatever is answered twice, lost or
\* reconnected (GCM would not survive it; ws_enc.cpp).
NoSeqReuse == ~reused

\* The node is connected again and again, past ghost sessions and slow answers: once the
\* failures stop it stays connected (ws_client.cpp, the ghost-session guard).
ComesBack == []<>node.connected
=============================================================================

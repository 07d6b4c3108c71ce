---------------------------- MODULE UplinkProofs -----------------------------
(***************************************************************************)
(* What leaves the node for a server, for any number of failures.  The     *)
(* session with the BE: its types, that the node only counts itself        *)
(* connected with a key, that no key seals two frames under one number,    *)
(* and that both ends agree and commands are handled once and in order.    *)
(* The webhook: for a ring of any size and any number of events, one batch *)
(* and one job at a time, and every event is accounted for.  The batches:  *)
(* for tables of any size, any lists of keys and any intervals, the tables *)
(* stay sound, only the oldest makes room, and a batch is clean.           *)
(***************************************************************************)
EXTENDS WsSession, NodeIntegration, DataSender, WorkerProofs, WellFoundedInduction

(***************************************************************************)
(* The session.                                                            *)
(***************************************************************************)
InOrder(f) == f.type = "command" => f.seq < MaxCommands

\* Frames wait only in an open socket, and only over one has the BE a live session.
InboxInv == /\ inbox # <<>> => ws = "open"
            /\ \A f \in wire : InOrder(f)
            /\ \A i \in DOMAIN inbox : InOrder(inbox[i])
            /\ be.session.seqTx <= commands
            /\ be.asked \/ be.session.live => ws = "open"

\* A nonce is drawn with every connection; until a key is derived from it nothing was
\* sealed with it, and then nothing beyond the count.
SealedInv == /\ ws # "closed" => node.nonce \in Nonces
             /\ sealed \subseteq Nonces \X Nat
             /\ Active(node.enc) => /\ node.enc.key = node.nonce
                                    /\ \A p \in sealed : p[1] = node.enc.key => p[2] < node.enc.seqTx
             /\ ws = "open" /\ ~Active(node.enc) => \A p \in sealed : p[1] # node.nonce

IInv == TypeOK /\ InboxInv /\ SealedInv /\ ConnectedMeansSealed /\ NoSeqReuse

LEMMA FreshNonceIsNonce == FreshNonce \in Nonces
BY SMT DEF FreshNonce, Nonces

LEMMA EmptyStates == NoKey \in Keys /\ FreshNode \in Nodes /\ NoSession \in Sessions
BY WsAssumption DEF NoKey, Keys, FreshNode, Nodes, NoSession, Sessions, None

LEMMA InitIInv == Init => IInv
<1> SUFFICES ASSUME Init PROVE IInv
  OBVIOUS
<1>1. TypeOK
  BY EmptyStates, WsAssumption DEF Init, TypeOK
<1>2. InboxInv /\ SealedInv /\ ConnectedMeansSealed /\ NoSeqReuse
  BY WsAssumption DEF Init, InboxInv, SealedInv, ConnectedMeansSealed, NoSeqReuse, Active, NoKey,
     FreshNode, NoSession, InOrder, None
<1>3. QED
  BY <1>1, <1>2 DEF IInv

LEMMA FaultKeeps == IInv /\ Fault => faults' \in 0..MaxFaults
BY WsAssumption DEF IInv, TypeOK, Fault

\* What a connection that ends leaves of the node and of the BE.
LEMMA ForgetKeeps ==
  ASSUME NEW n \in Nodes
  PROVE  /\ Forget(n) \in Nodes /\ ~Forget(n).connected /\ ~Active(Forget(n).enc)
BY EmptyStates DEF Forget, Nodes, Keys, NoKey, Active, None

LEMMA BeSeesCloseKeeps ==
  ASSUME IInv
  PROVE  /\ BeSeesClose \in [asked : BOOLEAN, session : Sessions]
         /\ BeSeesClose.session.seqTx <= commands
         /\ ~BeSeesClose.asked /\ ~BeSeesClose.session.live
<1>1. be.session \in Sessions /\ be.session.seqTx <= commands /\ 0 <= commands
  BY DEF IInv, TypeOK, InboxInv
<1>2. QED
  BY <1>1, EmptyStates DEF BeSeesClose, NoSession

\* The session a dead connection leaves at the BE.
LEMMA GhostKeeps ==
  ASSUME IInv
  PROVE  /\ [be.session EXCEPT !.live = FALSE] \in Sessions
         /\ [be.session EXCEPT !.live = FALSE].seqTx = be.session.seqTx
         /\ ~[be.session EXCEPT !.live = FALSE].live
BY DEF IInv, TypeOK, Sessions

LEMMA DisconnectKeeps ==
  ASSUME IInv, NEW n \in Nodes, Disconnect(n),
         UNCHANGED <<commands, sealed, reused>>, faults' \in 0..MaxFaults
  PROVE  IInv'
<1>1. TypeOK'
  BY ForgetKeeps, BeSeesCloseKeeps DEF IInv, TypeOK, Disconnect
<1>2. InboxInv'
  BY BeSeesCloseKeeps DEF IInv, TypeOK, InboxInv, Disconnect
<1>3. SealedInv' /\ ConnectedMeansSealed' /\ NoSeqReuse'
  BY ForgetKeeps DEF IInv, SealedInv, ConnectedMeansSealed, NoSeqReuse, Disconnect
<1>4. QED
  BY <1>1, <1>2, <1>3 DEF IInv

\* Taking a frame from the socket, or putting one in, leaves frames of the same kinds.
LEMMA TakeKeeps ==
  ASSUME IInv, inbox # <<>>
  PROVE  /\ Tail(inbox) \in Seq(Frames) /\ Head(inbox) \in Frames /\ InOrder(Head(inbox))
         /\ \A i \in DOMAIN Tail(inbox) : InOrder(Tail(inbox)[i])
         /\ ws = "open"
<1>1. inbox \in Seq(Frames) /\ ws = "open" /\ \A i \in DOMAIN inbox : InOrder(inbox[i])
  BY DEF IInv, TypeOK, InboxInv
<1>2. /\ Tail(inbox) \in Seq(Frames) /\ Head(inbox) \in Frames /\ Head(inbox) = inbox[1]
      /\ DOMAIN inbox = 1..Len(inbox) /\ Len(inbox) \in Nat \ {0}
      /\ DOMAIN Tail(inbox) = 1..Len(inbox) - 1
      /\ \A i \in DOMAIN Tail(inbox) : Tail(inbox)[i] = inbox[i + 1]
  BY <1>1
<1>3. QED
  BY <1>1, <1>2

LEMMA PutKeeps ==
  ASSUME IInv, NEW f \in Frames, InOrder(f)
  PROVE  /\ Append(inbox, f) \in Seq(Frames)
         /\ \A i \in DOMAIN Append(inbox, f) : InOrder(Append(inbox, f)[i])
<1>1. inbox \in Seq(Frames) /\ \A i \in DOMAIN inbox : InOrder(inbox[i])
  BY DEF IInv, TypeOK, InboxInv
<1>2. /\ Append(inbox, f) \in Seq(Frames) /\ DOMAIN inbox = 1..Len(inbox) /\ Len(inbox) \in Nat
      /\ DOMAIN Append(inbox, f) = 1..Len(inbox) + 1
      /\ \A i \in 1..Len(inbox) : Append(inbox, f)[i] = inbox[i]
      /\ Append(inbox, f)[Len(inbox) + 1] = f
  BY <1>1
<1>3. QED
  BY <1>1, <1>2
\* The node itself: what becomes of it besides losing its connection.
LEMMA NodeSteps ==
  ASSUME NEW n \in Nodes, NEW k \in Nonces, NEW t \in 0..MaxTries, NEW q \in 1..MaxCommands
  PROVE  /\ [n EXCEPT !.nonce = k, !.armed = TRUE] \in Nodes
         /\ [n EXCEPT !.tries = t] \in Nodes
         /\ [n EXCEPT !.enc = Derive(k), !.connected = TRUE, !.armed = FALSE, !.tries = 0] \in Nodes
         /\ n.enc.seqTx < MaxSends => [n EXCEPT !.enc = Sealed(@)] \in Nodes
         /\ [n EXCEPT !.enc = [@ EXCEPT !.seqRx = q]] \in Nodes
<1>1. Derive(k) \in Keys
  BY WsAssumption DEF Derive, NoKey, Keys, None
<1>2. n.enc \in Keys
  BY DEF Nodes
<1>3. n.enc.seqTx < MaxSends => Sealed(n.enc) \in Keys
  BY <1>2, WsAssumption DEF Sealed, Keys
<1>4. [n.enc EXCEPT !.seqRx = q] \in Keys
  BY <1>2, WsAssumption DEF Keys
<1>5. [n EXCEPT !.nonce = k, !.armed = TRUE] \in Nodes /\ [n EXCEPT !.tries = t] \in Nodes
  BY DEF Nodes
<1>6. [n EXCEPT !.enc = Derive(k), !.connected = TRUE, !.armed = FALSE, !.tries = 0] \in Nodes
  <2>1. 0 \in 0..MaxTries
    BY WsAssumption
  <2>2. \A e \in Keys, z \in 0..MaxTries :
           [n EXCEPT !.enc = e, !.connected = TRUE, !.armed = FALSE, !.tries = z] \in Nodes
    BY DEF Nodes
  <2>3. QED
    BY <1>1, <2>1, <2>2
<1>7. n.enc.seqTx < MaxSends => [n EXCEPT !.enc = Sealed(@)] \in Nodes
  BY <1>3 DEF Nodes
<1>8. [n EXCEPT !.enc = [@ EXCEPT !.seqRx = q]] \in Nodes
  BY <1>4 DEF Nodes
<1>9. QED
  BY <1>5, <1>6, <1>7, <1>8

LEMMA ConnectedKeeps == IInv /\ Connected => IInv'
<1> SUFFICES ASSUME IInv, Connected PROVE IInv'
  OBVIOUS
<1>0. FreshNonce \in Nonces /\ node \in Nodes /\ node'.nonce = FreshNonce
      /\ node'.enc = node.enc /\ node'.connected = node.connected /\ node' \in Nodes
  <2>1. FreshNonce \in Nonces /\ node \in Nodes
    BY FreshNonceIsNonce DEF IInv, TypeOK
  <2>2. [node EXCEPT !.nonce = FreshNonce, !.armed = TRUE] \in Nodes
    BY <2>1, NodeSteps, WsAssumption DEF Nodes
  <2>3. QED
    BY <2>1, <2>2 DEF Connected, Nodes
<1>1. ~Active(node.enc) /\ ~node.connected
  BY DEF IInv, ConnectedMeansSealed, Connected
<1>2. TypeOK'
  BY <1>0 DEF IInv, TypeOK, Connected
<1>3. InboxInv'
  BY DEF IInv, TypeOK, InboxInv, Connected
<1>4. SealedInv'
  BY <1>0, <1>1 DEF IInv, SealedInv, Connected
<1>5. ConnectedMeansSealed' /\ NoSeqReuse'
  BY <1>0, <1>1 DEF IInv, ConnectedMeansSealed, NoSeqReuse, Connected
<1>6. QED
  BY <1>2, <1>3, <1>4, <1>5 DEF IInv

\* A step that leaves the node alone and keeps the socket or kills it.
LEMMA NodeUnchanged ==
  ASSUME IInv, UNCHANGED <<node, sealed, reused>>,
         ws' = ws \/ (ws = "open" /\ ws' = "dead")
  PROVE  SealedInv' /\ ConnectedMeansSealed' /\ NoSeqReuse'
BY DEF IInv, SealedInv, ConnectedMeansSealed, NoSeqReuse

LEMMA DiesKeeps == IInv /\ Dies => IInv'
<1> SUFFICES ASSUME IInv, Dies PROVE IInv'
  OBVIOUS
<1>1. be' \in [asked : BOOLEAN, session : Sessions] /\ be'.session.seqTx <= commands
      /\ ~be'.asked /\ ~be'.session.live
  <2>1. be.session.seqTx <= commands /\ NoSession.seqTx <= commands /\ ~NoSession.live
    BY DEF IInv, TypeOK, InboxInv, NoSession
  <2>2. CASE be' = [asked |-> FALSE, session |-> [be.session EXCEPT !.live = FALSE]]
    BY <2>1, <2>2, GhostKeeps
  <2>3. CASE be' = [asked |-> FALSE, session |-> NoSession]
    BY <2>1, <2>3, EmptyStates
  <2>4. QED
    BY <2>2, <2>3 DEF Dies
<1>2. TypeOK'
  BY <1>1, FaultKeeps DEF IInv, TypeOK, Dies, hist
<1>3. InboxInv'
  BY <1>1 DEF IInv, TypeOK, InboxInv, Dies, hist
<1>4. QED
  BY <1>2, <1>3, NodeUnchanged DEF IInv, Dies, hist

LEMMA RestartKeeps == ASSUME NEW g \in BOOLEAN PROVE IInv /\ Restart(g) => IInv'
<1> SUFFICES ASSUME IInv, Restart(g) PROVE IInv'
  OBVIOUS
<1>1. be' \in [asked : BOOLEAN, session : Sessions] /\ be'.session.seqTx <= commands
      /\ ~be'.asked /\ ~be'.session.live
  <2>1. be.session.seqTx <= commands
    BY DEF IInv, InboxInv
  <2>2. QED
    BY <2>1, GhostKeeps, BeSeesCloseKeeps DEF Restart
<1>2. TypeOK' /\ InboxInv'
  <2>1. TypeOK'
    BY <1>1, EmptyStates, FaultKeeps DEF IInv, TypeOK, Restart
  <2>2. InboxInv'
    BY <1>1 DEF IInv, TypeOK, InboxInv, Restart
  <2>3. QED
    BY <2>1, <2>2
<1>3. SealedInv' /\ ConnectedMeansSealed' /\ NoSeqReuse'
  BY DEF IInv, SealedInv, ConnectedMeansSealed, NoSeqReuse, Restart, FreshNode, NoKey, Active, None
<1>4. QED
  BY <1>2, <1>3 DEF IInv

\* The frames the BE sends.
LEMMA BeFrames ==
  ASSUME IInv
  PROVE  /\ Identified \in Frames /\ InOrder(Identified)
         /\ WithoutNonce \in Frames /\ InOrder(WithoutNonce)
         /\ commands < MaxCommands => /\ Command(be.session.seqTx) \in Frames
                                      /\ InOrder(Command(be.session.seqTx))
<1>1. /\ be.session.key \in Nonces \cup {None} /\ be.session.seqTx \in 0..MaxCommands
      /\ be.session.seqTx <= commands /\ commands \in 0..MaxCommands
  BY DEF IInv, TypeOK, InboxInv, Sessions
<1>2. QED
  BY <1>1, WsAssumption DEF Identified, WithoutNonce, Command, Frames, InOrder, None

\* The BE's steps leave the node and its socket alone and send frames in order.
LEMMA BeStepKeeps ==
  ASSUME IInv, UNCHANGED <<ws, node, sealed, reused>>, ws = "open",
         faults' \in 0..MaxFaults, commands' \in 0..MaxCommands,
         be' \in [asked : BOOLEAN, session : Sessions], be'.session.seqTx <= commands',
         \/ UNCHANGED <<inbox, wire>>
         \/ \E f \in Frames : /\ InOrder(f) /\ inbox' = Append(inbox, f)
                              /\ wire' = wire \cup {f} \/ wire' = wire
  PROVE  IInv'
<1>1. inbox' \in Seq(Frames) /\ \A i \in DOMAIN inbox' : InOrder(inbox'[i])
  BY PutKeeps DEF IInv, TypeOK, InboxInv
<1>2. wire' \subseteq Frames /\ \A f \in wire' : InOrder(f)
  BY DEF IInv, TypeOK, InboxInv
<1>3. TypeOK' /\ InboxInv'
  BY <1>1, <1>2 DEF IInv, TypeOK, InboxInv
<1>4. QED
  BY <1>3, NodeUnchanged DEF IInv

LEMMA BeAnswersKeeps == IInv /\ BeAnswers => IInv'
<1> SUFFICES ASSUME IInv, BeAnswers PROVE IInv'
  OBVIOUS
<1>1. /\ be \in [asked : BOOLEAN, session : Sessions] /\ ws = "open"
      /\ be.session.seqTx <= commands /\ 0 <= commands /\ node.nonce \in Nonces \cup {None}
      /\ faults \in 0..MaxFaults /\ commands \in 0..MaxCommands
  BY DEF IInv, TypeOK, InboxInv, BeAnswers, Nodes
<1>2. UNCHANGED <<ws, node, sealed, reused, commands>>
  BY DEF BeAnswers
<1>3. CASE /\ be.session = NoSession /\ Put(Identified) /\ UNCHANGED faults
           /\ be' = [asked |-> FALSE,
                     session |-> [NoSession EXCEPT !.key = node.nonce, !.live = TRUE]]
  <2>1. [NoSession EXCEPT !.key = node.nonce, !.live = TRUE] \in Sessions
    BY <1>1, EmptyStates DEF Sessions
  <2>2. be' \in [asked : BOOLEAN, session : Sessions] /\ be'.session.seqTx <= commands'
    BY <1>1, <1>2, <1>3, <2>1 DEF NoSession
  <2>3. QED
    BY <1>1, <1>2, <1>3, <2>2, BeFrames, BeStepKeeps DEF Put
<1>4. CASE be.session = NoSession /\ Fault /\ be' = [be EXCEPT !.asked = FALSE] /\ Put(WithoutNonce)
  BY <1>1, <1>2, <1>4, FaultKeeps, BeFrames, BeStepKeeps DEF Put
<1>5. CASE be' = [be EXCEPT !.asked = FALSE] /\ UNCHANGED <<inbox, wire, faults>>
  BY <1>1, <1>2, <1>5, BeStepKeeps
<1>6. QED
  BY <1>3, <1>4, <1>5 DEF BeAnswers

LEMMA BeReapsKeeps == IInv /\ BeReaps => IInv'
<1> SUFFICES ASSUME IInv, BeReaps PROVE IInv'
  OBVIOUS
<1>1. be' \in [asked : BOOLEAN, session : Sessions] /\ be'.session = NoSession /\ be'.asked = be.asked
  BY EmptyStates DEF IInv, TypeOK, BeReaps
<1>2. NoSession.seqTx <= commands /\ ~NoSession.live
  BY DEF IInv, TypeOK, NoSession
<1>3. TypeOK' /\ InboxInv'
  BY <1>1, <1>2 DEF IInv, TypeOK, InboxInv, BeReaps, hist
<1>4. QED
  BY <1>3, NodeUnchanged DEF IInv, BeReaps, hist

LEMMA BeCommandsKeeps == IInv /\ BeCommands => IInv'
<1> SUFFICES ASSUME IInv, BeCommands PROVE IInv'
  OBVIOUS
<1>1. /\ be \in [asked : BOOLEAN, session : Sessions] /\ ws = "open"
      /\ be.session.seqTx <= commands /\ commands \in 0..MaxCommands /\ commands < MaxCommands
      /\ faults \in 0..MaxFaults
  BY DEF IInv, TypeOK, InboxInv, BeCommands
<1>2. [be.session EXCEPT !.seqTx = @ + 1] \in Sessions
      /\ [be.session EXCEPT !.seqTx = @ + 1].seqTx = be.session.seqTx + 1
  BY <1>1, WsAssumption DEF Sessions
<1>3. be' \in [asked : BOOLEAN, session : Sessions]
      /\ be'.session = [be.session EXCEPT !.seqTx = @ + 1]
  BY <1>1, <1>2 DEF BeCommands
<1>4. be'.session.seqTx <= commands' /\ commands' \in 0..MaxCommands
  BY <1>1, <1>2, <1>3, WsAssumption DEF BeCommands, Sessions
<1>5. QED
  BY <1>1, <1>3, <1>4, BeFrames, BeStepKeeps DEF BeCommands, Put

LEMMA ComesTwiceKeeps == IInv /\ ComesTwice => IInv'
<1> SUFFICES ASSUME IInv, ComesTwice PROVE IInv'
  OBVIOUS
<1>1. /\ be \in [asked : BOOLEAN, session : Sessions] /\ be.session.seqTx <= commands
      /\ commands \in 0..MaxCommands /\ wire \subseteq Frames /\ \A f \in wire : InOrder(f)
  BY DEF IInv, TypeOK, InboxInv
<1>2. QED
  BY <1>1, FaultKeeps, BeStepKeeps DEF ComesTwice, hist
\* A step that takes the next frame from the socket and leaves the BE alone.
LEMMA TakeStepKeeps ==
  ASSUME IInv, inbox # <<>>, inbox' = Tail(inbox), UNCHANGED <<ws, be, commands, wire>>,
         node' \in Nodes, faults' \in 0..MaxFaults
  PROVE  TypeOK' /\ InboxInv'
<1>1. TypeOK'
  BY TakeKeeps DEF IInv, TypeOK
<1>2. InboxInv'
  BY TakeKeeps DEF IInv, InboxInv
<1>3. QED
  BY <1>1, <1>2

LEMMA DropKeeps == IInv /\ inbox # <<>> /\ Drop => IInv'
<1> SUFFICES ASSUME IInv, inbox # <<>>, Drop PROVE IInv'
  OBVIOUS
<1>1. node \in Nodes /\ faults \in 0..MaxFaults
  BY DEF IInv, TypeOK
<1>2. QED
  BY <1>1, TakeStepKeeps, NodeUnchanged DEF IInv, Drop, hist

LEMMA ParseFailsKeeps == IInv /\ ParseFails => IInv'
<1> SUFFICES ASSUME IInv, ParseFails PROVE IInv'
  OBVIOUS
<1>1. node \in Nodes
  BY DEF IInv, TypeOK
<1>2. QED
  BY <1>1, FaultKeeps, TakeStepKeeps, NodeUnchanged DEF IInv, ParseFails, hist

LEMMA DisconnectingKeeps ==
  IInv /\ Disconnect(node) /\ UNCHANGED <<faults, commands, sealed, reused>> => IInv'
BY DisconnectKeeps DEF IInv, TypeOK

\* The answer that derives the key: nothing was sealed with this connection's nonce yet.
LEMMA ReceiveTextKeeps == IInv /\ ReceiveText => IInv'
<1> SUFFICES ASSUME IInv, ReceiveText PROVE IInv'
  OBVIOUS
<1>1. inbox # <<>>
  BY DEF ReceiveText
<1>2. CASE DropsText(node.enc) /\ Drop
  BY <1>1, <1>2, DropKeeps
<1>3. CASE /\ ~DropsText(node.enc)
           /\ node' = [node EXCEPT !.enc = Derive(node.nonce), !.connected = TRUE,
                                   !.armed = FALSE, !.tries = 0]
           /\ inbox' = Tail(inbox) /\ UNCHANGED <<ws, be, faults, commands, hist>>
  <2>1. /\ ws = "open" /\ node \in Nodes /\ node.nonce \in Nonces /\ faults \in 0..MaxFaults
        /\ \A x \in sealed : x[1] # node.nonce
    BY <1>1, <1>3, TakeKeeps DEF IInv, TypeOK, SealedInv, DropsText
  <2>2. /\ node' \in Nodes /\ node'.enc = Derive(node.nonce) /\ node'.connected
        /\ ~node'.armed /\ node'.nonce = node.nonce
    <3>1. [node EXCEPT !.enc = Derive(node.nonce), !.connected = TRUE,
                       !.armed = FALSE, !.tries = 0] \in Nodes
      <4>1. Derive(node.nonce) \in Keys /\ 0 \in 0..MaxTries
        BY <2>1, WsAssumption DEF Derive, NoKey, Keys, None
      <4>2. \A e \in Keys, z \in 0..MaxTries :
               [node EXCEPT !.enc = e, !.connected = TRUE, !.armed = FALSE, !.tries = z] \in Nodes
        BY <2>1 DEF Nodes
      <4>3. QED
        BY <4>1, <4>2
    <3>2. QED
      BY <1>3, <2>1, <3>1 DEF Nodes
  <2>3. Derive(node.nonce).key = node.nonce /\ Active(Derive(node.nonce))
    BY <2>1 DEF Derive, NoKey, Active, None, Nonces
  <2>4. SealedInv'
    BY <1>3, <2>1, <2>2, <2>3 DEF IInv, SealedInv, hist
  <2>5. ConnectedMeansSealed' /\ NoSeqReuse'
    BY <1>3, <2>1, <2>2, <2>3 DEF IInv, ConnectedMeansSealed, NoSeqReuse, hist
  <2>6. QED
    BY <1>1, <1>3, <2>1, <2>2, <2>4, <2>5, TakeStepKeeps DEF IInv, hist
<1>4. CASE Disconnect(node) /\ UNCHANGED <<faults, commands, sealed, reused, handled>>
  BY <1>4, DisconnectingKeeps
<1>5. QED
  BY <1>2, <1>3, <1>4 DEF ReceiveText

LEMMA ReceiveBinKeeps == IInv /\ ReceiveBin => IInv'
<1> SUFFICES ASSUME IInv, ReceiveBin PROVE IInv'
  OBVIOUS
<1>1. inbox # <<>> /\ Head(inbox).type = "command"
  BY DEF ReceiveBin
<1>2. CASE Drop
  BY <1>1, <1>2, DropKeeps
<1>3. CASE /\ Active(node.enc) /\ node' = [node EXCEPT !.enc = Opened(@, Head(inbox))]
           /\ inbox' = Tail(inbox) /\ (UNCHANGED faults \/ Fault)
           /\ UNCHANGED <<ws, be, commands, wire, sealed, reused>>
  <2>1. node \in Nodes /\ faults' \in 0..MaxFaults /\ Head(inbox).seq + 1 \in 1..MaxCommands
    <3>1. Head(inbox).seq \in 0..MaxCommands /\ Head(inbox).seq < MaxCommands
      BY <1>1, TakeKeeps DEF InOrder, Frames
    <3>2. faults' \in 0..MaxFaults
      BY <1>3, FaultKeeps DEF IInv, TypeOK
    <3>3. QED
      BY <3>1, <3>2, WsAssumption DEF IInv, TypeOK
  <2>2. node' = [node EXCEPT !.enc = [@ EXCEPT !.seqRx = Head(inbox).seq + 1]]
    BY <1>3 DEF Opened
  <2>3. node' \in Nodes
    <3>1. [node.enc EXCEPT !.seqRx = Head(inbox).seq + 1] \in Keys
      BY <2>1 DEF Nodes, Keys
    <3>2. QED
      BY <2>1, <2>2, <3>1 DEF Nodes
  <2>4. /\ node'.enc.key = node.enc.key /\ node'.enc.seqTx = node.enc.seqTx
        /\ node'.nonce = node.nonce /\ node'.connected = node.connected /\ node'.armed = node.armed
    <3>1. node.enc \in Keys
      BY <2>1 DEF Nodes
    <3>2. node'.enc = [node.enc EXCEPT !.seqRx = Head(inbox).seq + 1]
      BY <2>1, <2>2 DEF Nodes
    <3>3. node'.enc.key = node.enc.key /\ node'.enc.seqTx = node.enc.seqTx
      BY <3>1, <3>2 DEF Keys
    <3>4. QED
      BY <2>1, <2>2, <3>3 DEF Nodes
  <2>5. SealedInv' /\ ConnectedMeansSealed' /\ NoSeqReuse'
    BY <1>3, <2>4 DEF IInv, SealedInv, ConnectedMeansSealed, NoSeqReuse, Active
  <2>6. QED
    BY <1>1, <1>3, <2>1, <2>3, <2>5, TakeStepKeeps DEF IInv
<1>4. CASE Disconnect(node) /\ UNCHANGED <<faults, commands, sealed, reused, handled>>
  BY <1>4, DisconnectingKeeps
<1>5. QED
  BY <1>2, <1>3, <1>4 DEF ReceiveBin

\* The number a frame is sealed with is above all those used with the key.
LEMMA SendKeeps == IInv /\ Send => IInv'
<1> SUFFICES ASSUME IInv, Send PROVE IInv'
  OBVIOUS
<1>1. /\ node \in Nodes /\ node.enc \in Keys /\ node.enc.seqTx \in 0..MaxSends
      /\ node.enc.seqTx < MaxSends /\ node.connected /\ Active(node.enc) /\ ws # "closed"
      /\ node.enc.key = node.nonce /\ node.nonce \in Nonces
      /\ \A x \in sealed : x[1] = node.enc.key => x[2] < node.enc.seqTx
  BY DEF IInv, TypeOK, Nodes, Keys, ConnectedMeansSealed, SealedInv, Send
<1>2. node' \in Nodes /\ node'.enc = [node.enc EXCEPT !.seqTx = @ + 1]
      /\ node'.nonce = node.nonce /\ node'.connected = node.connected /\ node'.armed = node.armed
  <2>1. [node.enc EXCEPT !.seqTx = @ + 1] \in Keys
    BY <1>1, WsAssumption DEF Keys
  <2>2. QED
    BY <1>1, <2>1 DEF Send, Sealed, Nodes
<1>3. node'.enc.key = node.enc.key /\ node'.enc.seqTx = node.enc.seqTx + 1
  BY <1>1, <1>2 DEF Keys
<1>4. be' \in [asked : BOOLEAN, session : Sessions] /\ be'.session.seqTx = be.session.seqTx
      /\ be'.asked = be.asked /\ be'.session.live = be.session.live
  <2>1. node.enc.seqTx + 1 \in 0..MaxSends
    BY <1>1, WsAssumption
  <2>2. be \in [asked : BOOLEAN, session : Sessions]
    BY DEF IInv, TypeOK
  <2>3. [be EXCEPT !.session.seqRx = node.enc.seqTx + 1] \in [asked : BOOLEAN, session : Sessions]
    BY <2>1, <2>2 DEF Sessions
  <2>4. QED
    BY <2>2, <2>3 DEF Send, Sessions
<1>5. TypeOK' /\ InboxInv'
  BY <1>2, <1>4 DEF IInv, TypeOK, InboxInv, Send
<1> DEFINE pair == <<node.enc.key, node.enc.seqTx>>
<1>6. pair \notin sealed /\ pair \in Nonces \X Nat
  BY <1>1, WsAssumption
<1>7. sealed' = sealed \cup {pair} /\ reused' = (reused \/ pair \in sealed)
  BY DEF Send
<1>8. \A x \in sealed' : x[1] = node'.enc.key => x[2] < node'.enc.seqTx
  BY <1>1, <1>3, <1>7, WsAssumption DEF IInv, SealedInv
<1>9. SealedInv'
  BY <1>1, <1>2, <1>3, <1>6, <1>7, <1>8 DEF IInv, SealedInv, Send, Active
<1>10. ConnectedMeansSealed'
  BY <1>1, <1>2, <1>3 DEF IInv, ConnectedMeansSealed, Send, Active
<1>11. NoSeqReuse'
  BY <1>6, <1>7 DEF IInv, NoSeqReuse
<1>12. QED
  BY <1>5, <1>9, <1>10, <1>11 DEF IInv

LEMMA GuardFiresKeeps == IInv /\ GuardFires => IInv'
<1> SUFFICES ASSUME IInv, GuardFires PROVE IInv'
  OBVIOUS
<1>1. node \in Nodes /\ NextTry(node.tries) \in 0..MaxTries /\ faults \in 0..MaxFaults
  BY WsAssumption DEF IInv, TypeOK, Nodes, NextTry
<1>2. [node EXCEPT !.tries = NextTry(@)] \in Nodes
  BY <1>1 DEF Nodes
<1>3. QED
  BY <1>1, <1>2, DisconnectKeeps DEF GuardFires

-----------------------------------------------------------------------------
LEMMA NextIInv == IInv /\ [Next]_vars => IInv'
<1> SUFFICES ASSUME IInv, [Next]_vars PROVE IInv'
  OBVIOUS
<1>1. CASE UNCHANGED vars
  BY <1>1 DEF vars, hist, IInv, TypeOK, InboxInv, SealedInv, ConnectedMeansSealed, NoSeqReuse
<1>2. CASE Disconnected
  BY <1>2, DisconnectingKeeps DEF Disconnected
<1>3. CASE Next
  BY <1>2, <1>3, ConnectedKeeps, DiesKeeps, RestartKeeps, BeAnswersKeeps, BeReapsKeeps,
     BeCommandsKeeps, ComesTwiceKeeps, ParseFailsKeeps, ReceiveTextKeeps, ReceiveBinKeeps,
     SendKeeps, GuardFiresKeeps DEF Next, Receive
<1>4. QED
  BY <1>1, <1>3

LEMMA SpecIInv == Spec => []IInv
BY InitIInv, NextIInv, PTL DEF Spec

\* Every behaviour of the session keeps the types and knows itself connected only with a
\* key and an open socket (property Inv; ws_client.cpp, ws_enc.cpp), whatever the bounds.
THEOREM SessionInv == Spec => []Inv
<1>1. IInv => Inv
  BY DEF IInv, Inv
<1>2. QED
  BY <1>1, SpecIInv, PTL

\* No key seals two frames under one number (property NoSeqReuse; ws_enc_seal), for any
\* number of reconnections, answers that come twice and restarts.
THEOREM SessionSafe == Spec => []NoSeqReuse
<1>1. IInv => NoSeqReuse
  BY DEF IInv
<1>2. QED
  BY <1>1, SpecIInv, PTL

-----------------------------------------------------------------------------
\* The two sides of a session: the inductive invariant of SessionsAgree.

\* What the BE sent in this connection: nothing while identify is unanswered, nothing but
\* the refusal without a session, and commands whose ids are as far behind the count of
\* commands as their numbers are behind the BE's.
WireInv ==
  /\ ws = "closed" => wire = {}
  /\ \A i \in DOMAIN inbox : inbox[i] \in wire
  /\ be.asked => wire = {} /\ ~node.connected /\ ~be.session.live
  /\ ws = "open" =>
       /\ node.connected \/ (\E f \in wire : f.type # "no enonce") => be.session.live
       /\ \A f \in wire : f.type = "command" =>
            f.seq < be.session.seqTx /\ f.id + be.session.seqTx = f.seq + 1 + commands

\* A live session over a working socket is this connection's, and the node handled no
\* command the BE sends after those the node has yet to open.
LiveInv ==
  ws = "open" /\ be.session.live =>
    /\ be.session.key = node.nonce
    /\ be.session.seqRx = node.enc.seqTx
    /\ node.enc.seqRx <= be.session.seqTx
    /\ \A i \in DOMAIN handled : handled[i] + be.session.seqTx <= commands + node.enc.seqRx

HandledInv == /\ handled \in Seq(Nat)
              /\ \A i \in DOMAIN handled : handled[i] <= commands
              /\ \A i, j \in DOMAIN handled : i < j => handled[i] < handled[j]

\* Both counts start at zero with the key, as they stand without one.
NoKeyInv == ~Active(node.enc) => node.enc = NoKey

AInv == WireInv /\ LiveInv /\ HandledInv /\ NoKeyInv

LEMMA InitAInv == Init => AInv
BY DEF Init, AInv, WireInv, LiveInv, HandledInv, NoKeyInv, FreshNode, NoSession

\* The sessions' numbers are numbers.
LEMMA Numbered ==
  ASSUME IInv
  PROVE  /\ be \in [asked : BOOLEAN, session : Sessions] /\ be.session \in Sessions
         /\ node \in Nodes /\ node.enc \in Keys
         /\ be.session.seqTx \in Nat /\ be.session.seqRx \in Nat
         /\ node.enc.seqTx \in Nat /\ node.enc.seqRx \in Nat /\ commands \in Nat
         /\ inbox \in Seq(Frames)
         /\ \A f \in wire : f.seq \in Nat /\ f.id \in Nat
<1>1. /\ be \in [asked : BOOLEAN, session : Sessions] /\ node \in Nodes
      /\ inbox \in Seq(Frames) /\ wire \subseteq Frames /\ commands \in 0..MaxCommands
  BY DEF IInv, TypeOK
<1>2. be.session \in Sessions /\ node.enc \in Keys
  BY <1>1 DEF Nodes
<1>3. /\ be.session.seqTx \in Nat /\ be.session.seqRx \in Nat
      /\ node.enc.seqTx \in Nat /\ node.enc.seqRx \in Nat /\ commands \in Nat
  BY <1>1, <1>2, WsAssumption DEF Sessions, Keys
<1>4. ASSUME NEW f \in wire PROVE f.seq \in Nat /\ f.id \in Nat
  <2>1. f.seq \in 0..MaxCommands /\ f.id \in 0..MaxCommands
    BY <1>1, <1>4 DEF Frames
  <2>2. QED
    BY <2>1, WsAssumption
<1>5. QED
  BY <1>1, <1>2, <1>3, <1>4

\* The end of a connection, on both sides or on one.
LEMMA EndAgrees ==
  ASSUME AInv, ws' # "open", ws' = "closed" => wire' = {}, inbox' = <<>>, ~be'.asked,
         UNCHANGED <<commands, handled>>, NoKeyInv'
  PROVE  AInv'
<1>1. DOMAIN inbox' = {}
  OBVIOUS
<1>2. WireInv'
  BY <1>1 DEF WireInv
<1>3. LiveInv' /\ HandledInv'
  BY DEF AInv, LiveInv, HandledInv
<1>4. QED
  BY <1>2, <1>3 DEF AInv

LEMMA DisconnectAgrees ==
  ASSUME IInv, AInv, NEW n \in Nodes, Disconnect(n), UNCHANGED <<commands, handled>>
  PROVE  AInv'
<1>1. Forget(n).enc = NoKey
  BY DEF Forget, Nodes
<1>2. NoKeyInv' /\ ~be'.asked
  BY <1>1, BeSeesCloseKeeps DEF Disconnect, NoKeyInv, IInv, InboxInv
<1>3. QED
  BY <1>2, EndAgrees DEF Disconnect

\* A step of the network: the two sides stay, the socket has only what was sent.
LEMMA NetworkAgrees ==
  ASSUME IInv, AInv, UNCHANGED <<ws, node, be, wire, commands, handled>>,
         \A i \in DOMAIN inbox' : inbox'[i] \in wire
  PROVE  AInv'
BY DEF AInv, WireInv, LiveInv, HandledInv, NoKeyInv

\* What is still in the socket behind the frame taken from it.
LEMMA RestOfInbox ==
  ASSUME IInv, WireInv, inbox # <<>>
  PROVE  /\ Head(inbox) \in wire /\ ws = "open" /\ ~be.asked
         /\ \A i \in DOMAIN Tail(inbox) : Tail(inbox)[i] \in wire
<1>1. /\ Head(inbox) = inbox[1] /\ 1 \in DOMAIN inbox
      /\ \A i \in DOMAIN Tail(inbox) : i + 1 \in DOMAIN inbox /\ Tail(inbox)[i] = inbox[i + 1]
  BY Numbered
<1>2. QED
  BY <1>1 DEF WireInv, IInv, InboxInv

LEMMA PutInInbox ==
  ASSUME IInv, WireInv, NEW f
  PROVE  \A i \in DOMAIN Append(inbox, f) : Append(inbox, f)[i] \in wire \cup {f}
<1>1. inbox \in Seq(Frames) /\ \A i \in DOMAIN inbox : inbox[i] \in wire
  BY Numbered DEF WireInv
<1>2. /\ DOMAIN inbox = 1..Len(inbox) /\ Len(inbox) \in Nat
      /\ DOMAIN Append(inbox, f) = 1..Len(inbox) + 1
      /\ \A i \in 1..Len(inbox) : Append(inbox, f)[i] = inbox[i]
      /\ Append(inbox, f)[Len(inbox) + 1] = f
  BY <1>1
<1>3. QED
  BY <1>1, <1>2

-----------------------------------------------------------------------------
LEMMA ConnectedAgrees == IInv /\ AInv /\ Connected => AInv'
<1> SUFFICES ASSUME IInv, AInv, Connected PROVE AInv'
  OBVIOUS
<1>1. /\ ws = "closed" /\ ~be.session.live /\ inbox = <<>> /\ wire = {} /\ ~node.connected
  BY DEF Connected, IInv, InboxInv, AInv, WireInv, ConnectedMeansSealed
<1>2. /\ ~be'.session.live /\ node'.enc = node.enc /\ node'.connected = node.connected
      /\ inbox' = inbox /\ wire' = wire /\ handled' = handled /\ commands' = commands
      /\ ws' = "open"
  <2>1. node' = [node EXCEPT !.nonce = FreshNonce, !.armed = TRUE] /\ be' = [be EXCEPT !.asked = TRUE]
    BY DEF Connected
  <2>2. node'.enc = node.enc /\ node'.connected = node.connected
    BY <2>1, Numbered DEF Nodes
  <2>3. be'.session = be.session
    BY <2>1, Numbered
  <2>4. QED
    BY <1>1, <2>2, <2>3 DEF Connected
<1>3. QED
  BY <1>1, <1>2 DEF AInv, WireInv, LiveInv, HandledInv, NoKeyInv

LEMMA EndingsAgree ==
  IInv /\ AInv /\ (Dies \/ Disconnected \/ GuardFires \/ \E g \in BOOLEAN : Restart(g)) => AInv'
<1> SUFFICES ASSUME IInv, AInv PROVE Dies \/ Disconnected \/ GuardFires
                                       \/ (\E g \in BOOLEAN : Restart(g)) => AInv'
  OBVIOUS
<1>1. CASE Dies
  BY <1>1, EndAgrees DEF Dies, hist, AInv, NoKeyInv
<1>2. CASE Disconnected
  BY <1>2, Numbered, DisconnectAgrees DEF Disconnected
<1>3. CASE GuardFires
  <2>1. [node EXCEPT !.tries = NextTry(@)] \in Nodes
    <3>1. NextTry(node.tries) \in 0..MaxTries
      BY Numbered, WsAssumption DEF Nodes, NextTry
    <3>2. QED
      BY <3>1, Numbered DEF Nodes
  <2>2. QED
    BY <1>3, <2>1, DisconnectAgrees DEF GuardFires
<1>4. ASSUME NEW g \in BOOLEAN, Restart(g) PROVE AInv'
  <2>1. ~be'.asked /\ NoKeyInv'
    BY <1>4, BeSeesCloseKeeps DEF Restart, NoKeyInv, FreshNode
  <2>2. QED
    BY <1>4, <2>1, EndAgrees DEF Restart
<1>5. QED
  BY <1>1, <1>2, <1>3, <1>4

LEMMA BeAnswersAgrees == IInv /\ AInv /\ BeAnswers => AInv'
<1> SUFFICES ASSUME IInv, AInv, BeAnswers PROVE AInv'
  OBVIOUS
<1>1. /\ be.asked /\ ws = "open" /\ wire = {} /\ ~node.connected /\ ~be.session.live
      /\ node.enc = NoKey
      /\ UNCHANGED <<ws, node, commands, handled>>
  BY DEF BeAnswers, IInv, InboxInv, ConnectedMeansSealed, AInv, WireInv, NoKeyInv
<1>2. CASE /\ Put(Identified)
           /\ be' = [asked |-> FALSE,
                     session |-> [NoSession EXCEPT !.key = node.nonce, !.live = TRUE]]
  <2>1. /\ be'.session.key = node.nonce /\ be'.session.live /\ ~be'.asked
        /\ be'.session.seqTx = 0 /\ be'.session.seqRx = 0
    BY <1>2 DEF NoSession
  <2>2. wire' = wire \cup {Identified} /\ \A i \in DOMAIN inbox' : inbox'[i] \in wire'
    BY <1>2, PutInInbox DEF Put, AInv
  <2>3. WireInv'
    BY <1>1, <2>1, <2>2 DEF WireInv, Identified
  <2>4. LiveInv'
    BY <1>1, <2>1, Numbered DEF LiveInv, AInv, HandledInv, NoKey
  <2>5. QED
    BY <1>1, <2>3, <2>4 DEF AInv, HandledInv, NoKeyInv
<1>3. CASE be' = [be EXCEPT !.asked = FALSE] /\ Put(WithoutNonce)
  <2>1. be'.session = be.session /\ ~be'.asked
    BY <1>3, Numbered
  <2>2. wire' = wire \cup {WithoutNonce} /\ \A i \in DOMAIN inbox' : inbox'[i] \in wire'
    BY <1>3, PutInInbox DEF Put, AInv
  <2>3. WireInv'
    <3>1. \A f \in wire' : f.type = "no enonce"
      <4>1. wire' = {WithoutNonce}
        BY <1>1, <2>2
      <4>2. WithoutNonce.type = "no enonce"
        BY DEF WithoutNonce
      <4>3. QED
        BY <4>1, <4>2
    <3>2. QED
      BY <1>1, <2>1, <2>2, <3>1 DEF WireInv
  <2>4. QED
    BY <1>1, <2>1, <2>3 DEF AInv, HandledInv, NoKeyInv, LiveInv
<1>4. CASE be' = [be EXCEPT !.asked = FALSE] /\ UNCHANGED <<inbox, wire, faults>>
  <2>1. be'.session = be.session /\ ~be'.asked
    BY <1>4, Numbered
  <2>2. QED
    BY <1>1, <1>4, <2>1 DEF AInv, WireInv, HandledInv, NoKeyInv, LiveInv
<1>5. QED
  BY <1>2, <1>3, <1>4 DEF BeAnswers

LEMMA BeReapsAgrees == IInv /\ AInv /\ BeReaps => AInv'
<1> SUFFICES ASSUME IInv, AInv, BeReaps PROVE AInv'
  OBVIOUS
<1>1. /\ ~be.session.live /\ ~be'.session.live /\ be'.asked = be.asked
      /\ UNCHANGED <<ws, node, inbox, wire, commands, handled>>
  BY Numbered DEF BeReaps, NoSession, hist
<1>2. QED
  BY <1>1 DEF AInv, WireInv, HandledInv, NoKeyInv, LiveInv

LEMMA BeCommandsAgrees == IInv /\ AInv /\ BeCommands => AInv'
<1> SUFFICES ASSUME IInv, AInv, BeCommands PROVE AInv'
  OBVIOUS
<1> DEFINE f == Command(be.session.seqTx)
<1>1. /\ be.session.live /\ ws = "open" /\ ~be.asked
      /\ commands' = commands + 1 /\ wire' = wire \cup {f}
      /\ UNCHANGED <<ws, node, handled>>
  BY DEF BeCommands, IInv, InboxInv, AInv, WireInv, Put
<1>2. /\ be'.session.live /\ ~be'.asked /\ be'.session.key = be.session.key
      /\ be'.session.seqTx = be.session.seqTx + 1 /\ be'.session.seqRx = be.session.seqRx
  BY <1>1, Numbered DEF BeCommands, Sessions
<1>3. f.type = "command" /\ f.seq = be.session.seqTx /\ f.id = commands + 1
  BY DEF Command
<1>4. \A i \in DOMAIN inbox' : inbox'[i] \in wire'
  BY <1>1, PutInInbox DEF BeCommands, Put, AInv
<1> HIDE DEF f
<1>5. WireInv'
  <2>1. ASSUME NEW g \in wire', g.type = "command"
        PROVE  g.seq < be'.session.seqTx /\ g.id + be'.session.seqTx = g.seq + 1 + commands'
    <3>1. CASE g = f
      BY <1>1, <1>2, <1>3, <3>1, Numbered
    <3>2. CASE g \in wire
      <4>1. g.seq < be.session.seqTx /\ g.id + be.session.seqTx = g.seq + 1 + commands
        BY <1>1, <2>1, <3>2 DEF AInv, WireInv
      <4>2. g.seq \in Nat /\ g.id \in Nat /\ be.session.seqTx \in Nat /\ commands \in Nat
        BY <3>2, Numbered
      <4>3. QED
        BY <1>1, <1>2, <4>1, <4>2
    <3>3. QED
      BY <1>1, <3>1, <3>2
  <2>2. QED
    BY <1>1, <1>2, <1>4, <2>1 DEF WireInv
<1>6. LiveInv'
  <2>1. \A i \in DOMAIN handled : handled[i] \in Nat
    BY DEF AInv, HandledInv
  <2>2. /\ be.session.seqTx \in Nat /\ node.enc.seqRx \in Nat /\ commands \in Nat
    BY Numbered
  <2>3. /\ be.session.key = node.nonce /\ be.session.seqRx = node.enc.seqTx
        /\ node.enc.seqRx <= be.session.seqTx
        /\ \A i \in DOMAIN handled : handled[i] + be.session.seqTx <= commands + node.enc.seqRx
    BY <1>1 DEF AInv, LiveInv
  <2>4. node.enc.seqRx <= be'.session.seqTx
    BY <1>2, <2>2, <2>3
  <2>5. \A i \in DOMAIN handled : handled[i] + be'.session.seqTx <= commands' + node.enc.seqRx
    BY <1>1, <1>2, <2>1, <2>2, <2>3
  <2>6. QED
    BY <1>1, <1>2, <2>3, <2>4, <2>5 DEF LiveInv
<1>7. HandledInv'
  BY <1>1, Numbered DEF AInv, HandledInv
<1>8. QED
  BY <1>1, <1>5, <1>6, <1>7 DEF AInv, NoKeyInv

LEMMA ComesTwiceAgrees == IInv /\ AInv /\ ComesTwice => AInv'
<1> SUFFICES ASSUME IInv, AInv, ComesTwice PROVE AInv'
  OBVIOUS
<1>1. PICK f \in wire : inbox' = Append(inbox, f)
  BY DEF ComesTwice
<1>2. \A i \in DOMAIN inbox' : inbox'[i] \in wire
  BY <1>1, PutInInbox DEF AInv
<1>3. QED
  BY <1>2, NetworkAgrees DEF ComesTwice, hist

LEMMA ParseFailsAgrees == IInv /\ AInv /\ ParseFails => AInv'
BY RestOfInbox, NetworkAgrees DEF ParseFails, hist, AInv

LEMMA DropAgrees == IInv /\ AInv /\ inbox # <<>> /\ Drop => AInv'
BY RestOfInbox, NetworkAgrees DEF Drop, hist, AInv

\* The answer is taken once, by a node without a key, whose counts are those of the
\* session the answer speaks of.
LEMMA ReceiveTextAgrees == IInv /\ AInv /\ ReceiveText => AInv'
<1> SUFFICES ASSUME IInv, AInv, ReceiveText PROVE AInv'
  OBVIOUS
<1>1. inbox # <<>>
  BY DEF ReceiveText
<1>2. CASE DropsText(node.enc) /\ Drop
  BY <1>1, <1>2, DropAgrees
<1>3. CASE /\ ~DropsText(node.enc) /\ Head(inbox).type = "identified"
           /\ node' = [node EXCEPT !.enc = Derive(node.nonce), !.connected = TRUE,
                                   !.armed = FALSE, !.tries = 0]
           /\ inbox' = Tail(inbox) /\ UNCHANGED <<ws, be, faults, commands, hist>>
  <2>1. /\ Head(inbox) \in wire /\ ws = "open" /\ ~be.asked /\ be.session.live
        /\ \A i \in DOMAIN inbox' : inbox'[i] \in wire
        /\ node.enc = NoKey /\ node.nonce \in Nonces
    BY <1>1, <1>3, RestOfInbox DEF AInv, WireInv, NoKeyInv, DropsText, IInv, SealedInv
  <2>2. /\ node'.nonce = node.nonce /\ node'.connected
        /\ node'.enc.seqTx = 0 /\ node'.enc.seqRx = 0 /\ Active(node'.enc)
    BY <1>3, <2>1, Numbered DEF Nodes, Derive, NoKey, Active, None, Nonces
  <2>3. WireInv'
    BY <1>3, <2>1 DEF AInv, WireInv, hist
  <2>4. LiveInv'
    BY <1>3, <2>1, <2>2 DEF AInv, LiveInv, NoKey, hist
  <2>5. QED
    BY <1>3, <2>2, <2>3, <2>4 DEF AInv, HandledInv, NoKeyInv, hist
<1>4. CASE Disconnect(node) /\ UNCHANGED <<faults, commands, sealed, reused, handled>>
  BY <1>4, Numbered, DisconnectAgrees
<1>5. QED
  BY <1>2, <1>3, <1>4 DEF ReceiveText

\* A command opened and handled is newer than all those handled before.
LEMMA OneMoreHandled ==
  ASSUME HandledInv, NEW n \in Nat, handled' = Append(handled, n), commands' = commands,
         NEW q \in Nat, NEW tx \in Nat, NEW rx \in Nat, commands \in Nat,
         n + tx = q + 1 + commands, q >= rx, n <= commands,
         \A i \in DOMAIN handled : handled[i] + tx <= commands + rx
  PROVE  /\ \A i \in DOMAIN handled' : handled'[i] + tx <= commands + (q + 1)
         /\ HandledInv'
<1>1. /\ handled' \in Seq(Nat) /\ DOMAIN handled' = 1..Len(handled) + 1
      /\ Len(handled) \in Nat /\ DOMAIN handled = 1..Len(handled)
      /\ handled'[Len(handled) + 1] = n
      /\ \A i \in 1..Len(handled) : handled'[i] = handled[i] /\ handled[i] \in Nat
  BY DEF HandledInv
<1>2. ASSUME NEW i \in 1..Len(handled)
      PROVE  /\ handled'[i] < n /\ handled'[i] <= commands
             /\ handled'[i] + tx <= commands + (q + 1)
  <2>1. handled'[i] = handled[i] /\ handled[i] \in Nat /\ handled[i] <= commands
        /\ handled[i] + tx <= commands + rx
    BY <1>1 DEF HandledInv
  <2>2. handled[i] + tx < n + tx
    BY <2>1
  <2>3. QED
    BY <2>1, <2>2
<1>3. \A i \in DOMAIN handled' : /\ handled'[i] <= commands
                                 /\ handled'[i] + tx <= commands + (q + 1)
  <2>1. handled'[Len(handled) + 1] + tx <= commands + (q + 1)
    BY <1>1
  <2>2. QED
    BY <1>1, <1>2, <2>1
<1>4. ASSUME NEW i \in DOMAIN handled', NEW j \in DOMAIN handled', i < j
      PROVE  handled'[i] < handled'[j]
  <2>1. i \in 1..Len(handled)
    BY <1>1, <1>4
  <2>2. CASE j = Len(handled) + 1
    BY <1>1, <1>2, <2>1, <2>2
  <2>3. CASE j \in 1..Len(handled)
    BY <1>1, <1>4, <2>1, <2>3 DEF HandledInv
  <2>4. QED
    BY <1>1, <2>2, <2>3
<1>5. QED
  BY <1>1, <1>3, <1>4 DEF HandledInv

\* A command is handled with a number not below the node's: its id is above all ids
\* handled before it.
LEMMA ReceiveBinAgrees == IInv /\ AInv /\ ReceiveBin => AInv'
<1> SUFFICES ASSUME IInv, AInv, ReceiveBin PROVE AInv'
  OBVIOUS
<1>1. inbox # <<>> /\ Head(inbox).type = "command"
  BY DEF ReceiveBin
<1>2. CASE Drop
  BY <1>1, <1>2, DropAgrees
<1>3. CASE /\ Active(node.enc) /\ Opens(node.enc, Head(inbox))
           /\ node' = [node EXCEPT !.enc = Opened(@, Head(inbox))]
           /\ inbox' = Tail(inbox)
           /\ handled' = Append(handled, Head(inbox).id) \/ UNCHANGED handled
           /\ UNCHANGED <<ws, be, commands, wire, sealed, reused>>
  <2> DEFINE f == Head(inbox)
  <2>1. /\ f \in wire /\ ws = "open" /\ ~be.asked /\ be.session.live
        /\ \A i \in DOMAIN inbox' : inbox'[i] \in wire
        /\ f.seq < be.session.seqTx /\ f.id + be.session.seqTx = f.seq + 1 + commands
    BY <1>1, <1>3, RestOfInbox DEF AInv, WireInv
  <2>2. f.seq >= node.enc.seqRx /\ f.seq \in Nat /\ f.id \in Nat
    BY <1>3, <2>1, Numbered DEF Opens, Newer
  <2> HIDE DEF f
  <2>3. /\ node'.nonce = node.nonce /\ node'.connected = node.connected
        /\ node'.enc.seqTx = node.enc.seqTx /\ node'.enc.seqRx = f.seq + 1
        /\ node'.enc.key = node.enc.key
    <3>1. node'.enc = [node.enc EXCEPT !.seqRx = f.seq + 1]
      BY <1>3, Numbered DEF Opened, Nodes, f
    <3>2. QED
      BY <1>3, <3>1, Numbered DEF Nodes, Keys
  <2>4. \A i \in DOMAIN handled : /\ handled[i] \in Nat /\ handled[i] <= commands
                                   /\ handled[i] + be.session.seqTx <= commands + node.enc.seqRx
    BY <2>1 DEF AInv, LiveInv, HandledInv
  <2>5. f.id <= commands /\ f.seq + 1 <= be.session.seqTx
    BY <2>1, <2>2, Numbered
  <2>6. /\ \A i \in DOMAIN handled' : handled'[i] + be.session.seqTx <= commands + (f.seq + 1)
        /\ HandledInv'
    <3>1. CASE UNCHANGED handled
      <4>1. commands \in Nat /\ be.session.seqTx \in Nat /\ node.enc.seqRx \in Nat
        BY Numbered
      <4>2. ASSUME NEW i \in DOMAIN handled
            PROVE  handled[i] + be.session.seqTx <= commands + (f.seq + 1)
        BY <2>2, <2>4, <4>1
      <4>3. QED
        BY <1>3, <3>1, <4>2 DEF AInv, HandledInv
    <3>2. CASE handled' = Append(handled, f.id)
      BY <1>3, <2>1, <2>2, <2>4, <2>5, <3>2, Numbered, OneMoreHandled DEF AInv
    <3>3. QED
      BY <1>3, <3>1, <3>2 DEF f
  <2>7. WireInv'
    BY <1>3, <2>1, <2>3 DEF AInv, WireInv
  <2>8. LiveInv'
    BY <1>3, <2>1, <2>3, <2>5, <2>6 DEF AInv, LiveInv
  <2>9. QED
    BY <1>3, <2>3, <2>6, <2>7, <2>8 DEF AInv, NoKeyInv, Active
<1>4. CASE Disconnect(node) /\ UNCHANGED <<faults, commands, sealed, reused, handled>>
  BY <1>4, Numbered, DisconnectAgrees
<1>5. QED
  BY <1>2, <1>3, <1>4 DEF ReceiveBin

LEMMA SendAgrees == IInv /\ AInv /\ Send => AInv'
<1> SUFFICES ASSUME IInv, AInv, Send PROVE AInv'
  OBVIOUS
<1>1. Active(node.enc) /\ UNCHANGED <<ws, inbox, wire, commands, handled>>
  BY DEF Send, IInv, ConnectedMeansSealed
<1>2. /\ node'.nonce = node.nonce /\ node'.connected = node.connected
      /\ node'.enc.key = node.enc.key /\ node'.enc.seqTx = node.enc.seqTx + 1
      /\ node'.enc.seqRx = node.enc.seqRx
  <2>1. node'.enc = [node.enc EXCEPT !.seqTx = node.enc.seqTx + 1]
    BY Numbered DEF Send, Sealed, Nodes
  <2>2. QED
    BY <2>1, Numbered DEF Send, Nodes, Keys
<1>3. /\ be'.asked = be.asked /\ be'.session.live = be.session.live
      /\ be'.session.key = be.session.key /\ be'.session.seqTx = be.session.seqTx
      /\ ws = "open" => be'.session.seqRx = node.enc.seqTx + 1
  BY Numbered DEF Send, Sessions
<1>4. WireInv'
  BY <1>1, <1>2, <1>3 DEF AInv, WireInv
<1>5. LiveInv'
  BY <1>1, <1>2, <1>3 DEF AInv, LiveInv
<1>6. QED
  BY <1>1, <1>2, <1>4, <1>5 DEF AInv, HandledInv, NoKeyInv, Active

LEMMA NextAInv == IInv /\ AInv /\ [Next]_vars => AInv'
<1> SUFFICES ASSUME IInv, AInv, [Next]_vars PROVE AInv'
  OBVIOUS
<1>1. CASE UNCHANGED vars
  BY <1>1 DEF vars, hist, AInv, WireInv, LiveInv, HandledInv, NoKeyInv, Active
<1>2. CASE Next
  BY <1>2, ConnectedAgrees, EndingsAgree, BeAnswersAgrees, BeReapsAgrees, BeCommandsAgrees,
     ComesTwiceAgrees, ParseFailsAgrees, ReceiveTextAgrees, ReceiveBinAgrees, SendAgrees
     DEF Next, Receive
<1>3. QED
  BY <1>1, <1>2

\* On a working socket the node and the BE agree on key and numbers, and the node handles
\* the BE's commands in their order, each at most once, over any number of connections
\* (property SessionsAgree; ws_enc_open, on_identified, the BE's session as external).
THEOREM SessionsInStep == Spec => []SessionsAgree
<1>1. IInv /\ AInv => SessionsAgree
  BY DEF IInv, AInv, WireInv, LiveInv, HandledInv, SealedInv, ConnectedMeansSealed, SessionsAgree
<1>2. Spec => []AInv
  BY InitAInv, NextAInv, SpecIInv, PTL DEF Spec
<1>3. QED
  BY <1>1, <1>2, SpecIInv, PTL

-----------------------------------------------------------------------------
(***************************************************************************)
(* The webhook's events.                                                   *)
(***************************************************************************)
AllJobs == HiLoad \cup LoLoad \cup {NiJob}
Mine == "integration"

\* Jobs of others everywhere, and the batch's job in the lo queue.
JobsInv == WorkerOK(AllJobs) /\ hiQ \in Seq(HiLoad) /\ inflight \in BOOLEAN

\* The ring holds the newest events without a gap.
Indices == /\ qHead \in Cell /\ qTail \in Cell /\ qCount \in 0 .. NiQueueSize
           /\ pushed \in 0 .. MaxEvents /\ qCount <= pushed
HeadInv == qHead = (qTail + qCount) % NiQueueSize
Cells == queue \in [Cell -> [ev : 0 .. MaxEvents, pending : BOOLEAN]]
EventsInv == \A k \in 1 .. qCount :
             queue[LiveCell(k)] = [ev |-> pushed - qCount + k, pending |-> TRUE]
RingInv == Indices /\ HeadInv /\ Cells /\ EventsInv

\* The events before those of the ring: each is with the worker, or was posted, has
\* failed or is lost; and what was posted is older than what waits to be.
Rising(q) == \A k, l \in DOMAIN q : k < l => q[k] < q[l]
PutOff == \E k \in ResultsOf(Mine) : resQ[k].deferred
Split(S, b, p, f, l) ==
  /\ S = b \cup p \cup f \cup l
  /\ b \cap p = {} /\ b \cap f = {} /\ b \cap l = {}
  /\ p \cap f = {} /\ p \cap l = {} /\ f \cap l = {}
AccountInv ==
  /\ posted \in Seq(Nat) /\ Rising(posted)
  /\ batch \in Seq(Nat) /\ Rising(batch)
  /\ Split(1 .. pushed - qCount, InBatch, InRange(posted), failed, lost)
  /\ JobQueued => \A x \in InRange(posted), y \in InRange(batch) : x < y

BatchInv == InflightMatchesJob /\ BatchKeptForJob /\ AccountInv

NiIInv == JobsInv /\ RingInv /\ BatchInv

-----------------------------------------------------------------------------
(***************************************************************************)
(* The ring.                                                               *)
(***************************************************************************)
LEMMA NiWrap ==
  ASSUME NEW a \in Cell, NEW b \in 0 .. NiQueueSize
  PROVE  (a + b) % NiQueueSize = IF a + b < NiQueueSize THEN a + b ELSE a + b - NiQueueSize
<1> USE NiAssumption DEF Cell
<1>1. CASE a + b < NiQueueSize
  BY <1>1
<1>2. CASE a + b >= NiQueueSize
  BY <1>2
<1>3. QED
  BY <1>1, <1>2

\* Where the k-th oldest event is, with the oldest at t.
LEMMA CellOf ==
  ASSUME NEW t \in Cell, NEW k \in 1 .. NiQueueSize
  PROVE  /\ (t + k - 1) % NiQueueSize
              = IF t + k <= NiQueueSize THEN t + k - 1 ELSE t + k - 1 - NiQueueSize
         /\ (t + k - 1) % NiQueueSize \in Cell
<1> DEFINE N == NiQueueSize
<1>1. N \in Nat \ {0} /\ t \in 0 .. N - 1 /\ k \in 1 .. N
  BY NiAssumption DEF Cell
<1>2. k - 1 \in 0 .. N /\ t + k - 1 = t + (k - 1)
  BY <1>1
<1>3. (t + (k - 1)) % N = IF t + (k - 1) < N THEN t + (k - 1) ELSE t + (k - 1) - N
  BY <1>2, NiWrap
<1>4. (t + (k - 1) < N) <=> (t + k <= N)
  BY <1>1
<1>5. (t + k - 1) % N = IF t + k <= N THEN t + k - 1 ELSE t + k - 1 - N
  BY <1>2, <1>3, <1>4
<1>6. QED
  BY <1>1, <1>5 DEF Cell

\* build_batch writes all events of the ring, from the oldest to the newest.
LEMMA PendingIs ==
  ASSUME RingInv
  PROVE  /\ PendingEvents \in Seq(Nat) /\ Len(PendingEvents) = qCount
         /\ \A n \in 1 .. qCount : PendingEvents[n] = pushed - qCount + n
         /\ Rising(PendingEvents)
         /\ InRange(PendingEvents) = pushed - qCount + 1 .. pushed
<1>1. qCount \in Nat /\ pushed \in Nat /\ qCount <= pushed
  BY NiAssumption DEF RingInv, Indices
<1>2. Waiting = 1 .. qCount
  <2>1. ASSUME NEW k \in 1 .. qCount PROVE queue[LiveCell(k)].pending
    <3>1. queue[LiveCell(k)] = [ev |-> pushed - qCount + k, pending |-> TRUE]
      BY DEF RingInv, EventsInv
    <3>2. QED
      BY <3>1
  <2>2. QED
    BY <2>1 DEF Waiting
<1>3. \A w \in 0 .. qCount : Cardinality(1 .. w) = w
  BY <1>1, FS_Interval
<1>4. Cardinality(Waiting) = qCount
  BY <1>1, <1>2, <1>3
<1>5. ASSUME NEW n \in 1 .. qCount
      PROVE  (CHOOSE w \in Waiting : Cardinality({i \in Waiting : i <= w}) = n) = n
  <2>1. \A w \in Waiting : {i \in Waiting : i <= w} = 1 .. w
    BY <1>1, <1>2
  <2>2. \A w \in Waiting : Cardinality({i \in Waiting : i <= w}) = w
    <3>1. \A w \in Waiting : Cardinality(1 .. w) = w
      BY <1>1, <1>2, <1>3
    <3>2. QED
      BY <2>1, <3>1
  <2>3. n \in Waiting
    BY <1>2
  <2>4. QED
    BY <2>2, <2>3
<1>6. PendingEvents = [n \in 1 .. qCount |-> pushed - qCount + n]
  <2>1. ASSUME NEW n \in 1 .. qCount
        PROVE  queue[LiveCell(CHOOSE w \in Waiting : Cardinality({i \in Waiting : i <= w}) = n)].ev
                 = pushed - qCount + n
    <3>1. queue[LiveCell(n)] = [ev |-> pushed - qCount + n, pending |-> TRUE]
      BY DEF RingInv, EventsInv
    <3>2. queue[LiveCell(n)].ev = pushed - qCount + n
      BY <3>1
    <3>3. QED
      BY <1>5, <3>2
  <2>2. QED
    BY <1>4, <2>1 DEF PendingEvents
<1>7. \A n \in 1 .. qCount : pushed - qCount + n \in Nat
  BY <1>1
<1>8. /\ PendingEvents \in Seq(Nat) /\ Len(PendingEvents) = qCount
      /\ DOMAIN PendingEvents = 1 .. qCount
      /\ \A n \in 1 .. qCount : PendingEvents[n] = pushed - qCount + n
  BY <1>1, <1>6, <1>7
<1>9. Rising(PendingEvents)
  BY <1>1, <1>8 DEF Rising
<1>10. InRange(PendingEvents) = pushed - qCount + 1 .. pushed
  <2>1. \A x \in pushed - qCount + 1 .. pushed :
          x - (pushed - qCount) \in 1 .. qCount /\ x = pushed - qCount + (x - (pushed - qCount))
    BY <1>1
  <2>2. \A n \in 1 .. qCount : pushed - qCount + n \in pushed - qCount + 1 .. pushed
    BY <1>1
  <2>3. QED
    BY <1>8, <2>1, <2>2 DEF InRange
<1>11. QED
  BY <1>8, <1>9, <1>10

\* A push behind the newest event; of a full ring it takes the oldest event's cell.
LEMMA PushKeepsRing ==
  ASSUME RingInv, pushed < MaxEvents,
         pushed' = pushed + 1,
         queue' = [queue EXCEPT ![qHead] = [ev |-> pushed', pending |-> TRUE]],
         qHead' = Next1(qHead),
         IF RingFull THEN qTail' = TailAfterDrop /\ qCount' = qCount
         ELSE qCount' = qCount + 1 /\ qTail' = qTail
  PROVE  RingInv' /\ (RingFull => queue[qTail].ev = pushed - qCount + 1)
<1> DEFINE N == NiQueueSize
<1>1. /\ N \in Nat \ {0} /\ MaxEvents \in Nat
      /\ qTail \in 0 .. N - 1 /\ qHead \in 0 .. N - 1 /\ qCount \in 0 .. N
      /\ pushed \in Nat /\ qCount <= pushed
  BY NiAssumption DEF RingInv, Indices, Cell
<1>2. qHead = IF qTail + qCount < N THEN qTail + qCount ELSE qTail + qCount - N
  BY <1>1, NiWrap DEF RingInv, HeadInv, Cell
<1>3. qHead' = IF qHead + 1 < N THEN qHead + 1 ELSE qHead + 1 - N
  BY <1>1, NiWrap DEF Next1, Cell
<1>4. qTail' = IF ~RingFull THEN qTail ELSE IF qTail + 1 < N THEN qTail + 1 ELSE qTail + 1 - N
  <2>1. (qTail + 1) % N = IF qTail + 1 < N THEN qTail + 1 ELSE qTail + 1 - N
    BY <1>1, NiWrap DEF Cell
  <2>2. QED
    BY <2>1 DEF TailAfterDrop, Next1
<1>5. RingFull <=> qCount = N
  BY <1>1 DEF RingFull
<1>6. /\ qHead' \in 0 .. N - 1 /\ qTail' \in 0 .. N - 1 /\ qCount' \in 0 .. N
      /\ pushed' \in 0 .. MaxEvents /\ qCount' <= pushed'
  BY <1>1, <1>3, <1>4, <1>5
<1>7. qHead' = (qTail' + qCount') % N
  <2>1. (qTail' + qCount') % N = IF qTail' + qCount' < N THEN qTail' + qCount'
                                 ELSE qTail' + qCount' - N
    BY <1>6, NiWrap DEF Cell
  <2>2. qHead' = IF qTail' + qCount' < N THEN qTail' + qCount' ELSE qTail' + qCount' - N
    BY <1>1, <1>2, <1>3, <1>4, <1>5
  <2>3. QED
    BY <2>1, <2>2
<1>8. /\ queue' \in [Cell -> [ev : 0 .. MaxEvents, pending : BOOLEAN]]
      /\ \A i \in Cell : queue'[i] = IF i = qHead THEN [ev |-> pushed', pending |-> TRUE] ELSE queue[i]
  <2>1. [ev |-> pushed', pending |-> TRUE] \in [ev : 0 .. MaxEvents, pending : BOOLEAN]
    BY <1>6
  <2>2. queue \in [Cell -> [ev : 0 .. MaxEvents, pending : BOOLEAN]] /\ qHead \in Cell
    BY DEF RingInv, Indices, Cells
  <2>3. QED
    BY <2>1, <2>2
<1>9. ASSUME NEW k \in 1 .. qCount'
      PROVE  queue'[LiveCell(k)'] = [ev |-> pushed' - qCount' + k, pending |-> TRUE]
  <2>1. k \in 1 .. N /\ k <= qCount' /\ qCount' \in Nat
    BY <1>1, <1>6
  <2>2. LiveCell(k)' = (IF qTail' + k <= N THEN qTail' + k - 1 ELSE qTail' + k - 1 - N)
        /\ LiveCell(k)' \in Cell
    BY <1>6, <2>1, CellOf DEF Cell, LiveCell
  <2>3. CASE k = qCount'
    <3>1. LiveCell(k)' = qHead
      <4>1. CASE RingFull
        BY <1>1, <1>2, <1>4, <1>5, <2>1, <2>2, <2>3, <4>1
      <4>2. CASE ~RingFull
        BY <1>1, <1>2, <1>4, <1>5, <2>1, <2>2, <2>3, <4>2
      <4>3. QED
        BY <4>1, <4>2
    <3>2. pushed' - qCount' + k = pushed'
      <4>1. pushed' \in Int /\ qCount' \in Int
        BY <1>1, <2>1
      <4>2. QED
        BY <2>3, <4>1
    <3>3. QED
      BY <1>8, <2>2, <3>1, <3>2
  <2>4. CASE k # qCount'
    <3> DEFINE m == IF RingFull THEN k + 1 ELSE k
    <3>1. m \in 1 .. qCount /\ m \in 1 .. N /\ pushed - qCount + m = pushed' - qCount' + k
      <4>1. CASE RingFull
        BY <1>1, <1>5, <2>1, <2>4, <4>1
      <4>2. CASE ~RingFull
        BY <1>1, <1>5, <2>1, <2>4, <4>2
      <4>3. QED
        BY <4>1, <4>2
    <3>2. LiveCell(m) = IF qTail + m <= N THEN qTail + m - 1 ELSE qTail + m - 1 - N
      BY <1>1, <3>1, CellOf DEF Cell, LiveCell
    <3>3. LiveCell(k)' = LiveCell(m)
      BY <1>1, <1>4, <1>5, <2>1, <2>2, <3>2
    <3>4. LiveCell(m) # qHead
      BY <1>1, <1>2, <1>4, <1>5, <2>1, <2>4, <3>1, <3>2
    <3>5. queue[LiveCell(m)] = [ev |-> pushed - qCount + m, pending |-> TRUE]
      BY <3>1 DEF RingInv, EventsInv
    <3>6. QED
      BY <1>8, <2>2, <3>1, <3>3, <3>4, <3>5
  <2>5. QED
    BY <2>3, <2>4
<1>11. RingInv'
  <2>1. Indices'
    BY <1>6 DEF Indices, Cell
  <2>2. HeadInv' /\ Cells'
    BY <1>7, <1>8 DEF HeadInv, Cells
  <2>3. EventsInv'
    BY <1>9 DEF EventsInv
  <2>4. QED
    BY <2>1, <2>2, <2>3 DEF RingInv
<1>12. ASSUME RingFull PROVE queue[qTail].ev = pushed - qCount + 1
  <2>1. 1 \in 1 .. qCount /\ 1 \in 1 .. N
    BY <1>1, <1>5, <1>12
  <2>2. LiveCell(1) = qTail
    BY <1>1, <2>1, CellOf DEF Cell, LiveCell
  <2>3. queue[LiveCell(1)] = [ev |-> pushed - qCount + 1, pending |-> TRUE]
    BY <2>1 DEF RingInv, EventsInv
  <2>4. QED
    BY <2>2, <2>3
<1>13. QED
  BY <1>11, <1>12

\* The batched events leave: all of them.
LEMMA DrainKeepsRing ==
  ASSUME RingInv, Drain(qCount), UNCHANGED pushed
  PROVE  RingInv' /\ qCount' = 0
<1> DEFINE N == NiQueueSize
<1>1. /\ N \in Nat \ {0}
      /\ qTail \in 0 .. N - 1 /\ qHead \in Cell /\ qCount \in 0 .. N
      /\ pushed \in 0 .. MaxEvents /\ pushed \in Nat
      /\ queue \in [Cell -> [ev : 0 .. MaxEvents, pending : BOOLEAN]]
  BY NiAssumption DEF RingInv, Indices, Cells, Cell
<1>2. qCount' = 0
  BY <1>1 DEF Drain
<1>3. qTail' = qHead /\ qHead' = qHead
  BY DEF Drain, RingInv, HeadInv
<1>4. qHead' = (qTail' + qCount') % N
  <2>1. (qTail' + 0) % N = IF qTail' + 0 < N THEN qTail' + 0 ELSE qTail' + 0 - N
    BY <1>1, <1>3, NiWrap
  <2>2. qTail' \in 0 .. N - 1
    BY <1>1, <1>3 DEF Cell
  <2>3. QED
    BY <1>1, <1>2, <1>3, <2>1, <2>2
<1>5. queue' \in [Cell -> [ev : 0 .. MaxEvents, pending : BOOLEAN]]
  <2>1. \A i \in Cell : /\ queue[i] \in [ev : 0 .. MaxEvents, pending : BOOLEAN]
                        /\ [queue[i] EXCEPT !.pending = FALSE] \in [ev : 0 .. MaxEvents, pending : BOOLEAN]
    BY <1>1
  <2>2. QED
    BY <2>1 DEF Drain
<1>6. Indices'
  BY <1>1, <1>2, <1>3 DEF Indices, Cell
<1>7. EventsInv'
  BY <1>2 DEF EventsInv
<1>8. QED
  BY <1>2, <1>4, <1>5, <1>6, <1>7 DEF RingInv, HeadInv, Cells

-----------------------------------------------------------------------------
(***************************************************************************)
(* The batch and its job.                                                  *)
(***************************************************************************)
LEMMA NiKinds ==
  /\ NiJob \in AllJobs /\ NiJob.src = Mine
  /\ HiLoad \cup LoLoad \subseteq AllJobs
  /\ \A j \in HiLoad \cup LoLoad : j.src # Mine
  /\ \A j \in AllJobs : j.src = Mine => j = NiJob
  /\ \A r \in Outcomes(NiJob) : ~r.deferred => Ran(r)
<1>1. NiJob.src = Mine /\ ~Guarded(NiJob)
  BY DEF NiJob, Mine, Guarded
<1>2. \A j \in HiLoad \cup LoLoad : j.src # Mine
  BY NiAssumption DEF Mine
<1>3. ASSUME NEW r \in Outcomes(NiJob), ~r.deferred PROVE Ran(r)
  <2>1. r \in Attempts(NiJob) \/ r = NoMemory(NiJob)
    BY <1>1, <1>3 DEF Outcomes
  <2>2. CASE r \in Attempts(NiJob)
    BY <1>3, <2>2 DEF Attempts, Result, Ran
  <2>3. CASE r = NoMemory(NiJob)
    BY <1>3, <2>3 DEF NoMemory, Result
  <2>4. QED
    BY <2>1, <2>2, <2>3
<1>4. QED
  BY <1>1, <1>2, <1>3 DEF AllJobs

LEMMA QueuedIs == JobQueued <=> QueueJobs(loQ, Mine) # {}
BY DEF JobQueued, QueueJobs, Mine

LEMMA NoHiJob ==
  ASSUME NEW q \in Seq(HiLoad)
  PROVE  QueueJobs(q, Mine) = {} /\ QueueFlights(q, Mine) = 0
<1>1. JobsOf(q, Mine) = {}
  BY NiKinds DEF JobsOf
<1>2. QED
  BY <1>1, FS_EmptySet DEF QueueJobs, QueueFlights

\* While _inflight is set the batch's job waits or its result does, not both.
LEMMA Where ==
  ASSUME JobsInv, InflightMatchesJob
  PROVE  /\ inflight <=> JobQueued \/ ResultsOf(Mine) # {}
         /\ ~(JobQueued /\ ResultsOf(Mine) # {})
<1>1. Flights(Mine) = QueueFlights(hiQ, Mine) + QueueFlights(loQ, Mine) + ResultFlights(resQ, Mine)
  BY FlightsAre
<1>2. QueueFlights(hiQ, Mine) = 0
  BY NoHiJob DEF JobsInv
<1>3. QueueFlights(loQ, Mine) \in Nat /\ (QueueFlights(loQ, Mine) = 0 <=> ~JobQueued)
  BY FlightsFinite, NoFlights, QueuedIs DEF JobsInv, WorkerOK
<1>4. ResultFlights(resQ, Mine) \in {0, 1} /\ (ResultFlights(resQ, Mine) = 0 <=> ResultsOf(Mine) = {})
  <2>1. ResultJobs(resQ, Mine) = {} <=> ResultsOf(Mine) = {}
    BY DEF ResultJobs, ResultPlaces, ResultsOf
  <2>2. QED
    BY <2>1, ResultsCounted DEF JobsInv
<1>5. Flights(Mine) = IF inflight THEN 1 ELSE 0
  BY DEF InflightMatchesJob, Mine
<1>6. QED
  BY <1>1, <1>2, <1>3, <1>4, <1>5

\* A batch is with the worker until its job is taken, or its result that puts it off is.
LEMMA BatchIs ==
  /\ InBatch = IF JobQueued \/ PutOff THEN InRange(batch) ELSE {}
  /\ InBatch' = IF JobQueued' \/ PutOff' THEN InRange(batch') ELSE {}
BY DEF InBatch, PutOff, Mine, InRange

\* Steps that leave the events, the batch and its job where they are.
LEMMA BatchKept ==
  ASSUME NiIInv, JobsInv', UNCHANGED <<ringVars, batch, inflight, ghosts>>,
         Flights(Mine)' = Flights(Mine), JobQueued' <=> JobQueued,
         PutOff' <=> PutOff
  PROVE  NiIInv'
<1>1. RingInv'
  BY DEF NiIInv, RingInv, Indices, HeadInv, Cells, EventsInv, LiveCell, ringVars, ghosts
<1>2. InflightMatchesJob' /\ BatchKeptForJob'
  BY DEF NiIInv, BatchInv, InflightMatchesJob, BatchKeptForJob, ghosts, Mine
<1>3. AccountInv'
  <2>1. InBatch' = InBatch /\ InRange(posted)' = InRange(posted) /\ InRange(batch)' = InRange(batch)
    BY BatchIs DEF InRange, ghosts
  <2>2. Split(1 .. pushed - qCount, InBatch, InRange(posted), failed, lost)'
    BY <2>1 DEF NiIInv, BatchInv, AccountInv, Split, ringVars, ghosts
  <2>3. QED
    BY <2>1, <2>2 DEF NiIInv, BatchInv, AccountInv, Rising, ghosts
<1>4. QED
  BY <1>1, <1>2, <1>3 DEF NiIInv, BatchInv

\* No ring of the worker changes.
LEMMA RingsStay ==
  ASSUME NiIInv, UNCHANGED <<hiQ, loQ, resQ>>, at' = at \/ (resQ = <<>> /\ at' \in {"front", "poll"})
  PROVE  /\ WorkerOK(AllJobs)' /\ hiQ' \in Seq(HiLoad) /\ Flights(Mine)' = Flights(Mine)
         /\ JobQueued' <=> JobQueued
         /\ ResultsOf(Mine)' = ResultsOf(Mine) /\ (PutOff' <=> PutOff)
<1>1. WorkerOK(AllJobs)' /\ Flights(Mine)' = Flights(Mine)
  BY RingsKept DEF NiIInv, JobsInv
<1>2. QED
  BY <1>1 DEF NiIInv, JobsInv, JobQueued, PutOff, ResultsOf

\* The jobs of the others leave the batch's job alone.
LEMMA OthersLeaveJob ==
  ASSUME NiIInv, OthersEnqueue(HiLoad, LoLoad)
  PROVE  /\ hiQ' \in Seq(HiLoad) /\ Len(hiQ') <= JobQDepth
         /\ loQ' \in Seq(AllJobs) /\ Len(loQ') <= JobQDepth
         /\ QueueFlights(loQ', Mine) = QueueFlights(loQ, Mine)
         /\ JobQueued' <=> JobQueued
<1>1. hiQ \in Seq(HiLoad) /\ loQ \in Seq(AllJobs)
  BY DEF NiIInv, JobsInv, WorkerOK
<1>2. /\ Len(hiQ') <= JobQDepth
      /\ loQ' \in Seq(AllJobs) /\ Len(loQ') <= JobQDepth
      /\ QueueFlights(hiQ', Mine) + QueueFlights(loQ', Mine)
           = QueueFlights(hiQ, Mine) + QueueFlights(loQ, Mine)
      /\ QueueJobs(hiQ', Mine) \cup QueueJobs(loQ', Mine) = QueueJobs(hiQ, Mine) \cup QueueJobs(loQ, Mine)
  BY NiKinds, OthersCount DEF NiIInv, JobsInv
<1>3. hiQ' \in Seq(HiLoad)
  <2>1. CASE \E j \in HiLoad : EnqueueHi(j)
    BY <1>1, <2>1 DEF EnqueueHi, Pushed
  <2>2. CASE \E j \in LoLoad : EnqueueLo(j)
    BY <1>1, <2>2 DEF EnqueueLo
  <2>3. QED
    BY <2>1, <2>2 DEF OthersEnqueue
<1>4. /\ QueueJobs(hiQ, Mine) = {} /\ QueueFlights(hiQ, Mine) = 0
      /\ QueueJobs(hiQ', Mine) = {} /\ QueueFlights(hiQ', Mine) = 0
  BY <1>1, <1>3, NoHiJob
<1>5. QueueFlights(loQ', Mine) \in Nat /\ QueueFlights(loQ, Mine) \in Nat
  BY <1>1, <1>2, FlightsFinite
<1>6. JobQueued' <=> QueueJobs(loQ', Mine) # {}
  BY DEF JobQueued, QueueJobs, Mine
<1>7. QED
  BY <1>2, <1>3, <1>4, <1>5, <1>6, QueuedIs

-----------------------------------------------------------------------------
(***************************************************************************)
(* The steps, one lemma each.                                              *)
(***************************************************************************)
LEMMA NiStart == NiInit => NiIInv
<1> SUFFICES ASSUME NiInit PROVE NiIInv
  OBVIOUS
<1>1. hiQ = <<>> /\ loQ = <<>> /\ resQ = <<>> /\ at = "front"
  BY DEF NiInit, WorkerInit
<1>2. JobsInv
  <2>1. WorkerOK(AllJobs) /\ hiQ \in Seq(HiLoad)
    BY <1>1, DepthAssumption DEF WorkerOK
  <2>2. inflight = FALSE
    BY DEF NiInit
  <2>3. QED
    BY <2>1, <2>2 DEF JobsInv
<1>3. RingInv
  <2>1. /\ NiQueueSize \in Nat \ {0} /\ MaxEvents \in Nat
        /\ qHead = 0 /\ qTail = 0 /\ qCount = 0 /\ pushed = 0
        /\ queue = [i \in Cell |-> [ev |-> 0, pending |-> FALSE]]
    BY NiAssumption DEF NiInit
  <2>2. Indices
    BY <2>1 DEF Indices, Cell
  <2>3. HeadInv
    <3>1. (0 + 0) % NiQueueSize = 0
      BY <2>1, NiWrap DEF Cell
    <3>2. QED
      BY <2>1, <3>1 DEF HeadInv
  <2>4. Cells
    BY <2>1 DEF Cells
  <2>5. EventsInv
    BY <2>1 DEF EventsInv
  <2>6. QED
    BY <2>2, <2>3, <2>4, <2>5 DEF RingInv
<1>4. ResultsOf(Mine) = {} /\ JobsOf(loQ, Mine) = {} /\ JobsOf(hiQ, Mine) = {}
  BY <1>1 DEF ResultsOf, JobsOf
<1>5. Flights(Mine) = 0
  BY <1>4, FS_EmptySet DEF Flights
<1>6. InflightMatchesJob /\ BatchKeptForJob
  BY <1>4, <1>5 DEF InflightMatchesJob, BatchKeptForJob, JobQueued, NiInit, Mine
<1>7. AccountInv
  <2>1. posted = <<>> /\ batch = <<>> /\ failed = {} /\ lost = {} /\ pushed = 0 /\ qCount = 0
    BY DEF NiInit
  <2>2. ~JobQueued /\ InBatch = {} /\ InRange(posted) = {}
    BY <1>4, <2>1 DEF InBatch, InRange, JobQueued, Mine
  <2>3. QED
    BY <2>1, <2>2 DEF AccountInv, Rising, Split
<1>8. QED
  BY <1>2, <1>3, <1>6, <1>7 DEF NiIInv, BatchInv

LEMMA SetUrlKeeps ==
  ASSUME NiIInv, NEW on, SetUrl(on)
  PROVE  NiIInv'
<1>1. UNCHANGED <<hiQ, loQ, resQ>> /\ at' = at
  BY DEF SetUrl, InHandler, queueVars
<1>2. UNCHANGED <<ringVars, batch, inflight, ghosts>>
  BY DEF SetUrl, BatchAfterUrl
<1>3. JobsInv'
  BY <1>1, <1>2, RingsStay DEF NiIInv, JobsInv
<1>4. QED
  BY <1>1, <1>2, <1>3, RingsStay, BatchKept

LEMMA FlushDueKeeps ==
  ASSUME NiIInv, FlushDue
  PROVE  NiIInv'
<1>1. UNCHANGED <<hiQ, loQ, resQ>> /\ at' = at
  BY DEF FlushDue, workerVars
<1>2. UNCHANGED <<ringVars, batch, inflight, ghosts>>
  BY DEF FlushDue
<1>3. JobsInv'
  BY <1>1, <1>2, RingsStay DEF NiIInv, JobsInv
<1>4. QED
  BY <1>1, <1>2, <1>3, RingsStay, BatchKept

LEMMA OthersSubmitKeeps ==
  ASSUME NiIInv, OthersSubmit(HiLoad, LoLoad), UNCHANGED niVars
  PROVE  NiIInv'
<1>1. resQ' = resQ /\ at' = at /\ OthersEnqueue(HiLoad, LoLoad)
  BY DEF OthersSubmit, InHandler
<1>2. UNCHANGED <<ringVars, batch, inflight, ghosts>>
  BY DEF niVars
<1>3. /\ hiQ' \in Seq(HiLoad) /\ Len(hiQ') <= JobQDepth
      /\ loQ' \in Seq(AllJobs) /\ Len(loQ') <= JobQDepth
      /\ QueueFlights(loQ', Mine) = QueueFlights(loQ, Mine)
      /\ JobQueued' <=> JobQueued
  BY <1>1, OthersLeaveJob
<1>4. JobsInv'
  <2>1. hiQ' \in Seq(AllJobs)
    BY <1>3, NiKinds
  <2>2. QED
    BY <1>1, <1>2, <1>3, <2>1 DEF NiIInv, JobsInv, WorkerOK
<1>5. Flights(Mine)' = Flights(Mine)
  <2>1. QueueFlights(hiQ', Mine) = 0 /\ QueueFlights(hiQ, Mine) = 0
    BY <1>3, NoHiJob DEF NiIInv, JobsInv
  <2>2. Flights(Mine)' = QueueFlights(hiQ', Mine) + QueueFlights(loQ', Mine) + ResultFlights(resQ', Mine)
    BY DEF Flights, QueueFlights, ResultFlights, ResultPlaces, ResultsOf
  <2>3. QED
    BY <1>1, <1>3, <2>1, <2>2, FlightsAre
<1>6. PutOff' <=> PutOff
  BY <1>1 DEF PutOff, ResultsOf
<1>7. QED
  BY <1>2, <1>3, <1>4, <1>5, <1>6, BatchKept

LEMMA OthersHandleKeeps ==
  ASSUME NiIInv, OthersHandle(HiLoad, LoLoad), UNCHANGED niVars
  PROVE  NiIInv'
<1>1. PICK j \in HiLoad \cup LoLoad : \E r \in Outcomes(j) :
        Poll(r) /\ (UNCHANGED queueVars \/ OthersEnqueue(HiLoad, LoLoad))
  BY DEF OthersHandle
<1>2. PICK r \in Outcomes(j) :
        Poll(r) /\ (UNCHANGED queueVars \/ OthersEnqueue(HiLoad, LoLoad))
  BY <1>1
<1>3. r.job = j /\ One(r.job, Mine) = 0
  BY <1>2, OutcomeOf, NiKinds DEF One
<1>4. UNCHANGED <<ringVars, batch, inflight, ghosts>>
  BY DEF niVars
<1>5. /\ hiQ' \in Seq(HiLoad) /\ Len(hiQ') <= JobQDepth
      /\ loQ' \in Seq(AllJobs) /\ Len(loQ') <= JobQDepth
      /\ QueueFlights(loQ', Mine) = QueueFlights(loQ, Mine)
      /\ JobQueued' <=> JobQueued
  <2>1. CASE UNCHANGED queueVars
    BY <2>1 DEF queueVars, NiIInv, JobsInv, WorkerOK, JobQueued
  <2>2. CASE OthersEnqueue(HiLoad, LoLoad)
    BY <2>2, OthersLeaveJob
  <2>3. QED
    BY <1>2, <2>1, <2>2
<1>6. hiQ' \in Seq(AllJobs)
  BY <1>5, NiKinds
<1>7. /\ WorkerOK(AllJobs)'
      /\ Flights(Mine) = QueueFlights(hiQ, Mine) + QueueFlights(loQ, Mine) + One(r.job, Mine)
      /\ Flights(Mine)' = QueueFlights(hiQ', Mine) + QueueFlights(loQ', Mine)
  BY <1>2, <1>5, <1>6, PollCounts DEF NiIInv, JobsInv
<1>8. JobsInv'
  BY <1>4, <1>5, <1>7 DEF NiIInv, JobsInv
<1>9. Flights(Mine)' = Flights(Mine)
  <2>1. QueueFlights(hiQ', Mine) = 0 /\ QueueFlights(hiQ, Mine) = 0
    BY <1>5, NoHiJob DEF NiIInv, JobsInv
  <2>2. QueueFlights(loQ, Mine) \in Nat
    BY FlightsFinite DEF NiIInv, JobsInv, WorkerOK
  <2>3. QED
    BY <1>3, <1>5, <1>7, <2>1, <2>2
<1>10. ~PutOff' /\ ~PutOff
  <2>1. resQ = <<r>> /\ resQ' = <<>>
    BY <1>2, PollGives DEF NiIInv, JobsInv
  <2>2. r.job.src # Mine
    BY <1>3, NiKinds
  <2>3. QED
    BY <2>1, <2>2 DEF PutOff, ResultsOf
<1>11. QED
  BY <1>4, <1>5, <1>8, <1>9, <1>10, BatchKept

\* The result of the batch ends its flight: its events were posted or are given up.
LEMMA NiOnResultKeeps ==
  ASSUME NiIInv, NEW r, OnResult(r)
  PROVE  NiIInv'
<1>1. Poll(r) /\ UNCHANGED queueVars /\ r.job.src = Mine
  BY DEF OnResult, Mine
<1>2. /\ WorkerOK(AllJobs)' /\ Flights(Mine) = Flights(Mine)' + One(r.job, Mine)
  BY <1>1, PollOnly DEF NiIInv, JobsInv
<1>3. resQ = <<r>> /\ resQ' = <<>>
  BY <1>1, PollGives DEF NiIInv, JobsInv
<1>4. 1 \in ResultsOf(Mine) /\ resQ[1] = r
  BY <1>1, <1>3 DEF ResultsOf
<1>5. inflight /\ ~JobQueued
  BY <1>4, Where DEF NiIInv, BatchInv
<1>6. Flights(Mine)' = 0
  <2>1. Flights(Mine) = 1
    BY <1>5 DEF NiIInv, BatchInv, InflightMatchesJob, Mine
  <2>2. Flights(Mine)' \in Nat /\ One(r.job, Mine) = 1
    BY <1>1, <1>2, FlightsTypeNext DEF One
  <2>3. QED
    BY <1>2, <2>1, <2>2
<1>7. ~JobQueued' /\ ResultsOf(Mine)' = {} /\ inflight' = FALSE
  BY <1>1, <1>3, <1>5 DEF JobQueued, queueVars, ResultsOf, OnResult, StaysInflight
<1>8. JobsInv' /\ InflightMatchesJob' /\ BatchKeptForJob'
  BY <1>1, <1>2, <1>6, <1>7 DEF NiIInv, JobsInv, InflightMatchesJob, BatchKeptForJob, queueVars, Mine
<1>9. RingInv'
  BY DEF OnResult, NiIInv, RingInv, Indices, HeadInv, Cells, EventsInv, LiveCell, ringVars
<1>10. AccountInv'
  <2>1. /\ posted \in Seq(Nat) /\ Rising(posted) /\ batch \in Seq(Nat) /\ Rising(batch)
        /\ Split(1 .. pushed - qCount, InBatch, InRange(posted), failed, lost)
    BY DEF NiIInv, BatchInv, AccountInv
  <2>2. UNCHANGED <<posted, failed, batch, pushed, qCount>>
    BY DEF OnResult, ringVars
  <2>3. lost' = IF r.deferred THEN lost \cup InRange(batch) ELSE lost
    BY DEF OnResult
  <2>4. PutOff <=> r.deferred
    BY <1>3, <1>4 DEF PutOff, ResultsOf
  <2>5. InBatch = (IF r.deferred THEN InRange(batch) ELSE {}) /\ InBatch' = {}
    BY <1>5, <1>7, <2>4, BatchIs DEF PutOff
  <2>6. InRange(posted)' = InRange(posted)
    BY <2>2 DEF InRange
  <2>7. Split(1 .. pushed - qCount, InBatch, InRange(posted), failed, lost)'
    <3>1. CASE r.deferred
      BY <2>1, <2>2, <2>3, <2>5, <2>6, <3>1 DEF Split
    <3>2. CASE ~r.deferred
      BY <2>1, <2>2, <2>3, <2>5, <2>6, <3>2 DEF Split
    <3>3. QED
      BY <3>1, <3>2
  <2>8. QED
    BY <1>7, <2>1, <2>2, <2>7 DEF AccountInv, Rising
<1>11. QED
  BY <1>8, <1>9, <1>10 DEF NiIInv, BatchInv

\* A push leaves the batch alone; what it overwrites is given up.
LEMMA NiPushKeeps ==
  ASSUME NiIInv, PushEvent
  PROVE  NiIInv'
<1>1. UNCHANGED <<hiQ, loQ, resQ>> /\ at' = at
      /\ UNCHANGED <<batch, inflight, posted, failed, queuedBatch>>
  BY DEF PushEvent, InHandler, queueVars
<1>2. /\ JobsInv' /\ Flights(Mine)' = Flights(Mine) /\ (JobQueued' <=> JobQueued)
      /\ (PutOff' <=> PutOff)
  BY <1>1, RingsStay DEF NiIInv, JobsInv
<1>3. CASE ~st'
  <2>1. UNCHANGED <<ringVars, batch, inflight, ghosts>>
    BY <1>1, <1>3 DEF PushEvent, ghosts
  <2>2. QED
    BY <1>1, <1>2, <2>1, BatchKept
<1>4. CASE st'
  <2>1. /\ pushed < MaxEvents /\ pushed' = pushed + 1
        /\ queue' = [queue EXCEPT ![qHead] = [ev |-> pushed', pending |-> TRUE]]
        /\ qHead' = Next1(qHead)
        /\ IF RingFull THEN qTail' = TailAfterDrop /\ qCount' = qCount
           ELSE qCount' = qCount + 1 /\ qTail' = qTail
        /\ lost' = IF RingFull THEN lost \cup {queue[qTail].ev} ELSE lost
    BY <1>4 DEF PushEvent
  <2>2. RingInv' /\ (RingFull => queue[qTail].ev = pushed - qCount + 1)
    BY <2>1, PushKeepsRing DEF NiIInv
  <2>3. InflightMatchesJob' /\ BatchKeptForJob'
    BY <1>1, <1>2 DEF NiIInv, BatchInv, InflightMatchesJob, BatchKeptForJob, Mine
  <2>4. /\ pushed \in Nat /\ qCount \in Nat /\ qCount <= pushed
        /\ Split(1 .. pushed - qCount, InBatch, InRange(posted), failed, lost)
    BY NiAssumption DEF NiIInv, RingInv, Indices, BatchInv, AccountInv
  <2>5. InBatch' = InBatch /\ InRange(posted)' = InRange(posted) /\ failed' = failed
    BY <1>1, <1>2, BatchIs DEF InRange
  <2>6. Split(1 .. pushed - qCount, InBatch, InRange(posted), failed, lost)'
    <3>1. CASE RingFull
      <4>1. pushed' - qCount' = (pushed - qCount) + 1 /\ pushed - qCount \in Nat
        BY <2>1, <2>4, <3>1
      <4>2. /\ 1 .. pushed' - qCount' = (1 .. pushed - qCount) \cup {pushed - qCount + 1}
            /\ pushed - qCount + 1 \notin 1 .. pushed - qCount
        BY <4>1
      <4>3. lost' = lost \cup {pushed - qCount + 1}
        BY <2>1, <2>2, <3>1
      <4>4. QED
        BY <2>4, <2>5, <4>2, <4>3 DEF Split
    <3>2. CASE ~RingFull
      <4>1. pushed' - qCount' = pushed - qCount /\ lost' = lost
        BY <2>1, <2>4, <3>2
      <4>2. QED
        BY <2>4, <2>5, <4>1 DEF Split
    <3>3. QED
      BY <3>1, <3>2
  <2>8. AccountInv'
    BY <1>1, <1>2, <2>6 DEF NiIInv, BatchInv, AccountInv, Rising, InRange
  <2>9. QED
    BY <1>2, <2>2, <2>3, <2>8 DEF NiIInv, BatchInv
<1>5. QED
  BY <1>3, <1>4

\* With no batch at the worker the buffer may be written; the events leave the ring
\* only with a job that was taken.
LEMMA NiUpdateKeeps ==
  ASSUME NiIInv, Update
  PROVE  NiIInv'
<1>1. InHandler /\ ~inflight /\ qCount # 0 /\ UNCHANGED <<pushed, posted, failed, lost>>
  BY DEF Update, MayFlush
<1>2. ~JobQueued /\ ResultsOf(Mine) = {} /\ Flights(Mine) = 0
  BY <1>1, Where DEF NiIInv, BatchInv, InflightMatchesJob, Mine
<1>3. resQ' = resQ /\ at' = at
  BY <1>1 DEF InHandler
<1>4. ~PutOff' /\ ~PutOff
  BY <1>2, <1>3 DEF PutOff, ResultsOf
<1>5. /\ posted \in Seq(Nat) /\ Rising(posted) /\ InRange(posted)' = InRange(posted)
      /\ Split(1 .. pushed - qCount, {}, InRange(posted), failed, lost)
      /\ pushed \in Nat /\ qCount \in Nat /\ qCount <= pushed
  <2>1. InBatch = {}
    BY <1>2, <1>4, BatchIs
  <2>2. QED
    BY <1>1, <2>1, NiAssumption DEF NiIInv, BatchInv, AccountInv, RingInv, Indices, InRange
<1>6. ASSUME UNCHANGED <<hiQ, loQ, ringVars>>, inflight' = FALSE,
             batch' = <<>> \/ batch' = PendingEvents
      PROVE  NiIInv'
  <2>1. /\ JobsInv' /\ Flights(Mine)' = 0 /\ ~JobQueued'
    BY <1>2, <1>3, <1>6, RingsStay DEF NiIInv, JobsInv
  <2>2. InflightMatchesJob' /\ BatchKeptForJob'
    BY <1>6, <2>1 DEF InflightMatchesJob, BatchKeptForJob, Mine
  <2>3. RingInv'
    BY <1>1, <1>6 DEF NiIInv, RingInv, Indices, HeadInv, Cells, EventsInv, LiveCell, ringVars
  <2>4. batch' \in Seq(Nat) /\ Rising(batch')
    <3>1. CASE batch' = <<>>
      BY <3>1 DEF Rising
    <3>2. CASE batch' = PendingEvents
      BY <3>2, PendingIs DEF NiIInv, Rising
    <3>3. QED
      BY <1>6, <3>1, <3>2
  <2>5. AccountInv'
    <3>1. InBatch' = {}
      BY <1>4, <2>1, BatchIs
    <3>2. QED
      BY <1>1, <1>5, <1>6, <2>1, <2>4, <3>1 DEF AccountInv, Split, Rising, ringVars
  <2>6. QED
    BY <2>1, <2>2, <2>3, <2>5 DEF NiIInv, BatchInv
<1>7. ASSUME CanEnqueueLo, EnqueueLo(NiJob), inflight' = TRUE, batch' = PendingEvents,
             queuedBatch' = batch', Drain(qCount)
      PROVE  NiIInv'
  <2>1. /\ WorkerOK(AllJobs)' /\ Flights(Mine)' = Flights(Mine) + One(NiJob, Mine)
    BY <1>1, <1>7, NiKinds, HandlerPush DEF NiIInv, JobsInv
  <2>2. One(NiJob, Mine) = 1
    BY NiKinds DEF One
  <2>3. JobsInv' /\ InflightMatchesJob'
    BY <1>2, <1>7, <2>1, <2>2 DEF NiIInv, JobsInv, EnqueueLo, InflightMatchesJob, Mine
  <2>4. RingInv' /\ qCount' = 0
    BY <1>1, <1>7, DrainKeepsRing DEF NiIInv
  <2>5. /\ batch' \in Seq(Nat) /\ Rising(batch') /\ Len(batch') = qCount
        /\ InRange(batch') = pushed - qCount + 1 .. pushed
    BY <1>7, PendingIs DEF NiIInv
  <2>6. BatchKeptForJob'
    <3>1. batch' # <<>>
      BY <1>1, <2>5
    <3>2. QED
      BY <1>7, <3>1 DEF BatchKeptForJob
  <2>7. Split(1 .. pushed - qCount, InBatch, InRange(posted), failed, lost)'
    <3>1. 1 .. pushed' - qCount' = (1 .. pushed - qCount) \cup (pushed - qCount + 1 .. pushed)
      BY <1>1, <1>5, <2>4
    <3>2. (1 .. pushed - qCount) \cap (pushed - qCount + 1 .. pushed) = {}
      BY <1>5
    <3>3. JobQueued'
      <4>1. loQ' = Append(loQ, NiJob) /\ loQ \in Seq(AllJobs)
        BY <1>7 DEF EnqueueLo, Pushed, CanEnqueueLo, NiIInv, JobsInv, WorkerOK
      <4>2. Len(loQ) + 1 \in DOMAIN loQ' /\ loQ'[Len(loQ) + 1] = NiJob
        BY <4>1
      <4>3. QED
        BY <4>2, NiKinds DEF JobQueued, JobsOf, Mine
    <3>4. InBatch' = pushed - qCount + 1 .. pushed
      BY <2>5, <3>3, BatchIs
    <3>5. QED
      BY <1>1, <1>5, <3>1, <3>2, <3>4 DEF Split
  <2>8. \A x \in InRange(posted), y \in InRange(batch') : x < y
    <3>1. \A x \in 1 .. pushed - qCount, y \in pushed - qCount + 1 .. pushed : x < y
      BY <1>5
    <3>2. InRange(posted) \subseteq 1 .. pushed - qCount
      BY <1>5 DEF Split
    <3>3. QED
      BY <2>5, <3>1, <3>2
  <2>9. AccountInv'
    BY <1>1, <1>5, <2>5, <2>7, <2>8 DEF AccountInv, Rising, InRange
  <2>10. QED
    BY <2>3, <2>4, <2>6, <2>9 DEF NiIInv, BatchInv
<1>8. CASE /\ batch' = <<>>
           /\ UNCHANGED <<queueVars, ringVars, inflight, queuedBatch>>
  BY <1>1, <1>6, <1>8 DEF queueVars, NiIInv, JobsInv
<1>9. CASE /\ batch' = PendingEvents
           /\ EnqueueLo(NiJob)
           /\ inflight' = CanEnqueueLo
           /\ queuedBatch' = IF CanEnqueueLo THEN batch' ELSE queuedBatch
           /\ IF Drains(~CanEnqueueLo) THEN Drain(Len(PendingEvents)) ELSE UNCHANGED ringVars
  <2>1. CASE CanEnqueueLo
    BY <1>7, <1>9, <2>1, PendingIs DEF Drains, NiIInv
  <2>2. CASE ~CanEnqueueLo
    <3>1. hiQ' = hiQ /\ loQ' = loQ
      BY <1>9, <2>2, EnqueueRefused DEF queueVars
    <3>2. inflight' = FALSE /\ UNCHANGED ringVars
      <4>1. inflight' = CanEnqueueLo /\ CanEnqueueLo \in BOOLEAN
        BY <1>9 DEF CanEnqueueLo, HasRoom
      <4>2. QED
        BY <1>9, <2>2, <4>1 DEF Drains
    <3>3. QED
      BY <1>6, <1>9, <3>1, <3>2
  <2>3. QED
    BY <2>1, <2>2
<1>10. QED
  BY <1>8, <1>9 DEF Update

LEMMA InRangeConcat ==
  ASSUME NEW p \in Seq(Nat), NEW q \in Seq(Nat), Rising(p), Rising(q),
         \A x \in InRange(p), y \in InRange(q) : x < y
  PROVE  p \o q \in Seq(Nat) /\ Rising(p \o q) /\ InRange(p \o q) = InRange(p) \cup InRange(q)
<1> DEFINE m == Len(p)
           n == Len(q)
<1>1. /\ m \in Nat /\ n \in Nat /\ DOMAIN p = 1 .. m /\ DOMAIN q = 1 .. n
      /\ p \o q \in Seq(Nat) /\ DOMAIN (p \o q) = 1 .. m + n
      /\ \A k \in 1 .. m : (p \o q)[k] = p[k]
      /\ \A k \in m + 1 .. m + n : (p \o q)[k] = q[k - m]
  OBVIOUS
<1> HIDE DEF m, n
<1>2. \A k \in 1 .. m + n : \/ k \in 1 .. m /\ (p \o q)[k] = p[k]
                            \/ /\ k \in m + 1 .. m + n /\ k - m \in 1 .. n
                               /\ (p \o q)[k] = q[k - m]
  BY <1>1
<1>3. \A k \in 1 .. n : k + m \in m + 1 .. m + n /\ (k + m) - m = k
  BY <1>1
<1>4. InRange(p \o q) = InRange(p) \cup InRange(q)
  <2>1. \A k \in 1 .. m : k \in 1 .. m + n
    BY <1>1
  <2>2. \A k \in 1 .. n : k + m \in 1 .. m + n /\ (p \o q)[k + m] = q[k]
    BY <1>1, <1>3
  <2>3. ASSUME NEW x \in InRange(p \o q) PROVE x \in InRange(p) \cup InRange(q)
    <3>1. PICK k \in 1 .. m + n : x = (p \o q)[k]
      BY <1>1 DEF InRange
    <3>2. QED
      BY <1>1, <1>2, <3>1 DEF InRange
  <2>4. ASSUME NEW x \in InRange(p) PROVE x \in InRange(p \o q)
    BY <1>1, <2>1 DEF InRange
  <2>5. ASSUME NEW x \in InRange(q) PROVE x \in InRange(p \o q)
    <3>1. PICK k \in 1 .. n : x = q[k]
      BY <1>1 DEF InRange
    <3>2. k + m \in DOMAIN (p \o q) /\ (p \o q)[k + m] = x
      BY <1>1, <2>2, <3>1
    <3>3. QED
      BY <3>2 DEF InRange
  <2>6. QED
    BY <2>3, <2>4, <2>5
<1>5. ASSUME NEW k \in 1 .. m + n, NEW l \in 1 .. m + n, k < l
      PROVE  (p \o q)[k] < (p \o q)[l]
  <2>1. CASE l \in 1 .. m
    <3>1. k \in 1 .. m
      BY <1>1, <1>5, <2>1
    <3>2. QED
      BY <1>1, <1>5, <2>1, <3>1 DEF Rising
  <2>2. CASE k \in m + 1 .. m + n
    <3>1. l \in m + 1 .. m + n /\ k - m \in 1 .. n /\ l - m \in 1 .. n /\ k - m < l - m
      BY <1>1, <1>5, <2>2
    <3>2. QED
      BY <1>1, <2>2, <3>1 DEF Rising
  <2>3. CASE k \in 1 .. m /\ l \in m + 1 .. m + n
    <3>1. l - m \in 1 .. n /\ (p \o q)[l] = q[l - m] /\ (p \o q)[k] = p[k]
      BY <1>1, <2>3
    <3>2. p[k] \in InRange(p) /\ q[l - m] \in InRange(q)
      BY <1>1, <2>3, <3>1 DEF InRange
    <3>3. QED
      BY <3>1, <3>2
  <2>4. QED
    BY <1>1, <2>1, <2>2, <2>3
<1>6. QED
  BY <1>1, <1>4, <1>5 DEF Rising

\* The worker runs a job: the batch is sent with its own events, or tried and failed, or
\* put off.
LEMMA NiRunKeeps ==
  ASSUME NiIInv, NEW r, RunJob(r), r \in Outcomes(r.job),
         posted' = (IF BatchRuns /\ Accepted THEN posted \o batch ELSE posted),
         failed' = (IF BatchRuns /\ ~Accepted THEN failed \cup InRange(batch) ELSE failed),
         UNCHANGED <<ringVars, batch, inflight, pushed, lost, queuedBatch>>
  PROVE  NiIInv'
<1>1. /\ WorkerOK(AllJobs)' /\ resQ' = <<r>> /\ r.job \in AllJobs
      /\ Flights(Mine)' = Flights(Mine)
  BY RunCounts DEF NiIInv, JobsInv
<1>2. Take(r.job) /\ resQ = <<>>
  BY DEF RunJob, NiIInv, JobsInv, WorkerOK
<1>3. QueueJobs(hiQ, Mine) \cup QueueJobs(loQ, Mine)
        = QueueJobs(hiQ', Mine) \cup QueueJobs(loQ', Mine) \cup Own(r.job, Mine)
  BY <1>2, TakeCounts DEF NiIInv, JobsInv
<1>4. hiQ' \in Seq(HiLoad)
  BY <1>2 DEF Take, HiTurn, NiIInv, JobsInv
<1>5. QueueJobs(hiQ, Mine) = {} /\ QueueJobs(hiQ', Mine) = {}
  BY <1>4, NoHiJob DEF NiIInv, JobsInv
<1>6. JobQueued' <=> QueueJobs(loQ', Mine) # {}
  BY DEF JobQueued, QueueJobs, Mine
<1>7. JobsInv'
  BY <1>1, <1>4 DEF NiIInv, JobsInv
<1>8. (BatchRuns <=> r.job = NiJob /\ Ran(r)) /\ Accepted = r.ok
  <2>1. Len(resQ') = 1 /\ Len(resQ) = 0 /\ resQ'[Len(resQ')] = r
    BY <1>1, <1>2
  <2>2. QED
    BY <2>1 DEF BatchRuns, Accepted
<1>9. CASE r.job.src # Mine
  <2>1. posted' = posted /\ failed' = failed
    BY <1>8, <1>9, NiKinds
  <2>2. JobQueued' <=> JobQueued
    BY <1>3, <1>5, <1>6, <1>9, QueuedIs DEF Own
  <2>3. ~PutOff' /\ ~PutOff
    BY <1>1, <1>2, <1>9 DEF PutOff, ResultsOf
  <2>4. QED
    BY <1>1, <1>7, <2>1, <2>2, <2>3, BatchKept DEF ghosts
<1>10. CASE r.job.src = Mine
  <2>1. r.job = NiJob /\ (Ran(r) <=> ~r.deferred)
    BY <1>1, <1>10, NiKinds DEF Ran
  <2>2. JobQueued
    BY <1>3, <1>5, <1>10, QueuedIs DEF Own
  <2>3. inflight /\ Flights(Mine)' = 1
    BY <1>1, <2>2, Where DEF NiIInv, BatchInv, InflightMatchesJob, Mine
  <2>4. ~JobQueued'
    <3>1. Flights(Mine)' = QueueFlights(hiQ', Mine) + QueueFlights(loQ', Mine) + ResultFlights(resQ', Mine)
      BY DEF Flights, QueueFlights, ResultFlights, ResultPlaces, ResultsOf
    <3>2. ResultFlights(resQ', Mine) = 1
      BY <1>1, <1>10, ResultCounts DEF One
    <3>3. /\ QueueFlights(hiQ', Mine) = 0 /\ QueueFlights(loQ', Mine) \in Nat
          /\ (QueueFlights(loQ', Mine) = 0 <=> QueueJobs(loQ', Mine) = {})
      BY <1>1, <1>4, NoHiJob, FlightsFinite, NoFlights DEF WorkerOK
    <3>4. QED
      BY <1>6, <2>3, <3>1, <3>2, <3>3
  <2>5. /\ posted \in Seq(Nat) /\ Rising(posted) /\ batch \in Seq(Nat) /\ Rising(batch)
        /\ Split(1 .. pushed - qCount, InRange(batch), InRange(posted), failed, lost)
        /\ \A x \in InRange(posted), y \in InRange(batch) : x < y
    BY <2>2, BatchIs DEF NiIInv, BatchInv, AccountInv
  <2>6. PutOff' <=> r.deferred
    <3>1. 1 \in ResultsOf(Mine)' /\ \A k \in ResultsOf(Mine)' : resQ'[k] = r
      BY <1>1, <1>10 DEF ResultsOf
    <3>2. QED
      BY <3>1 DEF PutOff
  <2>7. UNCHANGED <<batch, inflight, pushed, lost, qCount, queuedBatch>>
    BY DEF ringVars
  <2>8. InBatch' = IF r.deferred THEN InRange(batch) ELSE {}
    BY <2>4, <2>6, <2>7, BatchIs
  <2>9. /\ posted' \in Seq(Nat) /\ Rising(posted')
        /\ Split(1 .. pushed - qCount, InBatch', InRange(posted'), failed', lost)
    <3>1. CASE r.deferred
      BY <1>8, <2>1, <2>5, <2>8, <3>1
    <3>2. CASE ~r.deferred /\ r.ok
      <4>1. posted' = posted \o batch /\ failed' = failed
        BY <1>8, <2>1, <3>2
      <4>2. /\ posted' \in Seq(Nat) /\ Rising(posted')
            /\ InRange(posted') = InRange(posted) \cup InRange(batch)
        BY <2>5, <4>1, InRangeConcat
      <4>3. QED
        BY <2>5, <2>8, <3>2, <4>1, <4>2 DEF Split
    <3>3. CASE ~r.deferred /\ ~r.ok
      <4>1. posted' = posted /\ failed' = failed \cup InRange(batch)
        BY <1>8, <2>1, <3>3
      <4>2. QED
        BY <2>5, <2>8, <3>3, <4>1 DEF Split
    <3>4. QED
      BY <3>1, <3>2, <3>3
  <2>10. AccountInv'
    <3>1. InRange(batch') = InRange(batch) /\ Rising(batch') /\ batch' \in Seq(Nat)
      BY <2>5, <2>7
    <3>2. Split(1 .. pushed - qCount, InBatch, InRange(posted), failed, lost)'
      BY <2>7, <2>9 DEF Split, InRange
    <3>3. QED
      BY <2>4, <2>9, <3>1, <3>2 DEF AccountInv, Rising, InRange
  <2>11. InflightMatchesJob' /\ BatchKeptForJob'
    BY <2>3, <2>4, <2>7 DEF InflightMatchesJob, BatchKeptForJob, Mine
  <2>12. RingInv'
    BY DEF NiIInv, RingInv, Indices, HeadInv, Cells, EventsInv, LiveCell, ringVars
  <2>13. QED
    BY <1>7, <2>10, <2>11, <2>12 DEF NiIInv, BatchInv
<1>11. QED
  BY <1>9, <1>10

LEMMA NiWorkKeeps ==
  ASSUME NiIInv, Work
  PROVE  NiIInv'
<1>1. UNCHANGED <<ringVars, batch, inflight, pushed, lost, queuedBatch>>
      /\ posted' = (IF BatchRuns /\ Accepted THEN posted \o batch ELSE posted)
      /\ failed' = (IF BatchRuns /\ ~Accepted THEN failed \cup InRange(batch) ELSE failed)
  BY DEF Work
<1>2. CASE RunSomeJob
  <2>1. PICK j \in NextJobs : \E r \in Outcomes(j) : RunJob(r)
    BY <1>2 DEF RunSomeJob
  <2>2. PICK r \in Outcomes(j) : RunJob(r)
    BY <2>1
  <2>3. r \in Outcomes(r.job)
    BY <2>2 DEF RunJob
  <2>4. QED
    BY <1>1, <2>2, <2>3, NiRunKeeps
<1>3. CASE IdleTick \/ EndPoll
  <2>1. UNCHANGED <<hiQ, loQ, resQ>> /\ (at' = at \/ (resQ = <<>> /\ at' \in {"front", "poll"}))
    BY <1>3 DEF IdleTick, EndPoll, PollDone, NiIInv, JobsInv, WorkerOK
  <2>2. posted' = posted /\ failed' = failed
    <3>1. Len(resQ) \in {0, 1}
      BY DEF NiIInv, JobsInv, WorkerOK
    <3>2. ~(Len(resQ') > Len(resQ))
      BY <2>1, <3>1
    <3>3. QED
      BY <1>1, <3>2 DEF BatchRuns
  <2>3. JobsInv'
    BY <1>1, <2>1, RingsStay DEF NiIInv, JobsInv
  <2>4. QED
    BY <1>1, <2>1, <2>2, <2>3, RingsStay, BatchKept DEF ghosts
<1>4. QED
  BY <1>2, <1>3 DEF Work, WorkerStep

LEMMA NiNextKeeps == NiIInv /\ [NiNext]_systemVars => NiIInv'
<1> SUFFICES ASSUME NiIInv, [NiNext]_systemVars PROVE NiIInv'
  OBVIOUS
<1>1. CASE \E on \in BOOLEAN : SetUrl(on)
  BY <1>1, SetUrlKeeps
<1>2. CASE PushEvent
  BY <1>2, NiPushKeeps
<1>3. CASE Update
  BY <1>3, NiUpdateKeeps
<1>4. CASE FlushDue
  BY <1>4, FlushDueKeeps
<1>5. CASE Work
  BY <1>5, NiWorkKeeps
<1>6. CASE \E k \in DOMAIN resQ : OnResult(resQ[k])
  BY <1>6, NiOnResultKeeps
<1>7. CASE OthersHandle(HiLoad, LoLoad) /\ UNCHANGED niVars
  BY <1>7, OthersHandleKeeps
<1>8. CASE OthersSubmit(HiLoad, LoLoad) /\ UNCHANGED niVars
  BY <1>8, OthersSubmitKeeps
<1>9. CASE UNCHANGED systemVars
  <2>1. UNCHANGED <<hiQ, loQ, resQ, at>> /\ UNCHANGED <<ringVars, batch, inflight, ghosts>>
    BY <1>9 DEF systemVars, workerVars, niVars
  <2>2. JobsInv'
    BY <2>1, RingsStay DEF NiIInv, JobsInv
  <2>3. QED
    BY <2>1, <2>2, RingsStay, BatchKept
<1>10. QED
  BY <1>1, <1>2, <1>3, <1>4, <1>5, <1>6, <1>7, <1>8, <1>9 DEF NiNext, Dispatch

LEMMA NiSpecIInv == NiSpec => []NiIInv
BY NiStart, NiNextKeeps, PTL DEF NiSpec

\* Types, and flag, job and buffer in step (property NiInv).
THEOREM NodeIntegrationInv == NiSpec => []NiInv
<1>1. NiIInv => NiInv
  <2> SUFFICES ASSUME NiIInv PROVE NiInv
    OBVIOUS
  <2>1. \A i \in Cell : queue[i].ev \in 0 .. MaxEvents
    BY DEF NiIInv, RingInv, Cells
  <2>2. NiTypeOK
    BY <2>1 DEF NiIInv, RingInv, Indices, HeadInv, NiTypeOK
  <2>3. QED
    BY <2>2 DEF NiIInv, BatchInv, NiInv
<1>2. QED
  BY <1>1, NiSpecIInv, PTL

\* Every event is in exactly one place: none vanishes but for the three reasons the code
\* logs, none is posted twice, given up and posted, or behind a newer one (property
\* EventsAccountedFor).
THEOREM NodeIntegrationAccounts == NiSpec => []EventsAccountedFor
<1>1. NiIInv => EventsAccountedFor
  <2> SUFFICES ASSUME NiIInv PROVE EventsAccountedFor
    OBVIOUS
  <2>1. /\ InRange(PendingEvents) = pushed - qCount + 1 .. pushed
        /\ pushed \in Nat /\ qCount \in Nat /\ qCount <= pushed
    BY PendingIs, NiAssumption DEF NiIInv, RingInv, Indices
  <2>2. /\ 1 .. pushed = (1 .. pushed - qCount) \cup (pushed - qCount + 1 .. pushed)
        /\ (1 .. pushed - qCount) \cap (pushed - qCount + 1 .. pushed) = {}
    BY <2>1
  <2>3. Split(1 .. pushed - qCount, InBatch, InRange(posted), failed, lost) /\ Rising(posted)
    BY DEF NiIInv, BatchInv, AccountInv
  <2> DEFINE W == Whereabouts
  <2>4. /\ DOMAIN W = 1 .. 5 /\ W[1] = InRange(PendingEvents) /\ W[2] = InBatch
        /\ W[3] = InRange(posted) /\ W[4] = failed /\ W[5] = lost
    BY DEF Whereabouts
  <2> HIDE DEF W
  <2>5. /\ 1 .. pushed = W[1] \cup W[2] \cup W[3] \cup W[4] \cup W[5]
        /\ W[1] \cap W[2] = {} /\ W[1] \cap W[3] = {} /\ W[1] \cap W[4] = {} /\ W[1] \cap W[5] = {}
        /\ W[2] \cap W[3] = {} /\ W[2] \cap W[4] = {} /\ W[2] \cap W[5] = {}
        /\ W[3] \cap W[4] = {} /\ W[3] \cap W[5] = {} /\ W[4] \cap W[5] = {}
    BY <2>1, <2>2, <2>3, <2>4 DEF Split
  <2>6. DOMAIN W = {1, 2, 3, 4, 5}
    BY <2>4
  <2>7. 1 .. pushed = UNION {W[p] : p \in DOMAIN W}
    BY <2>5, <2>6
  <2>8. \A p, q \in DOMAIN W : p # q => W[p] \cap W[q] = {}
    BY <2>5, <2>6
  <2>9. QED
    BY <2>3, <2>7, <2>8 DEF W, Rising, EventsAccountedFor
<1>2. QED
  BY <1>1, NiSpecIInv, PTL

(***************************************************************************)
(* The batch sender.  A handler writes a list of entities, one push after  *)
(* the other; what a list of pushes does is proved from what one does, by  *)
(* counting up to its length (CountingUp, PushAllStays).                   *)
(***************************************************************************)
\* What holds of 0 and, with a number, of the next holds up to L.
LEMMA CountingUp ==
  ASSUME NEW L \in Nat, NEW Good, 0 \in Good,
         \A n \in 1 .. L : n - 1 \in Good => n \in Good
  PROVE  \A n \in 0 .. L : n \in Good
<1> DEFINE Bad == {n \in 0 .. L : n \notin Good}
<1>1. SUFFICES ASSUME Bad # {} PROVE FALSE
  OBVIOUS
<1>2. PICK n \in Bad : \A m \in Bad : <<m, n>> \notin OpToRel(<, Nat)
  <2>1. Bad \in SUBSET Nat
    OBVIOUS
  <2> HIDE DEF Bad
  <2>2. QED
    BY <1>1, <2>1, NatLessThanWellFounded, WFMin
<1>3. n \in 1 .. L /\ n - 1 \in 0 .. L /\ n - 1 \in Nat /\ n \in Nat /\ n - 1 < n
  <2>1. n \in 0 .. L /\ n # 0
    OBVIOUS
  <2>2. QED
    BY <2>1
<1>4. n - 1 \notin Bad
  <2>1. n - 1 \in Bad => <<n - 1, n>> \notin OpToRel(<, Nat)
    BY <1>2
  <2>2. <<n - 1, n>> \in {p \in Nat \X Nat : p[1] < p[2]}
    BY <1>3
  <2>3. <<n - 1, n>> \in OpToRel(<, Nat)
    BY <2>2, Zenon DEF OpToRel
  <2>4. QED
    BY <2>1, <2>3
<1>5. n - 1 \in Good
  BY <1>3, <1>4
<1>6. QED
  BY <1>2, <1>3, <1>5

\* What is reached in at most L steps that stay in T.
StepsIn(L, T) == [(1 .. L) \X T -> T]
RunsIn(T, s, L, step) ==
  {g \in [0 .. L -> T] : g[0] = s /\ \A n \in 1 .. L : g[n] = step[<<n, g[n - 1]>>]}

\* A step that stays in T can be taken L times.
LEMMA Iterates ==
  ASSUME NEW T, NEW s \in T, NEW L \in Nat, NEW step \in StepsIn(L, T)
  PROVE  \E g : g \in RunsIn(T, s, L, step)
<1> USE DEF StepsIn
<1> DEFINE Some(n) == {g \in [0 .. n -> T] : g[0] = s /\ \A k \in 1 .. n : g[k] = step[<<k, g[k - 1]>>]}
           Good == {n \in 0 .. L : Some(n) # {}}
<1>1. 0 \in Good
  <2>1. [k \in 0 .. 0 |-> s] \in Some(0)
    OBVIOUS
  <2>2. QED
    BY <2>1
<1>2. ASSUME NEW n \in 1 .. L, n - 1 \in Good PROVE n \in Good
  <2>1. PICK g \in Some(n - 1) : TRUE
    BY <1>2
  <2> DEFINE h == [k \in 0 .. n |-> IF k < n THEN g[k] ELSE step[<<n, g[n - 1]>>]]
  <2>2. g \in [0 .. n - 1 -> T] /\ n - 1 \in 0 .. n - 1
    BY <2>1
  <2>3. step[<<n, g[n - 1]>>] \in T
    BY <2>2
  <2>4. h \in [0 .. n -> T]
    BY <2>2, <2>3
  <2>5. h[0] = s
    BY <2>1
  <2>6. ASSUME NEW k \in 1 .. n PROVE h[k] = step[<<k, h[k - 1]>>]
    <3>1. k - 1 \in 0 .. n /\ k - 1 < n /\ h[k - 1] = g[k - 1]
      OBVIOUS
    <3>2. CASE k = n
      BY <3>1, <3>2
    <3>3. CASE k # n
      <4>1. k \in 1 .. n - 1 /\ k < n
        BY <3>3
      <4>2. QED
        BY <2>1, <3>1, <4>1
    <3>4. QED
      BY <3>2, <3>3
  <2>7. h \in Some(n)
    BY <2>4, <2>5, <2>6
  <2>8. n \in 0 .. L
    OBVIOUS
  <2>9. QED
    BY <2>7, <2>8
<1>3. L \in Good
  <2> HIDE DEF Good
  <2>1. \A n \in 0 .. L : n \in Good
    BY <1>1, <1>2, CountingUp
  <2>2. QED
    BY <2>1
<1>4. QED
  BY <1>3 DEF RunsIn

\* One push after the other stays in every set that each push stays in.
LEMMA PushAllStays ==
  ASSUME NEW T, NEW s \in T, NEW Is, NEW ids \in Seq(Is), NEW natives,
         \A t \in T, id \in Is : Push(t, id, natives) \in T
  PROVE  PushAll(s, ids, natives) \in T
<1> DEFINE L == Len(ids)
           Val(g, n) == IF n = 0 THEN s ELSE Push(g[n - 1], ids[n], natives)
           f == CHOOSE g : g = [n \in 0 .. L |-> Val(g, n)]
           step == [p \in (1 .. L) \X T |-> Push(p[2], ids[p[1]], natives)]
<1>1. L \in Nat /\ \A n \in 1 .. L : ids[n] \in Is
  OBVIOUS
<1> HIDE DEF L
<1>2. step \in StepsIn(L, T)
  BY <1>1 DEF StepsIn
<1>3. PICK g \in [0 .. L -> T] : g[0] = s /\ \A n \in 1 .. L : g[n] = step[<<n, g[n - 1]>>]
  <2> HIDE DEF step
  <2>1. PICK g : g \in RunsIn(T, s, L, step)
    BY <1>1, <1>2, Iterates
  <2>2. QED
    BY <2>1 DEF RunsIn
<1>4. \A n \in 0 .. L : g[n] = Val(g, n)
  <2> TAKE n \in 0 .. L
  <2>1. CASE n = 0
    BY <1>3, <2>1
  <2>2. CASE n # 0
    <3>1. n \in 1 .. L /\ n - 1 \in 0 .. L
      BY <1>1, <2>2
    <3>2. g[n] = step[<<n, g[n - 1]>>] /\ <<n, g[n - 1]>> \in (1 .. L) \X T
      BY <1>3, <3>1
    <3>3. QED
      BY <2>2, <3>2
  <2>3. QED
    BY <2>1, <2>2
<1>5. g = [n \in 0 .. L |-> Val(g, n)]
  BY <1>4
<1>6. f = [n \in 0 .. L |-> Val(f, n)]
  BY <1>5
<1> HIDE DEF f
<1> DEFINE Good == {n \in 0 .. L : f[n] \in T}
<1>7. 0 \in Good
  BY <1>1, <1>6
<1>8. ASSUME NEW n \in 1 .. L, n - 1 \in Good PROVE n \in Good
  <2>1. n \in 0 .. L /\ n # 0
    BY <1>1
  <2>2. f[n] = Push(f[n - 1], ids[n], natives)
    BY <1>6, <2>1
  <2>3. QED
    BY <1>1, <1>8, <2>1, <2>2
<1>9. f[L] \in T
  <2> HIDE DEF Good
  <2>1. \A n \in 0 .. L : n \in Good
    BY <1>1, <1>7, <1>8, CountingUp
  <2>2. QED
    BY <1>1, <2>1 DEF Good
<1>10. PushAll(s, ids, natives) = f[L]
  BY DEF PushAll, L, f
<1>11. QED
  BY <1>9, <1>10

\* What the BE names never overflows the table of natives.
NamedKeys == UNION {{keys[k] : k \in DOMAIN keys} : keys \in NativeLists}
Natives == {n \in SUBSET NamedKeys : IsFiniteSet(n) /\ Cardinality(n) <= NativeMax}

LEMMA WithNativesStays ==
  ASSUME NEW natives \in Natives, NEW keys \in NativeLists
  PROVE  WithNatives(natives, keys) \in Natives
<1> DEFINE L == Len(keys)
           T == Natives
           Val(g, n) == IF n = 0 THEN natives ELSE WithNative(g[n - 1], keys[n])
           f == CHOOSE g : g = [n \in 0 .. L |-> Val(g, n)]
           step == [p \in (1 .. L) \X T |-> WithNative(p[2], keys[p[1]])]
<1>1. L \in Nat /\ DOMAIN keys = 1 .. L
  <2>1. IsList(keys)
    BY SenderAssumption
  <2>2. QED
    BY <2>1 DEF IsList
<1> HIDE DEF L
<1>2. ASSUME NEW n \in 1 .. L, NEW t \in T PROVE WithNative(t, keys[n]) \in T
  <2>1. keys[n] \in NamedKeys
    BY <1>1 DEF NamedKeys
  <2>2. /\ IsFiniteSet(t \cup {keys[n]}) /\ Cardinality(t) \in Nat
        /\ Cardinality(t \cup {keys[n]})
             = IF keys[n] \in t THEN Cardinality(t) ELSE Cardinality(t) + 1
    BY FS_AddElement, FS_CardinalityType DEF Natives
  <2>3. NativeMax \in Nat
    BY StoreAssumption
  <2>4. QED
    BY <2>1, <2>2, <2>3 DEF WithNative, Natives
<1> HIDE DEF T
<1>3. step \in StepsIn(L, T)
  BY <1>2 DEF StepsIn
<1>4. PICK g \in [0 .. L -> T] :
        g[0] = natives /\ \A n \in 1 .. L : g[n] = step[<<n, g[n - 1]>>]
  <2> HIDE DEF step
  <2>1. natives \in T
    BY DEF T
  <2>2. PICK g : g \in RunsIn(T, natives, L, step)
    BY <1>1, <1>3, <2>1, Iterates
  <2>3. QED
    BY <2>2 DEF RunsIn
<1>5. \A n \in 0 .. L : g[n] = Val(g, n)
  <2> TAKE n \in 0 .. L
  <2>1. CASE n = 0
    BY <1>4, <2>1
  <2>2. CASE n # 0
    <3>1. n \in 1 .. L /\ n - 1 \in 0 .. L
      BY <1>1, <2>2
    <3>2. g[n] = step[<<n, g[n - 1]>>] /\ <<n, g[n - 1]>> \in (1 .. L) \X T
      BY <1>4, <3>1
    <3>3. QED
      BY <2>2, <3>2
  <2>3. QED
    BY <2>1, <2>2
<1>6. g = [n \in 0 .. L |-> Val(g, n)]
  BY <1>5
<1>7. f = [n \in 0 .. L |-> Val(f, n)]
  BY <1>6
<1> HIDE DEF f
<1> DEFINE Good == {n \in 0 .. L : f[n] \in T}
<1>8. 0 \in Good
  BY <1>1, <1>7 DEF T
<1>9. ASSUME NEW n \in 1 .. L, n - 1 \in Good PROVE n \in Good
  <2>1. n \in 0 .. L /\ n # 0
    BY <1>1
  <2>2. f[n] = WithNative(f[n - 1], keys[n])
    BY <1>7, <2>1
  <2>3. QED
    BY <1>2, <1>9, <2>1, <2>2
<1>10. f[L] \in T
  <2> HIDE DEF Good
  <2>1. \A n \in 0 .. L : n \in Good
    BY <1>1, <1>8, <1>9, CountingUp
  <2>2. QED
    BY <1>1, <2>1 DEF Good
<1>11. WithNatives(natives, keys) = f[L]
  BY DEF WithNatives, L, f
<1>12. QED
  BY <1>10, <1>11 DEF T

-----------------------------------------------------------------------------
\* The ids anybody writes, and the tables that hold some of them.
WrittenKeys == {id.key : id \in Posted} \cup {Basics[k] : k \in DOMAIN Basics}
                 \cup UNION {{keys[k] : k \in DOMAIN keys} : keys \in Telemetry}
WrittenIds == Posted \cup Foreign
                \cup {Id(prefix, key) : prefix \in {"pub", "mon", "own"}, key \in WrittenKeys}
Prefixed(prefix) == {id \in WrittenIds : id.prefix = prefix}
Entries(I) == [id : I, age : 0 .. AgeMax]
Tables(I, max) == {t \in Seq(Entries(I)) : Len(t) <= max /\ Once(t)}
\* The pool, where ids that were cut off may be there twice.
OnceUncut(t) == \A k, l \in DOMAIN t : t[k].id = t[l].id => k = l \/ t[k].id \in CutIds
PoolIds == WrittenIds \cup CutIds
Pools == {t \in Seq(Entries(PoolIds)) : Len(t) <= PoolMax /\ OnceUncut(t)}
Stores == [pub : Tables(Prefixed("pub"), PubMax), mon : Tables(Prefixed("mon"), MonMax),
           own : Tables(Prefixed("own"), OwnMax), pool : Pools]

LEMMA EntryType == ASSUME NEW I, NEW id, Stored(id) \in I PROVE Entry(id) \in Entries(I)
BY StoreAssumption DEF Entry, Entries

\* The ids of the tables fit, and an id that does not is kept cut off.
LEMMA WhatIsStored ==
  /\ \A prefix \in {"pub", "mon", "own"} : \A id \in Prefixed(prefix) : Stored(id) = id
  /\ \A id \in WrittenIds : id \in PoolIds /\ Stored(id) \in PoolIds
  /\ \A id : Stored(id) = id \/ Stored(id) \in CutIds
<1>1. \A id \in DOMAIN Cut : id.prefix \notin {"pub", "mon", "own"}
  BY CutAssumption, Zenon
<1>2. \A id : Stored(id) = id \/ (id \in DOMAIN Cut /\ Stored(id) \in CutIds)
  BY Zenon DEF Stored, CutIds
<1>3. \A prefix \in {"pub", "mon", "own"} : \A id \in Prefixed(prefix) : id \notin DOMAIN Cut
  BY <1>1, Zenon DEF Prefixed
<1>4. \A id : id \notin DOMAIN Cut => Stored(id) = id
  BY DEF Stored
<1>5. QED
  BY <1>2, <1>3, <1>4, Zenon DEF PoolIds

\* A run of numbers that is not empty has a least one.
LEMMA LeastSlot ==
  ASSUME NEW L \in Nat, NEW S \in SUBSET (1 .. L), S # {}
  PROVE  \E k \in S : \A l \in S : k <= l
<1> DEFINE Least(k) == \A l \in S : k <= l
           Good == {m \in 0 .. L : S \cap (1 .. m) # {} => \E k \in S : Least(k)}
<1>1. 0 \in Good
  OBVIOUS
<1>2. ASSUME NEW m \in 1 .. L, m - 1 \in Good PROVE m \in Good
  <2>1. CASE S \cap (1 .. m - 1) # {}
    BY <1>2, <2>1
  <2>2. CASE S \cap (1 .. m - 1) = {} /\ m \in S
    <3>1. \A l \in S : l \in Nat /\ l \notin 1 .. m - 1 /\ l >= 1
      BY <2>2
    <3>2. Least(m)
      BY <3>1
    <3>3. QED
      BY <2>2, <3>2
  <2>3. CASE S \cap (1 .. m - 1) = {} /\ m \notin S
    <3>1. \A x \in 1 .. m : x \in 1 .. m - 1 \/ x = m
      OBVIOUS
    <3>2. S \cap (1 .. m) = {}
      BY <2>3, <3>1
    <3>3. QED
      BY <3>2
  <2>4. QED
    BY <2>1, <2>2, <2>3
<1>3. L \in Good
  <2> HIDE DEF Good
  <2>1. QED
    BY <1>1, <1>2, CountingUp
<1>4. QED
  BY <1>3

LEMMA SlotFound ==
  ASSUME NEW E, NEW t \in Seq(E), NEW id, Holds(t, id)
  PROVE  SlotOf(t, id) \in DOMAIN t /\ t[SlotOf(t, id)].id = id
<1> DEFINE S == {k \in DOMAIN t : t[k].id = id}
<1>1. Len(t) \in Nat /\ S \in SUBSET (1 .. Len(t)) /\ S # {}
  BY DEF Holds
<1> HIDE DEF S
<1>2. \E k \in S : \A l \in S : k <= l
  BY <1>1, LeastSlot
<1>3. \E k \in DOMAIN t : t[k].id = id /\ \A l \in DOMAIN t : t[l].id = id => k <= l
  BY <1>2 DEF S
<1>4. QED
  BY <1>3 DEF SlotOf

\* Writing an id that is there leaves the table with the same ids.
LEMMA RefreshKeeps ==
  ASSUME NEW I, NEW t \in Seq(Entries(I)), NEW id \in I, Holds(t, id), Stored(id) = id
  PROVE  /\ Refresh(t, id) \in Seq(Entries(I)) /\ Len(Refresh(t, id)) = Len(t)
         /\ DOMAIN Refresh(t, id) = DOMAIN t
         /\ \A k \in DOMAIN t : /\ Refresh(t, id)[k].id = t[k].id
                                /\ Refresh(t, id)[k] = t[k] \/ Refresh(t, id)[k].age = 0
<1> DEFINE r == Refresh(t, id)
           e == Entry(id)
           o == SlotOf(t, id)
<1>1. e \in Entries(I) /\ e.id = id /\ e.age = 0
  BY EntryType DEF Entry
<1>2. o \in DOMAIN t /\ t[o].id = id
  BY SlotFound
<1>3. r = [t EXCEPT ![o] = e]
  BY DEF Refresh
<1> HIDE DEF e, o, r
<1>4. /\ r \in Seq(Entries(I)) /\ Len(r) = Len(t) /\ DOMAIN r = DOMAIN t
      /\ r[o] = e /\ \A k \in DOMAIN t : k # o => r[k] = t[k]
  BY <1>1, <1>2, <1>3
<1>5. \A k \in DOMAIN t : r[k].id = t[k].id /\ (r[k] = t[k] \/ r[k].age = 0)
  BY <1>1, <1>2, <1>4
<1>6. QED
  BY <1>4, <1>5 DEF r

LEMMA AppendKeeps ==
  ASSUME NEW I, NEW max \in Nat, NEW t \in Tables(I, max), NEW id \in I,
         Stored(id) = id, ~Holds(t, id), Len(t) < max
  PROVE  /\ Append(t, Entry(id)) \in Tables(I, max)
         /\ DOMAIN Append(t, Entry(id)) = DOMAIN t \cup {Len(t) + 1}
         /\ \A k \in DOMAIN t : Append(t, Entry(id))[k] = t[k]
         /\ Append(t, Entry(id))[Len(t) + 1] = Entry(id)
<1> DEFINE e == Entry(id)
           r == Append(t, e)
<1>1. t \in Seq(Entries(I)) /\ Len(t) \in Nat /\ Len(t) <= max /\ Once(t) /\ DOMAIN t = 1 .. Len(t)
  BY DEF Tables
<1>2. e \in Entries(I) /\ e.id = id
  BY EntryType DEF Entry
<1> HIDE DEF e
<1>3. r \in Seq(Entries(I)) /\ Len(r) = Len(t) + 1 /\ DOMAIN r = 1 .. Len(t) + 1
  BY <1>1, <1>2
<1>4. (\A k \in 1 .. Len(t) : r[k] = t[k]) /\ r[Len(t) + 1] = e
  BY <1>1, <1>2
<1> HIDE DEF r
<1>5. Once(r)
  <2>1. \A k \in DOMAIN r : k \in 1 .. Len(t) \/ k = Len(t) + 1
    BY <1>1, <1>3
  <2>2. \A k \in 1 .. Len(t) : t[k].id # id
    BY <1>1 DEF Holds
  <2>3. QED
    BY <1>1, <1>2, <1>4, <2>1, <2>2 DEF Once
<1>6. DOMAIN r = DOMAIN t \cup {Len(t) + 1}
  BY <1>1, <1>3
<1>7. QED
  BY <1>1, <1>3, <1>4, <1>5, <1>6 DEF Tables, r, e

\* A table with entries has an oldest one.
LEMMA OldestExists ==
  ASSUME NEW I, NEW max \in Nat, NEW t \in Tables(I, max), Len(t) > 0
  PROVE  /\ OldestSlot(t) \in DOMAIN t
         /\ \A l \in DOMAIN t : t[l].age <= t[OldestSlot(t)].age
<1>1. t \in Seq(Entries(I)) /\ Len(t) \in Nat /\ DOMAIN t = 1 .. Len(t)
  BY DEF Tables
<1> DEFINE n == Len(t)
           a == [k \in 1 .. n |-> t[k].age]
           Before(k, l) == a[k] > a[l] \/ (a[k] = a[l] /\ k <= l)
           Good == {m \in 0 .. n : m = 0 \/ \E k \in 1 .. m : \A l \in 1 .. m : Before(k, l)}
<1>2. \A k \in 1 .. n : a[k] \in Nat
  <2>1. \A k \in 1 .. n : t[k] \in Entries(I)
    BY <1>1
  <2>2. QED
    BY <2>1 DEF Entries
<1>3. n \in Nat
  BY <1>1
<1> HIDE DEF a, n
<1>4. 0 \in Good
  BY <1>3
<1>5. ASSUME NEW m \in 1 .. n, m - 1 \in Good PROVE m \in Good
  <2>1. CASE m = 1
    <3>1. \A l \in 1 .. m : Before(1, l)
      BY <1>2, <1>3, <2>1
    <3>2. 1 \in 1 .. m /\ m \in 0 .. n
      BY <1>3, <2>1
    <3>3. QED
      BY <3>1, <3>2
  <2>2. CASE m # 1
    <3>1. m - 1 \in 1 .. n /\ m \in Nat /\ m \in 0 .. n /\ m - 1 # 0
      BY <1>3, <2>2
    <3>2. PICK k \in 1 .. m - 1 : \A l \in 1 .. m - 1 : Before(k, l)
      BY <1>5, <3>1
    <3>3. \A l \in 1 .. m : l \in 1 .. n /\ (l \in 1 .. m - 1 \/ l = m)
      BY <1>3, <3>1
    <3>4. k \in 1 .. n /\ k \in 1 .. m /\ k < m
      BY <1>3, <3>1
    <3>5. a[k] \in Nat /\ a[m] \in Nat
      BY <1>2, <3>4
    <3>6. CASE a[k] >= a[m]
      <4>1. \A l \in 1 .. m : Before(k, l)
        BY <3>2, <3>3, <3>4, <3>5, <3>6
      <4>2. QED
        BY <3>1, <3>4, <4>1
    <3>7. CASE a[k] < a[m]
      <4>1. ASSUME NEW l \in 1 .. m PROVE Before(m, l)
        <5>1. CASE l = m
          BY <5>1
        <5>2. CASE l \in 1 .. m - 1
          <6>1. Before(k, l) /\ a[l] \in Nat
            BY <1>2, <3>2, <3>3, <5>2
          <6>2. QED
            BY <3>5, <3>7, <6>1
        <5>3. QED
          BY <3>3, <5>1, <5>2
      <4>2. m \in 1 .. m
        BY <3>1
      <4>3. QED
        BY <3>1, <4>1, <4>2
    <3>8. a[k] >= a[m] \/ a[k] < a[m]
      BY <3>5
    <3>9. QED
      BY <3>6, <3>7, <3>8
  <2>3. QED
    BY <2>1, <2>2
<1>6. \E k \in 1 .. n : \A l \in 1 .. n : Before(k, l)
  <2> HIDE DEF Good
  <2>1. \A m \in 0 .. n : m \in Good
    BY <1>3, <1>4, <1>5, CountingUp
  <2>2. n \in Good /\ n # 0
    BY <1>3, <2>1 DEF n
  <2>3. QED
    BY <2>2 DEF Good
<1>7. \E k \in DOMAIN t : \A l \in DOMAIN t : \/ t[k].age > t[l].age
                                              \/ t[k].age = t[l].age /\ k <= l
  BY <1>1, <1>6 DEF a, n
<1>8. /\ OldestSlot(t) \in DOMAIN t
      /\ \A l \in DOMAIN t : \/ t[OldestSlot(t)].age > t[l].age
                             \/ t[OldestSlot(t)].age = t[l].age /\ OldestSlot(t) <= l
  BY <1>7 DEF OldestSlot
<1>9. \A k \in DOMAIN t : t[k].age \in Nat
  BY <1>1, <1>2 DEF a, n
<1>10. QED
  BY <1>8, <1>9

-----------------------------------------------------------------------------
\* What tables become by writes: every entry is new or was there, and an id
\* that is gone went before every younger entry.
Kept(t0, t) ==
  /\ \A m \in DOMAIN t : t[m].age = 0 \/ \E l \in DOMAIN t0 : t0[l] = t[m]
  /\ \A k \in DOMAIN t0 :
       t0[k].id \notin Ids(t)
         => \A l \in DOMAIN t0 : (\E m \in DOMAIN t : t[m] = t0[l]) => t0[l].age <= t0[k].age

LEMMA PutTableKeeps ==
  ASSUME NEW I, NEW max \in Nat \ {0}, NEW t \in Tables(I, max), NEW id \in I,
         Stored(id) = id
  PROVE  /\ PutTable(t, id, max) \in Tables(I, max)
         /\ \A t0 \in Tables(I, max) : Kept(t0, t) => Kept(t0, PutTable(t, id, max))
<1> DEFINE r == PutTable(t, id, max)
<1>1. t \in Seq(Entries(I)) /\ Len(t) \in Nat /\ Len(t) <= max /\ Once(t) /\ DOMAIN t = 1 .. Len(t)
  BY DEF Tables
<1>2. \A k \in DOMAIN t : t[k] \in Entries(I) /\ t[k].age \in Nat
  <2>1. \A k \in DOMAIN t : t[k] \in Entries(I)
    BY <1>1
  <2>2. QED
    BY <2>1 DEF Entries
<1>3. ASSUME NEW t0 \in Tables(I, max)
      PROVE  \A l \in DOMAIN t0 : t0[l].age \in Nat
  <2>1. \A l \in DOMAIN t0 : t0[l] \in Entries(I)
    BY DEF Tables
  <2>2. QED
    BY <2>1 DEF Entries
<1>4. CASE Holds(t, id)
  <2>1. r = Refresh(t, id)
    BY <1>4 DEF PutTable
  <2>2. r \in Tables(I, max) /\ DOMAIN r = DOMAIN t
    <3>1. /\ r \in Seq(Entries(I)) /\ Len(r) = Len(t) /\ DOMAIN r = DOMAIN t
          /\ \A k \in DOMAIN t : r[k].id = t[k].id
      BY <1>1, <1>4, <2>1, RefreshKeeps
    <3>2. QED
      BY <1>1, <3>1 DEF Tables, Once
  <2>3. \A k \in DOMAIN t : r[k].id = t[k].id /\ (r[k] = t[k] \/ r[k].age = 0)
    BY <1>1, <1>4, <2>1, RefreshKeeps
  <2> HIDE DEF r
  <2>4. Ids(r) = Ids(t)
    BY <2>2, <2>3 DEF Ids
  <2>5. ASSUME NEW t0 \in Tables(I, max), Kept(t0, t) PROVE Kept(t0, r)
    <3>1. \A l \in DOMAIN t0 : t0[l].age \in Nat
      BY <1>3
    <3>2. QED
      BY <2>2, <2>3, <2>4, <2>5, <3>1 DEF Kept
  <2>6. QED
    BY <2>2, <2>5 DEF r
<1>5. CASE ~Holds(t, id) /\ Len(t) < max
  <2>1. r = Append(t, Entry(id))
    BY <1>5 DEF PutTable
  <2>2. r \in Tables(I, max) /\ DOMAIN r = DOMAIN t \cup {Len(t) + 1}
    BY <1>5, <2>1, AppendKeeps
  <2>3. (\A k \in DOMAIN t : r[k] = t[k]) /\ r[Len(t) + 1].age = 0
    BY <1>5, <2>1, AppendKeeps DEF Entry
  <2> HIDE DEF r
  <2>4. Ids(t) \subseteq Ids(r)
    BY <2>2, <2>3 DEF Ids
  <2>5. ASSUME NEW t0 \in Tables(I, max), Kept(t0, t) PROVE Kept(t0, r)
    <3>1. \A l \in DOMAIN t0 : t0[l].age \in Nat
      BY <1>3
    <3>2. \A m \in DOMAIN r : r[m].age = 0 \/ (m \in DOMAIN t /\ r[m] = t[m])
      BY <2>2, <2>3
    <3>3. QED
      BY <2>4, <2>5, <3>1, <3>2 DEF Kept
  <2>6. QED
    BY <2>2, <2>5 DEF r
<1>6. CASE ~Holds(t, id) /\ ~(Len(t) < max)
  <2> DEFINE o == OldestSlot(t)
  <2>1. r = [t EXCEPT ![o] = Entry(id)]
    BY <1>6 DEF PutTable
  <2>2. o \in DOMAIN t /\ \A l \in DOMAIN t : t[l].age <= t[o].age
    BY <1>1, <1>6, OldestExists
  <2> HIDE DEF o
  <2>3. DOMAIN r = DOMAIN t /\ r[o] = Entry(id) /\ \A k \in DOMAIN t : k # o => r[k] = t[k]
    BY <1>1, <2>1, <2>2
  <2>4. r \in Seq(Entries(I)) /\ Len(r) = Len(t)
    BY <1>1, <2>1, <2>2, EntryType
  <2>5. Once(r)
    BY <1>1, <1>6, <2>2, <2>3 DEF Once, Holds, Entry
  <2>6. r \in Tables(I, max)
    BY <1>1, <2>4, <2>5 DEF Tables
  <2>7. r[o].age = 0
    BY <2>3 DEF Entry
  <2> HIDE DEF r
  <2>8. \A m \in DOMAIN r : r[m].age = 0 \/ (m \in DOMAIN t /\ m # o /\ r[m] = t[m])
    BY <2>3, <2>7
  <2>9. ASSUME NEW t0 \in Tables(I, max), Kept(t0, t) PROVE Kept(t0, r)
    <3>1. \A l \in DOMAIN t0 : t0[l].age \in Nat
      BY <1>3
    <3>2. \A m \in DOMAIN r : r[m].age = 0 \/ \E l \in DOMAIN t0 : t0[l] = r[m]
      BY <2>8, <2>9 DEF Kept
    <3>3. ASSUME NEW k \in DOMAIN t0, t0[k].id \notin Ids(r),
                 NEW l \in DOMAIN t0, NEW m \in DOMAIN r, r[m] = t0[l]
          PROVE  t0[l].age <= t0[k].age
      <4>1. CASE r[m].age = 0
        BY <3>1, <3>3, <4>1
      <4>2. CASE m \in DOMAIN t /\ m # o /\ r[m] = t[m]
        <5>1. CASE t0[k].id \notin Ids(t)
          BY <2>9, <3>3, <4>2, <5>1 DEF Kept
        <5>2. CASE t0[k].id \in Ids(t)
          <6>1. PICK n \in DOMAIN t : t[n].id = t0[k].id
            BY <5>2 DEF Ids
          <6>2. n = o
            BY <2>3, <3>3, <6>1 DEF Ids
          <6>3. t[m].age <= t[o].age /\ t[m] = t0[l]
            BY <2>2, <3>3, <4>2
          <6>4. CASE t[o].age = 0
            BY <1>2, <2>2, <3>1, <6>3, <6>4
          <6>5. CASE \E j \in DOMAIN t0 : t0[j] = t[o]
            <7>1. PICK j \in DOMAIN t0 : t0[j] = t[o]
              BY <6>5
            <7>2. j = k
              BY <6>1, <6>2, <7>1 DEF Tables, Once
            <7>3. QED
              BY <6>3, <7>1, <7>2
          <6>6. QED
            BY <2>2, <2>9, <6>4, <6>5 DEF Kept
        <5>3. QED
          BY <5>1, <5>2
      <4>3. QED
        BY <2>8, <4>1, <4>2
    <3>4. QED
      BY <3>2, <3>3 DEF Kept
  <2>10. QED
    BY <2>6, <2>9 DEF r
<1>7. QED
  BY <1>4, <1>5, <1>6

\* One more entry in the pool: cut off, or of an id that was not there.
LEMMA PoolTakes ==
  ASSUME NEW t \in Pools, NEW id \in WrittenIds, ~Holds(t, id), Len(t) < PoolMax
  PROVE  Append(t, Entry(id)) \in Pools
<1> DEFINE e == Entry(id)
           r == Append(t, e)
<1>1. t \in Seq(Entries(PoolIds)) /\ Len(t) \in Nat /\ DOMAIN t = 1 .. Len(t) /\ OnceUncut(t)
  BY DEF Pools
<1>2. e \in Entries(PoolIds) /\ (e.id = id \/ e.id \in CutIds)
  BY WhatIsStored, EntryType DEF Entry
<1> HIDE DEF e
<1>3. /\ r \in Seq(Entries(PoolIds)) /\ Len(r) = Len(t) + 1 /\ DOMAIN r = 1 .. Len(t) + 1
      /\ (\A k \in 1 .. Len(t) : r[k] = t[k]) /\ r[Len(t) + 1] = e
  BY <1>1, <1>2
<1>4. Len(r) <= PoolMax
  BY <1>1, <1>3, StoreAssumption
<1> HIDE DEF r
<1>5. OnceUncut(r)
  <2>1. \A k \in DOMAIN r : k \in 1 .. Len(t) \/ k = Len(t) + 1
    BY <1>1, <1>3
  <2>2. \A k \in 1 .. Len(t) : t[k].id # id
    BY <1>1 DEF Holds
  <2>3. QED
    BY <1>1, <1>2, <1>3, <2>1, <2>2 DEF OnceUncut
<1>6. QED
  BY <1>3, <1>4, <1>5 DEF Pools, r, e

LEMMA PutRingKeeps ==
  ASSUME NEW t \in Pools, NEW id \in WrittenIds
  PROVE  PutRing(t, id, PoolMax) \in Pools
<1> DEFINE u == Tail(t)
<1>1. t \in Seq(Entries(PoolIds)) /\ Len(t) \in Nat /\ DOMAIN t = 1 .. Len(t) /\ OnceUncut(t)
      /\ Len(t) <= PoolMax /\ PoolMax \in Nat \ {0}
  BY StoreAssumption DEF Pools
<1>2. CASE Holds(t, id)
  <2> DEFINE r == Refresh(t, id)
  <2>1. PICK k \in DOMAIN t : t[k].id = id
    BY <1>2 DEF Holds
  <2>2. CASE Stored(id) = id
    <3>1. /\ r \in Seq(Entries(PoolIds)) /\ Len(r) = Len(t) /\ DOMAIN r = DOMAIN t
          /\ \A l \in DOMAIN t : r[l].id = t[l].id
      BY <1>1, <1>2, <2>2, WhatIsStored, RefreshKeeps
    <3> HIDE DEF r
    <3>2. r \in Pools
      BY <1>1, <3>1 DEF Pools, OnceUncut
    <3>3. QED
      BY <1>2, <3>2 DEF PutRing, r
  <2>3. CASE Stored(id) # id
    <3> DEFINE o == SlotOf(t, id)
               e == Entry(id)
    <3>1. o \in DOMAIN t /\ t[o].id = id
      BY <1>1, <1>2, SlotFound
    <3>2. e \in Entries(PoolIds) /\ e.id \in CutIds
      BY <2>3, WhatIsStored, EntryType DEF Entry
    <3>3. r = [t EXCEPT ![o] = e]
      BY DEF Refresh
    <3> HIDE DEF o, e, r
    <3>4. /\ r \in Seq(Entries(PoolIds)) /\ Len(r) = Len(t) /\ DOMAIN r = DOMAIN t
          /\ r[o] = e /\ \A l \in DOMAIN t : l # o => r[l] = t[l]
      BY <1>1, <3>1, <3>2, <3>3
    <3>5. OnceUncut(r)
      BY <1>1, <3>2, <3>4 DEF OnceUncut
    <3>6. r \in Pools
      BY <1>1, <3>4, <3>5 DEF Pools
    <3>7. QED
      BY <1>2, <3>6 DEF PutRing, r
  <2>4. QED
    BY <2>2, <2>3
<1>3. CASE ~Holds(t, id) /\ Len(t) < PoolMax
  BY <1>3, PoolTakes DEF PutRing
<1>4. CASE ~Holds(t, id) /\ ~(Len(t) < PoolMax)
  <2>1. Len(t) = PoolMax /\ t # <<>>
    <3> DEFINE n == Len(t)
    <3>1. n \in Nat /\ n <= PoolMax /\ ~(n < PoolMax) /\ PoolMax \in Nat \ {0}
      BY <1>1, <1>4
    <3>2. n # 0 => t # <<>>
      OBVIOUS
    <3> HIDE DEF n
    <3>3. n = PoolMax /\ n # 0
      BY <3>1
    <3>4. QED
      BY <3>2, <3>3 DEF n
  <2>2. /\ u \in Seq(Entries(PoolIds)) /\ Len(u) = PoolMax - 1 /\ DOMAIN u = 1 .. PoolMax - 1
        /\ \A k \in 1 .. PoolMax - 1 : u[k] = t[k + 1]
    BY <1>1, <2>1
  <2> HIDE DEF u
  <2>3. \A k \in 1 .. PoolMax - 1 : k + 1 \in DOMAIN t
    BY <1>1, <2>1
  <2>4. ~Holds(u, id)
    BY <1>4, <2>2, <2>3 DEF Holds
  <2>5. OnceUncut(u)
    <3>1. ASSUME NEW k \in DOMAIN u, NEW l \in DOMAIN u, u[k].id = u[l].id
          PROVE  k = l \/ u[k].id \in CutIds
      <4>1. k + 1 = l + 1 \/ u[k].id \in CutIds
        BY <1>1, <2>2, <2>3, <3>1 DEF OnceUncut
      <4>2. QED
        BY <1>1, <2>2, <4>1
    <3>2. QED
      BY <3>1 DEF OnceUncut
  <2>6. u \in Pools /\ Len(u) < PoolMax
    BY <1>1, <2>2, <2>5 DEF Pools
  <2>7. Append(u, Entry(id)) \in Pools
    BY <2>4, <2>6, PoolTakes
  <2>8. PutRing(t, id, PoolMax) = Append(u, Entry(id))
    BY <1>4 DEF PutRing, u
  <2>9. QED
    BY <2>7, <2>8
<1>5. QED
  BY <1>2, <1>3, <1>4

\* The stores that writes can make of s.
Names == {"pub", "mon", "own"}
WrittenFrom(s) == {r \in Stores : /\ Kept(s.pub, r.pub) /\ Kept(s.mon, r.mon) /\ Kept(s.own, r.own)}

LEMMA PushKeeps ==
  ASSUME NEW s \in Stores, NEW r \in WrittenFrom(s), NEW id \in WrittenIds, NEW natives
  PROVE  Push(r, id, natives) \in WrittenFrom(s)
<1>1. /\ PubMax \in Nat \ {0} /\ MonMax \in Nat \ {0} /\ OwnMax \in Nat \ {0} /\ PoolMax \in Nat \ {0}
  BY StoreAssumption
<1>2. /\ s.pub \in Tables(Prefixed("pub"), PubMax) /\ s.mon \in Tables(Prefixed("mon"), MonMax)
      /\ s.own \in Tables(Prefixed("own"), OwnMax)
  BY DEF Stores
<1>3. /\ r \in Stores
      /\ r.pub \in Tables(Prefixed("pub"), PubMax) /\ r.mon \in Tables(Prefixed("mon"), MonMax)
      /\ r.own \in Tables(Prefixed("own"), OwnMax) /\ r.pool \in Pools
      /\ Kept(s.pub, r.pub) /\ Kept(s.mon, r.mon) /\ Kept(s.own, r.own)
  BY DEF Stores, WrittenFrom
<1>4. CASE id.prefix = "pub"
  <2> DEFINE t == PutTable(r.pub, id, PubMax)
  <2>1. id \in Prefixed("pub") /\ Stored(id) = id
    <3>1. id \in Prefixed("pub")
      BY <1>4 DEF Prefixed
    <3>2. QED
      BY <3>1, WhatIsStored
  <2>2. t \in Tables(Prefixed("pub"), PubMax) /\ Kept(s.pub, t)
    BY <1>1, <1>2, <1>3, <2>1, PutTableKeeps
  <2>3. Push(r, id, natives) \in {r, [r EXCEPT !.pub = t]}
    BY <1>4 DEF Push
  <2> HIDE DEF t
  <2>4. [r EXCEPT !.pub = t] \in WrittenFrom(s)
    BY <1>3, <2>2 DEF Stores, WrittenFrom
  <2>5. QED
    BY <2>3, <2>4
<1>5. CASE id.prefix = "mon"
  <2> DEFINE t == PutTable(r.mon, id, MonMax)
  <2>1. id \in Prefixed("mon") /\ Stored(id) = id
    <3>1. id \in Prefixed("mon")
      BY <1>5 DEF Prefixed
    <3>2. QED
      BY <3>1, WhatIsStored
  <2>2. t \in Tables(Prefixed("mon"), MonMax) /\ Kept(s.mon, t)
    BY <1>1, <1>2, <1>3, <2>1, PutTableKeeps
  <2>3. Push(r, id, natives) \in {r, [r EXCEPT !.mon = t]}
    BY <1>5 DEF Push
  <2> HIDE DEF t
  <2>4. [r EXCEPT !.mon = t] \in WrittenFrom(s)
    BY <1>3, <2>2 DEF Stores, WrittenFrom
  <2>5. QED
    BY <2>3, <2>4
<1>6. CASE id.prefix = "own"
  <2> DEFINE t == PutTable(r.own, id, OwnMax)
  <2>1. id \in Prefixed("own") /\ Stored(id) = id
    <3>1. id \in Prefixed("own")
      BY <1>6 DEF Prefixed
    <3>2. QED
      BY <3>1, WhatIsStored
  <2>2. t \in Tables(Prefixed("own"), OwnMax) /\ Kept(s.own, t)
    BY <1>1, <1>2, <1>3, <2>1, PutTableKeeps
  <2>3. Push(r, id, natives) = [r EXCEPT !.own = t]
    BY <1>6 DEF Push
  <2> HIDE DEF t
  <2>4. [r EXCEPT !.own = t] \in WrittenFrom(s)
    BY <1>3, <2>2 DEF Stores, WrittenFrom
  <2>5. QED
    BY <2>3, <2>4
<1>7. CASE id.prefix \notin Names
  <2> DEFINE t == PutRing(r.pool, id, PoolMax)
  <2>1. t \in Pools
    BY <1>1, <1>3, PutRingKeeps
  <2>2. Push(r, id, natives) = [r EXCEPT !.pool = t]
    BY <1>7 DEF Push, Names
  <2> HIDE DEF t
  <2>3. [r EXCEPT !.pool = t] \in WrittenFrom(s)
    BY <1>3, <2>1 DEF Stores, WrittenFrom
  <2>4. QED
    BY <2>2, <2>3
<1>8. QED
  BY <1>4, <1>5, <1>6, <1>7 DEF Names

LEMMA StoresKeepThemselves ==
  ASSUME NEW s \in Stores
  PROVE  s \in WrittenFrom(s)
<1>1. ASSUME NEW I, NEW max, NEW t \in Tables(I, max) PROVE Kept(t, t)
  BY DEF Kept, Ids
<1>2. QED
  BY <1>1 DEF WrittenFrom, Stores

\* Any number of writes.
LEMMA PushAllKeeps ==
  ASSUME NEW s \in Stores, NEW r \in WrittenFrom(s), NEW ids \in Seq(WrittenIds), NEW natives
  PROVE  PushAll(r, ids, natives) \in WrittenFrom(s)
<1> DEFINE T == WrittenFrom(s)
<1>1. \A t \in T, id \in WrittenIds : Push(t, id, natives) \in T
  BY PushKeeps
<1> HIDE DEF T
<1>2. r \in T
  BY DEF T
<1>3. PushAll(r, ids, natives) \in T
  BY <1>1, <1>2, PushAllStays
<1>4. QED
  BY <1>3 DEF T

LEMMA IntervalSize ==
  ASSUME NEW n \in Nat
  PROVE  IsFiniteSet(1 .. n) /\ Cardinality(1 .. n) = n
BY FS_Interval

\* Pruning leaves the fresh entries, each once.
LEMMA PruneKeeps ==
  ASSUME NEW I, NEW max \in Nat, NEW t \in Tables(I, max), NEW ttl \in Nat \ {0}
  PROVE  /\ Prune(t, ttl) \in Tables(I, max)
         /\ \A n \in DOMAIN Prune(t, ttl) : Prune(t, ttl)[n].age <= ttl
         /\ \A n \in DOMAIN Prune(t, ttl) : \E m \in DOMAIN t : Prune(t, ttl)[n] = t[m]
         /\ \A m \in DOMAIN t :
              t[m].age <= ttl => \E n \in DOMAIN Prune(t, ttl) : Prune(t, ttl)[n] = t[m]
<1> DEFINE fresh == {k \in DOMAIN t : t[k].age <= ttl}
           upTo(k) == {i \in fresh : i <= k}
           N == Cardinality(fresh)
           c == [k \in fresh |-> Cardinality(upTo(k))]
           nth(n) == CHOOSE k \in fresh : Cardinality(upTo(k)) = n
           p == Prune(t, ttl)
<1>1. t \in Seq(Entries(I)) /\ Len(t) \in Nat /\ Len(t) <= max /\ Once(t) /\ DOMAIN t = 1 .. Len(t)
  BY DEF Tables
<1>2. IsFiniteSet(fresh) /\ N \in Nat /\ N <= Len(t)
  <2>1. IsFiniteSet(1 .. Len(t)) /\ Cardinality(1 .. Len(t)) = Len(t)
    BY <1>1, IntervalSize
  <2>2. fresh \in SUBSET (1 .. Len(t))
    BY <1>1
  <2> HIDE DEF fresh
  <2>3. QED
    BY <2>1, <2>2, FS_Subset, FS_CardinalityType
<1>3. \A k \in fresh : k \in DOMAIN t /\ k \in Nat /\ t[k].age <= ttl
  BY <1>1
<1>4. \A m \in DOMAIN t : t[m].age <= ttl => m \in fresh
  OBVIOUS
<1>5. p = [n \in 1 .. N |-> t[nth(n)]]
  BY DEF Prune
<1> HIDE DEF fresh, N, p
<1>6. \A k \in fresh : IsFiniteSet(upTo(k)) /\ c[k] \in Nat /\ c[k] <= N /\ upTo(k) \in SUBSET fresh
  <2>1. \A k \in fresh : upTo(k) \in SUBSET fresh
    OBVIOUS
  <2>2. QED
    BY <1>2, <2>1, FS_Subset, FS_CardinalityType DEF N
<1>7. \A k \in fresh : c[k] \in 1 .. N
  <2> TAKE k \in fresh
  <2>1. k \in upTo(k)
    BY <1>3
  <2>2. c[k] # 0
    BY <1>6, <2>1, FS_EmptySet
  <2>3. QED
    BY <1>2, <1>6, <2>2
<1>8. \A k, l \in fresh : k < l => c[k] # c[l]
  <2> TAKE k, l \in fresh
  <2>1. HAVE k < l
  <2>2. upTo(k) \in SUBSET upTo(l) /\ l \in upTo(l) /\ l \notin upTo(k)
    BY <1>3, <2>1
  <2>3. upTo(k) # upTo(l)
    BY <2>2
  <2>4. QED
    BY <1>6, <2>2, <2>3, FS_Subset
<1>9. c \in Injection(fresh, 1 .. N)
  <2>1. c \in [fresh -> 1 .. N]
    BY <1>7
  <2>2. \A k, l \in fresh : c[k] = c[l] => k = l
    <3> TAKE k, l \in fresh
    <3>1. k < l \/ l < k \/ k = l
      BY <1>3
    <3> HIDE DEF c
    <3>2. QED
      BY <1>8, <3>1
  <2> HIDE DEF c
  <2>3. QED
    BY <2>1, <2>2 DEF Injection, IsInjective
<1>10. c \in Surjection(fresh, 1 .. N)
  <2>1. IsFiniteSet(1 .. N) /\ Cardinality(1 .. N) = N
    BY <1>2, IntervalSize
  <2> HIDE DEF c
  <2>2. QED
    BY <1>9, <2>1, FS_Injection DEF N
<1>11. \A n \in 1 .. N : nth(n) \in fresh /\ c[nth(n)] = n
  <2> TAKE n \in 1 .. N
  <2>1. PICK k \in fresh : c[k] = n
    <3> HIDE DEF c
    <3>1. QED
      BY <1>10 DEF Surjection
  <2>2. Cardinality(upTo(k)) = n
    BY <2>1
  <2>3. nth(n) \in fresh /\ Cardinality(upTo(nth(n))) = n
    BY <2>2
  <2>4. QED
    BY <2>3
<1>12. \A k \in fresh : nth(c[k]) = k
  BY <1>7, <1>9, <1>11 DEF Injection, IsInjective
<1> HIDE DEF c, nth
<1>13. DOMAIN p = 1 .. N /\ \A n \in 1 .. N : p[n] = t[nth(n)]
  BY <1>5
<1>14. p \in Seq(Entries(I)) /\ Len(p) = N
  <2>1. \A n \in 1 .. N : t[nth(n)] \in Entries(I)
    BY <1>1, <1>3, <1>11
  <2>2. p \in [1 .. N -> Entries(I)]
    BY <1>5, <2>1
  <2>3. QED
    BY <1>2, <2>2
<1>15. Once(p)
  <2>1. ASSUME NEW k \in 1 .. N, NEW l \in 1 .. N, p[k].id = p[l].id PROVE k = l
    <3>1. nth(k) \in DOMAIN t /\ nth(l) \in DOMAIN t /\ t[nth(k)].id = t[nth(l)].id
      BY <1>3, <1>11, <1>13, <2>1
    <3>2. nth(k) = nth(l)
      BY <1>1, <3>1 DEF Once
    <3>3. QED
      BY <1>11, <3>2
  <2>2. QED
    BY <1>13, <2>1 DEF Once
<1>16. p \in Tables(I, max)
  BY <1>1, <1>2, <1>14, <1>15 DEF Tables
<1>17. \A n \in DOMAIN p : p[n].age <= ttl /\ \E m \in DOMAIN t : p[n] = t[m]
  BY <1>3, <1>11, <1>13
<1>18. \A m \in DOMAIN t : t[m].age <= ttl => \E n \in DOMAIN p : p[n] = t[m]
  BY <1>4, <1>7, <1>12, <1>13
<1>19. QED
  BY <1>16, <1>17, <1>18 DEF p

\* Time leaves the ids.
LEMMA AgedKeeps ==
  ASSUME NEW I, NEW max, NEW t \in Tables(I, max)
  PROVE  Aged(t) \in Tables(I, max) /\ Ids(Aged(t)) = Ids(t)
<1> DEFINE r == Aged(t)
<1>1. t \in Seq(Entries(I)) /\ Len(t) \in Nat /\ Len(t) <= max /\ Once(t) /\ DOMAIN t = 1 .. Len(t)
  BY DEF Tables
<1>2. \A k \in DOMAIN t : t[k] \in Entries(I)
  BY <1>1
<1>3. DOMAIN r = DOMAIN t
  BY DEF Aged
<1>4. AgeMax \in Nat
  BY StoreAssumption
<1>5. \A k \in DOMAIN t : r[k] \in Entries(I) /\ r[k].id = t[k].id
  BY <1>2, <1>4 DEF Entries, Aged
<1>6. r = [k \in 1 .. Len(t) |-> r[k]]
  BY <1>1 DEF Aged
<1> HIDE DEF r
<1>7. r \in [1 .. Len(t) -> Entries(I)]
  BY <1>1, <1>5, <1>6
<1>8. r \in Seq(Entries(I)) /\ Len(r) = Len(t)
  BY <1>1, <1>7
<1>9. Once(r) /\ Ids(r) = Ids(t)
  BY <1>1, <1>3, <1>5 DEF Once, Ids
<1>10. QED
  BY <1>1, <1>8, <1>9 DEF Tables, r

LEMMA AgedStoreKeeps ==
  ASSUME NEW s \in Stores
  PROVE  /\ AgedStore(s) \in Stores
         /\ Ids(AgedStore(s).pub) = Ids(s.pub)
         /\ Ids(AgedStore(s).mon) = Ids(s.mon)
         /\ Ids(AgedStore(s).own) = Ids(s.own)
<1>1. /\ s.pub \in Tables(Prefixed("pub"), PubMax) /\ s.mon \in Tables(Prefixed("mon"), MonMax)
      /\ s.own \in Tables(Prefixed("own"), OwnMax) /\ s.pool \in Pools
  BY DEF Stores
<1>2. AgedStore(s) = [s EXCEPT !.pub = Aged(s.pub), !.mon = Aged(s.mon), !.own = Aged(s.own)]
  BY DEF AgedStore, Stores
<1>3. /\ Aged(s.pub) \in Tables(Prefixed("pub"), PubMax) /\ Aged(s.mon) \in Tables(Prefixed("mon"), MonMax)
      /\ Aged(s.own) \in Tables(Prefixed("own"), OwnMax)
      /\ Ids(Aged(s.pub)) = Ids(s.pub) /\ Ids(Aged(s.mon)) = Ids(s.mon)
      /\ Ids(Aged(s.own)) = Ids(s.own)
  BY <1>1, AgedKeeps
<1>4. QED
  BY <1>2, <1>3 DEF Stores

\* The writes the operations make are of ids that are written.
LEMMA WrittenLists ==
  /\ \A prefix \in Names : PrefixAll(prefix, Basics) \in Seq(WrittenIds)
  /\ \A keys \in Telemetry : PrefixAll("mon", keys) \in Seq(WrittenIds)
  /\ \A id \in Posted : \A natives : <<Classify(id, natives)>> \in Seq(WrittenIds)
  /\ \A id \in Foreign : <<id>> \in Seq(WrittenIds)
<1>1. ASSUME NEW keys, IsList(keys), NEW prefix \in Names,
             \A k \in DOMAIN keys : keys[k] \in WrittenKeys
      PROVE  PrefixAll(prefix, keys) \in Seq(WrittenIds)
  <2>1. DOMAIN keys = 1 .. Len(keys) /\ Len(keys) \in Nat
    BY <1>1 DEF IsList
  <2>2. \A k \in DOMAIN keys : Id(prefix, keys[k]) \in WrittenIds
    BY <1>1 DEF WrittenIds, Names
  <2>3. PrefixAll(prefix, keys) \in [1 .. Len(keys) -> WrittenIds]
    BY <2>1, <2>2 DEF PrefixAll
  <2>4. QED
    BY <2>1, <2>3
<1>2. \A prefix \in Names : PrefixAll(prefix, Basics) \in Seq(WrittenIds)
  <2>1. IsList(Basics) /\ \A k \in DOMAIN Basics : Basics[k] \in WrittenKeys
    BY SenderAssumption DEF WrittenKeys
  <2>2. QED
    BY <1>1, <2>1
<1>3. ASSUME NEW keys \in Telemetry PROVE PrefixAll("mon", keys) \in Seq(WrittenIds)
  <2>1. IsList(keys)
    BY SenderAssumption
  <2>2. {keys[k] : k \in DOMAIN keys} \subseteq WrittenKeys
    BY DEF WrittenKeys
  <2>3. QED
    BY <1>1, <2>1, <2>2 DEF Names
<1>4. ASSUME NEW id \in Posted, NEW natives PROVE <<Classify(id, natives)>> \in Seq(WrittenIds)
  <2>1. id \in WrittenIds /\ id.key \in WrittenKeys
    BY DEF WrittenIds, WrittenKeys
  <2>2. Id("pub", id.key) \in WrittenIds /\ Id("own", id.key) \in WrittenIds
    BY <2>1 DEF WrittenIds
  <2>3. Classify(id, natives) \in WrittenIds
    BY <2>1, <2>2 DEF Classify
  <2>4. QED
    BY <2>3
<1>5. ASSUME NEW id \in Foreign PROVE <<id>> \in Seq(WrittenIds)
  BY DEF WrittenIds
<1>6. QED
  BY <1>2, <1>3, <1>4, <1>5

-----------------------------------------------------------------------------
\* The tables are tables of what is written, and no batch was tried later than one
\* was put together: a due batch is that far behind the last one that was.
SenderIInv ==
  /\ store \in Stores /\ native \in Natives
  /\ sinceSend \in 0..Never /\ sinceBuild \in 0..Never
  /\ sinceMon \in 0..MonInterval /\ sincePing \in 0..PingInterval /\ sinceBasics \in 0..1
  /\ pending \in BOOLEAN /\ link \in Links
  /\ sinceSend <= sinceBuild
  /\ BatchIsClean

LEMMA SenderIInvImplies == SenderIInv => SenderInv
<1> SUFFICES ASSUME SenderIInv PROVE SenderInv
  OBVIOUS
<1>1. /\ store.pub \in Tables(Prefixed("pub"), PubMax) /\ store.mon \in Tables(Prefixed("mon"), MonMax)
      /\ store.own \in Tables(Prefixed("own"), OwnMax) /\ store.pool \in Pools
  BY DEF SenderIInv, Stores
<1>2. ASSUME NEW I, NEW max, NEW t \in Tables(I, max)
      PROVE  /\ Len(t) <= max /\ Once(t)
             /\ \A k \in DOMAIN t : t[k].age \in 0 .. AgeMax /\ t[k].id \in I
  <2>1. \A k \in DOMAIN t : t[k] \in Entries(I)
    BY DEF Tables
  <2>2. QED
    BY <2>1 DEF Tables, Entries
<1>3. /\ Len(store.pub) <= PubMax /\ Once(store.pub)
      /\ \A k \in DOMAIN store.pub : store.pub[k].age \in 0 .. AgeMax /\ store.pub[k].id.prefix = "pub"
  <2>1. \A k \in DOMAIN store.pub : store.pub[k].id \in Prefixed("pub")
    BY <1>1, <1>2
  <2>2. QED
    BY <1>1, <1>2, <2>1 DEF Prefixed
<1>4. /\ Len(store.mon) <= MonMax /\ Once(store.mon)
      /\ \A k \in DOMAIN store.mon : store.mon[k].age \in 0 .. AgeMax /\ store.mon[k].id.prefix = "mon"
  <2>1. \A k \in DOMAIN store.mon : store.mon[k].id \in Prefixed("mon")
    BY <1>1, <1>2
  <2>2. QED
    BY <1>1, <1>2, <2>1 DEF Prefixed
<1>5. /\ Len(store.own) <= OwnMax /\ Once(store.own)
      /\ \A k \in DOMAIN store.own : store.own[k].age \in 0 .. AgeMax /\ store.own[k].id.prefix = "own"
  <2>1. \A k \in DOMAIN store.own : store.own[k].id \in Prefixed("own")
    BY <1>1, <1>2
  <2>2. QED
    BY <1>1, <1>2, <2>1 DEF Prefixed
<1>6. /\ Len(store.pool) <= PoolMax /\ OnceUncut(store.pool)
      /\ \A k \in DOMAIN store.pool : store.pool[k].age \in 0 .. AgeMax
  <2>1. \A k \in DOMAIN store.pool : store.pool[k] \in Entries(PoolIds)
    BY <1>1 DEF Pools
  <2>2. QED
    BY <1>1, <2>1 DEF Pools, Entries
<1>7. /\ DOMAIN Caps = {"pub", "mon", "own", "pool"}
      /\ Caps["pub"] = PubMax /\ Caps["mon"] = MonMax /\ Caps["own"] = OwnMax /\ Caps["pool"] = PoolMax
  BY DEF Caps
<1>8. \A name \in DOMAIN Caps :
        /\ Len(store[name]) <= Caps[name]
        /\ \A k \in DOMAIN store[name] : store[name][k].age \in 0 .. AgeMax
  BY <1>3, <1>4, <1>5, <1>6, <1>7
<1>9. SenderTypeOK
  <2>1. Cardinality(native) <= NativeMax
    BY DEF SenderIInv, Natives
  <2>2. QED
    BY <1>8, <2>1 DEF SenderIInv, SenderTypeOK
<1>10. InOnePlace
  BY <1>3, <1>4, <1>5, <1>6 DEF InOnePlace, OnceUncut
<1>11. BuildsSpaced
  <2>1. MinInterval \in Nat /\ ForceInterval \in Nat /\ MinInterval <= ForceInterval
    BY SenderAssumption
  <2>2. QED
    BY <2>1 DEF SenderIInv, BuildsSpaced, BatchDue, Cooldown, Forced, Never
<1>12. QED
  BY <1>9, <1>10, <1>11 DEF SenderInv, SenderIInv

LEMMA EmptyStoreType == EmptyStore \in Stores
<1>1. ASSUME NEW I, NEW max \in Nat PROVE <<>> \in Tables(I, max)
  BY DEF Tables, Once
<1>2. PubMax \in Nat /\ MonMax \in Nat /\ OwnMax \in Nat /\ PoolMax \in Nat
  BY StoreAssumption
<1>3. <<>> \in Pools
  BY <1>2 DEF Pools, OnceUncut
<1>4. QED
  BY <1>1, <1>2, <1>3 DEF EmptyStore, Stores

LEMMA BasicsKeep ==
  ASSUME NEW s \in Stores, NEW r \in WrittenFrom(s), NEW natives
  PROVE  PushAll(PushAll(r, PrefixAll("mon", Basics), natives), PrefixAll("pub", Basics), natives)
           \in WrittenFrom(s)
<1>1. PrefixAll("mon", Basics) \in Seq(WrittenIds) /\ PrefixAll("pub", Basics) \in Seq(WrittenIds)
  BY WrittenLists DEF Names
<1>2. QED
  BY <1>1, PushAllKeeps

LEMMA SenderIInvInit == SenderInit => SenderIInv
<1> SUFFICES ASSUME SenderInit PROVE SenderIInv
  OBVIOUS
<1>1. store \in WrittenFrom(EmptyStore)
  BY EmptyStoreType, StoresKeepThemselves, BasicsKeep DEF SenderInit
<1>2. native \in Natives
  <2>1. IsFiniteSet({}) /\ Cardinality({}) = 0
    BY FS_EmptySet
  <2>2. QED
    BY <2>1, StoreAssumption DEF SenderInit, Natives
<1>3. BatchIsClean
  BY DEF SenderInit, BatchIsClean, NoFrame
<1>4. /\ MinInterval \in Nat \ {0} /\ ForceInterval \in Nat \ {0}
      /\ MonInterval \in Nat \ {0} /\ PingInterval \in Nat \ {0}
  BY SenderAssumption
<1>5. MonInterval \div 2 \in 0 .. MonInterval
  BY <1>4
<1>6. store \in Stores
  BY <1>1 DEF WrittenFrom
<1>7. /\ sinceSend = ForceInterval /\ sinceBuild = ForceInterval /\ sinceMon = MonInterval \div 2
      /\ sincePing = 0 /\ sinceBasics = 0 /\ pending = FALSE /\ link = "up"
  BY DEF SenderInit, Never
<1>8. /\ sinceSend \in 0..Never /\ sinceBuild \in 0..Never /\ sinceSend <= sinceBuild
      /\ sincePing \in 0..PingInterval /\ sinceBasics \in 0..1
  BY <1>4, <1>7 DEF Never
<1>9. QED
  BY <1>2, <1>3, <1>5, <1>6, <1>7, <1>8 DEF SenderIInv, Links

\* Writes give up only what the tables may give up.
LEMMA WritesGiveUp ==
  ASSUME store \in Stores, store' \in WrittenFrom(store)
  PROVE  store' \in Stores /\ \A name \in Names : GivesUp(name)
<1>1. \A name \in Names : Kept(store[name], store'[name])
  BY DEF WrittenFrom, Names
<1>2. QED
  BY <1>1 DEF WrittenFrom, Kept, GivesUp

\* So does a batch, which prunes own[] after its writes.
LEMMA BuildGivesUp ==
  ASSUME store \in Stores, NEW r \in WrittenFrom(store),
         store' = [r EXCEPT !.own = Prune(@, OwnTTL)]
  PROVE  /\ store' \in Stores /\ \A name \in Names : GivesUp(name)
         /\ \A k \in DOMAIN store'.own : store'.own[k].age <= OwnTTL
<1> DEFINE p == Prune(r.own, OwnTTL)
<1>1. /\ r \in Stores /\ r.own \in Tables(Prefixed("own"), OwnMax)
      /\ Kept(store.pub, r.pub) /\ Kept(store.mon, r.mon) /\ Kept(store.own, r.own)
  BY DEF WrittenFrom, Stores
<1>2. OwnMax \in Nat /\ OwnTTL \in Nat \ {0}
  BY StoreAssumption, SenderAssumption
<1>3. /\ p \in Tables(Prefixed("own"), OwnMax)
      /\ \A n \in DOMAIN p : p[n].age <= OwnTTL
      /\ \A n \in DOMAIN p : \E m \in DOMAIN r.own : p[n] = r.own[m]
      /\ \A m \in DOMAIN r.own : r.own[m].age <= OwnTTL => \E n \in DOMAIN p : p[n] = r.own[m]
  BY <1>1, <1>2, PruneKeeps
<1> HIDE DEF p
<1>4. store' = [r EXCEPT !.own = p]
  BY DEF p
<1>5. store' \in Stores /\ store'.own = p /\ store'.pub = r.pub /\ store'.mon = r.mon
  BY <1>1, <1>3, <1>4 DEF Stores
<1>6. GivesUp("pub") /\ GivesUp("mon")
  BY <1>1, <1>5 DEF Kept, GivesUp
<1>7. GivesUp("own")
  <2> SUFFICES ASSUME NEW k \in DOMAIN store.own, store.own[k].id \notin Ids(p),
                      ~(store.own[k].age > OwnTTL),
                      NEW l \in DOMAIN store.own, NEW n \in DOMAIN p, p[n] = store.own[l]
               PROVE  store.own[l].age <= store.own[k].age
    BY <1>5 DEF GivesUp
  <2>1. store.own[k].age \in Nat /\ store.own[k].age <= OwnTTL
    <3>1. store.own[k] \in Entries(Prefixed("own"))
      BY DEF Stores, Tables
    <3>2. QED
      BY <1>2, <3>1 DEF Entries
  <2>2. store.own[k].id \notin Ids(r.own)
    <3>1. SUFFICES ASSUME NEW m \in DOMAIN r.own, r.own[m].id = store.own[k].id PROVE FALSE
      BY DEF Ids
    <3>2. ~(r.own[m].age <= OwnTTL)
      BY <1>3, <3>1 DEF Ids
    <3>3. PICK j \in DOMAIN store.own : store.own[j] = r.own[m]
      BY <1>1, <1>2, <3>2 DEF Kept
    <3>4. Once(store.own)
      BY DEF Stores, Tables
    <3>5. j = k
      BY <3>1, <3>3, <3>4 DEF Once
    <3>6. QED
      BY <2>1, <3>2, <3>3, <3>5
  <2>3. \E m \in DOMAIN r.own : r.own[m] = store.own[l]
    BY <1>3
  <2>4. QED
    BY <1>1, <2>2, <2>3 DEF Kept
<1>8. QED
  BY <1>3, <1>5, <1>6, <1>7 DEF Names

LEMMA IntervalType ==
  /\ MinInterval \in Nat \ {0} /\ ForceInterval \in Nat \ {0}
  /\ MonInterval \in Nat \ {0} /\ PingInterval \in Nat \ {0}
BY SenderAssumption

\* Whatever is shown is the batch that was built or none at all.
LEMMA BatchClean ==
  ASSUME NEW s, NEW natives, native' = native, Show(BatchOf(s)),
         \A k \in DOMAIN s.own : s.own[k].age <= OwnTTL
  PROVE  BatchIsClean'
<1> DEFINE f == BatchOf(s)
<1>1. frame' = f \/ frame' = NoFrame
  BY DEF Show
<1>2. CASE frame' = NoFrame
  BY <1>2 DEF BatchIsClean, NoFrame
<1>3. CASE frame' = f
  <2>1. f.entities = BatchEntities(s, native) /\ f.own = {s.own[k] : k \in DOMAIN s.own}
    BY DEF BatchOf, Frame
  <2>2. \A id \in f.entities : id.key \in native'
    BY <2>1 DEF BatchEntities, Public, IsNative
  <2>3. \A e \in f.own : e.age <= OwnTTL
    BY <2>1
  <2> HIDE DEF f
  <2>4. QED
    BY <1>3, <2>2, <2>3 DEF BatchIsClean
<1>4. QED
  BY <1>1, <1>2, <1>3

LEMMA OtherFrames ==
  ASSUME NEW f, f.kind # "batch", frame' = f \/ frame' = NoFrame
  PROVE  BatchIsClean'
BY DEF BatchIsClean, NoFrame

LEMMA TickKeeps ==
  ASSUME SenderIInv, Tick
  PROVE  SenderIInv' /\ \A name \in Names : GivesUp(name)
<1> DEFINE s == IF BasicsDue THEN WithBasics(store) ELSE store
<1>1. s \in WrittenFrom(store) /\ store \in Stores
  <2>1. store \in Stores /\ store \in WrittenFrom(store)
    BY StoresKeepThemselves DEF SenderIInv
  <2>2. WithBasics(store) \in WrittenFrom(store)
    BY <2>1, BasicsKeep DEF WithBasics
  <2>3. QED
    BY <2>1, <2>2
<1>2. native' = native /\ native' \in Natives /\ link' = link /\ link' \in Links
  BY DEF Tick, SenderIInv
<1>3. sinceBasics' \in 0 .. 1
  BY DEF Tick, SenderIInv
<1>4. /\ sinceSend \in 0..ForceInterval /\ sinceBuild \in 0..ForceInterval /\ sinceSend <= sinceBuild
      /\ sinceMon \in 0..MonInterval /\ sincePing \in 0..PingInterval /\ pending \in BOOLEAN
  BY DEF SenderIInv, Never
<1>5. /\ 0 \in 0..ForceInterval /\ 0 \in 0..MonInterval /\ 0 \in 0..PingInterval
  BY IntervalType
<1> DEFINE TimersKeep == /\ sinceSend' \in 0..ForceInterval /\ sinceBuild' \in 0..ForceInterval
                         /\ sinceSend' <= sinceBuild'
                         /\ sinceMon' \in 0..MonInterval /\ sincePing' \in 0..PingInterval
                         /\ pending' \in BOOLEAN
<1>6. ASSUME store' \in Stores, \A name \in Names : GivesUp(name), TimersKeep, BatchIsClean'
      PROVE  SenderIInv' /\ \A name \in Names : GivesUp(name)
  BY <1>2, <1>3, <1>6 DEF SenderIInv, Never
<1>7. ASSUME store' = s, TimersKeep, BatchIsClean'
      PROVE  SenderIInv' /\ \A name \in Names : GivesUp(name)
  <2>1. store' \in Stores /\ \A name \in Names : GivesUp(name)
    BY <1>1, <1>7, WritesGiveUp
  <2>2. QED
    BY <1>6, <1>7, <2>1
<1>8. \/ Ping /\ store' = s
      \/ ~PingDue /\ BatchDue /\ SendBatch(s) /\ UNCHANGED <<sinceMon, sincePing>>
      \/ ~PingDue /\ ~BatchDue /\ MonDue /\ SendMon(s) /\ store' = s
         /\ UNCHANGED <<sinceSend, sincePing, sinceBuild, pending>>
      \/ store' = s /\ frame' = NoFrame
         /\ UNCHANGED <<sinceSend, sinceMon, sincePing, sinceBuild, pending>>
  BY DEF Tick
<1> HIDE DEF s, TimersKeep
<1>9. CASE Ping /\ store' = s
  <2>1. TimersKeep
    BY <1>4, <1>5, <1>9 DEF Ping, TimersKeep
  <2>2. BatchIsClean'
    BY <1>9, OtherFrames DEF Ping, Show, Frame
  <2>3. QED
    BY <1>7, <1>9, <2>1, <2>2
<1>10. CASE SendBatch(s) /\ UNCHANGED <<sinceMon, sincePing>>
  <2>1. CASE link = "no wifi" /\ store' = s /\ frame' = NoFrame
             /\ UNCHANGED <<sinceSend, sinceBuild, pending>>
    <3>1. TimersKeep
      BY <1>4, <1>10, <2>1 DEF TimersKeep
    <3>2. BatchIsClean'
      BY <2>1 DEF BatchIsClean, NoFrame
    <3>3. QED
      BY <1>7, <2>1, <3>1, <3>2
  <2>2. CASE store' = s /\ frame' = NoFrame /\ sinceSend' = 0 /\ UNCHANGED <<sinceBuild, pending>>
    <3>1. TimersKeep
      BY <1>4, <1>5, <1>10, <2>2 DEF TimersKeep
    <3>2. BatchIsClean'
      BY <2>2 DEF BatchIsClean, NoFrame
    <3>3. QED
      BY <1>7, <2>2, <3>1, <3>2
  <2>3. CASE LET basic == WithBasics(s)
                 built == [basic EXCEPT !.own = Prune(@, OwnTTL)]
                 f     == BatchOf(built)
             IN /\ store' = built
                /\ sinceSend' = SendTimeAfter(f)
                /\ sinceBuild' = 0
                /\ pending' = PendingAfter(f)
                /\ Show(f)
    <3> DEFINE basic == WithBasics(s)
               built == [basic EXCEPT !.own = Prune(@, OwnTTL)]
    <3>1. /\ store' = built /\ sinceSend' = 0 /\ sinceBuild' = 0
          /\ pending' \in BOOLEAN /\ Show(BatchOf(built))
      BY <1>4, <2>3 DEF SendTimeAfter, PendingAfter
    <3>2. basic \in WrittenFrom(store)
      BY <1>1, BasicsKeep DEF WithBasics
    <3> HIDE DEF basic
    <3>3. /\ store' \in Stores /\ \A name \in Names : GivesUp(name)
          /\ \A k \in DOMAIN store'.own : store'.own[k].age <= OwnTTL
      BY <1>1, <3>1, <3>2, BuildGivesUp
    <3>4. \A k \in DOMAIN built.own : built.own[k].age <= OwnTTL
      BY <3>1, <3>3
    <3> HIDE DEF built
    <3>5. BatchIsClean'
      BY <1>2, <3>1, <3>4, BatchClean
    <3>6. TimersKeep
      BY <1>4, <1>5, <1>10, <3>1 DEF TimersKeep
    <3>7. QED
      BY <1>6, <3>3, <3>5, <3>6
  <2>4. QED
    BY <1>10, <2>1, <2>2, <2>3 DEF SendBatch
<1>11. CASE SendMon(s) /\ store' = s /\ UNCHANGED <<sinceSend, sincePing, sinceBuild, pending>>
  <2>1. TimersKeep
    BY <1>4, <1>5, <1>11 DEF SendMon, TimersKeep
  <2>2. BatchIsClean'
    <3>1. frame' = MonOf(s) \/ frame' = NoFrame
      BY <1>11 DEF SendMon, Show
    <3>2. MonOf(s).kind = "mon"
      BY DEF MonOf, Frame
    <3>3. QED
      BY <3>1, <3>2, OtherFrames
  <2>3. QED
    BY <1>7, <1>11, <2>1, <2>2
<1>12. CASE store' = s /\ frame' = NoFrame
            /\ UNCHANGED <<sinceSend, sinceMon, sincePing, sinceBuild, pending>>
  <2>1. TimersKeep
    BY <1>4, <1>12 DEF TimersKeep
  <2>2. BatchIsClean'
    BY <1>12 DEF BatchIsClean, NoFrame
  <2>3. QED
    BY <1>7, <1>12, <2>1, <2>2
<1>13. QED
  BY <1>8, <1>9, <1>10, <1>11, <1>12

LEMMA ClockKeeps ==
  ASSUME SenderIInv, Clock
  PROVE  SenderIInv' /\ \A name \in Names : GivesUp(name)
<1>1. /\ store' \in Stores
      /\ Ids(store'.pub) = Ids(store.pub) /\ Ids(store'.mon) = Ids(store.mon)
      /\ Ids(store'.own) = Ids(store.own)
  BY AgedStoreKeeps DEF SenderIInv, Clock
<1>2. \A name \in Names : GivesUp(name)
  <2>1. \A name \in Names : Ids(store'[name]) = Ids(store[name])
    BY <1>1 DEF Names
  <2>2. \A name \in Names : \A k \in DOMAIN store[name] : store[name][k].id \in Ids(store[name])
    BY DEF Ids
  <2>3. QED
    BY <2>1, <2>2 DEF GivesUp
<1>3. /\ sinceSend \in 0..ForceInterval /\ sinceBuild \in 0..ForceInterval /\ sinceSend <= sinceBuild
      /\ sinceMon \in 0..MonInterval /\ sincePing \in 0..PingInterval /\ sinceBasics \in 0..1
  BY DEF SenderIInv, Never
<1>4. /\ sinceSend' \in 0..Never /\ sinceBuild' \in 0..Never /\ sinceSend' <= sinceBuild'
      /\ sinceMon' \in 0..MonInterval /\ sincePing' \in 0..PingInterval /\ sinceBasics' \in 0..1
  BY <1>3, IntervalType DEF Clock, Later, Never
<1>5. BatchIsClean'
  BY DEF Clock, BatchIsClean, NoFrame
<1>6. native' \in Natives /\ pending' \in BOOLEAN /\ link' \in Links
  BY DEF Clock, SenderIInv
<1>7. QED
  BY <1>1, <1>2, <1>4, <1>5, <1>6 DEF SenderIInv

LEMMA WritesKeep ==
  ASSUME SenderIInv, NEW ids \in Seq(WrittenIds), Writes(ids), pending' \in BOOLEAN
  PROVE  SenderIInv' /\ \A name \in Names : GivesUp(name)
<1>1. store' \in WrittenFrom(store) /\ store \in Stores
  BY StoresKeepThemselves, PushAllKeeps DEF SenderIInv, Writes
<1>2. store' \in Stores /\ \A name \in Names : GivesUp(name)
  BY <1>1, WritesGiveUp
<1>3. BatchIsClean'
  BY DEF Writes, BatchIsClean, NoFrame
<1>4. QED
  BY <1>2, <1>3 DEF SenderIInv, Writes, timers

LEMMA SenderStep ==
  ASSUME SenderIInv, [SenderNext]_senderVars
  PROVE  SenderIInv' /\ \A name \in Names : GivesUp(name)
<1>1. ASSUME store' = store PROVE \A name \in Names : GivesUp(name)
  BY <1>1 DEF GivesUp, Ids
<1>2. CASE Tick
  BY <1>2, TickKeeps
<1>3. CASE Clock
  BY <1>3, ClockKeeps
<1>4. ASSUME NEW id \in Posted, NEW inBatch \in BOOLEAN, Post(id, inBatch)
      PROVE  SenderIInv' /\ \A name \in Names : GivesUp(name)
  <2>1. <<Classify(id, native)>> \in Seq(WrittenIds)
    BY WrittenLists
  <2>2. Writes(<<Classify(id, native)>>) /\ pending' \in BOOLEAN
    BY <1>4 DEF Post, SenderIInv
  <2>3. QED
    BY <2>1, <2>2, WritesKeep
<1>5. ASSUME NEW keys \in Telemetry, Measured(keys)
      PROVE  SenderIInv' /\ \A name \in Names : GivesUp(name)
  <2>1. PrefixAll("mon", keys) \in Seq(WrittenIds)
    BY WrittenLists
  <2>2. Writes(PrefixAll("mon", keys)) /\ pending' \in BOOLEAN
    BY <1>5 DEF Measured, SenderIInv
  <2>3. QED
    BY <2>1, <2>2, WritesKeep
<1>6. ASSUME NEW id \in Foreign, Leave(id)
      PROVE  SenderIInv' /\ \A name \in Names : GivesUp(name)
  <2>1. <<id>> \in Seq(WrittenIds)
    BY WrittenLists
  <2>2. Writes(<<id>>) /\ pending' \in BOOLEAN
    BY <1>6 DEF Leave, SenderIInv
  <2>3. QED
    BY <2>1, <2>2, WritesKeep
<1>7. ASSUME NEW keys \in NativeLists, Learn(keys)
      PROVE  SenderIInv' /\ \A name \in Names : GivesUp(name)
  <2>1. native' \in Natives
    BY <1>7, WithNativesStays DEF Learn, SenderIInv
  <2>2. BatchIsClean'
    BY <1>7 DEF Learn, BatchIsClean, NoFrame
  <2>3. SenderIInv'
    BY <1>7, <2>1, <2>2 DEF Learn, SenderIInv, timers
  <2>4. QED
    BY <1>1, <1>7, <2>3 DEF Learn
<1>8. CASE LinkChanges
  <2>1. BatchIsClean'
    BY <1>8 DEF LinkChanges, BatchIsClean, NoFrame
  <2>2. SenderIInv'
    BY <1>8, <2>1 DEF LinkChanges, SenderIInv, timers, storeVars
  <2>3. QED
    BY <1>1, <1>8, <2>2 DEF LinkChanges, storeVars
<1>9. CASE UNCHANGED senderVars
  <2>1. SenderIInv'
    BY <1>9 DEF senderVars, storeVars, timers, SenderIInv, BatchIsClean
  <2>2. QED
    BY <1>1, <1>9, <2>1 DEF senderVars, storeVars
<1>10. QED
  BY <1>2, <1>3, <1>4, <1>5, <1>6, <1>7, <1>8, <1>9 DEF SenderNext

\* Types, each id once and in its table, clean batches, and time between two that are
\* put together (property SenderInv).
THEOREM DataSenderInv == SenderSpec => []SenderInv
<1>1. SenderIInv /\ [SenderNext]_senderVars => SenderIInv'
  BY SenderStep
<1>2. QED
  BY SenderIInvInit, SenderIInvImplies, <1>1, PTL DEF SenderSpec

\* Whatever list of entities a handler writes, an entry that is gone was written no later
\* than any that stays as it is, or it is one of own[] past its time (property
\* OldestMakesRoom).
THEOREM DataSenderOldest == SenderSpec => OldestMakesRoom
<1>1. SenderIInv /\ [SenderNext]_senderVars => SenderIInv'
  BY SenderStep
<1>2. SenderIInv /\ [SenderNext]_senderVars
        => [\A name \in {"pub", "mon", "own"} : GivesUp(name)]_senderVars
  BY SenderStep DEF Names
<1>3. QED
  BY SenderIInvInit, <1>1, <1>2, PTL DEF SenderSpec, OldestMakesRoom
=============================================================================

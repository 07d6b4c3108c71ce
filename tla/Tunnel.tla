------------------------------- MODULE Tunnel -------------------------------
(***************************************************************************)
(* The remote terminal (tunnel.cpp): a TCP connection to one host of the   *)
(* LAN, relayed over the WebSocket.  tunnel_tick reads chunks from the     *)
(* host and sends them on, the BE's messages open, feed, close and forbid  *)
(* the tunnel, and the buffers are given back some time after a session.   *)
(* Chunk sizes and the reading window are left open: a tick moves any      *)
(* number of chunks up to TickMax.  The tun_state messages, which only     *)
(* tell the BE what happened, are left out.                                *)
(***************************************************************************)
EXTENDS Naturals, Sequences, FiniteSets

CONSTANTS Tids,        \* the BE's numbers of terminal sessions
          NoTid,       \* s_tid of an idle tunnel
          TickMax,     \* TUN_TICK_MAX
          MaxChunks    \* bound: chunks all LAN hosts write in one behaviour

ASSUME TunnelAssumption == NoTid \notin Tids /\ TickMax \in Nat \ {0} /\ MaxChunks \in Nat

VARIABLES tUp,        \* s_up: the buffers are allocated
          tEnabled,   \* s_enabled
          policy,     \* remote_ok in flash
          tTid,       \* s_tid, NoTid while s_state is S_IDLE
          lingers,    \* s_idle_since is set
          peerOpen,   \* the LAN host has its end open
          lan,        \* chunks in the TCP buffer, written and not yet read
          written,    \* number of chunks written so far
          toBe,       \* tun_data messages the BE got: tid and chunk
          toLan,      \* tun_data the hosts got: the frame's tid, the tunnel's
          gone        \* chunks that reached nobody, by the reason

socketVars == <<tTid, peerOpen, lan, gone>>
tunnelVars == <<tUp, tEnabled, policy, lingers, socketVars, written, toBe, toLan>>

TunnelActive == tTid # NoTid

\* A chunk knows its number and the tunnel whose host wrote it.
Chunk(n, t) == [n |-> n, tid |-> t]

TunnelInit == /\ tUp = FALSE
              /\ tEnabled = FALSE
              /\ tTid = NoTid
              /\ lingers = FALSE
              /\ peerOpen = FALSE
              /\ lan = <<>>
              /\ written = 0
              /\ toBe = <<>> /\ toLan = {}
              /\ gone = [unsent |-> {}, cut |-> {}]

\* tunnel_init.
TunnelLoad == /\ tEnabled' = policy
              /\ UNCHANGED <<tUp, policy, lingers, socketVars, written, toBe, toLan>>

\* Mistakes used by the project's mutants only.
NeverOver == FALSE

-----------------------------------------------------------------------------
ChunksIn(q) == {q[k] : k \in DOMAIN q}

\* do_close: the socket is stopped, what is left in its buffer is gone.
DoClose == /\ tTid' = NoTid
           /\ peerOpen' = FALSE
           /\ gone' = [gone EXCEPT !.cut = @ \cup ChunksIn(lan)]
           /\ lan' = <<>>

\* The RAM is gone, and the socket with it.
TunnelForgotten == /\ tUp' = FALSE /\ tEnabled' = FALSE /\ lingers' = FALSE
                   /\ DoClose
                   /\ UNCHANGED <<policy, written, toBe, toLan>>

\* tunnel_on_open: forbidden, no memory for the buffers, busy, or an address
\* that is not a literal private one or does not answer.  The buffers stay
\* in the last two cases.
OnTunOpen(t, memory, connects) ==
  /\ LET spun == tUp \/ memory
         opens == spun /\ ~TunnelActive /\ connects
     IN IF ~tEnabled THEN UNCHANGED <<tUp, lingers, tTid, peerOpen>>
        ELSE /\ tUp' = spun
             /\ lingers' = (lingers /\ tUp)
             /\ tTid' = IF opens THEN t ELSE tTid
             /\ peerOpen' = (peerOpen \/ opens)
  /\ UNCHANGED <<tEnabled, policy, lan, written, toBe, toLan, gone>>

Accepted(t) == tUp /\ TunnelActive /\ t = tTid

\* tunnel_on_data: frames of another tunnel are dropped; nobody asks whether
\* the write to the host worked.
OnTunData(t, wrote) ==
  /\ toLan' = IF Accepted(t) /\ wrote THEN toLan \cup {[frame |-> t, host |-> tTid]}
                                      ELSE toLan
  /\ UNCHANGED <<tUp, tEnabled, policy, lingers, socketVars, written, toBe>>

CloseIfOpen == IF TunnelActive THEN DoClose ELSE UNCHANGED socketVars

\* tunnel_on_close: whatever tid it names.
OnTunClose == /\ CloseIfOpen
              /\ UNCHANGED <<tUp, tEnabled, policy, lingers, written, toBe, toLan>>

\* tunnel_set_enabled: flash first, then the flag, then the session.
SetEnabled(on) == /\ policy' = on
                  /\ tEnabled' = on
                  /\ IF on THEN UNCHANGED socketVars ELSE CloseIfOpen
                  /\ UNCHANGED <<tUp, lingers, written, toBe, toLan>>

\* The LAN host writes, or closes its end.
HostWrites == /\ TunnelActive /\ peerOpen
              /\ written < MaxChunks
              /\ written' = written + 1
              /\ lan' = Append(lan, Chunk(written + 1, tTid))
              /\ UNCHANGED <<tUp, tEnabled, policy, lingers, tTid, peerOpen, gone,
                             toBe, toLan>>

HostCloses == /\ TunnelActive /\ peerOpen
              /\ peerOpen' = FALSE
              /\ UNCHANGED <<tUp, tEnabled, policy, lingers, tTid, lan, gone,
                             written, toBe, toLan>>

\* connected() is false and available() is 0.
HostDone(rest) == ~peerOpen /\ rest = <<>>

\* The part of tunnel_tick for an open tunnel: k chunks are sent on, one more
\* is lost if a send fails, and then come the reasons to close.  "late"
\* stands for the idle and the session limit; the second may strike at any
\* tick.
Relay(k, fails, late) ==
  LET read == IF fails THEN k + 1 ELSE k
      rest == SubSeq(lan, read + 1, Len(lan))
      ends == late \/ HostDone(rest)
  IN  /\ toBe' = toBe \o [i \in 1 .. k |-> [tid |-> tTid, chunk |-> lan[i]]]
      /\ lan' = IF ends THEN <<>> ELSE rest
      /\ gone' = [unsent |-> gone.unsent \cup (IF fails THEN {lan[read]} ELSE {}),
                  cut |-> gone.cut \cup (IF late THEN ChunksIn(rest) ELSE {})]
      /\ tTid' = IF ends THEN NoTid ELSE tTid
      /\ peerOpen' = (peerOpen /\ ~ends)

LingerOver == lingers

\* The part for an idle tunnel, in the same tick: a forbidden subsystem gives
\* its buffers back at once, the others after lingering ("over": the two
\* minutes are past).
GiveBack(over) ==
  LET freed == ~tEnabled \/ (over /\ LingerOver)
  IN IF tTid' # NoTid THEN tUp' = tUp /\ lingers' = FALSE
                      ELSE tUp' = ~freed /\ lingers' = ~freed

TunTick(k, fails, late, over) ==
  /\ tUp
  /\ IF TunnelActive THEN Relay(k, fails, late)
                     ELSE k = 0 /\ ~fails /\ ~late /\ UNCHANGED <<socketVars, toBe>>
  /\ GiveBack(over)
  /\ UNCHANGED <<tEnabled, policy, written, toLan>>

\* What a tick may move; without the WebSocket no send works.
Moves(linkUp) == {m \in [k : 0 .. TickMax, fails : BOOLEAN] :
                    /\ m.k + (IF m.fails THEN 1 ELSE 0) <= Len(lan)
                    /\ m.fails => m.k < TickMax
                    /\ ~linkUp => /\ m.k = 0
                                  /\ lan # <<>> => m.fails}

SomeTick(linkUp) == \E m \in Moves(linkUp), late, over \in BOOLEAN :
                      TunTick(m.k, m.fails, late, over)

-----------------------------------------------------------------------------
TunnelTypeOK ==
  /\ tUp \in BOOLEAN /\ tEnabled \in BOOLEAN /\ policy \in BOOLEAN
  /\ tTid \in Tids \cup {NoTid}
  /\ lingers \in BOOLEAN /\ peerOpen \in BOOLEAN
  /\ written \in 0 .. MaxChunks

\* A running session has its buffers and the owner's permission, and without
\* one nothing is left of a connection: once remote access is off nothing is
\* relayed any more.
RunsOnlyAllowed == /\ TunnelActive => tUp /\ tEnabled
                   /\ ~TunnelActive => lan = <<>> /\ ~peerOpen

Delivered == {toBe[k].chunk : k \in DOMAIN toBe}

\* Every chunk a host wrote is in the TCP buffer, with the BE, lost by a send
\* that failed, or cut off by a close the host did not ask for - one of them;
\* and the chunks the BE got it got in order.  So a host that closes behind
\* its last byte loses nothing unless a send fails.
BytesAccountedFor ==
  /\ \A i, j \in DOMAIN toBe : i < j => toBe[i].chunk.n < toBe[j].chunk.n
  /\ {c.n : c \in ChunksIn(lan) \cup Delivered \cup gone.unsent \cup gone.cut} = 1 .. written
  /\ Len(lan) + Len(toBe) + Cardinality(gone.unsent) + Cardinality(gone.cut) = written

\* No byte of one session ends up in another, in either direction, though
\* the BE may still send for a session that is over.
NoCrossTalk == /\ \A k \in DOMAIN toBe : toBe[k].tid = toBe[k].chunk.tid
               /\ \A f \in toLan : f.frame = f.host
               /\ \A c \in ChunksIn(lan) : c.tid = tTid

\* tunnel.cpp:8-10 and 163-165: only as much is read as can be sent, the rest
\* stays in the TCP buffer - "zero dropped bytes".
ZeroDrop == gone.unsent = {}
=============================================================================

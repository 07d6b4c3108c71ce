------------------------------ MODULE NodeLife ------------------------------
(***************************************************************************)
(* What a node keeps over its restarts, composed: the identity, the        *)
(* version and its pending update, the subscription map, the message       *)
(* actions and the permission of the remote terminal, with the terminal    *)
(* and the inbox, which live in RAM.  The node crashes between any two     *)
(* saves, loses power, is updated, reset to factory state, and comes up    *)
(* in the portal or in node mode (main.cpp).                               *)
(*                                                                         *)
(* Onboarding.tla has the choice between portal and node mode and the      *)
(* settings that belong to it; here it is left open.                       *)
(***************************************************************************)
EXTENDS Identity, Ota, SubMap, Messages, Tunnel

CONSTANTS MaxOps,       \* bound: requests of the owner, the BE and other nodes
          MaxCrashes    \* bound: crashes and power cuts

ASSUME LifeAssumption == MaxOps \in Nat /\ MaxCrashes \in Nat

VARIABLES power,    \* "off", "boot" (in setup()), "halted", "portal" or "up"
          ending,   \* ESP.restart() comes when the handler's saves are made
          link,     \* the WebSocket is identified and encrypted
          ops, crashes,
          torn      \* history: crashes within a handler

lifeVars == <<power, ending, link, ops, crashes, torn>>
vars == <<flashVars, identityVars, otaVars, subVars, routerVars, inboxVars,
          tunnelVars, lifeVars>>

\* What only the portal or setup() changes, and the parts of a running node.
bootVars == <<identityVars, power, crashes, torn>>

Keys == IdentityKeys \cup OtaKeys \cup SubKeys \cup RouterKeys

New == [k \in Keys |-> None]
Old == [New EXCEPT ![Key("privkey", 0)] = 1, ![Key("pubkey", 0)] = 1,
                   ![Key("api_token", 0)] = TRUE,
                   ![Key("t", 0)] = CHOOSE t \in Targets : TRUE, ![Key("p", 0)] = Reserved]

\* A node fresh from the factory, or one in use whose older firmware let "mon"
\* be a prefix and whose owner allows the terminal.
Init == /\ \/ flash = New /\ made = 0 /\ policy = FALSE
           \/ flash = Old /\ made = 1 /\ policy = TRUE
        /\ todo = <<>>
        /\ IdentityInit /\ OtaInit /\ SubEmpty /\ MessagesInit /\ TunnelInit
        /\ power = "off" /\ ending = FALSE /\ link = FALSE
        /\ ops = 0 /\ crashes = 0 /\ torn = 0

-----------------------------------------------------------------------------
(***************************************************************************)
(* Restarts.                                                               *)
(***************************************************************************)
GoDown(powerLost) == /\ power' = "off" /\ ending' = FALSE /\ link' = FALSE
                     /\ SavesLost /\ IdentityForgotten /\ BootLoader(powerLost)
                     /\ SubForgotten /\ MessagesForgotten /\ TunnelForgotten
                     /\ UNCHANGED ops

Restart == /\ ending /\ Idle
           /\ GoDown(FALSE)
           /\ UNCHANGED <<crashes, torn>>

Crash == /\ power # "off" /\ crashes < MaxCrashes
         /\ \E powerLost \in BOOLEAN : GoDown(powerLost)
         /\ crashes' = crashes + 1
         /\ torn' = IF Idle THEN torn ELSE torn + 1

Save == /\ SaveNext
        /\ UNCHANGED <<identityVars, otaVars, subVars, routerVars, inboxVars, tunnelVars,
                       lifeVars>>

-----------------------------------------------------------------------------
(***************************************************************************)
(* setup()                                                                 *)
(***************************************************************************)
Boot == /\ power = "off"
        /\ LoadIdentity
        /\ power' = "boot"
        /\ UNCHANGED <<otaVars, subVars, routerVars, inboxVars, tunnelVars,
                       ending, link, ops, crashes, torn>>

InSetup == power = "boot" /\ Idle

\* identity_init has failed: while (true) delay(1000).
Halt == /\ InSetup /\ ~SignWorks
        /\ power' = "halted"
        /\ UNCHANGED <<flashVars, identityVars, otaVars, subVars, routerVars, inboxVars,
                       tunnelVars, ending, link, ops, crashes, torn>>

EnterPortal == /\ InSetup /\ SignWorks
               /\ power' = "portal"
               /\ BecomesKnown /\ SubLoad
               /\ UNCHANGED <<flashVars, otaVars, routerVars, inboxVars, tunnelVars,
                              ending, link, ops, crashes, torn>>

\* The WiFi works: the rest of setup().
ComeUp == /\ InSetup /\ SignWorks
          /\ power' = "up"
          /\ BecomesKnown /\ SubLoad /\ RouterLoad /\ OtaLoad /\ TunnelLoad
          /\ UNCHANGED <<inboxVars, ending, link, ops, crashes, torn>>

-----------------------------------------------------------------------------
(***************************************************************************)
(* The portal, and what both modes can do.  A factory reset from the       *)
(* portal leaves it open for 0.8 s more.                                   *)
(***************************************************************************)
Op == ops < MaxOps /\ ops' = ops + 1

PortalAnswers == power = "portal" /\ Idle
NodeRuns == power = "up" /\ Idle /\ ~ending

PortalSetId == /\ PortalAnswers /\ Op
               /\ \E id \in Overrides : SetOverride(id)
               /\ UNCHANGED <<otaVars, subVars, routerVars, inboxVars, tunnelVars,
                              power, ending, link, crashes, torn>>

PortalEnds == /\ PortalAnswers /\ ~ending
              /\ ending' = TRUE
              /\ UNCHANGED <<flashVars, identityVars, otaVars, subVars, routerVars,
                             inboxVars, tunnelVars, power, link, ops, crashes, torn>>

\* The keys of the namespace "sensmos"; the subscription map, the message
\* actions and the noted update are in others, which no reset clears.
Cleared == [k \in Keys |-> IF k \in IdentityKeys THEN None ELSE flash[k]]

\* From the portal, the serial console, the button or the HTTP server.
FactoryReset == /\ NodeRuns \/ (PortalAnswers /\ ~ending)
                /\ Op
                /\ flash' = Cleared /\ UNCHANGED todo
                /\ policy' = FALSE
                /\ ending' = TRUE
                /\ known' = None /\ UNCHANGED <<priv, pub, deviceId, made>>
                /\ UNCHANGED <<otaVars, subVars, routerVars, inboxVars, tUp, tEnabled,
                               lingers, socketVars, written, toBe, toLan,
                               power, link, crashes, torn>>

-----------------------------------------------------------------------------
(***************************************************************************)
(* Node mode.                                                              *)
(***************************************************************************)
LinkMoves == /\ NodeRuns
             /\ link' = ~link
             /\ UNCHANGED <<flashVars, otaVars, subVars, routerVars, inboxVars, tunnelVars,
                            bootVars, ending, ops>>

\* ota_handle is called for an encrypted command.
Update == /\ NodeRuns /\ link /\ Op
          /\ \E v \in Versions : Flashed(v)
          /\ ending' = TRUE
          /\ UNCHANGED <<subVars, routerVars, inboxVars, tunnelVars, bootVars, link>>

OtaTick == /\ NodeRuns
           /\ Confirm
           /\ UNCHANGED <<subVars, routerVars, inboxVars, tunnelVars, bootVars,
                          ending, link, ops>>

\* POST /remote/subscribe and GET /remote/data; the former takes the default
\* for a reserved prefix, the latter refuses it.
Subscribe == /\ NodeRuns /\ Op
             /\ \E t \in Targets : \E p \in {Default, PrefixFor(t)} : SubMapSet(t, p)
             /\ UNCHANGED <<otaVars, routerVars, inboxVars, tunnelVars, bootVars,
                            ending, link>>

\* POST and DELETE /config/messages.
ConfigureMessage == /\ NodeRuns /\ Op
                    /\ \E id \in MsgIds \cup {Wild} : SetById(id) \/ DeleteById(id)
                    /\ UNCHANGED <<otaVars, subVars, inboxVars, tunnelVars, bootVars,
                                   ending, link>>

\* on_message_recv, and the app at the inbox.
MessageComes == /\ NodeRuns /\ link /\ Op
                /\ \E from \in Senders, id \in MsgIds : Receive(from, id)
                /\ UNCHANGED <<flashVars, otaVars, subVars, tunnelVars, bootVars,
                               ending, link>>

AppAtInbox == /\ NodeRuns /\ inbox # <<>> /\ Op
              /\ ReadInbox \/ AckRead \/ \E from \in Senders : AckSender(from)
              /\ UNCHANGED <<flashVars, otaVars, subVars, tunnelVars, bootVars,
                             ending, link>>

\* The BE's messages to the terminal, the LAN host, and tunnel_tick.
TunnelCommand == /\ NodeRuns /\ link /\ Op
                 /\ \/ \E t \in Tids, memory, connects \in BOOLEAN :
                         OnTunOpen(t, memory, connects)
                    \/ \E t \in Tids, wrote \in BOOLEAN : OnTunData(t, wrote)
                    \/ OnTunClose
                    \/ \E on \in BOOLEAN : SetEnabled(on)
                 /\ UNCHANGED <<flashVars, otaVars, subVars, routerVars, inboxVars, bootVars,
                                ending, link>>

LanHost == /\ power = "up"
           /\ HostWrites \/ HostCloses
           /\ UNCHANGED <<flashVars, otaVars, subVars, routerVars, inboxVars, lifeVars,
                          identityVars>>

Ticks(tick) == /\ NodeRuns
               /\ tick
               /\ UNCHANGED <<flashVars, otaVars, subVars, routerVars, inboxVars, lifeVars,
                              identityVars>>

Tick == Ticks(SomeTick(link))

\* Both time limits are over.
LateTick == Ticks(\E m \in Moves(link) : TunTick(m.k, m.fails, TunnelActive, TRUE))

-----------------------------------------------------------------------------
Next == \/ Restart \/ Crash \/ Save
        \/ Boot \/ Halt \/ EnterPortal \/ ComeUp
        \/ PortalSetId \/ PortalEnds \/ FactoryReset
        \/ LinkMoves \/ Update \/ OtaTick
        \/ Subscribe \/ ConfigureMessage \/ MessageComes \/ AppAtInbox
        \/ TunnelCommand \/ LanHost \/ Tick

Spec == Init /\ [][Next]_vars

\* Handlers end, a node that has power boots, a portal nobody uses times
\* out, loop() reaches every tick and the time limits pass.
FairSpec == /\ Spec
            /\ WF_vars(Save) /\ WF_vars(Restart)
            /\ WF_vars(Boot) /\ WF_vars(Halt \/ EnterPortal \/ ComeUp)
            /\ WF_vars(OtaTick) /\ WF_vars(LateTick)

-----------------------------------------------------------------------------
TypeOK ==
  /\ TunnelTypeOK
  /\ power \in {"off", "boot", "halted", "portal", "up"}
  /\ ending \in BOOLEAN /\ link \in BOOLEAN
  /\ ops \in 0 .. MaxOps /\ crashes \in 0 .. MaxCrashes /\ torn \in 0 .. crashes

\* Between two handlers the RAM is what the next boot would load: no setting
\* is lost by a restart, none comes back, none is changed only in flash.
RestartChangesNothing ==
  /\ power \in {"portal", "up"} /\ Idle /\ ~ending =>
       /\ priv = Stored("privkey", 0) /\ deviceId = IdOf(Stored("pubkey", 0))
       /\ subMap = StoredMap /\ subHead = StoredHead
  /\ NodeRuns =>
       /\ actions = StoredActions
       /\ tEnabled = policy
       /\ Pending \in {None, fw} /\ (armed <=> Pending = fw)

\* The id others know the node by outlives everything but a factory reset and
\* an id set on purpose; and only a crash between the two halves of a fresh
\* key pair can make a node halt.
IdentityKept == /\ known # None => power # "halted" /\ deviceId \in {None, known}
                /\ PairMatches
                /\ power = "halted" => Stored("pubkey", 0) = None /\ torn > 0

\* Types, and the invariants of the parts.
Inv == /\ TypeOK
       /\ SubMapSound /\ OneSlotPerId /\ NewestKept
       /\ RunsOnlyAllowed /\ BytesAccountedFor /\ NoCrossTalk
       /\ IdentityKept

\* What one request configured stays together: at most one slot per crash
\* within a handler holds parts of two, and without such a crash no message
\* runs what was configured for another id.
OnlyCrashesMix == /\ Cardinality(RouterMixed) + Cardinality(SubMixed) <= torn
                  /\ torn = 0 => RanForeign = {}

\* A noted update is settled: confirmed, or found not to have come up.
UpdateSettles == (Pending # None) ~> (Pending = None \/ power \in {"halted", "portal"})

\* The buffers of a terminal session are given back.
BuffersComeBack == tUp ~> ~tUp
=============================================================================

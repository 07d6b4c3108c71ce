----------------------------- MODULE Onboarding -----------------------------
(***************************************************************************)
(* How a node comes to its owner and back: the portal (captive_portal.cpp) *)
(* that takes the WiFi credentials and the owner, the choice setup() makes *)
(* between portal and node mode (main.cpp), the node registering itself    *)
(* with the BE (self_register.cpp), the watchdog over an onboarding nobody *)
(* confirmed, and the deletion by the owner (ws_client.cpp).  What         *)
(* outlives a restart is in flash; a handler writes it key by key, and the *)
(* node may crash between any two writes.                                  *)
(*                                                                         *)
(* Left out: the PIN, the trust rounds and the wallet backup, which touch  *)
(* none of this; the NTP, heap and interval gates of an attempt, which only *)
(* delay it; reg_payload, which the node only keeps for the app.  The      *)
(* attempt setup() makes is the same action as the later ones.             *)
(***************************************************************************)
EXTENDS WifiManager, Sequences

CONSTANTS Owners,       \* wallets
          Typed,        \* what users type: an ssid and a password
          Own,          \* the access point of the portal
          MaxRejects,   \* SELFREG_MAX_REJECTS (10)
          MaxCommands,  \* bound: orders of the user and of the BE
          MaxCrashes    \* bound: crashes and power cuts

ASSUME OnbAssumption == /\ None \notin Owners /\ Own \notin Aps \cup {None}
                        /\ MaxRejects \in Nat \ {0}
                        /\ MaxCommands \in Nat /\ MaxCrashes \in Nat

VARIABLES nvs,      \* the flash
          mode,     \* "boot" (in setup()), "portal" or "node"
          ram,      \* g_owner_address, s_done, s_gave_up, s_rejects, the watchdog, WS
                    \* identified, and the access point the radio is on
          todo,     \* the writes the running handler still makes, each a few keys
          after,    \* what it does then: "go on", "restart", or "restart soon"
          told,     \* history: the owner the node last registered with the BE
          commands, crashes

onbVars == <<nvs, mode, ram, todo, after, inRange, told, commands, crashes>>

Erased == [owner |-> None, deleted |-> FALSE, force |-> FALSE, confirmed |-> FALSE,
           done |-> FALSE, giveup |-> FALSE]
NoWifi == [ssid |-> None, password |-> None]

\* The flash n with the keys of w written over its own.
Over(w, n) == [k \in DOMAIN w \cup DOMAIN n |-> IF k \in DOMAIN w THEN w[k] ELSE n[k]]

FreshRam == [owner |-> None, done |-> FALSE, gaveUp |-> FALSE, rejects |-> 0,
             watchdog |-> "off", online |-> FALSE, ap |-> None]

OnbInit == /\ nvs = Over(Erased, NoWifi)
           /\ mode = "boot" /\ ram = FreshRam /\ todo = <<>> /\ after = "go on"
           /\ inRange \in SUBSET Aps /\ told = None /\ commands = 0 /\ crashes = 0

Linked == ram.ap \in inRange

\* Mistakes used by the project's mutants only.
StaysOff(f) == FALSE
LeaveWifi == <<[owner |-> None], [confirmed |-> FALSE]>>
FlashOnly(r) == r

(***************************************************************************)
(* A handler runs to its end before anything else of the node does; only a *)
(* factory reset from the portal leaves it 0.8 s before the restart.       *)
(***************************************************************************)
Idle == todo = <<>> /\ after = "go on"
InPortal == mode = "portal" /\ todo = <<>> /\ after # "restart"
PortalAnswers == InPortal /\ (ram.ap = Own \/ Linked)
NodeRuns == mode = "node" /\ Idle

Handle(writes, then, newRam) ==
    /\ todo' = writes /\ after' = then /\ ram' = newRam
    /\ UNCHANGED <<nvs, mode, inRange, crashes>>

Command == commands < MaxCommands /\ commands' = commands + 1

Write == /\ todo # <<>>
         /\ nvs' = Over(Head(todo), nvs) /\ todo' = Tail(todo)
         /\ UNCHANGED <<mode, ram, after, inRange, told, commands, crashes>>

GoDown == mode' = "boot" /\ ram' = FreshRam /\ todo' = <<>> /\ after' = "go on"

Reboot == /\ todo = <<>> /\ after # "go on" /\ GoDown
          /\ UNCHANGED <<nvs, inRange, told, commands, crashes>>

Crash == /\ mode # "boot" /\ crashes < MaxCrashes
         /\ crashes' = crashes + 1 /\ GoDown
         /\ UNCHANGED <<nvs, inRange, told, commands>>

(***************************************************************************)
(* setup()                                                                 *)
(***************************************************************************)
ForcedBoot(f) == f.force
DeletedBoot(f) == f.deleted
ClearForced == [force |-> FALSE]

\* The name wifi_connect found the hidden access point by is saved.
Corrected(o) == IF o.name = None THEN <<>> ELSE [ssid |-> o.name]

LoadedRam == [FreshRam EXCEPT !.owner = nvs.owner, !.done = nvs.done, !.gaveUp = nvs.giveup,
                              !.watchdog = IF nvs.confirmed THEN "confirmed" ELSE "armed"]

EnterPortal(f) == mode' = "portal" /\ nvs' = f
                  /\ ram' = [FreshRam EXCEPT !.owner = nvs.owner, !.ap = Own]

ComesUp(o) == /\ o.ap # None
              /\ mode' = "node" /\ ram' = [LoadedRam EXCEPT !.ap = o.ap]
              /\ nvs' = Over(Corrected(o), nvs)

\* ESP.restart() into the portal.
FailsToConnect(o) == /\ o.ap = None
                     /\ nvs' = Over([force |-> TRUE], nvs) /\ UNCHANGED <<mode, ram>>

Boot == /\ mode = "boot"
        /\ UNCHANGED <<todo, after, inRange, told, commands, crashes>>
        /\ \/ DeletedBoot(nvs) /\ EnterPortal(nvs)
           \/ ~DeletedBoot(nvs) /\ ForcedBoot(nvs) /\ EnterPortal(Over(ClearForced, nvs))
           \/ /\ ~DeletedBoot(nvs) /\ ~ForcedBoot(nvs)
              /\ \/ nvs.ssid = None /\ EnterPortal(nvs)
                 \/ /\ nvs.ssid # None
                    /\ \E o \in Connect(nvs.ssid, nvs.password) : ComesUp(o) \/ FailsToConnect(o)

(***************************************************************************)
(* The WiFi is saved by one function, whoever calls it.                    *)
(***************************************************************************)
SaveWifi(c) == <<[ssid |-> Trimmed(c.ssid)], [password |-> c.password],
                 [deleted |-> FALSE]>>

PortalRegister(c, o) ==
    /\ PortalAnswers /\ Command
    /\ Handle(SaveWifi(c) \o <<[owner |-> o]>>, "restart", [ram EXCEPT !.owner = o])
    /\ UNCHANGED told

\* Without an ssid the node keeps the WiFi it has.
PortalReregister(o) ==
    /\ PortalAnswers /\ Command /\ nvs.ssid # None
    /\ Handle(<<[owner |-> o]>>, "restart", [ram EXCEPT !.owner = o])
    /\ UNCHANGED told

PortalWifiSet(c) ==
    PortalAnswers /\ Command /\ Handle(SaveWifi(c), "restart", ram) /\ UNCHANGED told

TrustSign == PortalAnswers /\ Command /\ Handle(<<>>, "restart", ram) /\ UNCHANGED told

PortalFactoryReset ==
    PortalAnswers /\ Command /\ Handle(<<Erased, NoWifi>>, "restart soon", ram) /\ UNCHANGED told

\* Five minutes of portal, whatever was done in them.
PortalTimeout == /\ InPortal /\ nvs.ssid # None
                 /\ Handle(<<>>, "restart", ram) /\ UNCHANGED <<told, commands>>

(***************************************************************************)
(* The watchdog over the onboarding.                                       *)
(***************************************************************************)
WatchdogWipe == <<[owner |-> None], [confirmed |-> FALSE], NoWifi>>

WatchdogTimeout == /\ NodeRuns /\ ram.watchdog = "armed"
                   /\ Handle(WatchdogWipe, "restart", ram) /\ UNCHANGED <<told, commands>>

ConfirmWrites == IF ram.watchdog = "confirmed" THEN <<>> ELSE <<[confirmed |-> TRUE]>>

AppConfirms == /\ NodeRuns /\ Linked /\ Command
               /\ Handle(ConfirmWrites, "go on", [ram EXCEPT !.watchdog = "confirmed"])
               /\ UNCHANGED told

WsIdentified == /\ NodeRuns /\ Linked /\ ~ram.online
                /\ Handle(ConfirmWrites, "go on",
                          [ram EXCEPT !.watchdog = "confirmed", !.online = TRUE])
                /\ UNCHANGED <<told, commands>>

(***************************************************************************)
(* The node registers itself.                                              *)
(***************************************************************************)
GivesUp(n) == n >= MaxRejects
RejectWrites(n) == IF GivesUp(n) THEN <<[giveup |-> TRUE]>> ELSE <<>>

Attempting == /\ NodeRuns /\ Linked /\ ~ram.done /\ ~ram.gaveUp /\ ram.owner # None
              /\ UNCHANGED commands

Accepted == /\ Attempting /\ told' = ram.owner
            /\ Handle(<<[done |-> TRUE]>> \o ConfirmWrites, "go on",
                      [ram EXCEPT !.done = TRUE, !.watchdog = "confirmed"])

\* The BE accepted, but the answer is lost: for the node a transient failure.
AcceptedUnheard == Attempting /\ told' = ram.owner
                   /\ UNCHANGED <<nvs, mode, ram, todo, after, inRange, crashes>>

Rejected == LET n == ram.rejects + 1
            IN /\ Attempting
               /\ Handle(RejectWrites(n), "go on",
                         [ram EXCEPT !.rejects = n, !.gaveUp = GivesUp(n)])
               /\ UNCHANGED told

NoOwnerToTell == /\ NodeRuns /\ Linked /\ ~ram.done /\ ~ram.gaveUp /\ ram.owner = None
                 /\ Handle(<<>>, "go on", [ram EXCEPT !.gaveUp = TRUE])
                 /\ UNCHANGED <<told, commands>>

(***************************************************************************)
(* Orders to a running node, over HTTP, the serial line, the button or WS. *)
(***************************************************************************)
Responds == mode # "boot" /\ todo = <<>> /\ after # "restart"

PortalMode == /\ Responds /\ Command /\ Handle(<<[force |-> TRUE]>>, "restart", ram)
              /\ UNCHANGED told

FactoryReset == /\ Responds /\ Command /\ Handle(<<Erased, NoWifi>>, "restart", ram)
                /\ UNCHANGED told

Restart == /\ Responds /\ Command /\ Handle(<<>>, "restart", ram) /\ UNCHANGED told

OnDeleted == /\ NodeRuns /\ Linked /\ ram.online /\ Command
             /\ Handle(<<[deleted |-> TRUE]>>, "restart", ram) /\ UNCHANGED told

SerialRegister(o) ==
    /\ Responds /\ Command
    /\ Handle(<<[owner |-> o], [done |-> FALSE], [giveup |-> FALSE]>>, "restart",
              [ram EXCEPT !.owner = o])
    /\ UNCHANGED told

WithoutOwner(r) == [r EXCEPT !.owner = None]

SerialUnregister == /\ Responds /\ ram.owner # None /\ Command
                    /\ Handle(<<[owner |-> None]>>, after, WithoutOwner(ram))
                    /\ UNCHANGED told

\* The only order that connects at once, with the name as it was typed, in the
\* portal too, whose own access point it takes down.
SerialSetWifi(c) ==
    /\ Responds /\ Command
    /\ \E o \in Connect(c.ssid, c.password) :
         Handle(SaveWifi(c) \o (IF o.name = None THEN <<>> ELSE <<Corrected(o)>>), after,
                [ram EXCEPT !.ap = o.ap])
    /\ UNCHANGED told

\* Four minutes without WiFi; the watchdog's one minute is over by then.
WifiDown == /\ NodeRuns /\ ~Linked /\ ram.watchdog = "confirmed"
            /\ Handle(<<>>, "restart", ram) /\ UNCHANGED <<told, commands>>

\* The library goes on with the last name it was given.
Reconnects == /\ NodeRuns /\ ~Linked
              /\ \E a \in Regains(nvs.ssid, nvs.password) : ram' = [ram EXCEPT !.ap = a]
              /\ UNCHANGED <<nvs, mode, todo, after, inRange, told, commands, crashes>>

ApComesOrGoes == /\ todo = <<>>
                 /\ \E a \in Aps : inRange' \in {inRange \cup {a}, inRange \ {a}}
                 /\ UNCHANGED <<nvs, mode, ram, todo, after, told, commands, crashes>>

OnbNext == \/ Write \/ Reboot \/ Crash \/ Boot
           \/ \E o \in Owners \cup {None} : PortalReregister(o) \/ \E c \in Typed : PortalRegister(c, o)
           \/ \E c \in Typed : PortalWifiSet(c) \/ SerialSetWifi(c)
           \/ TrustSign \/ PortalFactoryReset \/ PortalTimeout
           \/ WatchdogTimeout \/ AppConfirms \/ WsIdentified
           \/ Accepted \/ AcceptedUnheard \/ Rejected \/ NoOwnerToTell
           \/ PortalMode \/ FactoryReset \/ Restart \/ OnDeleted
           \/ (\E o \in Owners : SerialRegister(o)) \/ SerialUnregister
           \/ WifiDown \/ Reconnects \/ ApComesOrGoes

OnbSpec == OnbInit /\ [][OnbNext]_onbVars

\* A handler ends, a restart follows and setup() runs; the portal's and the watchdog's
\* timers are read on every pass of loop().
OnbFairness == /\ WF_onbVars(Write) /\ WF_onbVars(Reboot) /\ WF_onbVars(Boot)
               /\ WF_onbVars(PortalTimeout) /\ WF_onbVars(WatchdogTimeout) /\ WF_onbVars(WifiDown)
OnbFairSpec == OnbSpec /\ OnbFairness
-----------------------------------------------------------------------------
\* Every variable has its type, and the node never counts past the refusals after which
\* it stops asking (self_register.cpp).
SavedNames == {Trimmed(c.ssid) : c \in Typed} \cup {Stripped(c.ssid) : c \in Typed}

OnbTypeOK == /\ nvs \in [owner : Owners \cup {None}, deleted : BOOLEAN, force : BOOLEAN,
                         confirmed : BOOLEAN, done : BOOLEAN, giveup : BOOLEAN,
                         ssid : SavedNames \cup {None},
                         password : {c.password : c \in Typed} \cup {None}]
             /\ mode \in {"boot", "portal", "node"}
             /\ ram \in [owner : Owners \cup {None}, done : BOOLEAN, gaveUp : BOOLEAN,
                         rejects : 0..MaxRejects, watchdog : {"off", "armed", "confirmed"},
                         online : BOOLEAN, ap : Aps \cup {Own, None}]
             /\ Len(todo) <= 4 /\ after \in {"go on", "restart", "restart soon"}
             /\ inRange \subseteq Aps /\ told \in Owners \cup {None}
             /\ commands \in 0..MaxCommands /\ crashes \in 0..MaxCrashes

\* A node its owner deleted never runs as a node again before somebody set it up anew:
\* not after a crash anywhere, not after the portal's own timeout (main.cpp, setup()).
DeletedStaysOut == mode = "node" /\ Idle => ~nvs.deleted

\* What a running node remembers is what its flash says: the owner, whether the BE knows
\* it and whether the onboarding is confirmed survive any crash as the node acted on them.
CacheAgrees == mode = "node" /\ Idle => /\ ram.owner = nvs.owner
                                        /\ ram.done = nvs.done
                                        /\ (ram.watchdog = "confirmed") = nvs.confirmed

\* The node only stops registering itself for good once the BE accepted it: a crash at
\* any write of the answer loses no registration (self_register.cpp, mark_done).
DoneOnlyIfHeard == nvs.done => told # None

\* Types, memory and flash in step, and no registration lost.
OnbInv == OnbTypeOK /\ CacheAgrees /\ DoneOnlyIfHeard

\* While there is an access point its saved name means, and takes the saved password, a
\* node that was not deleted keeps coming back to its WiFi: however the name was typed,
\* out of the portal a failed attempt put it in, and after an access point went away.
BackOnline == []<>(mode = "node" /\ Linked)
              \/ []<>(nvs.ssid = None \/ nvs.deleted \/ ~CanJoin(nvs.ssid, nvs.password))

\* A node is not left in node mode with an onboarding nobody confirmed: it is confirmed,
\* or it is back in the portal, crash or not (captive_portal.cpp, watchdog_tick).
UnconfirmedGoesBack == mode = "node" /\ ~nvs.confirmed ~> nvs.confirmed \/ mode = "portal"

\* What self_register.h says: "po wejsciu w tryb STA node rejestruje sie SAM".  A node that
\* believes itself registered has told the BE about the owner it has.
RegistersItself == mode = "node" /\ Idle /\ ram.done /\ ram.owner # None => told = ram.owner
=============================================================================

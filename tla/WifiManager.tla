----------------------------- MODULE WifiManager -----------------------------
(***************************************************************************)
(* How the node finds the access point its saved name means                *)
(* (wifi_manager.cpp).  A name that was typed on a phone may differ from   *)
(* the real one in spaces and in case; wifi_connect looks for the best     *)
(* match among the visible ones, goes by the exact name else, and tries a  *)
(* hidden one without spaces, whose name it then saves.                    *)
(*                                                                         *)
(* A name is what is left without spaces and case, and how it differs from *)
(* that: spaces at an edge, spaces within, capitals.                       *)
(***************************************************************************)
EXTENDS Naturals

CONSTANTS Aps,    \* access points: ssid, password, hidden, leases (DHCP answers)
          None    \* no access point, no such key

ASSUME ApsAssumption == /\ None \notin Aps
                        /\ \A a \in Aps : a.hidden \in BOOLEAN /\ a.leases \in BOOLEAN

VARIABLE inRange  \* the access points that are there

Name(word, edge, gap, caps) == [word |-> word, edge |-> edge, gap |-> gap, caps |-> caps]

\* trim_ws, norm_ssid and strip_spaces.
Trimmed(s) == [s EXCEPT !.edge = FALSE]
Norm(s) == s.word
Stripped(s) == [s EXCEPT !.edge = FALSE, !.gap = FALSE]

-----------------------------------------------------------------------------
Visible == {a \in inRange : ~a.hidden}
Exact(ssid) == {a \in Visible : a.ssid = ssid}
Loose(ssid) == {a \in Visible : Trimmed(a.ssid) = Trimmed(ssid)}
Fuzzy(ssid) == {a \in Visible : Norm(a.ssid) = Norm(ssid)}

\* A mistake used by the project's mutants only.
LooseOnly(ssid) == IF Exact(ssid) # {} THEN Exact(ssid) ELSE Loose(ssid)

\* The matches of the best kind there is; the strongest of them is taken.
Match(ssid) == IF Exact(ssid) # {} THEN Exact(ssid)
               ELSE IF Loose(ssid) # {} THEN Loose(ssid) ELSE Fuzzy(ssid)

\* WiFi.begin(name): some access point of that name, a hidden one too.
Named(ssid) == {a \in inRange : a.ssid = ssid}
ByName(ssid) == IF Named(ssid) = {} THEN {None} ELSE Named(ssid)

\* Where the first begin() goes: to the exact name, or to the access point
\* that was seen.
Aim(ssid) == IF Exact(ssid) # {} \/ Match(ssid) = {} THEN ByName(ssid) ELSE Match(ssid)

Associates(a, p) == a # None /\ a.password = p

Joined(a, p) == IF Associates(a, p) THEN a ELSE None

\* Without a lease the node tries an address of its own, by the saved name;
\* that may work or not.
Static(ssid, p) == {None} \cup {Joined(b, p) : b \in ByName(ssid)}
FirstTry(ssid, p) ==
  UNION {IF Associates(a, p) /\ ~a.leases THEN Static(ssid, p) ELSE {Joined(a, p)} :
           a \in Aim(ssid)}

\* Where nothing was visible: a hidden name without spaces.
Retries(ssid) == Match(ssid) = {} /\ Stripped(ssid) # ssid
SecondTry(ssid, p) == {IF a # None /\ a.leases THEN Joined(a, p) ELSE None :
                         a \in ByName(Stripped(ssid))}

\* wifi_connect: the access point it ends at, or None, and the name it saves
\* over the other, or None.
Outcome(a, name) == [ap |-> a, name |-> name]
Connect(ssid, p) ==
  LET failed == None \in FirstTry(ssid, p)
  IN  {Outcome(a, None) : a \in FirstTry(ssid, p) \ {None}}
      \cup {Outcome(a, IF a = None THEN None ELSE Stripped(ssid)) :
              a \in IF failed /\ Retries(ssid) THEN SecondTry(ssid, p)
                    ELSE IF failed THEN {None} ELSE {}}

\* wifi_maintain: reconnect() goes on with the last begin().
Regains(ssid, p) == {a \in Named(ssid) \cup Named(Stripped(ssid)) : Associates(a, p)}
-----------------------------------------------------------------------------
\* The access points a saved name means: a visible one up to spaces and
\* case, a hidden one up to spaces.
Means(ssid) == Fuzzy(ssid) \cup {a \in inRange : a.hidden /\ a.ssid \in {ssid, Stripped(ssid)}}

\* All of them take the password and lease an address, and there is one.
CanJoin(ssid, p) == /\ Means(ssid) # {}
                    /\ \A a \in Means(ssid) : a.password = p /\ a.leases
=============================================================================

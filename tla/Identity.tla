------------------------------ MODULE Identity ------------------------------
(***************************************************************************)
(* The node's identity (identity.cpp): a key pair made on the first boot,  *)
(* kept as two values, and the device id, which is computed from the       *)
(* public key unless an id was set over it.  A key pair is a number here,  *)
(* and so is the id computed from it.                                      *)
(***************************************************************************)
EXTENDS NodeFlash

CONSTANTS Overrides     \* ids the portal may set over the computed one

ASSUME IdentityAssumption == None \notin Overrides

VARIABLES priv, pub,    \* g_privkey, g_pubkey
          deviceId,     \* g_device_id
          made,         \* key pairs made so far
          known         \* history: the id of the last boot that worked

identityVars == <<priv, pub, deviceId, made, known>>

IdentityKeys == {Key(f, 0) : f \in {"privkey", "pubkey", "api_token", "id_ovr"}}

IdentityInit == /\ priv = None /\ pub = None /\ deviceId = None
                  /\ known = None

-----------------------------------------------------------------------------
HasKey == Stored("privkey", 0) # None

\* Mistakes used by the project's mutants only.
PublicFirst(k) == IF HasKey THEN <<>> ELSE <<Put("pubkey", 0, k), Put("privkey", 0, k)>>
NotSaved(id) == <<>>

\* The saves of identity_init: the pair on the first boot, one value after
\* the other, and the token.
KeySaves(k) == IF HasKey THEN <<>> ELSE <<Put("privkey", 0, k), Put("pubkey", 0, k)>>
TokenSaves == IF Stored("api_token", 0) = None
                THEN <<Put("api_token", 0, TRUE)>> ELSE <<>>
IdentitySaves(k) == KeySaves(k) \o TokenSaves

\* The id of a node with public key k: the one set over it wins.
IdOf(k) == IF Stored("id_ovr", 0) # None THEN Stored("id_ovr", 0) ELSE k

\* identity_init: load the pair, or make one and save it.
LoadIdentity ==
  LET k == made + 1
  IN  /\ made' = IF HasKey THEN made ELSE k
      /\ priv' = IF HasKey THEN Stored("privkey", 0) ELSE k
      /\ pub' = IF HasKey THEN Stored("pubkey", 0) ELSE k
      /\ deviceId' = IdOf(pub')
      /\ Saves(IdentitySaves(k))
      /\ UNCHANGED known

\* identity_sign verifies its own signature: the self-test at the end of
\* identity_init.
SignWorks == priv # None /\ pub = priv

BecomesKnown == known' = deviceId /\ UNCHANGED <<priv, pub, deviceId, made>>

OverrideSaves(id) == <<Put("id_ovr", 0, id)>>

\* identity_set_override with a well-formed id.
SetOverride(id) == /\ Saves(OverrideSaves(id))
                   /\ deviceId' = id
                   /\ known' = None
                   /\ UNCHANGED <<priv, pub, made>>

\* RAM is gone.
IdentityForgotten == /\ priv' = None /\ pub' = None /\ deviceId' = None
                     /\ UNCHANGED <<made, known>>

-----------------------------------------------------------------------------
\* The pair in flash is the pair that was made, or lacks its second half.
PairMatches ==
  /\ Stored("pubkey", 0) \in {None, Stored("privkey", 0)}
  /\ Stored("privkey", 0) \in {None} \cup 1 .. made
=============================================================================

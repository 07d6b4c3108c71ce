---------------------------- MODULE OnboardingMC ----------------------------
(* A visible network whose name has a space at its edge, a hidden one, and *)
(* one that leases no address; few orders, and one crash anywhere.         *)
EXTENDS Onboarding

CONSTANTS alice, home, barn, cafe, key, none, own

Home == [ssid |-> Name(home, TRUE, TRUE, TRUE), password |-> key, hidden |-> FALSE,
         leases |-> TRUE]
Barn == [ssid |-> Name(barn, FALSE, FALSE, TRUE), password |-> key, hidden |-> TRUE,
         leases |-> TRUE]
Cafe == [ssid |-> Name(cafe, FALSE, FALSE, FALSE), password |-> key, hidden |-> FALSE,
         leases |-> FALSE]

MCOwners == {alice}
MCAps == {Home, Barn, Cafe}

\* Without the space at the edge (which no saved name has), without the one
\* within, with one too many, and as it is.
MCTyped == {[ssid |-> Name(home, FALSE, TRUE, TRUE), password |-> key],
            [ssid |-> Name(home, FALSE, FALSE, FALSE), password |-> key],
            [ssid |-> Name(barn, TRUE, TRUE, TRUE), password |-> key],
            [ssid |-> Name(cafe, FALSE, FALSE, FALSE), password |-> key]}
=============================================================================

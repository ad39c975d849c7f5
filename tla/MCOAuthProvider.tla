--------------------------- MODULE MCOAuthProvider ---------------------------
(* Instance of OAuthProvider and of ClientRegistry for TLC.                  *)
(*                                                                           *)
(* Grants and registrations are handled by the same provider and share no    *)
(* state, so a behaviour is of the one part or of the other: orders between  *)
(* their steps would show nothing that is not seen without them.             *)
EXTENDS OAuthProvider, ClientRegistry, TLC

VARIABLE part

AnyKey == CHOOSE k \in Key : TRUE

ProviderInit ==
  /\ Init
  /\ RegistryInit
  /\ part \in {"grants", "registry"}
  /\ part = "grants" => backend = "redis" /\ first = [r \in Replica |-> AnyKey]

ProviderNext ==
  /\ part' = part
  /\ \/ part = "grants" /\ Next /\ UNCHANGED registryVars
     \/ part = "registry" /\ RegistryNext /\ UNCHANGED vars

ProviderSpec == ProviderInit /\ [][ProviderNext]_<<vars, registryVars, part>>

\* Random tokens and requests are interchangeable.  So are the clients that
\* register and their peers: the configuration gives them the names of pairs and
\* of states, which the other part uses, so the same permutations serve both.
Symmetry ==
  Permutations(State) \cup Permutations(Code) \cup Permutations(Pair)
    \cup Permutations(Request)
=============================================================================

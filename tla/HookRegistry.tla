---------------------------- MODULE HookRegistry ----------------------------
(***************************************************************************)
(* What a hub promises its clients, without lists: each client has a set   *)
(* of hooks.  A hook is granted when no hook of the client covers it;      *)
(* revoking a key removes exactly one hook, and when the client holds the  *)
(* key it is that very hook; a client that leaves loses its hooks.         *)
(***************************************************************************)
EXTENDS HookLists

CONSTANTS Conns      \* the clients, one per connection
VARIABLE registry    \* registry[c]: the hooks client c holds

RegistryInit == registry = [c \in Conns |-> {}]

Grant(c) == \E h \in Hook :
  /\ \A g \in registry[c] : ~Covers(g, h)
  /\ registry' = [registry EXCEPT ![c] = @ \cup {h}]

Revoke(c) == \E k \in Key, h \in registry[c] :
  /\ Covers(h, k)
  /\ (\E g \in registry[c] : KeyOf(g) = k) => KeyOf(h) = k
  /\ registry' = [registry EXCEPT ![c] = @ \ {h}]

Leave(c) == registry' = [registry EXCEPT ![c] = {}]

RegistryNext == \E c \in Conns : Grant(c) \/ Revoke(c) \/ Leave(c)

RegistrySpec == RegistryInit /\ [][RegistryNext]_registry
=============================================================================

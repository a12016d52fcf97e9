-------------------------- MODULE MCCommandChannel --------------------------
(* CommandChannel on small sets.  SharedHost: two agents poll for one host  *)
(* (an agent started twice, a cloned machine), a third has a host of its    *)
(* own.  OneHost: the two agents of the shared host alone.                  *)
EXTENDS CommandChannel, TLC

CONSTANTS n1, n2, a1, a2, a3

SharedHost == (a1 :> n1) @@ (a2 :> n1) @@ (a3 :> n2)
OneHost    == (a1 :> n1) @@ (a2 :> n1)

\* Handlers are interchangeable, and so are the agents of a shared host.
SharedSymmetry == Permutations(Handlers) \cup Permutations({a1, a2})
=============================================================================

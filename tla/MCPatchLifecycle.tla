-------------------------- MODULE MCPatchLifecycle --------------------------
(* Small instances of PatchLifecycle.  ann is a Human, bot is Delegated.     *)
EXTENDS PatchLifecycle, TLC

CONSTANTS ann, bot, d0, d1, dBad, b1, b2, none

MCPrincipals == {ann, bot}
MCHumans == {ann}
MCScopes == {"field"}
Always == MaxInstant + 1

GrantTo(u, actions, expires) ==
  [issuer |-> ann, subject |-> u, covers |-> actions \X MCScopes, expires |-> expires]

\* Grants 2 and 3 give ann the same Approve authority; 2 expires.
MCGrantIds == 1 .. 3
MCGrantOf ==
  1 :> GrantTo(bot, {"Query", "Propose", "Execute"}, Always) @@
  2 :> GrantTo(ann, {"Query", "Approve", "Execute"}, Always) @@
  3 :> GrantTo(ann, {"Approve"}, 2)
MCInitialGrants == {1, 2}
InitialHuman == {ann}
InitialHumanGrant == {2}
TwoGrantIds == {1, 2}
TwoGrantOf == [g \in TwoGrantIds |-> MCGrantOf[g]]

MCPolicies == {"v1", "v2"}
MCOnePolicy == {"v1"}
MCDocs == {d0, d1, dBad}
MCValidDocs == {d0, d1}
MCBodies == {b1, b2}

\* b1 writes d1; b2 undoes it, and on d0 makes a document the gate refuses.
MCCandidateOf ==
  d0 :> (b1 :> d1 @@ b2 :> dBad) @@
  d1 :> (b1 :> d1 @@ b2 :> d0) @@
  dBad :> (b1 :> none @@ b2 :> none)

MCWrites == [b \in MCBodies |-> MCScopes]
\* A host that installs what it is given, and one that may install another
\* document instead.
MCHostInstalls == [d \in MCDocs |-> {d}]
DivergentInstalls == [d \in MCDocs |-> {d, dBad}]

\* Only Approvals are withdrawn, and in one behaviour either one is or the
\* clock advances.
OneWithdrawal ==
  /\ \A u \in Principals : principals[u] # "disabled"
  /\ \A g \in GrantIds : grants[g] # "revoked"
  /\ Cardinality({a \in approvals : a.status = "Revoked"}) + now <= 1
=============================================================================

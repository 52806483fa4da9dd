------------------------- MODULE SemanticPublication -------------------------
(***************************************************************************)
(* What publication promises (crates/workspace-engine/src/                 *)
(* patch_lifecycle.rs, SemanticPublicationAuthority and PatchLifecycle):   *)
(* the protected document moves from one revision to the next, and the     *)
(* Approval that authorized the move is spent in the same step.  An        *)
(* Approval is issued once and leaves Active once.                         *)
(***************************************************************************)
EXTENDS Naturals

CONSTANTS ApprovalIds, Docs, InitialDoc

VARIABLES
  occurrence,  \* whether the host still protects the original occurrence
  revision, document,
  status       \* of each Approval identity

publication == <<occurrence, revision, document, status>>

Statuses == {"Unissued", "Active", "Consumed", "Revoked", "Expired"}

\* Some Approvals, at most one, go from one status to another.
Change(ids, from, to) ==
  /\ \A i, j \in ids : i = j
  /\ \A i \in ids : status[i] = from
  /\ status' = [i \in ApprovalIds |-> IF i \in ids THEN to ELSE status[i]]

Init ==
  /\ occurrence = "own" /\ revision = 0 /\ document = InitialDoc
  /\ status = [i \in ApprovalIds |-> "Unissued"]

Issue(i) ==
  /\ Change({i}, "Unissued", "Active")
  /\ UNCHANGED <<occurrence, revision, document>>

Withdraw(i) ==
  /\ \E to \in {"Revoked", "Expired"} : Change({i}, "Active", to)
  /\ UNCHANGED <<occurrence, revision, document>>

Install(ids, d) ==
  /\ occurrence = "own"
  /\ revision' = revision + 1
  /\ document' = d
  /\ Change(ids, "Active", "Consumed")
  /\ UNCHANGED occurrence

Replace ==
  /\ occurrence = "own"
  /\ occurrence' = "replaced" /\ revision' = 0 /\ document' = InitialDoc
  /\ UNCHANGED status

Next ==
  \/ \E i \in ApprovalIds : Issue(i) \/ Withdraw(i)
  \/ \E ids \in SUBSET ApprovalIds, d \in Docs : Install(ids, d)
  \/ Replace

Spec == Init /\ [][Next]_publication
=============================================================================

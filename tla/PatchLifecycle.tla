--------------------------- MODULE PatchLifecycle ---------------------------
(***************************************************************************)
(* The proposal / Approval registry of crates/workspace-engine/src/        *)
(* patch_lifecycle.rs and the publication authority it drives              *)
(* (crates/workspace-engine/src/resident_session.rs).                      *)
(*                                                                         *)
(* Every registry operation takes the registry exclusively, so it is one   *)
(* step.  Execution is two: the checks up to the reservation of the        *)
(* Approval, and the guarded publication with what follows it.  Between    *)
(* the two the trusted clock advances, another writer may publish and the  *)
(* host may replace the protected document; no registry operation runs,    *)
(* because execution still holds the registry.                             *)
(*                                                                         *)
(* Values that are written once (an Option, a map keyed by an id) are sets *)
(* of records.  A refused call that changes nothing is a stuttering step.  *)
(***************************************************************************)
EXTENDS Naturals, FiniteSets

CONSTANTS
  Principals,      \* principal occurrences a host may register
  Humans,          \* those of PrincipalKind::Human; the others are Delegated
  GrantIds,        \* Grant occurrences
  GrantOf,         \* the immutable content of each Grant
  Policies,        \* authorization-policy versions
  ProposalIds,
  ApprovalIds,
  Docs,            \* document values
  InitialDoc,
  Bodies,          \* command or batch bodies a proposal may carry
  CandidateOf,     \* CandidateOf[doc][body]: the planned document, or Unplannable
  Unplannable,
  ValidDocs,       \* documents the authoritative gate accepts
  RejectedDocs,    \* documents rejected for another reason than validation
  Writes,          \* associated write scopes of a body
  Reads,           \* disclosure scopes of a body
  Scopes,
  HostInstalls,    \* HostInstalls[d]: what a host may install when given d
  InitialPrincipals, InitialGrants,  \* provisioned before the first request
  MaxInstant,      \* bound of the trusted clock
  MaxRevision,     \* largest generation the session can count
  MaxSelection     \* largest policy-selection counter

Actions == {"Query", "Propose", "Approve", "Execute"}
Instants == 0 .. MaxInstant
Revisions == 0 .. MaxRevision

\* A Grant: its issuer and subject, the (action, scope) pairs it covers once containment
\* of scopes is applied, and the instant it expires (None is an instant after
\* MaxInstant).
Grant == [issuer : Principals, subject : Principals,
          covers : SUBSET (Actions \X Scopes), expires : Nat]

ASSUME ConstantsAssumption ==
  /\ Humans \subseteq Principals
  /\ GrantOf \in [GrantIds -> Grant]
  /\ InitialDoc \in Docs
  /\ Unplannable \notin Docs
  /\ CandidateOf \in [Docs -> [Bodies -> Docs \cup {Unplannable}]]
  /\ ValidDocs \subseteq Docs
  /\ RejectedDocs \subseteq Docs \ ValidDocs
  /\ Writes \in [Bodies -> SUBSET Scopes]
  /\ Reads \in [Bodies -> SUBSET Scopes]
  /\ HostInstalls \in [Docs -> SUBSET Docs]
  /\ InitialPrincipals \subseteq Principals
  /\ InitialGrants \subseteq GrantIds
  /\ MaxInstant \in Nat /\ MaxRevision \in Nat /\ MaxSelection \in Nat
  /\ Policies # {}

VARIABLES
  now,         \* trusted clock
  occurrence,  \* "own" or "replaced": which document occurrence the host protects
  revision,    \* the session's generation
  document,    \* the session's document
  principals,  \* principals registry
  grants,      \* Grant registry
  policy,      \* effective policy version and its selection counter
  proposals,   \* proposal registry
  approvals,   \* Approval registry
  receipts,    \* execution receipts
  memo,        \* evaluation_memo: at most one retained evaluation
  executing,   \* the execution past its reservation, if any
  published,   \* history: every publication into the own occurrence
  shown        \* history: every candidate a preview showed

registry == <<principals, grants, policy, proposals, approvals, receipts, memo>>
session == <<occurrence, revision, document>>
history == <<published, shown>>
vars == <<now, session, registry, executing, history>>

-----------------------------------------------------------------------------
(* Records                                                                 *)

\* PatchLifecycleState.  A history is duplicate-free, and only membership in it
\* is ever tested, so it is a set.
TerminalStates == {"Verified", "Rejected", "ValidationFailed", "Stale", "Conflict"}
LifecycleStates ==
  TerminalStates \cup {"Draft", "Planned", "Previewed", "Validated", "AwaitingApproval",
                       "Approved", "Applied", "Expired", "RetryableConflict"}

Proposal == [id : ProposalIds, originator : Principals, body : Bodies, base : Revisions,
             history : SUBSET LifecycleStates, reviewedBy : SUBSET Principals]

Binding == [proposal : ProposalIds, body : Bodies, base : Revisions,
            originator : Principals, executor : Principals, policy : Policies]

ApprovalStatus == {"Active", "Consumed", "Revoked", "Expired"}
Approval == [id : ApprovalIds, binding : Binding, approver : Principals,
             expires : Instants, grants : SUBSET GrantIds,
             selection : 0 .. MaxSelection, status : ApprovalStatus]

Execution == [proposal : Proposal, executor : Principals, reserved : SUBSET Approval,
              base : Revisions, candidate : Docs]

Receipt == [proposal : ProposalIds, executor : Principals, approval : SUBSET ApprovalIds,
            approveGrants : SUBSET GrantIds, executeGrants : SUBSET GrantIds,
            base : Revisions, result : Revisions, verified : BOOLEAN]

Evaluation == [base : Docs, proposal : ProposalIds, candidate : Docs]

Publication == [by : SUBSET ProposalIds, before : Docs, after : Docs, result : Revisions]

Showing == [proposal : ProposalIds, viewer : Principals, candidate : Docs]

TypeOK ==
  /\ now \in Instants
  /\ occurrence \in {"own", "replaced"}
  /\ revision \in Revisions
  /\ document \in Docs
  /\ principals \in [Principals -> {"unknown", "active", "disabled"}]
  /\ grants \in [GrantIds -> {"absent", "live", "revoked"}]
  /\ policy \in [version : Policies, selection : 0 .. MaxSelection]
  /\ proposals \subseteq Proposal
  /\ approvals \subseteq Approval
  /\ receipts \subseteq Receipt
  /\ memo \subseteq Evaluation
  /\ executing \subseteq Execution
  /\ published \subseteq Publication
  /\ shown \subseteq Showing

-----------------------------------------------------------------------------
(* Authorization                                                           *)

IsActive(u) == principals[u] = "active"

\* grant_is_live_for: the issuer's later fate does not matter.
GrantIsLiveFor(g, u) ==
  /\ grants[g] = "live"
  /\ GrantOf[g].subject = u
  /\ now < GrantOf[g].expires

Covering(u, action, s) ==
  {g \in GrantIds : GrantIsLiveFor(g, u) /\ <<action, s>> \in GrantOf[g].covers}

\* authorize_query and authorize_mutation: every requirement is covered by one
\* live Grant of an active subject.
Authorized(u, action, scopes) ==
  /\ IsActive(u)
  /\ \A s \in scopes : Covering(u, action, s) # {}

\* The Grants relied on: the first live one for each requirement.
GrantsUsed(u, action, scopes) ==
  {CHOOSE g \in Covering(u, action, s) : TRUE : s \in scopes}

IsTerminal(p) == p.history \cap TerminalStates # {}

\* require_nonterminal_proposal
IsNonterminal(p) == ~IsTerminal(p)

\* append_state: a terminal proposal keeps its history.
AppendState(p, state) ==
  IF IsTerminal(p) THEN p ELSE [p EXCEPT !.history = @ \cup {state}]

ReplaceProposal(p, q) == proposals' = (proposals \ {p}) \cup {q}

\* select_disclosable_proposal
Disclosable(p, u) == Authorized(u, "Query", Reads[p.body])

\* execution_requires_approval, mutated: a Delegated originator is overlooked.
RequiresApprovalOfExecutor(p, executor) == executor \notin Humans

\* execution_requires_approval
RequiresApproval(p, executor) == executor \notin Humans \/ p.originator \notin Humans

BindingOf(p, executor) ==
  [proposal |-> p.id, body |-> p.body, base |-> p.base, originator |-> p.originator,
   executor |-> executor, policy |-> policy.version]

-----------------------------------------------------------------------------
(* Approval and authority at execution                                     *)

\* validate_execution_approval_selection, mutated: only the version is compared.
PolicyVersionUnchanged(a) == a.binding.policy = policy.version

PolicyUnchanged(a) ==
  /\ a.binding.policy = policy.version
  /\ a.selection = policy.selection

\* select_execution_context: the executor, the presence of an Approval and the
\* Approval's binding.  Expiry and revocation are judged later.
SelectsContext(p, chosen, executor) ==
  /\ IsActive(executor)
  /\ RequiresApproval(p, executor) => IsActive(p.originator)
  /\ RequiresApproval(p, executor) <=> chosen # {}
  /\ \A a \in chosen :
       /\ [a.binding EXCEPT !.policy = policy.version] = BindingOf(p, executor)
       /\ a.status # "Consumed"
       /\ PolicyUnchanged(a)

\* validate_execution_approval, mutated: expiry is left out.
ApprovalActiveIgnoringExpiry(a) ==
  /\ a.status = "Active"
  /\ IsActive(a.approver) /\ a.approver \in Humans

ApprovalActive(a) ==
  /\ a.status = "Active"
  /\ now < a.expires
  /\ IsActive(a.approver) /\ a.approver \in Humans

\* require_recorded_approve_grants, mutated: any Approve Grants will do.
RecordedGrantsIgnored(a) == TRUE

RecordedGrantsHold(a) ==
  /\ \A g \in a.grants : GrantIsLiveFor(g, a.approver)
  /\ \A s \in Writes[a.binding.body] :
       \E g \in a.grants : <<"Approve", s>> \in GrantOf[g].covers

\* authorize_execution
ExecutionAuthorized(p, chosen, executor) ==
  /\ \A a \in chosen :
       /\ RecordedGrantsHold(a)
       /\ Authorized(a.approver, "Approve", Writes[p.body])
  /\ Authorized(executor, "Execute", Writes[p.body])

\* authorize_publication_boundary
BoundaryAuthorized(p, chosen, executor) ==
  /\ SelectsContext(p, chosen, executor)
  /\ \A a \in chosen : ApprovalActive(a)
  /\ ExecutionAuthorized(p, chosen, executor)

-----------------------------------------------------------------------------
(* Principals, Grants and policy                                           *)

Idle == executing = {}

RegisterPrincipal(u) ==
  /\ Idle
  /\ principals[u] = "unknown"
  /\ principals' = [principals EXCEPT ![u] = "active"]
  /\ UNCHANGED <<now, session, grants, policy, proposals, approvals, receipts, memo,
                 executing, history>>

DisablePrincipal(u) ==
  /\ Idle
  /\ principals[u] # "unknown"
  /\ principals' = [principals EXCEPT ![u] = "disabled"]
  /\ UNCHANGED <<now, session, grants, policy, proposals, approvals, receipts, memo,
                 executing, history>>

\* The issuer is an active Human; the subject is registered, disabled or not.
ProvisionGrant(g) ==
  /\ Idle
  /\ grants[g] = "absent"
  /\ IsActive(GrantOf[g].issuer) /\ GrantOf[g].issuer \in Humans
  /\ principals[GrantOf[g].subject] # "unknown"
  /\ grants' = [grants EXCEPT ![g] = "live"]
  /\ UNCHANGED <<now, session, principals, policy, proposals, approvals, receipts, memo,
                 executing, history>>

RevokeGrant(g) ==
  /\ Idle
  /\ grants[g] # "absent"
  /\ grants' = [grants EXCEPT ![g] = "revoked"]
  /\ UNCHANGED <<now, session, principals, policy, proposals, approvals, receipts, memo,
                 executing, history>>

\* Every accepted call counts as a transition, also back to an earlier version.
TransitionEffectivePolicy(v) ==
  /\ Idle
  /\ policy.selection < MaxSelection
  /\ policy' = [version |-> v, selection |-> policy.selection + 1]
  /\ UNCHANGED <<now, session, principals, grants, proposals, approvals, receipts, memo,
                 executing, history>>

-----------------------------------------------------------------------------
(* Proposal, review and Approval                                           *)

\* evaluate_retained, mutated: the base document alone selects the memo.
MemoForBase(p) == {m \in memo : m.base = document}

\* evaluate_retained: the retained evaluation is reused for the same base
\* document and the same patch only.
MemoFor(p) == {m \in memo : m.base = document /\ m.proposal = p.id}

Evaluate(p) ==
  IF MemoFor(p) # {} THEN (CHOOSE m \in MemoFor(p) : TRUE).candidate
  ELSE CandidateOf[document][p.body]

\* propose: a stale, unplannable or unauthorized request leaves no record.  An
\* issued proposal whose candidate fails the gate is stored as terminal.
Propose(id, originator, body) ==
  LET candidate == CandidateOf[document][body]
      outcome == IF candidate \in ValidDocs THEN {}
                 ELSE IF candidate \in RejectedDocs THEN {"Rejected"}
                 ELSE {"ValidationFailed"}
  IN
  /\ Idle
  /\ occurrence = "own"
  /\ \A p \in proposals : p.id # id
  /\ candidate # Unplannable
  /\ Authorized(originator, "Propose", Writes[body])
  /\ proposals' = proposals \cup
       {[id |-> id, originator |-> originator, body |-> body, base |-> revision,
         history |-> {"Draft", "Planned"} \cup outcome, reviewedBy |-> {}]}
  /\ memo' = IF outcome = {}
               THEN {[base |-> document, proposal |-> id, candidate |-> candidate]}
               ELSE {}
  /\ UNCHANGED <<now, session, principals, grants, policy, approvals, receipts, executing,
                 history>>

\* preview_profile
Preview(p, viewer) ==
  /\ Idle
  /\ occurrence = "own"
  /\ Disclosable(p, viewer)
  /\ IsNonterminal(p)
  /\ IF p.base # revision
       THEN /\ ReplaceProposal(p, AppendState(p, "Stale"))
            /\ UNCHANGED shown
       ELSE /\ ReplaceProposal(p, [p EXCEPT
                 !.reviewedBy = @ \cup {viewer},
                 !.history = @ \cup {"Previewed", "Validated", "AwaitingApproval"}])
            /\ shown' = shown \cup
                 {[proposal |-> p.id, viewer |-> viewer, candidate |-> Evaluate(p)]}
  /\ UNCHANGED <<now, session, principals, grants, policy, approvals, receipts, memo,
                 executing, published>>

\* approve, mutated: the approver need not have received the preview.
MayApproveUnreviewed(p, approver, executor) ==
  /\ IsActive(approver) /\ approver \in Humans
  /\ IsActive(executor)
  /\ Disclosable(p, approver)
  /\ RequiresApproval(p, executor) /\ IsActive(p.originator)
  /\ Authorized(approver, "Approve", Writes[p.body])

\* The checks of approve up to the base comparison.
MayApprove(p, approver, executor) ==
  /\ IsActive(approver) /\ approver \in Humans
  /\ IsActive(executor)
  /\ Disclosable(p, approver)
  /\ RequiresApproval(p, executor) /\ IsActive(p.originator)
  /\ approver \in p.reviewedBy
  /\ Authorized(approver, "Approve", Writes[p.body])

Approve(id, p, approver, executor, expires) ==
  /\ Idle
  /\ occurrence = "own"
  /\ \A a \in approvals : a.id # id
  /\ now < expires
  /\ IsNonterminal(p)
  /\ MayApprove(p, approver, executor)
  /\ IF p.base # revision
       THEN /\ ReplaceProposal(p, AppendState(p, "Stale"))
            /\ UNCHANGED approvals
       ELSE /\ ReplaceProposal(p, AppendState(p, "Approved"))
            /\ approvals' = approvals \cup
                 {[id |-> id, binding |-> BindingOf(p, executor), approver |-> approver,
                   expires |-> expires, selection |-> policy.selection,
                   grants |-> GrantsUsed(approver, "Approve", Writes[p.body]),
                   status |-> "Active"]}
  /\ UNCHANGED <<now, session, principals, grants, policy, receipts, memo, executing,
                 history>>

\* revoke_approval, mutated: a used Approval may be revoked as well.
RevokeAnyApproval(a) ==
  /\ Idle
  /\ approvals' = (approvals \ {a}) \cup {[a EXCEPT !.status = "Revoked"]}
  /\ UNCHANGED <<now, session, principals, grants, policy, proposals, receipts, memo,
                 executing, history>>

RevokeApproval(a) ==
  /\ Idle
  /\ a.status = "Active"
  /\ approvals' = (approvals \ {a}) \cup {[a EXCEPT !.status = "Revoked"]}
  /\ UNCHANGED <<now, session, principals, grants, policy, proposals, receipts, memo,
                 executing, history>>

-----------------------------------------------------------------------------
(* Execution up to the reservation                                         *)

\* execute drops the retained evaluation whatever its outcome; a call refused
\* before it changes a proposal (an unknown proposal, say) does nothing else.
ExecuteRefused ==
  /\ Idle
  /\ memo' = {}
  /\ UNCHANGED <<now, session, principals, grants, policy, proposals, approvals, receipts,
                 executing, history>>

ExecuteStale(p, chosen, executor) ==
  /\ Idle
  /\ occurrence = "own"
  /\ SelectsContext(p, chosen, executor)
  /\ IsNonterminal(p)
  /\ p.base # revision
  /\ ReplaceProposal(p, AppendState(p, "Stale"))
  /\ memo' = {}
  /\ UNCHANGED <<now, session, principals, grants, policy, approvals, receipts, executing,
                 history>>

HasExpired(a) == a.status = "Active" /\ ~(now < a.expires)

ExpireApproval(a) == [a EXCEPT !.status = "Expired"]

\* require_execution_approval_active: the registry learns of the expiry here.
ExecuteExpired(p, a, executor) ==
  /\ Idle
  /\ occurrence = "own"
  /\ SelectsContext(p, {a}, executor)
  /\ IsNonterminal(p)
  /\ p.base = revision
  /\ HasExpired(a)
  /\ approvals' = (approvals \ {a}) \cup {ExpireApproval(a)}
  /\ ReplaceProposal(p, AppendState(p, "Expired"))
  /\ memo' = {}
  /\ UNCHANGED <<now, session, principals, grants, policy, receipts, executing, history>>

\* publish_candidate takes the Approval out of the registry.
RegistryWithoutReserved(chosen) == approvals \ chosen

BeginExecute(p, chosen, executor) ==
  /\ Idle
  /\ occurrence = "own"
  /\ IsNonterminal(p)
  /\ p.base = revision
  /\ BoundaryAuthorized(p, chosen, executor)
  /\ approvals' = RegistryWithoutReserved(chosen)
  /\ executing' = {[proposal |-> p, executor |-> executor, reserved |-> chosen,
                    base |-> revision, candidate |-> Evaluate(p)]}
  /\ memo' = {}
  /\ UNCHANGED <<now, session, principals, grants, policy, proposals, receipts, history>>

-----------------------------------------------------------------------------
(* The guarded publication                                                 *)

GuardAuthorizes(e) == BoundaryAuthorized(e.proposal, e.reserved, e.executor)

\* restore_after_publication_failure, mutated: a Conflict forgets the Approval.
GiveBackNothing(back) == approvals' = approvals

\* restore_after_publication_failure: the reservation goes back to the registry.
GiveBack(back) == approvals' = approvals \cup back

\* append_state, mutated: Applied is recorded before the outcome is known.
FinishApplied(e, state) ==
  ReplaceProposal(e.proposal, [e.proposal EXCEPT !.history = @ \cup {"Applied", state}])

Finish(e, state) == ReplaceProposal(e.proposal, AppendState(e.proposal, state))

UnpublishedRest ==
  /\ executing' = {}
  /\ UNCHANGED <<now, session, principals, grants, policy, receipts, memo, history>>

PublicationScopeMismatch(e) ==
  /\ occurrence # "own"
  /\ GiveBack(e.reserved)
  /\ UNCHANGED proposals
  /\ UnpublishedRest

\* The guard refuses.  An Approval found expired comes back Expired.
PublicationDenied(e) ==
  /\ occurrence = "own"
  /\ ~GuardAuthorizes(e)
  /\ LET expired == {a \in e.reserved : HasExpired(a)} IN
       /\ GiveBack((e.reserved \ expired) \cup {ExpireApproval(a) : a \in expired})
       /\ IF expired # {} THEN Finish(e, "Expired") ELSE UNCHANGED proposals
  /\ UnpublishedRest

\* publish_if_current, mutated: the expected revision is not compared.
RevisionIgnored(e) == TRUE

\* publish_if_current compares the expected with the current revision.
RevisionIsCurrent(e) == e.base = revision

PublicationStale(e) ==
  /\ occurrence = "own"
  /\ GuardAuthorizes(e)
  /\ ~RevisionIsCurrent(e)
  /\ GiveBack(e.reserved)
  /\ Finish(e, "Stale")
  /\ UnpublishedRest

PublicationNoChange(e) ==
  /\ occurrence = "own"
  /\ GuardAuthorizes(e)
  /\ RevisionIsCurrent(e)
  /\ e.candidate = document
  /\ GiveBack(e.reserved)
  /\ UNCHANGED proposals
  /\ UnpublishedRest

\* The session cannot count another generation.
PublicationConflict(e) ==
  /\ occurrence = "own"
  /\ GuardAuthorizes(e)
  /\ RevisionIsCurrent(e)
  /\ e.candidate # document
  /\ revision = MaxRevision
  /\ GiveBack(e.reserved)
  /\ Finish(e, "RetryableConflict")
  /\ UnpublishedRest

\* publish_candidate, mutated: the Approval comes back as it was.
ReturnUnspent(a) == a

\* publish_candidate spends the Approval with the publication.
Spend(a) == [a EXCEPT !.status = "Consumed"]

\* verify_publication, mutated: what the host installed is not looked at.
VerifiesAnything(e, installed) == TRUE

\* verify_publication: the revision moved and the candidate itself is installed.
Verifies(e, installed) == installed = e.candidate /\ installed \in ValidDocs

PublicationInstalled(e, installed) ==
  LET verified == Verifies(e, installed) IN
  /\ occurrence = "own"
  /\ GuardAuthorizes(e)
  /\ RevisionIsCurrent(e)
  /\ e.candidate # document
  /\ revision < MaxRevision
  /\ revision' = revision + 1
  /\ document' = installed
  /\ approvals' = approvals \cup {Spend(a) : a \in e.reserved}
  /\ ReplaceProposal(e.proposal,
       [e.proposal EXCEPT !.history =
          @ \cup {"Applied", IF verified THEN "Verified" ELSE "Conflict"}])
  /\ receipts' = receipts \cup
       {[proposal |-> e.proposal.id, executor |-> e.executor,
         approval |-> {a.id : a \in e.reserved},
         approveGrants |-> UNION {GrantsUsed(a.approver, "Approve", Writes[e.proposal.body])
                                    : a \in e.reserved},
         executeGrants |-> GrantsUsed(e.executor, "Execute", Writes[e.proposal.body]),
         base |-> e.base, result |-> revision + 1, verified |-> verified]}
  /\ published' = published \cup
       {[by |-> {e.proposal.id}, before |-> document, after |-> installed,
         result |-> revision + 1]}
  /\ executing' = {}
  /\ UNCHANGED <<now, occurrence, principals, grants, policy, memo, shown>>

-----------------------------------------------------------------------------
(* The environment                                                         *)

Tick ==
  /\ now < MaxInstant
  /\ now' = now + 1
  /\ UNCHANGED <<session, registry, executing, history>>

\* Another writer of the same session, such as a request-local registry.
ExternalPublish(d) ==
  /\ occurrence = "own"
  /\ d # document
  /\ revision < MaxRevision
  /\ revision' = revision + 1
  /\ document' = d
  /\ published' = published \cup
       {[by |-> {}, before |-> document, after |-> d, result |-> revision + 1]}
  /\ UNCHANGED <<now, occurrence, registry, executing, shown>>

\* The host opens another document in place of the protected one; generations
\* start again, so the new occurrence can repeat an old revision.
ReplaceOccurrence ==
  /\ occurrence = "own"
  /\ occurrence' = "replaced"
  /\ revision' = 0
  /\ document' = InitialDoc
  /\ UNCHANGED <<now, registry, executing, history>>

-----------------------------------------------------------------------------
Init ==
  /\ now = 0
  /\ occurrence = "own" /\ revision = 0 /\ document = InitialDoc
  /\ principals = [u \in Principals |-> IF u \in InitialPrincipals THEN "active"
                                         ELSE "unknown"]
  /\ grants = [g \in GrantIds |-> IF g \in InitialGrants THEN "live" ELSE "absent"]
  /\ \E v \in Policies : policy = [version |-> v, selection |-> 0]
  /\ proposals = {} /\ approvals = {} /\ receipts = {} /\ memo = {}
  /\ executing = {}
  /\ published = {} /\ shown = {}

Administer ==
  \/ \E u \in Principals : RegisterPrincipal(u) \/ DisablePrincipal(u)
  \/ \E g \in GrantIds : ProvisionGrant(g) \/ RevokeGrant(g)
  \/ \E v \in Policies : TransitionEffectivePolicy(v)
  \/ \E a \in approvals : RevokeApproval(a)

Review ==
  \/ \E id \in ProposalIds, u \in Principals, b \in Bodies : Propose(id, u, b)
  \/ \E p \in proposals, u \in Principals : Preview(p, u)
  \/ \E id \in ApprovalIds, p \in proposals, u, x \in Principals, t \in Instants :
       Approve(id, p, u, x, t)

\* The Approval an execution names: none, or one of the registry.
Choices == {{}} \cup {{a} : a \in approvals}

Execute ==
  \/ ExecuteRefused
  \/ \E p \in proposals, x \in Principals :
       \/ \E chosen \in Choices : ExecuteStale(p, chosen, x) \/ BeginExecute(p, chosen, x)
       \/ \E a \in approvals : ExecuteExpired(p, a, x)

Publish ==
  \E e \in executing :
    \/ PublicationScopeMismatch(e)
    \/ PublicationDenied(e)
    \/ PublicationStale(e)
    \/ PublicationNoChange(e)
    \/ PublicationConflict(e)
    \/ \E d \in HostInstalls[e.candidate] : PublicationInstalled(e, d)

Environment == Tick \/ (\E d \in Docs : ExternalPublish(d)) \/ ReplaceOccurrence

Next == Administer \/ Review \/ Execute \/ Publish \/ Environment

Spec == Init /\ [][Next]_vars

-----------------------------------------------------------------------------
(* Properties                                                              *)

Reserved == UNION {e.reserved : e \in executing}

\* Every Approval ever issued, whether in the registry or reserved.
Issued == approvals \cup Reserved

SpentNow == {a \in approvals' : a.status = "Consumed" /\ a \notin approvals}

Delegated(u) == u \notin Humans

\* One Approval identity names one occurrence, also while an execution holds the
\* occurrence outside the registry and when it comes back changed.
ApprovalIdsUnique ==
  /\ \A a, b \in Issued : a.id = b.id => a = b
  /\ approvals \cap Reserved = {}

\* An Approval authorizes at most one publication, and is Consumed exactly when
\* a publication names it: a failed attempt does not consume it.
ConsumedIffPublished ==
  /\ \A a \in Issued : a.status = "Consumed" <=> \E r \in receipts : a.id \in r.approval
  /\ \A r, t \in receipts : r.approval \cap t.approval # {} => r = t

\* No publication that a Delegated principal proposed or executed lacks the
\* Approval of a Human, issued for that proposal and that executor.
DelegatedNeedsHuman ==
  \A r \in receipts, p \in proposals :
    r.proposal = p.id /\ (Delegated(p.originator) \/ Delegated(r.executor)) =>
      \E a \in approvals :
        /\ r.approval = {a.id}
        /\ a.approver \in Humans
        /\ a.binding.proposal = p.id /\ a.binding.executor = r.executor

\* What a verified approval-gated execution installed is the candidate the
\* approver was shown before approving.
ReviewedIsPublished ==
  \A r \in receipts, a \in approvals :
    r.verified /\ a.id \in r.approval =>
      \E w \in shown, q \in published :
        /\ w.proposal = r.proposal /\ w.viewer = a.approver
        /\ q.by = {r.proposal} /\ q.result = r.result
        /\ q.after = w.candidate

\* What reaches publication was approved by a human who saw it, however the
\* proposals, Approvals, reviews and Grants on the way there were mixed.
PublicationsAreApproved == DelegatedNeedsHuman /\ ReviewedIsPublished

\* A verified execution installed its proposal's own change applied to the
\* document it replaced, whatever evaluation was reused on the way.
PublishedIsApplied ==
  \A r \in receipts, p \in proposals, q \in published :
    r.verified /\ r.proposal = p.id /\ q.by = {p.id} =>
      q.after = CandidateOf[q.before][p.body]

\* No publication overwrites one its proposal did not see: each proposal
\* publishes onto its own base, and each revision has one publication.
NoLostUpdate ==
  /\ \A q \in published, p \in proposals : p.id \in q.by => q.result = p.base + 1
  /\ \A q, t \in published : q.result = t.result => q = t

\* A proposal's history and the receipts tell the same story: Applied and
\* Verified appear exactly for a publication and a verified one, of which a
\* proposal has at most one.
HistoryMatchesReceipts ==
  /\ \A p \in proposals :
       /\ "Applied" \in p.history <=> \E r \in receipts : r.proposal = p.id
       /\ "Verified" \in p.history <=> \E r \in receipts : r.proposal = p.id /\ r.verified
  /\ \A r, t \in receipts : r.proposal = t.proposal => r = t

\* What the registry says of a publication is what was published, whatever was
\* reused, refused or replaced by the host on the way.
ReceiptsTellWhatHappened == PublishedIsApplied /\ HistoryMatchesReceipts

\* A proposal that reached a terminal state is never changed again, and neither
\* is an Approval that is no longer Active, inside an execution or out of it.
OutcomesAreFinal ==
  [][/\ \A p \in proposals : IsTerminal(p) => p \in proposals'
     /\ \A a \in Issued : a.status # "Active" => a \in Issued']_vars

\* A policy transition after issuance kills an Approval for good, also when the
\* old version is selected again.
NeverSpentAcrossPolicyTransition ==
  [][\A a \in SpentNow : a.selection = policy.selection /\ a.binding.policy = policy.version]_vars

\* At the instant of publication the Approval has not expired, its approver is
\* still active, and the very Grants recorded at issuance are still live: an
\* equivalent newer Grant does not stand in for them.
SpentUnderOriginalAuthority ==
  [][\A a \in SpentNow :
       /\ now < a.expires
       /\ principals[a.approver] = "active"
       /\ \A g \in a.grants : grants[g] = "live" /\ now < GrantOf[g].expires]_vars

\* The status an observer of the Approval registry attributes to an identity:
\* a reserved Approval is still Active.
StatusOf(id) ==
  IF \E a \in Issued : a.id = id THEN (CHOOSE a \in Issued : a.id = id).status
  ELSE "Unissued"

SemanticPublication == INSTANCE SemanticPublication WITH
  status <- [id \in ApprovalIds |-> StatusOf(id)]

\* The registry and the session together implement one atomic step that installs
\* a document and spends its Approval; the reservation in between is invisible
\* and no failure of the host loses or revives an Approval.
ImplementsSemanticPublication == SemanticPublication!Spec
=============================================================================

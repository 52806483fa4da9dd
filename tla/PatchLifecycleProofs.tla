------------------------ MODULE PatchLifecycleProofs ------------------------
(***************************************************************************)
(* Theorems about PatchLifecycle, for every value of its constants.        *)
(***************************************************************************)
EXTENDS PatchLifecycle, TLAPS

USE DEF Instants, Revisions

-----------------------------------------------------------------------------
(* Lemmas about the helpers                                                *)

\* append_state keeps the identity and the base of a proposal, adds states
\* only, and never makes a terminal proposal live again.
LEMMA AppendStateKeeps ==
  ASSUME NEW p \in Proposal, NEW state \in LifecycleStates
  PROVE  /\ AppendState(p, state) \in Proposal
         /\ AppendState(p, state).id = p.id
         /\ AppendState(p, state).base = p.base
         /\ AppendState(p, state).body = p.body
         /\ AppendState(p, state).originator = p.originator
         /\ AppendState(p, state).reviewedBy = p.reviewedBy
         /\ IsTerminal(p) => AppendState(p, state) = p
         /\ p.history \subseteq AppendState(p, state).history
BY DEF AppendState, IsTerminal, Proposal

\* The Grants an authorization relied on are Grants of the registry.
LEMMA GrantsUsedAreGrants ==
  ASSUME NEW u, NEW action, NEW scopes, Authorized(u, action, scopes)
  PROVE  GrantsUsed(u, action, scopes) \subseteq GrantIds
<1>1. ASSUME NEW s \in scopes
      PROVE  (CHOOSE g \in Covering(u, action, s) : TRUE) \in GrantIds
  <2>1. Covering(u, action, s) # {}
    BY DEF Authorized
  <2>2. Covering(u, action, s) \subseteq GrantIds
    BY DEF Covering
  <2>. QED BY <2>1, <2>2
<1>. QED BY <1>1 DEF GrantsUsed

-----------------------------------------------------------------------------
(* Type correctness                                                        *)

\* While the protected document is the original one, no proposal is based on a
\* future revision, and a proposal based on the current one was planned against the
\* current document.  This is what makes re-evaluation total: preview_profile,
\* approve and execute_profile never meet a base they cannot plan.
PlannedAtBase ==
  occurrence = "own" =>
    \A p \in proposals :
      /\ p.base <= revision
      /\ p.base = revision /\ IsNonterminal(p) =>
           CandidateOf[document][p.body] \in Docs

TypeInv == TypeOK /\ PlannedAtBase

\* A live proposal of the current revision has a candidate document.
LEMMA EvaluateIsDoc ==
  ASSUME TypeInv, occurrence = "own", NEW p \in proposals, IsNonterminal(p),
         p.base = revision
  PROVE  Evaluate(p) \in Docs
<1>1. CASE MemoFor(p) = {}
  BY <1>1 DEF Evaluate, TypeInv, PlannedAtBase
<1>2. CASE MemoFor(p) # {}
  <2>1. (CHOOSE m \in MemoFor(p) : TRUE) \in MemoFor(p)
    BY <1>2
  <2>2. MemoFor(p) \subseteq Evaluation
    BY DEF MemoFor, TypeInv, TypeOK
  <2>. QED BY <1>2, <2>1, <2>2 DEF Evaluate, Evaluation
<1>. QED BY <1>1, <1>2

\* Replacing a proposal by one that is at least as far along, at the same base.
LEMMA ReplaceKeepsTypeInv ==
  ASSUME TypeInv, NEW p \in proposals, NEW q \in Proposal,
         q.base = p.base, q.body = p.body, p.history \subseteq q.history,
         ReplaceProposal(p, q), UNCHANGED <<occurrence, revision, document>>
  PROVE  proposals' \subseteq Proposal /\ PlannedAtBase'
<1>1. proposals' \subseteq Proposal
  BY DEF ReplaceProposal, TypeInv, TypeOK
<1>2. IsNonterminal(q) => IsNonterminal(p)
  BY DEF IsNonterminal, IsTerminal
<1>3. ASSUME occurrence' = "own", NEW r \in proposals'
      PROVE  /\ r.base <= revision'
             /\ r.base = revision' /\ IsNonterminal(r)' =>
                  CandidateOf[document'][r.body] \in Docs
  <2>1. CASE r = q
    BY <1>2, <1>3, <2>1 DEF TypeInv, PlannedAtBase, IsNonterminal, IsTerminal
  <2>2. CASE r \in proposals
    BY <1>3, <2>2 DEF TypeInv, PlannedAtBase, IsNonterminal, IsTerminal
  <2>. QED BY <1>3, <2>1, <2>2 DEF ReplaceProposal
<1>. QED BY <1>1, <1>3 DEF PlannedAtBase

\* PatchLifecycleState::new: the empty registries have their types.
LEMMA InitTypeInv == Init => TypeInv
<1>. SUFFICES ASSUME Init PROVE TypeInv
  OBVIOUS
<1>1. TypeOK
  BY ConstantsAssumption DEF Init, TypeOK
<1>2. PlannedAtBase
  BY DEF Init, PlannedAtBase
<1>. QED BY <1>1, <1>2 DEF TypeInv

\* Registering, disabling, granting, revoking and a policy transition keep the
\* registries typed and leave every proposal plannable.
LEMMA AdministerKeepsTypeInv == TypeInv /\ Administer => TypeInv'
<1>. SUFFICES ASSUME TypeInv, Administer PROVE TypeInv'
  OBVIOUS
<1>. USE DEF TypeInv, TypeOK, PlannedAtBase, session, history, IsNonterminal, IsTerminal
<1>1. ASSUME NEW u \in Principals, RegisterPrincipal(u) PROVE TypeInv'
  BY <1>1 DEF RegisterPrincipal
<1>2. ASSUME NEW u \in Principals, DisablePrincipal(u) PROVE TypeInv'
  BY <1>2 DEF DisablePrincipal
<1>3. ASSUME NEW g \in GrantIds, ProvisionGrant(g) PROVE TypeInv'
  BY <1>3 DEF ProvisionGrant
<1>4. ASSUME NEW g \in GrantIds, RevokeGrant(g) PROVE TypeInv'
  BY <1>4 DEF RevokeGrant
<1>5. ASSUME NEW v \in Policies, TransitionEffectivePolicy(v) PROVE TypeInv'
  <2>1. policy.selection + 1 \in 0 .. MaxSelection
    BY <1>5, ConstantsAssumption DEF TransitionEffectivePolicy
  <2>. QED BY <1>5, <2>1 DEF TransitionEffectivePolicy
<1>6. ASSUME NEW a \in approvals, RevokeApproval(a) PROVE TypeInv'
  <2>1. [a EXCEPT !.status = "Revoked"] \in Approval
    BY DEF Approval, ApprovalStatus
  <2>. QED BY <1>6, <2>1 DEF RevokeApproval
<1>. QED BY <1>1, <1>2, <1>3, <1>4, <1>5, <1>6 DEF Administer

\* Propose, preview and approve record only what the registries can hold, and only
\* proposals that plan at their base revision.
LEMMA ReviewKeepsTypeInv == TypeInv /\ Review => TypeInv'
<1>. SUFFICES ASSUME TypeInv, Review PROVE TypeInv'
  OBVIOUS
<1>1. ASSUME NEW id \in ProposalIds, NEW u \in Principals, NEW b \in Bodies, Propose(id, u, b)
      PROVE  TypeInv'
  <2>. DEFINE candidate == CandidateOf[document][b]
              outcome == IF candidate \in ValidDocs THEN {}
                         ELSE IF candidate \in RejectedDocs THEN {"Rejected"}
                         ELSE {"ValidationFailed"}
              new == [id |-> id, originator |-> u, body |-> b, base |-> revision,
                      history |-> {"Draft", "Planned"} \cup outcome, reviewedBy |-> {}]
  <2>1. candidate \in Docs
    BY <1>1, ConstantsAssumption DEF Propose, TypeInv, TypeOK
  <2>2. new \in Proposal
    BY DEF Proposal, LifecycleStates, TerminalStates, TypeInv, TypeOK
  <2>3. proposals' = proposals \cup {new}
    BY <1>1 DEF Propose
  <2>4. memo' \subseteq Evaluation
    BY <1>1, <2>1 DEF Propose, Evaluation, TypeInv, TypeOK
  <2>5. UNCHANGED <<now, session, principals, grants, policy, approvals, receipts,
                    executing, history>>
    BY <1>1 DEF Propose
  <2>6. TypeOK'
    BY <2>2, <2>3, <2>4, <2>5 DEF TypeInv, TypeOK, session, history
  <2>7. PlannedAtBase'
    BY <2>1, <2>3, <2>5 DEF TypeInv, TypeOK, PlannedAtBase, session, IsNonterminal, IsTerminal
  <2>. QED BY <2>6, <2>7 DEF TypeInv
<1>2. ASSUME NEW p \in proposals, NEW u \in Principals, Preview(p, u) PROVE TypeInv'
  <2>1. p \in Proposal
    BY DEF TypeInv, TypeOK
  <2>2. proposals' \subseteq Proposal /\ PlannedAtBase'
    <3>. DEFINE reviewed == [p EXCEPT
                  !.reviewedBy = @ \cup {u},
                  !.history = @ \cup {"Previewed", "Validated", "AwaitingApproval"}]
    <3>1. CASE p.base # revision
      BY <1>2, <2>1, <3>1, AppendStateKeeps, ReplaceKeepsTypeInv
         DEF Preview, session, LifecycleStates, TerminalStates
    <3>2. CASE p.base = revision
      <4>1. /\ reviewed \in Proposal
            /\ reviewed.base = p.base /\ reviewed.body = p.body
            /\ p.history \subseteq reviewed.history
        BY <2>1 DEF Proposal, LifecycleStates
      <4>2. ReplaceProposal(p, reviewed) /\ UNCHANGED <<occurrence, revision, document>>
        BY <1>2, <3>2 DEF Preview, session
      <4>. HIDE DEF reviewed
      <4>. QED BY <4>1, <4>2, ReplaceKeepsTypeInv
    <3>. QED BY <3>1, <3>2
  <2>3. shown' \subseteq Showing
    <3>1. CASE p.base # revision
      BY <1>2, <3>1 DEF Preview, TypeInv, TypeOK
    <3>2. CASE p.base = revision
      <4>1. Evaluate(p) \in Docs
        BY <1>2, <3>2, EvaluateIsDoc DEF Preview
      <4>. QED BY <1>2, <2>1, <3>2, <4>1 DEF Preview, Showing, Proposal, TypeInv, TypeOK
    <3>. QED BY <3>1, <3>2
  <2>4. TypeOK'
    BY <1>2, <2>2, <2>3 DEF Preview, TypeInv, TypeOK, session
  <2>. QED BY <2>2, <2>4 DEF TypeInv
<1>3. ASSUME NEW id \in ApprovalIds, NEW p \in proposals, NEW u \in Principals,
             NEW x \in Principals, NEW t \in Instants, Approve(id, p, u, x, t)
      PROVE  TypeInv'
  <2>1. p \in Proposal
    BY DEF TypeInv, TypeOK
  <2>2. proposals' \subseteq Proposal /\ PlannedAtBase'
    BY <1>3, <2>1, AppendStateKeeps, ReplaceKeepsTypeInv
       DEF Approve, session, LifecycleStates, TerminalStates
  <2>3. approvals' \subseteq Approval
    <3>1. CASE p.base # revision
      BY <1>3, <3>1 DEF Approve, TypeInv, TypeOK
    <3>2. CASE p.base = revision
      <4>1. GrantsUsed(u, "Approve", Writes[p.body]) \subseteq GrantIds
        BY <1>3, GrantsUsedAreGrants DEF Approve, MayApprove
      <4>2. BindingOf(p, x) \in Binding
        BY <2>1 DEF BindingOf, Binding, Proposal, TypeInv, TypeOK
      <4>. QED BY <1>3, <3>2, <4>1, <4>2 DEF Approve, Approval, ApprovalStatus, TypeInv, TypeOK
    <3>. QED BY <3>1, <3>2
  <2>4. TypeOK'
    BY <1>3, <2>2, <2>3 DEF Approve, TypeInv, TypeOK, session, history
  <2>. QED BY <2>2, <2>4 DEF TypeInv
<1>. QED BY <1>1, <1>2, <1>3 DEF Review

\* Refusing, going stale or reserving Approvals for a publication keeps every type.
LEMMA ExecuteKeepsTypeInv == TypeInv /\ Execute => TypeInv'
<1>. SUFFICES ASSUME TypeInv, Execute PROVE TypeInv'
  OBVIOUS
<1>1. ASSUME ExecuteRefused PROVE TypeInv'
  BY <1>1 DEF ExecuteRefused, TypeInv, TypeOK, PlannedAtBase, session, history, IsNonterminal,
              IsTerminal
<1>2. ASSUME NEW p \in proposals, NEW x \in Principals, NEW chosen \in Choices,
             ExecuteStale(p, chosen, x)
      PROVE  TypeInv'
  <2>1. proposals' \subseteq Proposal /\ PlannedAtBase'
    <3>1. p \in Proposal
      BY DEF TypeInv, TypeOK
    <3>. QED BY <1>2, <3>1, AppendStateKeeps, ReplaceKeepsTypeInv
             DEF ExecuteStale, session, LifecycleStates, TerminalStates
  <2>2. TypeOK'
    BY <1>2, <2>1 DEF ExecuteStale, TypeInv, TypeOK, session, history
  <2>. QED BY <2>1, <2>2 DEF TypeInv
<1>3. ASSUME NEW p \in proposals, NEW x \in Principals, NEW chosen \in Choices,
             BeginExecute(p, chosen, x)
      PROVE  TypeInv'
  <2>1. chosen \subseteq approvals
    BY DEF Choices
  <2>2. Evaluate(p) \in Docs
    BY <1>3, EvaluateIsDoc DEF BeginExecute
  <2>3. executing' \subseteq Execution
    BY <1>3, <2>1, <2>2 DEF BeginExecute, Execution, TypeInv, TypeOK
  <2>4. approvals' \subseteq Approval
    BY <1>3 DEF BeginExecute, RegistryWithoutReserved, TypeInv, TypeOK
  <2>. QED BY <1>3, <2>3, <2>4 DEF BeginExecute, TypeInv, TypeOK, PlannedAtBase, session, history,
                                    IsNonterminal, IsTerminal
<1>4. ASSUME NEW p \in proposals, NEW x \in Principals, NEW a \in approvals,
             ExecuteExpired(p, a, x)
      PROVE  TypeInv'
  <2>1. proposals' \subseteq Proposal /\ PlannedAtBase'
    <3>1. p \in Proposal
      BY DEF TypeInv, TypeOK
    <3>. QED BY <1>4, <3>1, AppendStateKeeps, ReplaceKeepsTypeInv
             DEF ExecuteExpired, session, LifecycleStates
  <2>2. ExpireApproval(a) \in Approval
    BY DEF ExpireApproval, Approval, ApprovalStatus, TypeInv, TypeOK
  <2>3. TypeOK'
    BY <1>4, <2>1, <2>2 DEF ExecuteExpired, TypeInv, TypeOK, session, history
  <2>. QED BY <2>1, <2>3 DEF TypeInv
<1>. QED BY <1>1, <1>2, <1>3, <1>4 DEF Execute

\* An execution holds a proposal of the registry, as it stands there.  Needed to
\* carry PlannedAtBase over a failed publication.
HoldsItsProposal == \A e \in executing : e.proposal \in proposals

\* Whatever a publication attempt answers, what it writes back to the registries
\* has its type, and the next revision has a document.
LEMMA PublishKeepsTypeInv == TypeInv /\ HoldsItsProposal /\ Publish => TypeInv'
<1>. SUFFICES ASSUME TypeInv, HoldsItsProposal, NEW e \in executing,
                     \/ PublicationScopeMismatch(e)
                     \/ PublicationDenied(e)
                     \/ PublicationStale(e)
                     \/ PublicationNoChange(e)
                     \/ PublicationConflict(e)
                     \/ \E d \in HostInstalls[e.candidate] : PublicationInstalled(e, d)
              PROVE  TypeInv'
  BY DEF Publish
<1>1. e \in Execution /\ e.proposal \in proposals /\ e.proposal \in Proposal
  BY DEF HoldsItsProposal, TypeInv, TypeOK
<1>2. ASSUME NEW state \in LifecycleStates, Finish(e, state),
             UNCHANGED <<occurrence, revision, document>>
      PROVE  proposals' \subseteq Proposal /\ PlannedAtBase'
  BY <1>1, <1>2, AppendStateKeeps, ReplaceKeepsTypeInv DEF Finish
<1>3. ASSUME UNCHANGED proposals, UNCHANGED <<occurrence, revision, document>>
      PROVE  proposals' \subseteq Proposal /\ PlannedAtBase'
  BY <1>3 DEF TypeInv, TypeOK, PlannedAtBase, IsNonterminal, IsTerminal
<1>4. ASSUME NEW back \in SUBSET Approval, GiveBack(back), UnpublishedRest,
             proposals' \subseteq Proposal /\ PlannedAtBase'
      PROVE  TypeInv'
  BY <1>4 DEF GiveBack, UnpublishedRest, TypeInv, TypeOK, session, history
<1>5. e.reserved \in SUBSET Approval
  BY <1>1 DEF Execution
<1>6. CASE PublicationScopeMismatch(e)
  BY <1>3, <1>4, <1>5, <1>6 DEF PublicationScopeMismatch, UnpublishedRest, session
<1>7. CASE PublicationDenied(e)
  <2>. DEFINE expired == {a \in e.reserved : HasExpired(a)}
              back == (e.reserved \ expired) \cup {ExpireApproval(a) : a \in expired}
  <2>1. back \in SUBSET Approval
    BY <1>5 DEF ExpireApproval, Approval, ApprovalStatus
  <2>2. GiveBack(back) /\ UnpublishedRest
    BY <1>7 DEF PublicationDenied
  <2>3. proposals' \subseteq Proposal /\ PlannedAtBase'
    BY <1>2, <1>3, <1>7, <2>2 DEF PublicationDenied, UnpublishedRest, session, LifecycleStates
  <2>. QED BY <1>4, <2>1, <2>2, <2>3
<1>8. CASE PublicationStale(e)
  BY <1>2, <1>4, <1>5, <1>8
     DEF PublicationStale, UnpublishedRest, session, LifecycleStates, TerminalStates
<1>9. CASE PublicationNoChange(e)
  BY <1>3, <1>4, <1>5, <1>9 DEF PublicationNoChange, UnpublishedRest, session
<1>10. CASE PublicationConflict(e)
  BY <1>2, <1>4, <1>5, <1>10
     DEF PublicationConflict, UnpublishedRest, session, LifecycleStates
<1>11. ASSUME NEW d \in HostInstalls[e.candidate], PublicationInstalled(e, d)
       PROVE  TypeInv'
  <2>. DEFINE verified == Verifies(e, d)
              done == [e.proposal EXCEPT !.history =
                         @ \cup {"Applied", IF verified THEN "Verified" ELSE "Conflict"}]
              receipt ==
                [proposal |-> e.proposal.id, executor |-> e.executor,
                 approval |-> {a.id : a \in e.reserved},
                 approveGrants |->
                   UNION {GrantsUsed(a.approver, "Approve", Writes[e.proposal.body])
                            : a \in e.reserved},
                 executeGrants |-> GrantsUsed(e.executor, "Execute", Writes[e.proposal.body]),
                 base |-> e.base, result |-> revision + 1, verified |-> verified]
              entry == [by |-> {e.proposal.id}, before |-> document, after |-> d,
                        result |-> revision + 1]
  <2>1. revision + 1 \in Revisions /\ revision \in Nat
    BY <1>11, ConstantsAssumption DEF PublicationInstalled, TypeInv, TypeOK
  <2>2. d \in Docs
    BY <1>1, ConstantsAssumption DEF Execution
  <2>3. done \in Proposal /\ done.base = e.proposal.base
    BY <1>1 DEF Proposal, LifecycleStates, TerminalStates
  <2>4. receipt \in Receipt
    <3>1. /\ \A a \in e.reserved : Authorized(a.approver, "Approve", Writes[e.proposal.body])
          /\ Authorized(e.executor, "Execute", Writes[e.proposal.body])
      BY <1>11 DEF PublicationInstalled, GuardAuthorizes, BoundaryAuthorized,
                   ExecutionAuthorized
    <3>2. receipt.approveGrants \subseteq GrantIds
      BY <3>1, GrantsUsedAreGrants
    <3>3. receipt.executeGrants \subseteq GrantIds
      BY <3>1, GrantsUsedAreGrants
    <3>4. receipt.approval \subseteq ApprovalIds
      BY <1>5 DEF Approval
    <3>5. verified \in BOOLEAN
      BY DEF Verifies
    <3>6. /\ e.proposal.id \in ProposalIds
          /\ e.executor \in Principals
          /\ e.base \in Revisions
      BY <1>1 DEF Execution, Proposal
    <3>. HIDE DEF verified
    <3>. QED BY <2>1, <3>2, <3>3, <3>4, <3>5, <3>6 DEF Receipt
  <2>5. entry \in Publication
    BY <1>1, <2>1, <2>2 DEF Publication, Proposal, TypeInv, TypeOK
  <2>6. {Spend(a) : a \in e.reserved} \subseteq Approval
    BY <1>5 DEF Spend, Approval, ApprovalStatus
  <2>7. /\ proposals' = (proposals \ {e.proposal}) \cup {done}
        /\ approvals' = approvals \cup {Spend(a) : a \in e.reserved}
        /\ receipts' = receipts \cup {receipt}
        /\ published' = published \cup {entry}
        /\ revision' = revision + 1 /\ document' = d /\ executing' = {}
        /\ UNCHANGED <<now, occurrence, principals, grants, policy, memo, shown>>
    BY <1>11 DEF PublicationInstalled, ReplaceProposal
  <2>. HIDE DEF done, receipt, entry
  <2>8. TypeOK'
    BY <2>1, <2>2, <2>3, <2>4, <2>5, <2>6, <2>7 DEF TypeInv, TypeOK
  <2>9. PlannedAtBase'
    <3>1. ASSUME NEW p \in proposals', occurrence' = "own" PROVE p.base < revision'
      BY <1>1, <2>1, <2>3, <2>7, <3>1 DEF TypeInv, TypeOK, PlannedAtBase, Proposal
    <3>. QED BY <2>1, <2>3, <2>7, <2>8, <3>1 DEF TypeOK, PlannedAtBase, Proposal
  <2>. QED BY <2>8, <2>9 DEF TypeInv
<1>. QED BY <1>6, <1>7, <1>8, <1>9, <1>10, <1>11

\* Time, another writer of the session and a new resident session keep every type.
LEMMA EnvironmentKeepsTypeInv == TypeInv /\ Environment => TypeInv'
<1>. SUFFICES ASSUME TypeInv, Environment PROVE TypeInv'
  OBVIOUS
<1>. USE ConstantsAssumption
     DEF TypeInv, TypeOK, PlannedAtBase, session, registry, history, IsNonterminal, IsTerminal
<1>1. CASE Tick
  BY <1>1 DEF Tick
<1>2. ASSUME NEW d \in Docs, ExternalPublish(d) PROVE TypeInv'
  <2>1. revision + 1 \in Revisions /\ revision \in Nat
    BY <1>2 DEF ExternalPublish
  <2>2. [by |-> {}, before |-> document, after |-> d, result |-> revision + 1] \in Publication
    BY <2>1 DEF Publication
  <2>3. TypeOK'
    BY <1>2, <2>1, <2>2 DEF ExternalPublish
  <2>4. PlannedAtBase'
    BY <1>2, <2>1 DEF ExternalPublish, Proposal
  <2>. QED BY <2>3, <2>4
<1>3. CASE ReplaceOccurrence
  BY <1>3 DEF ReplaceOccurrence
<1>. QED BY <1>1, <1>2, <1>3 DEF Environment

-----------------------------------------------------------------------------
(* Identity: what an execution holds, and what its registry still has      *)

OneExecution == \A e, f \in executing : e = f

ProposalIdsUnique == \A p, q \in proposals : p.id = q.id => p = q

\* Only an Active Approval is reserved, and only a live proposal of the base it is
\* executed at.
ExecutionIsLive ==
  \A e \in executing :
    /\ \A a \in e.reserved : a.status = "Active"
    /\ e.base = e.proposal.base
    /\ IsNonterminal(e.proposal)

IdentityInv ==
  /\ OneExecution
  /\ HoldsItsProposal
  /\ ProposalIdsUnique
  /\ ApprovalIdsUnique
  /\ ExecutionIsLive

IdsUnique(S) == \A a, b \in S : a.id = b.id => a = b

\* Exchanging one record for another of the same identity keeps identities unique.
LEMMA ExchangeKeepsIds ==
  ASSUME NEW S, IdsUnique(S), NEW a \in S, NEW b, b.id = a.id
  PROVE  IdsUnique((S \ {a}) \cup {b})
BY DEF IdsUnique

\* A step of a registry operation: nothing executes before or after it, so only
\* the identities in the two registries matter.
LEMMA IdleStepKeepsIdentity ==
  ASSUME Idle, UNCHANGED executing, IdsUnique(proposals'), IdsUnique(approvals')
  PROVE  IdentityInv'
<1>1. executing' = {} /\ Reserved' = {} /\ Issued' = approvals'
  BY DEF Idle, Reserved, Issued
<1>. QED BY <1>1 DEF IdentityInv, OneExecution, HoldsItsProposal, ProposalIdsUnique,
                     ApprovalIdsUnique, ExecutionIsLive, IdsUnique

\* Nothing has an identity in the first state.
LEMMA InitIdentityInv == Init => IdentityInv
BY DEF Init, IdentityInv, OneExecution, HoldsItsProposal, ProposalIdsUnique,
       ApprovalIdsUnique, ExecutionIsLive, Issued, Reserved

\* The invariant gives unique identities to each registry taken alone.
LEMMA IdentityIds == IdentityInv => IdsUnique(proposals) /\ IdsUnique(approvals)
BY DEF IdentityInv, ProposalIdsUnique, ApprovalIdsUnique, IdsUnique, Issued

\* Administration changes records in place and issues no identity of the registry.
LEMMA AdministerKeepsIdentity == TypeInv /\ IdentityInv /\ Administer => IdentityInv'
<1>. SUFFICES ASSUME TypeInv, IdentityInv, Administer PROVE IdentityInv'
  OBVIOUS
<1>1. Idle /\ UNCHANGED <<executing, proposals>>
  BY DEF Administer, RegisterPrincipal, DisablePrincipal, ProvisionGrant, RevokeGrant,
         TransitionEffectivePolicy, RevokeApproval
<1>2. IdsUnique(approvals')
  <2>1. CASE UNCHANGED approvals
    BY <2>1, IdentityIds
  <2>2. ASSUME NEW a \in approvals, RevokeApproval(a) PROVE IdsUnique(approvals')
    <3>1. [a EXCEPT !.status = "Revoked"].id = a.id
      BY DEF TypeInv, TypeOK, Approval
    <3>. QED BY <2>2, <3>1, IdentityIds, ExchangeKeepsIds DEF RevokeApproval
  <2>. QED BY <2>1, <2>2 DEF Administer, RegisterPrincipal, DisablePrincipal, ProvisionGrant,
                             RevokeGrant, TransitionEffectivePolicy
<1>. QED BY <1>1, <1>2, IdentityIds, IdleStepKeepsIdentity

\* Only propose and approve issue an identity, and each refuses one already used.
LEMMA ReviewKeepsIdentity == TypeInv /\ IdentityInv /\ Review => IdentityInv'
<1>. SUFFICES ASSUME TypeInv, IdentityInv, Review PROVE IdentityInv'
  OBVIOUS
<1>. USE IdentityIds, IdleStepKeepsIdentity
<1>1. ASSUME NEW id \in ProposalIds, NEW u \in Principals, NEW b \in Bodies, Propose(id, u, b)
      PROVE  IdentityInv'
  <2>. DEFINE candidate == CandidateOf[document][b]
              outcome == IF candidate \in ValidDocs THEN {}
                         ELSE IF candidate \in RejectedDocs THEN {"Rejected"}
                         ELSE {"ValidationFailed"}
              new == [id |-> id, originator |-> u, body |-> b, base |-> revision,
                      history |-> {"Draft", "Planned"} \cup outcome, reviewedBy |-> {}]
  <2>1. new.id = id /\ proposals' = proposals \cup {new}
    BY <1>1 DEF Propose
  <2>. HIDE DEF new
  <2>2. \A q \in proposals : q.id # id
    BY <1>1 DEF Propose
  <2>3. IdsUnique(proposals')
    BY <2>1, <2>2 DEF IdsUnique
  <2>. QED BY <1>1, <2>3 DEF Propose
<1>2. ASSUME NEW p \in proposals, NEW u \in Principals, Preview(p, u) PROVE IdentityInv'
  <2>1. PICK q : q.id = p.id /\ ReplaceProposal(p, q)
    <3>1. p \in Proposal
      BY DEF TypeInv, TypeOK
    <3>2. CASE p.base # revision
      BY <1>2, <3>1, <3>2, AppendStateKeeps DEF Preview, LifecycleStates, TerminalStates
    <3>3. CASE p.base = revision
      BY <1>2, <3>1, <3>3 DEF Preview, Proposal
    <3>. QED BY <3>2, <3>3
  <2>2. IdsUnique(proposals')
    BY <2>1, ExchangeKeepsIds DEF ReplaceProposal
  <2>. QED BY <1>2, <2>2 DEF Preview
<1>3. ASSUME NEW id \in ApprovalIds, NEW p \in proposals, NEW u \in Principals,
             NEW x \in Principals, NEW t \in Instants, Approve(id, p, u, x, t)
      PROVE  IdentityInv'
  <2>1. PICK q : q.id = p.id /\ ReplaceProposal(p, q)
    <3>1. p \in Proposal
      BY DEF TypeInv, TypeOK
    <3>. QED BY <1>3, <3>1, AppendStateKeeps DEF Approve, LifecycleStates, TerminalStates
  <2>2. IdsUnique(proposals')
    BY <2>1, ExchangeKeepsIds DEF ReplaceProposal
  <2>3. IdsUnique(approvals')
    BY <1>3 DEF Approve, IdsUnique
  <2>. QED BY <1>3, <2>2, <2>3 DEF Approve
<1>. QED BY <1>1, <1>2, <1>3 DEF Review

\* Reserving moves Approvals out of the registry under their own identities.
LEMMA ExecuteKeepsIdentity == TypeInv /\ IdentityInv /\ Execute => IdentityInv'
<1>. SUFFICES ASSUME TypeInv, IdentityInv, Execute PROVE IdentityInv'
  OBVIOUS
<1>. USE IdentityIds, IdleStepKeepsIdentity
<1>1. CASE ExecuteRefused
  BY <1>1 DEF ExecuteRefused
<1>2. ASSUME NEW p \in proposals, NEW x \in Principals, NEW chosen \in Choices,
             ExecuteStale(p, chosen, x)
      PROVE  IdentityInv'
  <2>1. AppendState(p, "Stale").id = p.id
    BY AppendStateKeeps DEF TypeInv, TypeOK, LifecycleStates, TerminalStates
  <2>2. IdsUnique(proposals')
    BY <1>2, <2>1, ExchangeKeepsIds DEF ExecuteStale, ReplaceProposal
  <2>. QED BY <1>2, <2>2 DEF ExecuteStale
<1>3. ASSUME NEW p \in proposals, NEW x \in Principals, NEW a \in approvals,
             ExecuteExpired(p, a, x)
      PROVE  IdentityInv'
  <2>1. AppendState(p, "Expired").id = p.id /\ ExpireApproval(a).id = a.id
    BY AppendStateKeeps DEF TypeInv, TypeOK, LifecycleStates, ExpireApproval, Approval
  <2>2. IdsUnique(proposals') /\ IdsUnique(approvals')
    BY <1>3, <2>1, ExchangeKeepsIds DEF ExecuteExpired, ReplaceProposal
  <2>. QED BY <1>3, <2>2 DEF ExecuteExpired
<1>4. ASSUME NEW p \in proposals, NEW x \in Principals, NEW chosen \in Choices,
             BeginExecute(p, chosen, x)
      PROVE  IdentityInv'
  <2>. DEFINE e == [proposal |-> p, executor |-> x, reserved |-> chosen,
                    base |-> revision, candidate |-> Evaluate(p)]
  <2>1. /\ executing' = {e} /\ approvals' = approvals \ chosen
        /\ UNCHANGED <<proposals, revision>>
        /\ p.base = revision /\ IsNonterminal(p)
    BY <1>4 DEF BeginExecute, RegistryWithoutReserved, session
  <2>2. /\ e.proposal = p /\ e.reserved = chosen /\ e.base = revision
    OBVIOUS
  <2>3. \A a \in chosen : a.status = "Active"
    BY <1>4 DEF BeginExecute, BoundaryAuthorized, ApprovalActive
  <2>. HIDE DEF e
  <2>4. Reserved' = chosen /\ chosen \subseteq approvals
    BY <2>1, <2>2 DEF Reserved, Choices
  <2>5. ApprovalIdsUnique'
    BY <2>1, <2>4 DEF ApprovalIdsUnique, Issued, IdsUnique
  <2>6. ExecutionIsLive'
    BY <2>1, <2>2, <2>3 DEF ExecutionIsLive, IsNonterminal, IsTerminal
  <2>. QED BY <2>1, <2>2, <2>5, <2>6 DEF IdentityInv, OneExecution, HoldsItsProposal,
                                          ProposalIdsUnique
<1>. QED BY <1>1, <1>2, <1>3, <1>4 DEF Execute

\* Every way an execution ends gives back its Approval under the same identity,
\* and leaves a proposal of the same identity.
LEMMA EndedExecution ==
  ASSUME IdentityInv, NEW e \in executing,
         NEW back, IdsUnique(back), \A b \in back : \E a \in e.reserved : a.id = b.id,
         approvals' = approvals \cup back,
         executing' = {}, IdsUnique(proposals')
  PROVE  IdentityInv'
<1>1. e.reserved \subseteq Reserved /\ e.reserved \subseteq Issued
  BY DEF Reserved, Issued
<1>2. Reserved' = {} /\ Issued' = approvals'
  BY DEF Reserved, Issued
<1>3. \A a \in approvals, b \in back : a.id # b.id
  BY <1>1 DEF IdentityInv, ApprovalIdsUnique, Issued
<1>4. IdsUnique(approvals')
  BY <1>3, IdentityIds DEF IdsUnique
<1>. QED BY <1>2, <1>4 DEF IdentityInv, OneExecution, HoldsItsProposal, ProposalIdsUnique,
                           ApprovalIdsUnique, ExecutionIsLive, IdsUnique

\* The Approvals one execution reserves have distinct identities.
LEMMA ReservedIds ==
  ASSUME IdentityInv, NEW e \in executing
  PROVE  IdsUnique(e.reserved)
BY DEF IdentityInv, ApprovalIdsUnique, Issued, Reserved, IdsUnique

\* Every way a publication ends returns or retires what was reserved, once.
LEMMA PublishKeepsIdentity == TypeInv /\ IdentityInv /\ Publish => IdentityInv'
<1>. SUFFICES ASSUME TypeInv, IdentityInv, NEW e \in executing,
                     \/ PublicationScopeMismatch(e)
                     \/ PublicationDenied(e)
                     \/ PublicationStale(e)
                     \/ PublicationNoChange(e)
                     \/ PublicationConflict(e)
                     \/ \E d \in HostInstalls[e.candidate] : PublicationInstalled(e, d)
              PROVE  IdentityInv'
  BY DEF Publish
<1>1. e.proposal \in proposals /\ e.proposal \in Proposal /\ e.reserved \subseteq Approval
  BY DEF IdentityInv, HoldsItsProposal, TypeInv, TypeOK, Execution
<1>2. ASSUME NEW state \in LifecycleStates, Finish(e, state) PROVE IdsUnique(proposals')
  BY <1>1, <1>2, AppendStateKeeps, IdentityIds, ExchangeKeepsIds DEF Finish, ReplaceProposal
<1>3. CASE executing' = {} /\ approvals' = approvals \cup e.reserved /\ IdsUnique(proposals')
  BY <1>3, ReservedIds, EndedExecution
<1>4. CASE PublicationScopeMismatch(e)
  BY <1>3, <1>4, IdentityIds DEF PublicationScopeMismatch, GiveBack, UnpublishedRest
<1>5. CASE PublicationDenied(e)
  <2>. DEFINE expired == {a \in e.reserved : HasExpired(a)}
              back == (e.reserved \ expired) \cup {ExpireApproval(a) : a \in expired}
  <2>1. \A a \in Approval : ExpireApproval(a).id = a.id
    BY DEF ExpireApproval, Approval
  <2>2. executing' = {} /\ approvals' = approvals \cup back
    BY <1>5 DEF PublicationDenied, GiveBack, UnpublishedRest
  <2>3. IdsUnique(proposals')
    BY <1>2, <1>5, IdentityIds DEF PublicationDenied, LifecycleStates
  <2>4. IdsUnique(back)
    BY <1>1, <2>1, ReservedIds DEF IdsUnique
  <2>5. \A b \in back : \E a \in e.reserved : a.id = b.id
    BY <1>1, <2>1
  <2>. HIDE DEF back
  <2>. QED BY <2>2, <2>3, <2>4, <2>5, EndedExecution
<1>6. CASE PublicationStale(e)
  BY <1>2, <1>3, <1>6
     DEF PublicationStale, GiveBack, UnpublishedRest, LifecycleStates, TerminalStates
<1>7. CASE PublicationNoChange(e)
  BY <1>3, <1>7, IdentityIds DEF PublicationNoChange, GiveBack, UnpublishedRest
<1>8. CASE PublicationConflict(e)
  BY <1>2, <1>3, <1>8 DEF PublicationConflict, GiveBack, UnpublishedRest, LifecycleStates
<1>9. ASSUME NEW d \in HostInstalls[e.candidate], PublicationInstalled(e, d)
      PROVE  IdentityInv'
  <2>. DEFINE back == {Spend(a) : a \in e.reserved}
  <2>1. \A a \in Approval : Spend(a).id = a.id
    BY DEF Spend, Approval
  <2>2. executing' = {} /\ approvals' = approvals \cup back
    BY <1>9 DEF PublicationInstalled
  <2>3. PICK q : q.id = e.proposal.id /\ ReplaceProposal(e.proposal, q)
    BY <1>1, <1>9 DEF PublicationInstalled, Proposal
  <2>4. IdsUnique(proposals')
    BY <1>1, <2>3, IdentityIds, ExchangeKeepsIds DEF ReplaceProposal
  <2>5. IdsUnique(back)
    BY <1>1, <2>1, ReservedIds DEF IdsUnique
  <2>6. \A b \in back : \E a \in e.reserved : a.id = b.id
    BY <1>1, <2>1
  <2>. HIDE DEF back
  <2>. QED BY <2>2, <2>4, <2>5, <2>6, EndedExecution
<1>. QED BY <1>4, <1>5, <1>6, <1>7, <1>8, <1>9

\* The environment touches neither registry.
LEMMA EnvironmentKeepsIdentity == IdentityInv /\ Environment => IdentityInv'
<1>. SUFFICES ASSUME IdentityInv, Environment PROVE IdentityInv'
  OBVIOUS
<1>1. UNCHANGED <<proposals, approvals, executing>>
  BY DEF Environment, Tick, ExternalPublish, ReplaceOccurrence, registry
<1>. QED BY <1>1 DEF IdentityInv, OneExecution, HoldsItsProposal, ProposalIdsUnique,
                     ApprovalIdsUnique, ExecutionIsLive, IsNonterminal, IsTerminal,
                     Issued, Reserved

\* The first half of the inductive invariant: types and identities.
LEMMA NextKeepsTypeAndIdentity ==
  TypeInv /\ IdentityInv /\ [Next]_vars => TypeInv' /\ IdentityInv'
<1>1. CASE Next
  <2>1. TypeInv /\ IdentityInv /\ Next => TypeInv'
    BY AdministerKeepsTypeInv, ReviewKeepsTypeInv, ExecuteKeepsTypeInv, PublishKeepsTypeInv,
       EnvironmentKeepsTypeInv DEF Next, IdentityInv
  <2>2. TypeInv /\ IdentityInv /\ Next => IdentityInv'
    BY AdministerKeepsIdentity, ReviewKeepsIdentity, ExecuteKeepsIdentity,
       PublishKeepsIdentity, EnvironmentKeepsIdentity DEF Next
  <2>. QED BY <1>1, <2>1, <2>2
<1>2. CASE UNCHANGED vars
  BY <1>2 DEF vars, session, registry, history, TypeInv, TypeOK, PlannedAtBase, IdentityInv,
              OneExecution, HoldsItsProposal, ProposalIdsUnique, ApprovalIdsUnique,
              ExecutionIsLive, IsNonterminal, IsTerminal, Issued, Reserved
<1>. QED BY <1>1, <1>2

\* Every reachable state has the declared types, and a proposal of the current
\* revision can always be planned again.
THEOREM TypeCorrect == Spec => [](TypeInv /\ IdentityInv)
BY InitTypeInv, InitIdentityInv, NextKeepsTypeAndIdentity, PTL DEF Spec

\* Every variable of the lifecycle keeps its declared type.
THEOREM TypesHold == Spec => []TypeOK
BY TypeCorrect, PTL DEF TypeInv

\* approve and the restore after a failed publication: one Approval identity never
\* names two records, in the registry or held by an execution.
THEOREM IdentitiesUnique == Spec => []ApprovalIdsUnique
BY TypeCorrect, PTL DEF IdentityInv

-----------------------------------------------------------------------------
(* Authority at the instant of publication                                 *)

\* An Approval is spent only by a publication that the guard has just authorized
\* for the execution that reserved it.
LEMMA SpentByGuardedPublication ==
  ASSUME TypeInv, IdentityInv, [Next]_vars, NEW a \in SpentNow
  PROVE  \E e \in executing :
           GuardAuthorizes(e) /\ \E b \in e.reserved : b \in Approval /\ a = Spend(b)
<1>1. a \in approvals' /\ a.status = "Consumed" /\ a \notin approvals
  BY DEF SpentNow
<1>2. CASE UNCHANGED approvals
  BY <1>1, <1>2
<1>3. CASE Administer
  <2>1. \A b \in approvals : [b EXCEPT !.status = "Revoked"].status = "Revoked"
    BY DEF TypeInv, TypeOK, Approval
  <2>. QED BY <1>1, <1>3, <2>1 DEF Administer, RegisterPrincipal, DisablePrincipal,
              ProvisionGrant, RevokeGrant, TransitionEffectivePolicy, RevokeApproval
<1>4. CASE Review
  <2>1. ASSUME NEW id \in ApprovalIds, NEW p \in proposals, NEW u \in Principals,
               NEW x \in Principals, NEW t \in Instants, Approve(id, p, u, x, t)
        PROVE  FALSE
    <3>1. CASE p.base # revision
      BY <1>1, <2>1, <3>1 DEF Approve
    <3>2. CASE p.base = revision
      BY <1>1, <2>1, <3>2 DEF Approve
    <3>. QED BY <3>1, <3>2
  <2>. QED BY <1>1, <1>4, <2>1 DEF Review, Propose, Preview
<1>5. CASE Execute
  <2>1. \A b \in approvals : ExpireApproval(b).status = "Expired"
    BY DEF ExpireApproval, TypeInv, TypeOK, Approval
  <2>. QED BY <1>1, <1>5, <2>1 DEF Execute, ExecuteRefused, ExecuteStale, ExecuteExpired,
              BeginExecute, RegistryWithoutReserved
<1>6. CASE Publish
  <2>1. \A e \in executing : \A b \in e.reserved : b \in Approval /\ b.status = "Active"
    BY DEF IdentityInv, ExecutionIsLive, TypeInv, TypeOK, Execution
  <2>2. \A e \in executing : \A b \in e.reserved : ExpireApproval(b).status = "Expired"
    BY <2>1 DEF ExpireApproval, Approval
  <2>3. ASSUME NEW e \in executing, PublicationDenied(e) PROVE FALSE
    BY <1>1, <2>1, <2>2, <2>3 DEF PublicationDenied, GiveBack
  <2>4. ASSUME NEW e \in executing,
               PublicationScopeMismatch(e) \/ PublicationStale(e) \/ PublicationNoChange(e)
                 \/ PublicationConflict(e)
        PROVE  FALSE
    BY <1>1, <2>1, <2>4 DEF PublicationScopeMismatch, PublicationStale, PublicationNoChange,
       PublicationConflict, GiveBack
  <2>5. PICK e \in executing : \E d \in HostInstalls[e.candidate] : PublicationInstalled(e, d)
    BY <1>6, <2>3, <2>4 DEF Publish
  <2>. QED BY <1>1, <2>1, <2>5 DEF PublicationInstalled
<1>7. CASE Environment
  BY <1>1, <1>7 DEF Environment, Tick, ExternalPublish, ReplaceOccurrence, registry
<1>. QED BY <1>2, <1>3, <1>4, <1>5, <1>6, <1>7 DEF Next, vars, registry

\* Whatever the environment does between reservation and publication, an Approval
\* is spent only while it and the Grants recorded at its issuance are in force.
THEOREM OriginalAuthority == Spec => SpentUnderOriginalAuthority
<1>1. ASSUME TypeInv, IdentityInv, [Next]_vars, NEW a \in SpentNow
      PROVE  /\ now < a.expires
             /\ principals[a.approver] = "active"
             /\ \A g \in a.grants : grants[g] = "live" /\ now < GrantOf[g].expires
  <2>1. PICK e \in executing : GuardAuthorizes(e) /\
               \E b \in e.reserved : b \in Approval /\ a = Spend(b)
    BY <1>1, SpentByGuardedPublication
  <2>. PICK b \in e.reserved : b \in Approval /\ a = Spend(b)
    BY <2>1
  <2>2. a.expires = b.expires /\ a.approver = b.approver /\ a.grants = b.grants
    BY <2>1 DEF Spend, Approval
  <2>3. ApprovalActive(b) /\ RecordedGrantsHold(b)
    BY <2>1 DEF GuardAuthorizes, BoundaryAuthorized, ExecutionAuthorized
  <2>. QED BY <2>2, <2>3 DEF ApprovalActive, RecordedGrantsHold, GrantIsLiveFor, IsActive
<1>2. TypeInv /\ IdentityInv /\ [Next]_vars =>
        [\A a \in SpentNow :
           /\ now < a.expires
           /\ principals[a.approver] = "active"
           /\ \A g \in a.grants : grants[g] = "live" /\ now < GrantOf[g].expires]_vars
  BY <1>1
<1>. QED BY <1>2, TypeCorrect, PTL DEF Spec, SpentUnderOriginalAuthority

\* No sequence of policy transitions, a return to the first version included,
\* makes an Approval issued before them spendable.
THEOREM PolicyTransitionKills == Spec => NeverSpentAcrossPolicyTransition
<1>1. ASSUME TypeInv, IdentityInv, [Next]_vars, NEW a \in SpentNow
      PROVE  a.selection = policy.selection /\ a.binding.policy = policy.version
  <2>1. PICK e \in executing : GuardAuthorizes(e) /\
               \E b \in e.reserved : b \in Approval /\ a = Spend(b)
    BY <1>1, SpentByGuardedPublication
  <2>. PICK b \in e.reserved : b \in Approval /\ a = Spend(b)
    BY <2>1
  <2>2. a.selection = b.selection /\ a.binding = b.binding
    BY <2>1 DEF Spend, Approval
  <2>3. PolicyUnchanged(b)
    BY <2>1 DEF GuardAuthorizes, BoundaryAuthorized, SelectsContext
  <2>. QED BY <2>2, <2>3 DEF PolicyUnchanged
<1>2. TypeInv /\ IdentityInv /\ [Next]_vars =>
        [\A a \in SpentNow :
           a.selection = policy.selection /\ a.binding.policy = policy.version]_vars
  BY <1>1
<1>. QED BY <1>2, TypeCorrect, PTL DEF Spec, NeverSpentAcrossPolicyTransition

-----------------------------------------------------------------------------
(* No lost update                                                          *)

PublishersKnown == \A q \in published : \A i \in q.by : \E p \in proposals : p.id = i

ResultsReached == occurrence = "own" => \A q \in published : q.result <= revision

RevisionInv == NoLostUpdate /\ PublishersKnown /\ ResultsReached

\* q is p, perhaps later.
Continues(p, q) ==
  /\ q.id = p.id /\ q.base = p.base /\ q.body = p.body /\ q.originator = p.originator
  /\ p.reviewedBy \subseteq q.reviewedBy

PublishedStates == {"Applied", "Verified"}

\* Nor does q tell of a review or a publication that p does not tell of.
QuietlyContinues(p, q) ==
  /\ Continues(p, q)
  /\ q.reviewedBy = p.reviewedBy
  /\ q.history \cap PublishedStates = p.history \cap PublishedStates
  /\ IsTerminal(p) => IsTerminal(q)

IsFresh(q) ==
  /\ \A p \in proposals : q.id # p.id
  /\ q.reviewedBy = {}
  /\ q.history \cap PublishedStates = {}

\* What a step may do to the proposals: add one of a fresh identity, or let one go
\* on under its identity and with its content.
ProposalsCarried ==
  /\ \A q \in proposals' : IsFresh(q) \/ \E p \in proposals : Continues(p, q)
  /\ \A p \in proposals : \E q \in proposals' : Continues(p, q)

QuietStep ==
  /\ \A q \in proposals' : IsFresh(q) \/ \E p \in proposals : QuietlyContinues(p, q)
  /\ \A p \in proposals : \E q \in proposals' : QuietlyContinues(p, q)

Reviewed == \E p \in proposals, u \in Principals : p.base = revision /\ Preview(p, u)

Installed ==
  \E e \in executing : \E d \in HostInstalls[e.candidate] : PublicationInstalled(e, d)

\* A quiet step keeps the content of every proposal.
LEMMA QuietStepCarries == QuietStep => ProposalsCarried
BY DEF QuietStep, ProposalsCarried, QuietlyContinues

\* Replacing one proposal by a later state of itself carries every proposal over.
LEMMA ReplaceCarries ==
  ASSUME NEW p \in proposals, NEW q, Continues(p, q), ReplaceProposal(p, q)
  PROVE  ProposalsCarried
BY DEF ReplaceProposal, ProposalsCarried, Continues

\* Replacing one proposal by one that tells of nothing more is a quiet step.
LEMMA ReplaceIsQuiet ==
  ASSUME NEW p \in proposals, NEW q, QuietlyContinues(p, q), ReplaceProposal(p, q)
  PROVE  QuietStep
<1>1. \A r \in proposals : QuietlyContinues(r, r)
  BY DEF QuietlyContinues, Continues
<1>. QED BY <1>1 DEF ReplaceProposal, QuietStep

\* append_state with anything but the states of a publication.
LEMMA AppendIsQuiet ==
  ASSUME TypeInv, NEW p \in proposals, NEW state \in LifecycleStates \ PublishedStates,
         ReplaceProposal(p, AppendState(p, state))
  PROVE  QuietStep
<1>. DEFINE q == AppendState(p, state)
<1>1. p \in Proposal
  BY DEF TypeInv, TypeOK
<1>2. Continues(p, q) /\ q.reviewedBy = p.reviewedBy
  BY <1>1, AppendStateKeeps DEF Continues
<1>3. q.history = p.history \/ q.history = p.history \cup {state}
  BY <1>1 DEF AppendState, Proposal
<1>4. QuietlyContinues(p, q)
  BY <1>1, <1>2, <1>3 DEF QuietlyContinues, IsTerminal
<1>5. ReplaceProposal(p, q)
  OBVIOUS
<1>. HIDE DEF q
<1>. QED BY <1>4, <1>5, ReplaceIsQuiet

\* A step that leaves the proposals alone is quiet.
LEMMA UnchangedIsQuiet ==
  ASSUME UNCHANGED proposals
  PROVE  QuietStep
BY DEF QuietStep, QuietlyContinues, Continues

\* Which states append_state is given outside a publication.
LEMMA QuietStates ==
  {"Stale", "Expired", "Approved", "RetryableConflict"} \subseteq LifecycleStates \ PublishedStates
BY DEF LifecycleStates, TerminalStates, PublishedStates

\* Every step adds a proposal of a fresh identity, or keeps the content of each;
\* only a preview adds a review, and only an installation tells of a publication.
LEMMA NextIsQuiet ==
  ASSUME TypeInv, IdentityInv, Next
  PROVE  QuietStep \/ Reviewed \/ Installed
<1>1. CASE Administer
  BY <1>1, UnchangedIsQuiet DEF Administer, RegisterPrincipal, DisablePrincipal, ProvisionGrant,
     RevokeGrant, TransitionEffectivePolicy, RevokeApproval
<1>2. CASE Review
  <2>1. ASSUME NEW id \in ProposalIds, NEW u \in Principals, NEW b \in Bodies, Propose(id, u, b)
        PROVE  QuietStep
    <3>. DEFINE candidate == CandidateOf[document][b]
                outcome == IF candidate \in ValidDocs THEN {}
                           ELSE IF candidate \in RejectedDocs THEN {"Rejected"}
                           ELSE {"ValidationFailed"}
                new == [id |-> id, originator |-> u, body |-> b, base |-> revision,
                        history |-> {"Draft", "Planned"} \cup outcome, reviewedBy |-> {}]
    <3>1. /\ new.id = id /\ new.reviewedBy = {}
          /\ new.history \cap PublishedStates = {}
      BY DEF PublishedStates
    <3>2. /\ proposals' = proposals \cup {new}
          /\ \A p \in proposals : p.id # id
      BY <2>1 DEF Propose
    <3>. HIDE DEF new
    <3>3. IsFresh(new)
      BY <3>1, <3>2 DEF IsFresh
    <3>4. \A p \in proposals : QuietlyContinues(p, p)
      BY DEF QuietlyContinues, Continues
    <3>. QED BY <3>2, <3>3, <3>4 DEF QuietStep
  <2>2. ASSUME NEW p \in proposals, NEW u \in Principals, Preview(p, u)
        PROVE  QuietStep \/ Reviewed
    <3>1. CASE p.base # revision
      BY <2>2, <3>1, QuietStates, AppendIsQuiet DEF Preview
    <3>2. CASE p.base = revision
      BY <2>2, <3>2 DEF Reviewed
    <3>. QED BY <3>1, <3>2
  <2>3. ASSUME NEW id \in ApprovalIds, NEW p \in proposals, NEW u \in Principals,
               NEW x \in Principals, NEW t \in Instants, Approve(id, p, u, x, t)
        PROVE  QuietStep
    BY <2>3, QuietStates, AppendIsQuiet DEF Approve
  <2>. QED BY <1>2, <2>1, <2>2, <2>3 DEF Review
<1>3. CASE Execute
  <2>1. ASSUME NEW p \in proposals, NEW x \in Principals, NEW chosen \in Choices,
               ExecuteStale(p, chosen, x)
        PROVE  QuietStep
    BY <2>1, QuietStates, AppendIsQuiet DEF ExecuteStale
  <2>2. ASSUME NEW p \in proposals, NEW x \in Principals, NEW a \in approvals,
               ExecuteExpired(p, a, x)
        PROVE  QuietStep
    BY <2>2, QuietStates, AppendIsQuiet DEF ExecuteExpired
  <2>. QED BY <1>3, <2>1, <2>2, UnchangedIsQuiet DEF Execute, ExecuteRefused, BeginExecute
<1>4. CASE Publish
  <2>. SUFFICES ASSUME NEW e \in executing,
                       \/ PublicationScopeMismatch(e)
                       \/ PublicationDenied(e)
                       \/ PublicationStale(e)
                       \/ PublicationNoChange(e)
                       \/ PublicationConflict(e)
                       \/ \E d \in HostInstalls[e.candidate] : PublicationInstalled(e, d)
                PROVE  QuietStep \/ Installed
    BY <1>4 DEF Publish
  <2>1. ASSUME NEW state \in LifecycleStates \ PublishedStates, Finish(e, state)
        PROVE  QuietStep
    BY <2>1, AppendIsQuiet DEF Finish, IdentityInv, HoldsItsProposal
  <2>. QED BY <2>1, QuietStates, UnchangedIsQuiet DEF PublicationScopeMismatch,
              PublicationDenied, PublicationStale, PublicationNoChange, PublicationConflict,
              Installed
<1>5. CASE Environment
  BY <1>5, UnchangedIsQuiet DEF Environment, Tick, ExternalPublish, ReplaceOccurrence, registry
<1>. QED BY <1>1, <1>2, <1>3, <1>4, <1>5 DEF Next

\* Every step adds a proposal of a fresh identity, or keeps the content of each.
LEMMA NextCarriesProposals ==
  ASSUME TypeInv, IdentityInv, Next
  PROVE  ProposalsCarried
<1>1. ASSUME NEW p \in proposals, NEW u \in Principals, p.base = revision, Preview(p, u)
      PROVE  ProposalsCarried
  <2>. DEFINE q == [p EXCEPT
                !.reviewedBy = @ \cup {u},
                !.history = @ \cup {"Previewed", "Validated", "AwaitingApproval"}]
  <2>1. Continues(p, q)
    BY DEF Continues, TypeInv, TypeOK, Proposal
  <2>2. ReplaceProposal(p, q)
    BY <1>1 DEF Preview
  <2>. HIDE DEF q
  <2>. QED BY <2>1, <2>2, ReplaceCarries
<1>2. ASSUME NEW e \in executing, NEW d \in HostInstalls[e.candidate], PublicationInstalled(e, d)
      PROVE  ProposalsCarried
  <2>. DEFINE q == [e.proposal EXCEPT !.history =
                      @ \cup {"Applied", IF Verifies(e, d) THEN "Verified" ELSE "Conflict"}]
  <2>1. e.proposal \in proposals /\ e.proposal \in Proposal
    BY DEF IdentityInv, HoldsItsProposal, TypeInv, TypeOK
  <2>2. Continues(e.proposal, q)
    BY <2>1 DEF Continues, Proposal
  <2>3. ReplaceProposal(e.proposal, q)
    BY <1>2 DEF PublicationInstalled
  <2>. HIDE DEF q
  <2>. QED BY <2>1, <2>2, <2>3, ReplaceCarries
<1>. QED BY <1>1, <1>2, NextIsQuiet, QuietStepCarries DEF Reviewed, Installed

\* A step that publishes nothing.
LEMMA UnpublishedKeepsRevisionInv ==
  ASSUME RevisionInv, ProposalsCarried, UNCHANGED published,
         UNCHANGED <<occurrence, revision>> \/ occurrence' # "own"
  PROVE  RevisionInv'
BY DEF RevisionInv, NoLostUpdate, PublishersKnown, ResultsReached, ProposalsCarried, Continues,
       IsFresh

\* A step that publishes onto the current revision, for proposals based on it.
LEMMA PublishedKeepsRevisionInv ==
  ASSUME TypeInv, IdentityInv, RevisionInv, ProposalsCarried, occurrence = "own",
         UNCHANGED occurrence, NEW q \in Publication, q.result = revision + 1,
         revision' = revision + 1, published' = published \cup {q},
         \A i \in q.by : \E p \in proposals : p.id = i /\ p.base = revision
  PROVE  RevisionInv'
<1>1. revision \in Nat /\ \A t \in published : t.result \in Nat /\ t.result <= revision
  BY DEF TypeInv, TypeOK, RevisionInv, ResultsReached, Publication
<1>2. \A t \in published : t.result # revision + 1
  BY <1>1
<1>3. NoLostUpdate'
  <2>1. ASSUME NEW t \in published', NEW p \in proposals', p.id \in t.by
        PROVE  t.result = p.base + 1
    <3>1. CASE t = q
      BY <2>1, <3>1 DEF ProposalsCarried, Continues, IsFresh, IdentityInv, ProposalIdsUnique
    <3>2. CASE t \in published
      BY <2>1, <3>2 DEF ProposalsCarried, Continues, IsFresh, RevisionInv, NoLostUpdate,
                        PublishersKnown
    <3>. QED BY <3>1, <3>2
  <2>. QED BY <1>2, <2>1 DEF RevisionInv, NoLostUpdate
<1>4. PublishersKnown'
  BY DEF RevisionInv, PublishersKnown, ProposalsCarried, Continues
<1>5. ResultsReached'
  BY <1>1 DEF ResultsReached
<1>. QED BY <1>3, <1>4, <1>5 DEF RevisionInv

\* Only an installation moves the revision, and it moves it past every base.
LEMMA NextKeepsRevisionInv ==
  TypeInv /\ IdentityInv /\ RevisionInv /\ [Next]_vars => RevisionInv'
<1>. SUFFICES ASSUME TypeInv, IdentityInv, RevisionInv, [Next]_vars PROVE RevisionInv'
  OBVIOUS
<1>1. CASE UNCHANGED vars
  BY <1>1 DEF vars, session, registry, history, RevisionInv, NoLostUpdate, PublishersKnown,
              ResultsReached
<1>2. ASSUME Next PROVE ProposalsCarried
  BY <1>2, NextCarriesProposals
<1>3. CASE Administer \/ Review \/ Execute
  <2>1. UNCHANGED <<published, occurrence, revision>>
    BY <1>3, ZenonT(30) DEF session, history, Administer, RegisterPrincipal, DisablePrincipal,
       ProvisionGrant, RevokeGrant, TransitionEffectivePolicy, RevokeApproval,
       Review, Propose, Preview, Approve,
       Execute, ExecuteRefused, ExecuteStale, ExecuteExpired, BeginExecute
  <2>. QED BY <1>2, <1>3, <2>1, UnpublishedKeepsRevisionInv DEF Next
<1>4. CASE Publish
  <2>1. PICK e \in executing :
          \/ PublicationScopeMismatch(e)
          \/ PublicationDenied(e)
          \/ PublicationStale(e)
          \/ PublicationNoChange(e)
          \/ PublicationConflict(e)
          \/ \E d \in HostInstalls[e.candidate] : PublicationInstalled(e, d)
    BY <1>4 DEF Publish
  <2>2. CASE UnpublishedRest
    BY <1>2, <1>4, <2>2, UnpublishedKeepsRevisionInv
       DEF Next, UnpublishedRest, session, history
  <2>3. ASSUME NEW d \in HostInstalls[e.candidate], PublicationInstalled(e, d)
        PROVE  RevisionInv'
    <3>. DEFINE q == [by |-> {e.proposal.id}, before |-> document, after |-> d,
                      result |-> revision + 1]
    <3>1. /\ q.result = revision + 1 /\ published' = published \cup {q}
          /\ revision' = revision + 1 /\ occurrence = "own" /\ UNCHANGED occurrence
      BY <2>3 DEF PublicationInstalled
    <3>2. q \in Publication
      <4>1. e.candidate \in Docs /\ e.proposal.id \in ProposalIds
        BY DEF TypeInv, TypeOK, Execution, Proposal
      <4>2. d \in Docs
        BY <4>1, ConstantsAssumption
      <4>3. revision + 1 \in Revisions
        BY <2>3, ConstantsAssumption DEF PublicationInstalled, TypeInv, TypeOK
      <4>. QED BY <4>1, <4>2, <4>3 DEF Publication, TypeInv, TypeOK
    <3>3. e.proposal \in proposals /\ e.proposal.base = revision /\ q.by = {e.proposal.id}
      BY <2>3 DEF PublicationInstalled, RevisionIsCurrent, IdentityInv, HoldsItsProposal,
                  ExecutionIsLive
    <3>. HIDE DEF q
    <3>. QED BY <1>2, <1>4, <3>1, <3>2, <3>3, PublishedKeepsRevisionInv DEF Next
  <2>. QED BY <2>1, <2>2, <2>3 DEF PublicationScopeMismatch, PublicationDenied,
              PublicationStale, PublicationNoChange, PublicationConflict
<1>5. CASE Environment
  <2>1. CASE Tick
    BY <1>2, <1>5, <2>1, UnpublishedKeepsRevisionInv DEF Next, Tick, session, history
  <2>2. CASE ReplaceOccurrence
    BY <1>2, <1>5, <2>2, UnpublishedKeepsRevisionInv DEF Next, ReplaceOccurrence, history
  <2>3. ASSUME NEW d \in Docs, ExternalPublish(d) PROVE RevisionInv'
    <3>. DEFINE q == [by |-> {}, before |-> document, after |-> d, result |-> revision + 1]
    <3>1. /\ q.result = revision + 1 /\ published' = published \cup {q} /\ q.by = {}
          /\ revision' = revision + 1 /\ occurrence = "own" /\ UNCHANGED occurrence
      BY <2>3 DEF ExternalPublish
    <3>2. revision + 1 \in Revisions
      BY <2>3, ConstantsAssumption DEF ExternalPublish, TypeInv, TypeOK
    <3>3. q \in Publication
      BY <3>2 DEF Publication, TypeInv, TypeOK
    <3>. HIDE DEF q
    <3>. QED BY <1>2, <1>5, <3>1, <3>3, PublishedKeepsRevisionInv DEF Next
  <2>. QED BY <1>5, <2>1, <2>2, <2>3 DEF Environment
<1>. QED BY <1>1, <1>3, <1>4, <1>5 DEF Next

\* Nothing is published in the first state.
LEMMA InitRevisionInv == Init => RevisionInv
BY DEF Init, RevisionInv, NoLostUpdate, PublishersKnown, ResultsReached

\* Every proposal that was published was published onto the revision it was
\* planned, reviewed and approved against, and no two publications share a revision.
THEOREM NoUpdateIsLost == Spec => []NoLostUpdate
<1>1. Spec => [](TypeInv /\ IdentityInv /\ RevisionInv)
  BY InitTypeInv, InitIdentityInv, InitRevisionInv, NextKeepsTypeAndIdentity,
     NextKeepsRevisionInv, PTL DEF Spec
<1>. QED BY <1>1, PTL DEF RevisionInv

-----------------------------------------------------------------------------
(* At most once                                                            *)

\* A receipt names Approvals that were issued.
ReceiptsNameIssued == \A r \in receipts : \A i \in r.approval : \E a \in Issued : a.id = i

ConsumptionInv == ConsumedIffPublished /\ ReceiptsNameIssued

\* A step that spends nothing: an Approval stays as it was, is new, or was Active
\* and becomes anything but Consumed; and no identity is forgotten.
UnspentStep ==
  /\ UNCHANGED receipts
  /\ \A a \in Issued' :
       a \in Issued \/ (a.status # "Consumed" /\ \A b \in Issued : b.id = a.id =>
                                                                    b.status # "Consumed")
  /\ \A b \in Issued : \E a \in Issued' : a.id = b.id

\* A step that spends nothing and forgets no Approval keeps the ledger of receipts.
LEMMA UnspentKeepsConsumptionInv ==
  ASSUME ConsumptionInv, UnspentStep
  PROVE  ConsumptionInv'
<1>1. ASSUME NEW a \in Issued'
      PROVE  a.status = "Consumed" <=> \E r \in receipts' : a.id \in r.approval
  <2>1. CASE a \in Issued
    BY <2>1 DEF ConsumptionInv, ConsumedIffPublished, UnspentStep
  <2>2. CASE a \notin Issued
    <3>1. a.status # "Consumed" /\ \A b \in Issued : b.id = a.id => b.status # "Consumed"
      BY <2>2 DEF UnspentStep
    <3>2. \A r \in receipts : a.id \notin r.approval
      BY <3>1 DEF ConsumptionInv, ConsumedIffPublished, ReceiptsNameIssued
    <3>. QED BY <3>1, <3>2 DEF UnspentStep
  <2>. QED BY <2>1, <2>2
<1>2. ReceiptsNameIssued'
  BY DEF ConsumptionInv, ReceiptsNameIssued, UnspentStep
<1>. QED BY <1>1, <1>2 DEF ConsumptionInv, ConsumedIffPublished, UnspentStep

\* One Approval of the registry exchanged while nothing executes.
LEMMA ExchangeIsUnspent ==
  ASSUME IdentityInv, Idle, UNCHANGED <<executing, receipts>>,
         NEW a \in approvals, NEW b, b.id = a.id, a.status = "Active", b.status # "Consumed",
         approvals' = (approvals \ {a}) \cup {b}
  PROVE  UnspentStep
<1>1. Issued = approvals /\ Issued' = approvals'
  BY DEF Idle, Issued, Reserved
<1>2. \A c \in Issued : c.id = b.id => c = a
  BY <1>1 DEF IdentityInv, ApprovalIdsUnique
<1>. QED BY <1>1, <1>2 DEF UnspentStep

\* A step that leaves the Approvals alone spends none.
LEMMA UnchangedIsUnspent ==
  ASSUME UNCHANGED <<approvals, executing, receipts>>
  PROVE  UnspentStep
BY DEF UnspentStep, Issued, Reserved

\* A failed publication: what was reserved comes back, Active or Expired.
LEMMA ReturnIsUnspent ==
  ASSUME IdentityInv, NEW e \in executing, UNCHANGED receipts, executing' = {},
         NEW back, approvals' = approvals \cup back,
         \A b \in back : b.status # "Consumed" /\ \E a \in e.reserved : a.id = b.id,
         \A a \in e.reserved : \E b \in back : a.id = b.id
  PROVE  UnspentStep
<1>1. Issued = approvals \cup e.reserved /\ Issued' = approvals \cup back
  BY DEF IdentityInv, OneExecution, Issued, Reserved
<1>2. \A a \in e.reserved : a.status = "Active"
  BY DEF IdentityInv, ExecutionIsLive
<1>3. \A a, b \in Issued : a.id = b.id => a = b
  BY DEF IdentityInv, ApprovalIdsUnique
<1>. QED BY <1>1, <1>2, <1>3 DEF UnspentStep

\* A publication spends what it reserved, and only that.
LEMMA InstallKeepsConsumptionInv ==
  ASSUME IdentityInv, TypeInv, ConsumptionInv, NEW e \in executing, executing' = {},
         NEW r, r.approval = {a.id : a \in e.reserved}, receipts' = receipts \cup {r},
         approvals' = approvals \cup {Spend(a) : a \in e.reserved}
  PROVE  ConsumptionInv'
<1>1. /\ Issued = approvals \cup e.reserved
      /\ Issued' = approvals \cup {Spend(a) : a \in e.reserved}
  BY DEF IdentityInv, OneExecution, Issued, Reserved
<1>2. \A a \in e.reserved : /\ a.status = "Active"
                            /\ Spend(a).id = a.id /\ Spend(a).status = "Consumed"
  BY DEF IdentityInv, ExecutionIsLive, TypeInv, TypeOK, Execution, Approval, Spend
<1>3. \A a \in approvals, b \in e.reserved : a.id # b.id
  BY <1>1 DEF IdentityInv, ApprovalIdsUnique, Reserved
<1>4. \A t \in receipts, a \in e.reserved : a.id \notin t.approval
  BY <1>1, <1>2 DEF ConsumptionInv, ConsumedIffPublished
<1>5. ASSUME NEW a \in Issued'
      PROVE  a.status = "Consumed" <=> \E t \in receipts' : a.id \in t.approval
  <2>1. CASE a \in approvals
    BY <1>1, <1>3, <2>1 DEF ConsumptionInv, ConsumedIffPublished
  <2>2. CASE a \in {Spend(b) : b \in e.reserved}
    BY <1>2, <2>2
  <2>. QED BY <1>1, <1>5, <2>1, <2>2
<1>6. \A s, t \in receipts' : s.approval \cap t.approval # {} => s = t
  BY <1>4 DEF ConsumptionInv, ConsumedIffPublished
<1>7. ReceiptsNameIssued'
  BY <1>1, <1>2 DEF ConsumptionInv, ReceiptsNameIssued
<1>. QED BY <1>5, <1>6, <1>7 DEF ConsumptionInv, ConsumedIffPublished

\* Revocation and administration never spend an Approval.
LEMMA AdministerIsUnspent ==
  ASSUME TypeInv, IdentityInv, Administer
  PROVE  UnspentStep
<1>1. ASSUME NEW a \in approvals, RevokeApproval(a) PROVE UnspentStep
  <2>. DEFINE b == [a EXCEPT !.status = "Revoked"]
  <2>1. /\ b.id = a.id /\ b.status = "Revoked" /\ a.status = "Active"
        /\ approvals' = (approvals \ {a}) \cup {b}
        /\ Idle /\ UNCHANGED <<executing, receipts>>
    BY <1>1 DEF RevokeApproval, TypeInv, TypeOK, Approval
  <2>. HIDE DEF b
  <2>. QED BY <2>1, ExchangeIsUnspent
<1>. QED BY <1>1, UnchangedIsUnspent DEF Administer, RegisterPrincipal, DisablePrincipal,
            ProvisionGrant, RevokeGrant, TransitionEffectivePolicy

\* Issuing an Approval leaves it unspent.
LEMMA ReviewIsUnspent ==
  ASSUME TypeInv, IdentityInv, Review
  PROVE  UnspentStep
<1>1. ASSUME NEW id \in ApprovalIds, NEW p \in proposals, NEW u \in Principals,
             NEW x \in Principals, NEW t \in Instants, Approve(id, p, u, x, t)
      PROVE  UnspentStep
  <2>1. CASE p.base # revision
    BY <1>1, <2>1, UnchangedIsUnspent DEF Approve
  <2>2. CASE p.base = revision
    <3>. DEFINE a == [id |-> id, binding |-> BindingOf(p, x), approver |-> u,
                      expires |-> t, selection |-> policy.selection,
                      grants |-> GrantsUsed(u, "Approve", Writes[p.body]),
                      status |-> "Active"]
    <3>1. /\ a.id = id /\ a.status = "Active" /\ approvals' = approvals \cup {a}
          /\ UNCHANGED <<executing, receipts>> /\ Idle /\ \A b \in approvals : b.id # id
      BY <1>1, <2>2 DEF Approve
    <3>. HIDE DEF a
    <3>. QED BY <3>1 DEF UnspentStep, Issued, Reserved, Idle
  <2>. QED BY <2>1, <2>2
<1>. QED BY <1>1, UnchangedIsUnspent DEF Review, Propose, Preview

\* Reserving an Approval, and refusing to, leaves it unspent.
LEMMA ExecuteIsUnspent ==
  ASSUME TypeInv, IdentityInv, Execute
  PROVE  UnspentStep
<1>1. ASSUME NEW p \in proposals, NEW x \in Principals, NEW a \in approvals,
             ExecuteExpired(p, a, x)
      PROVE  UnspentStep
  <2>1. /\ ExpireApproval(a).id = a.id /\ ExpireApproval(a).status = "Expired"
        /\ a.status = "Active"
    BY <1>1 DEF ExecuteExpired, HasExpired, ExpireApproval, TypeInv, TypeOK, Approval
  <2>. QED BY <1>1, <2>1, ExchangeIsUnspent DEF ExecuteExpired
<1>2. ASSUME NEW p \in proposals, NEW x \in Principals, NEW chosen \in Choices,
             BeginExecute(p, chosen, x)
      PROVE  UnspentStep
  <2>. DEFINE e == [proposal |-> p, executor |-> x, reserved |-> chosen,
                    base |-> revision, candidate |-> Evaluate(p)]
  <2>1. /\ executing' = {e} /\ approvals' = approvals \ chosen /\ Idle
        /\ UNCHANGED receipts /\ e.reserved = chosen /\ chosen \subseteq approvals
    BY <1>2 DEF BeginExecute, RegistryWithoutReserved, Choices
  <2>. HIDE DEF e
  <2>2. Issued' = Issued
    BY <2>1 DEF Issued, Reserved, Idle
  <2>. QED BY <2>1, <2>2 DEF UnspentStep
<1>. QED BY <1>1, <1>2, UnchangedIsUnspent DEF Execute, ExecuteRefused, ExecuteStale

\* Every outcome of a publication agrees with the receipts it leaves.
LEMMA PublishKeepsConsumption ==
  ASSUME TypeInv, IdentityInv, ConsumptionInv, Publish
  PROVE  ConsumptionInv'
<1>1. PICK e \in executing :
        \/ PublicationScopeMismatch(e)
        \/ PublicationDenied(e)
        \/ PublicationStale(e)
        \/ PublicationNoChange(e)
        \/ PublicationConflict(e)
        \/ \E d \in HostInstalls[e.candidate] : PublicationInstalled(e, d)
  BY DEF Publish
<1>2. \A a \in e.reserved : a \in Approval /\ a.status = "Active"
  BY DEF IdentityInv, ExecutionIsLive, TypeInv, TypeOK, Execution
<1>3. CASE GiveBack(e.reserved) /\ UnpublishedRest
  BY <1>2, <1>3, ReturnIsUnspent, UnspentKeepsConsumptionInv DEF GiveBack, UnpublishedRest
<1>4. CASE PublicationDenied(e)
  <2>. DEFINE expired == {a \in e.reserved : HasExpired(a)}
              back == (e.reserved \ expired) \cup {ExpireApproval(a) : a \in expired}
  <2>1. \A a \in e.reserved : ExpireApproval(a).id = a.id /\ ExpireApproval(a).status = "Expired"
    BY <1>2 DEF ExpireApproval, Approval
  <2>2. approvals' = approvals \cup back /\ executing' = {} /\ UNCHANGED receipts
    BY <1>4 DEF PublicationDenied, GiveBack, UnpublishedRest
  <2>3. \A b \in back : b.status # "Consumed" /\ \E a \in e.reserved : a.id = b.id
    BY <1>2, <2>1
  <2>4. \A a \in e.reserved : \E b \in back : a.id = b.id
    BY <2>1
  <2>. HIDE DEF back
  <2>. QED BY <2>2, <2>3, <2>4, ReturnIsUnspent, UnspentKeepsConsumptionInv
<1>5. ASSUME NEW d \in HostInstalls[e.candidate], PublicationInstalled(e, d)
      PROVE  ConsumptionInv'
  <2>1. PICK r : r.approval = {a.id : a \in e.reserved} /\ receipts' = receipts \cup {r}
    <3>. DEFINE r ==
      [proposal |-> e.proposal.id, executor |-> e.executor,
       approval |-> {a.id : a \in e.reserved},
       approveGrants |-> UNION {GrantsUsed(a.approver, "Approve", Writes[e.proposal.body])
                                  : a \in e.reserved},
       executeGrants |-> GrantsUsed(e.executor, "Execute", Writes[e.proposal.body]),
       base |-> e.base, result |-> revision + 1, verified |-> Verifies(e, d)]
    <3>1. r.approval = {a.id : a \in e.reserved} /\ receipts' = receipts \cup {r}
      BY <1>5 DEF PublicationInstalled
    <3>. HIDE DEF r
    <3>. QED BY <3>1
  <2>. QED BY <1>5, <2>1, InstallKeepsConsumptionInv DEF PublicationInstalled
<1>. QED BY <1>1, <1>3, <1>4, <1>5 DEF PublicationScopeMismatch, PublicationStale,
            PublicationNoChange, PublicationConflict

\* Every step keeps the receipts and the spent Approvals in agreement.
LEMMA NextKeepsConsumption ==
  TypeInv /\ IdentityInv /\ ConsumptionInv /\ [Next]_vars => ConsumptionInv'
<1>. SUFFICES ASSUME TypeInv, IdentityInv, ConsumptionInv, [Next]_vars PROVE ConsumptionInv'
  OBVIOUS
<1>. USE UnspentKeepsConsumptionInv
<1>1. CASE UNCHANGED vars
  BY <1>1, UnchangedIsUnspent DEF vars, registry
<1>2. CASE Environment
  BY <1>2, UnchangedIsUnspent DEF Environment, Tick, ExternalPublish, ReplaceOccurrence, registry
<1>. QED BY <1>1, <1>2, AdministerIsUnspent, ReviewIsUnspent, ExecuteIsUnspent,
            PublishKeepsConsumption DEF Next

\* No receipt and no Approval in the first state.
LEMMA InitConsumption == Init => ConsumptionInv
BY DEF Init, ConsumptionInv, ConsumedIffPublished, ReceiptsNameIssued, Issued, Reserved

\* An Approval authorizes at most one publication, and no failure of a publication,
\* expiry or revocation makes one that was used look unused, or the reverse.
THEOREM ApprovalsSpentOnce == Spec => []ConsumedIffPublished
<1>1. Spec => [](TypeInv /\ IdentityInv /\ ConsumptionInv)
  BY InitTypeInv, InitIdentityInv, InitConsumption, NextKeepsTypeAndIdentity,
     NextKeepsConsumption, PTL DEF Spec
<1>. QED BY <1>1, PTL DEF ConsumptionInv

-----------------------------------------------------------------------------
(* Final outcomes                                                          *)

ProposalsStayFinal == \A p \in proposals : IsTerminal(p) => p \in proposals'

ApprovalsStayFinal == \A a \in Issued : a.status # "Active" => a \in Issued'

\* A nonterminal proposal may be exchanged for anything.
LEMMA ReplaceKeepsFinal ==
  ASSUME NEW p, IsNonterminal(p), NEW q, ReplaceProposal(p, q)
  PROVE  ProposalsStayFinal
BY DEF ReplaceProposal, IsNonterminal, ProposalsStayFinal

\* While nothing executes, an Active Approval may be exchanged for anything.
LEMMA ExchangeKeepsFinal ==
  ASSUME Idle, UNCHANGED executing, NEW a, a.status = "Active", NEW b,
         approvals' = (approvals \ {a}) \cup {b}
  PROVE  ApprovalsStayFinal
BY DEF Idle, ApprovalsStayFinal, Issued, Reserved

\* A step that leaves the Approvals alone changes no final one.
LEMMA UnchangedApprovalsStayFinal ==
  ASSUME UNCHANGED <<approvals, executing>>
  PROVE  ApprovalsStayFinal
BY DEF ApprovalsStayFinal, Issued, Reserved

\* Administration touches no proposal, and of the Approvals an Active one.
LEMMA AdministerKeepsFinal == Administer => ProposalsStayFinal /\ ApprovalsStayFinal
<1>. SUFFICES ASSUME Administer PROVE ProposalsStayFinal /\ ApprovalsStayFinal
  OBVIOUS
<1>1. Idle /\ UNCHANGED <<executing, proposals>>
  BY DEF Administer, RegisterPrincipal, DisablePrincipal, ProvisionGrant, RevokeGrant,
         TransitionEffectivePolicy, RevokeApproval
<1>2. ASSUME NEW a \in approvals, RevokeApproval(a) PROVE ApprovalsStayFinal
  <2>. DEFINE b == [a EXCEPT !.status = "Revoked"]
  <2>1. approvals' = (approvals \ {a}) \cup {b} /\ a.status = "Active"
    BY <1>2 DEF RevokeApproval
  <2>2. Idle /\ UNCHANGED executing
    BY <1>1
  <2>. HIDE DEF b
  <2>. QED BY <2>1, <2>2, ExchangeKeepsFinal
<1>3. UNCHANGED approvals \/ \E a \in approvals : RevokeApproval(a)
  BY DEF Administer, RegisterPrincipal, DisablePrincipal, ProvisionGrant, RevokeGrant,
         TransitionEffectivePolicy
<1>4. ApprovalsStayFinal
  BY <1>1, <1>2, <1>3, UnchangedApprovalsStayFinal
<1>. QED BY <1>1, <1>4 DEF ProposalsStayFinal

\* A review adds a record or changes a nonterminal proposal.
LEMMA ReviewKeepsFinal == Review => ProposalsStayFinal /\ ApprovalsStayFinal
<1>. SUFFICES ASSUME Review PROVE ProposalsStayFinal /\ ApprovalsStayFinal
  OBVIOUS
<1>1. ASSUME NEW id \in ProposalIds, NEW u \in Principals, NEW b \in Bodies, Propose(id, u, b)
      PROVE  ProposalsStayFinal /\ ApprovalsStayFinal
  <2>1. proposals \subseteq proposals' /\ UNCHANGED <<approvals, executing>>
    BY <1>1 DEF Propose
  <2>. QED BY <2>1, UnchangedApprovalsStayFinal DEF ProposalsStayFinal
<1>2. ASSUME NEW p \in proposals, NEW u \in Principals, Preview(p, u)
      PROVE  ProposalsStayFinal /\ ApprovalsStayFinal
  <2>1. IsNonterminal(p) /\ (\E q : ReplaceProposal(p, q)) /\ UNCHANGED <<approvals, executing>>
    BY <1>2 DEF Preview
  <2>. QED BY <2>1, ReplaceKeepsFinal, UnchangedApprovalsStayFinal
<1>3. ASSUME NEW id \in ApprovalIds, NEW p \in proposals, NEW u \in Principals,
             NEW x \in Principals, NEW t \in Instants, Approve(id, p, u, x, t)
      PROVE  ProposalsStayFinal /\ ApprovalsStayFinal
  <2>1. /\ IsNonterminal(p) /\ (\E q : ReplaceProposal(p, q))
        /\ approvals \subseteq approvals' /\ UNCHANGED executing
    BY <1>3 DEF Approve
  <2>. QED BY <2>1, ReplaceKeepsFinal DEF ApprovalsStayFinal, Issued, Reserved
<1>. QED BY <1>1, <1>2, <1>3 DEF Review

\* An execution starts with nonterminal proposals and reserves what it takes out.
LEMMA ExecuteKeepsFinal == Execute => ProposalsStayFinal /\ ApprovalsStayFinal
<1>. SUFFICES ASSUME Execute PROVE ProposalsStayFinal /\ ApprovalsStayFinal
  OBVIOUS
<1>1. CASE ExecuteRefused
  BY <1>1, UnchangedApprovalsStayFinal DEF ExecuteRefused, ProposalsStayFinal
<1>2. ASSUME NEW p \in proposals, NEW x \in Principals, NEW chosen \in Choices,
             ExecuteStale(p, chosen, x)
      PROVE  ProposalsStayFinal /\ ApprovalsStayFinal
  <2>1. /\ IsNonterminal(p) /\ ReplaceProposal(p, AppendState(p, "Stale"))
        /\ UNCHANGED <<approvals, executing>>
    BY <1>2 DEF ExecuteStale
  <2>. QED BY <2>1, ReplaceKeepsFinal, UnchangedApprovalsStayFinal
<1>3. ASSUME NEW p \in proposals, NEW x \in Principals, NEW a \in approvals,
             ExecuteExpired(p, a, x)
      PROVE  ProposalsStayFinal /\ ApprovalsStayFinal
  <2>1. IsNonterminal(p) /\ ReplaceProposal(p, AppendState(p, "Expired"))
    BY <1>3 DEF ExecuteExpired
  <2>2. /\ Idle /\ UNCHANGED executing /\ a.status = "Active"
        /\ approvals' = (approvals \ {a}) \cup {ExpireApproval(a)}
    BY <1>3 DEF ExecuteExpired, HasExpired
  <2>3. ProposalsStayFinal
    BY <2>1, ReplaceKeepsFinal
  <2>4. ApprovalsStayFinal
    BY <2>2, ExchangeKeepsFinal
  <2>. QED BY <2>3, <2>4
<1>4. ASSUME NEW p \in proposals, NEW x \in Principals, NEW chosen \in Choices,
             BeginExecute(p, chosen, x)
      PROVE  ProposalsStayFinal /\ ApprovalsStayFinal
  <2>. DEFINE e == [proposal |-> p, executor |-> x, reserved |-> chosen,
                    base |-> revision, candidate |-> Evaluate(p)]
  <2>1. /\ executing = {} /\ executing' = {e} /\ approvals' = approvals \ chosen
        /\ UNCHANGED proposals
    BY <1>4 DEF BeginExecute, RegistryWithoutReserved, Idle
  <2>2. e.reserved = chosen
    OBVIOUS
  <2>. HIDE DEF e
  <2>. QED BY <2>1, <2>2 DEF ProposalsStayFinal, ApprovalsStayFinal, Issued, Reserved
<1>. QED BY <1>1, <1>2, <1>3, <1>4 DEF Execute

\* A publication ends an execution: its proposal was nonterminal and what it
\* reserved Active, so nothing that is final changes.
LEMMA PublishKeepsFinal == IdentityInv /\ Publish => ProposalsStayFinal /\ ApprovalsStayFinal
<1>. SUFFICES ASSUME IdentityInv, NEW e \in executing,
                     \/ PublicationScopeMismatch(e)
                     \/ PublicationDenied(e)
                     \/ PublicationStale(e)
                     \/ PublicationNoChange(e)
                     \/ PublicationConflict(e)
                     \/ \E d \in HostInstalls[e.candidate] : PublicationInstalled(e, d)
              PROVE  ProposalsStayFinal /\ ApprovalsStayFinal
  BY DEF Publish
<1>1. IsNonterminal(e.proposal) /\ Reserved = e.reserved /\ \A a \in Reserved : a.status = "Active"
  BY DEF IdentityInv, OneExecution, ExecutionIsLive, Reserved
<1>2. UNCHANGED proposals \/ \E q : ReplaceProposal(e.proposal, q)
  BY DEF PublicationScopeMismatch, PublicationDenied, PublicationStale, PublicationNoChange,
         PublicationConflict, PublicationInstalled, Finish
<1>3. approvals \subseteq approvals'
  BY DEF PublicationScopeMismatch, PublicationDenied, PublicationStale, PublicationNoChange,
         PublicationConflict, PublicationInstalled, GiveBack
<1>4. ProposalsStayFinal
  BY <1>1, <1>2, ReplaceKeepsFinal DEF ProposalsStayFinal
<1>. QED BY <1>1, <1>3, <1>4 DEF ApprovalsStayFinal, Issued

\* What has ended is not changed again: a terminal proposal by no later call,
\* execution or publication, and an Approval that was spent, revoked or found
\* expired neither while it is reserved nor when it comes back (the append_state
\* and restore paths of patch_lifecycle.rs).
THEOREM OutcomesStayFinal == Spec => OutcomesAreFinal
<1>1. TypeInv /\ IdentityInv /\ [Next]_vars
        => [/\ \A p \in proposals : IsTerminal(p) => p \in proposals'
            /\ \A a \in Issued : a.status # "Active" => a \in Issued']_vars
  <2>. SUFFICES ASSUME IdentityInv, Next PROVE ProposalsStayFinal /\ ApprovalsStayFinal
    BY DEF ProposalsStayFinal, ApprovalsStayFinal
  <2>1. CASE Environment
    <3>1. UNCHANGED <<proposals, approvals, executing>>
      BY <2>1 DEF Environment, Tick, ExternalPublish, ReplaceOccurrence, registry
    <3>. QED BY <3>1, UnchangedApprovalsStayFinal DEF ProposalsStayFinal
  <2>. QED BY <2>1, AdministerKeepsFinal, ReviewKeepsFinal, ExecuteKeepsFinal,
              PublishKeepsFinal DEF Next
<1>. QED BY <1>1, TypeCorrect, PTL DEF Spec, OutcomesAreFinal

-----------------------------------------------------------------------------
(* Reviews: what was shown, and to whom, of what is approved               *)

\* The retained evaluation is the plan of its proposal on its document.
MemoFaithful ==
  \A m \in memo : \E p \in proposals :
    p.id = m.proposal /\ m.candidate = CandidateOf[m.base][p.body]

\* While the base of a proposal is still the current revision, what a preview of it
\* showed is what its plan makes of the current document.
ShownFaithful ==
  \A w \in shown : \E p \in proposals :
    /\ p.id = w.proposal
    /\ occurrence = "own" /\ p.base = revision => w.candidate = CandidateOf[document][p.body]

\* A recorded review was a preview.
ReviewsShown ==
  \A p \in proposals : \A u \in p.reviewedBy :
    \E w \in shown : w.proposal = p.id /\ w.viewer = u

\* Whoever issued an Approval is a recorded reviewer of its proposal.
ApprovalsReviewed ==
  \A a \in Issued : \E p \in proposals :
    p.id = a.binding.proposal /\ a.approver \in p.reviewedBy

\* An execution holds at most one Approval, and, as long as nothing else is
\* published, the plan of its proposal on the current document.
ExecutionIsPlanned ==
  \A e \in executing :
    /\ \A a, b \in e.reserved : a = b
    /\ occurrence = "own" /\ e.base = revision =>
         e.candidate = CandidateOf[document][e.proposal.body]

ReviewInv ==
  /\ MemoFaithful
  /\ ShownFaithful
  /\ ReviewsShown
  /\ ApprovalsReviewed
  /\ ExecutionIsPlanned

\* evaluate_retained: with or without the memo, an evaluation is the plan of its
\* proposal.
LEMMA EvaluateIsPlan ==
  ASSUME IdentityInv, ReviewInv, NEW p \in proposals
  PROVE  Evaluate(p) = CandidateOf[document][p.body]
<1>1. \A m \in MemoFor(p) : m.candidate = CandidateOf[document][p.body]
  BY DEF MemoFor, ReviewInv, MemoFaithful, IdentityInv, ProposalIdsUnique
<1>. QED BY <1>1 DEF Evaluate

\* A step that retains no new evaluation.
LEMMA OldMemoStaysFaithful ==
  ASSUME ReviewInv, ProposalsCarried, memo' \subseteq memo
  PROVE  MemoFaithful'
BY DEF ReviewInv, MemoFaithful, ProposalsCarried, Continues

\* Only propose retains an evaluation: that of the proposal it issues.
LEMMA NextKeepsMemo ==
  ASSUME TypeInv, IdentityInv, ReviewInv, Next
  PROVE  MemoFaithful'
<1>1. ProposalsCarried
  BY NextCarriesProposals
<1>2. ASSUME NEW id \in ProposalIds, NEW u \in Principals, NEW b \in Bodies, Propose(id, u, b)
      PROVE  MemoFaithful'
  <2>. DEFINE candidate == CandidateOf[document][b]
              outcome == IF candidate \in ValidDocs THEN {}
                         ELSE IF candidate \in RejectedDocs THEN {"Rejected"}
                         ELSE {"ValidationFailed"}
              new == [id |-> id, originator |-> u, body |-> b, base |-> revision,
                      history |-> {"Draft", "Planned"} \cup outcome, reviewedBy |-> {}]
              retained == [base |-> document, proposal |-> id, candidate |-> candidate]
  <2>1. new \in proposals' /\ memo' \subseteq {retained}
    BY <1>2 DEF Propose
  <2>2. new.id = id /\ new.body = b
    OBVIOUS
  <2>3. \A m \in memo' :
          m.proposal = new.id /\ m.candidate = CandidateOf[m.base][new.body]
    BY <2>1
  <2>. HIDE DEF new
  <2>. QED BY <2>1, <2>3 DEF MemoFaithful
<1>3. (\E id \in ProposalIds, u \in Principals, b \in Bodies : Propose(id, u, b))
        \/ memo' \subseteq memo
  <2>1. CASE Publish
    BY <2>1 DEF Publish, PublicationScopeMismatch, PublicationDenied, PublicationStale,
       PublicationNoChange, PublicationConflict, PublicationInstalled, UnpublishedRest
  <2>2. CASE Environment
    BY <2>2 DEF Environment, Tick, ExternalPublish, ReplaceOccurrence, registry
  <2>3. CASE Administer
    BY <2>3 DEF Administer, RegisterPrincipal, DisablePrincipal, ProvisionGrant, RevokeGrant,
       TransitionEffectivePolicy, RevokeApproval
  <2>4. CASE Review
    BY <2>4 DEF Review, Preview, Approve
  <2>5. CASE Execute
    BY <2>5 DEF Execute, ExecuteRefused, ExecuteStale, ExecuteExpired, BeginExecute
  <2>. QED BY <2>1, <2>2, <2>3, <2>4, <2>5 DEF Next
<1>. QED BY <1>1, <1>2, <1>3, OldMemoStaysFaithful

\* What a step may do to the session: nothing, end the occurrence, or move it to the
\* next revision.
SessionMoves ==
  \/ UNCHANGED session
  \/ occurrence' # "own"
  \/ /\ occurrence = "own" /\ UNCHANGED occurrence
     /\ revision' = revision + 1

\* A registry operation leaves the session alone; a publication or another writer moves it
\* by one revision, and only the host ends the occurrence.
LEMMA NextMovesSession ==
  ASSUME Next
  PROVE  SessionMoves
<1>1. CASE Publish
  <2>1. PICK e \in executing :
          \/ PublicationScopeMismatch(e)
          \/ PublicationDenied(e)
          \/ PublicationStale(e)
          \/ PublicationNoChange(e)
          \/ PublicationConflict(e)
          \/ \E d \in HostInstalls[e.candidate] : PublicationInstalled(e, d)
    BY <1>1 DEF Publish
  <2>. QED BY <2>1 DEF PublicationScopeMismatch, PublicationDenied, PublicationStale,
           PublicationNoChange, PublicationConflict, PublicationInstalled, UnpublishedRest,
           SessionMoves
<1>2. CASE Environment
  BY <1>2 DEF Environment, Tick, ExternalPublish, ReplaceOccurrence, SessionMoves
<1>3. CASE Administer
  BY <1>3 DEF Administer, RegisterPrincipal, DisablePrincipal, ProvisionGrant, RevokeGrant,
     TransitionEffectivePolicy, RevokeApproval, SessionMoves
<1>4. CASE Review
  BY <1>4 DEF Review, Propose, Preview, Approve, SessionMoves
<1>5. CASE Execute
  BY <1>5 DEF Execute, ExecuteRefused, ExecuteStale, ExecuteExpired, BeginExecute, SessionMoves
<1>. QED BY <1>1, <1>2, <1>3, <1>4, <1>5 DEF Next

\* A preview, in the branch that shows something.
Showed(p, u) ==
  /\ p.base = revision
  /\ shown' = shown \cup {[proposal |-> p.id, viewer |-> u, candidate |-> Evaluate(p)]}

\* Nothing but such a preview shows anything.
LEMMA NextShows ==
  ASSUME Next
  PROVE  UNCHANGED shown \/ \E p \in proposals, u \in Principals : Preview(p, u) /\ Showed(p, u)
<1>1. CASE Publish
  BY <1>1 DEF Publish, PublicationScopeMismatch, PublicationDenied, PublicationStale,
     PublicationNoChange, PublicationConflict, PublicationInstalled, UnpublishedRest, history
<1>2. CASE Environment
  BY <1>2 DEF Environment, Tick, ExternalPublish, ReplaceOccurrence, history
<1>3. CASE Administer
  BY <1>3 DEF Administer, RegisterPrincipal, DisablePrincipal, ProvisionGrant, RevokeGrant,
     TransitionEffectivePolicy, RevokeApproval, history
<1>4. CASE Review
  BY <1>4, ZenonT(30) DEF Review, Propose, Preview, Approve, Showed, history
<1>5. CASE Execute
  BY <1>5 DEF Execute, ExecuteRefused, ExecuteStale, ExecuteExpired, BeginExecute, history
<1>. QED BY <1>1, <1>2, <1>3, <1>4, <1>5 DEF Next

\* What was shown before stays what its plan makes of its base.
LEMMA OldShownStaysFaithful ==
  ASSUME TypeInv, ReviewInv, ProposalsCarried, SessionMoves, NEW w \in shown
  PROVE  \E p \in proposals' :
           /\ p.id = w.proposal
           /\ occurrence' = "own" /\ p.base = revision' =>
                w.candidate = CandidateOf[document'][p.body]
<1>1. PICK p \in proposals :
        /\ p.id = w.proposal
        /\ occurrence = "own" /\ p.base = revision => w.candidate = CandidateOf[document][p.body]
  BY DEF ReviewInv, ShownFaithful
<1>2. PICK q \in proposals' : Continues(p, q)
  BY DEF ProposalsCarried
<1>3. occurrence' = "own" /\ q.base = revision' => UNCHANGED session
  <2>1. occurrence = "own" => p.base <= revision
    BY DEF TypeInv, PlannedAtBase
  <2>2. p.base \in Nat /\ revision \in Nat
    BY ConstantsAssumption DEF TypeInv, TypeOK, Proposal, Revisions
  <2>. QED BY <1>2, <2>1, <2>2 DEF SessionMoves, Continues
<1>. QED BY <1>1, <1>2, <1>3 DEF Continues, session

\* A preview shows the plan of the current document, and a publication makes every base old.
LEMMA NextKeepsShown ==
  ASSUME TypeInv, IdentityInv, ReviewInv, Next
  PROVE  ShownFaithful'
<1>1. ProposalsCarried /\ SessionMoves
  BY NextCarriesProposals, NextMovesSession
<1>2. CASE UNCHANGED shown
  BY <1>1, <1>2, OldShownStaysFaithful DEF ShownFaithful
<1>3. ASSUME NEW p \in proposals, NEW u \in Principals, Preview(p, u), Showed(p, u)
      PROVE  ShownFaithful'
  <2>. DEFINE w == [proposal |-> p.id, viewer |-> u, candidate |-> Evaluate(p)]
  <2>1. shown' = shown \cup {w} /\ UNCHANGED session
    BY <1>3 DEF Preview, Showed
  <2>2. w.proposal = p.id /\ w.candidate = CandidateOf[document][p.body]
    BY EvaluateIsPlan
  <2>. HIDE DEF w
  <2>3. PICK q \in proposals' : Continues(p, q)
    BY <1>1 DEF ProposalsCarried
  <2>4. q.id = w.proposal /\ w.candidate = CandidateOf[document'][q.body]
    BY <2>1, <2>2, <2>3 DEF Continues, session
  <2>. QED BY <1>1, <2>1, <2>3, <2>4, OldShownStaysFaithful DEF ShownFaithful
<1>. QED BY <1>2, <1>3, NextShows

\* A recorded review stays shown, whoever else reviews.
LEMMA NextKeepsReviews ==
  ASSUME TypeInv, IdentityInv, ReviewInv, Next
  PROVE  ReviewsShown'
<1>1. shown \subseteq shown'
  BY NextShows DEF Showed
<1>2. ASSUME NEW q \in proposals', NEW v \in q.reviewedBy, NEW p \in proposals,
             q.id = p.id, v \in p.reviewedBy
      PROVE  \E w \in shown' : w.proposal = q.id /\ w.viewer = v
  BY <1>1, <1>2 DEF ReviewInv, ReviewsShown
<1>3. CASE QuietStep
  BY <1>2, <1>3 DEF QuietStep, QuietlyContinues, Continues, IsFresh, ReviewsShown
<1>4. ASSUME NEW p \in proposals, NEW u \in Principals, p.base = revision, Preview(p, u)
      PROVE  ReviewsShown'
  <2>. DEFINE q == [p EXCEPT
                !.reviewedBy = @ \cup {u},
                !.history = @ \cup {"Previewed", "Validated", "AwaitingApproval"}]
              w == [proposal |-> p.id, viewer |-> u, candidate |-> Evaluate(p)]
  <2>1. q.id = p.id /\ q.reviewedBy = p.reviewedBy \cup {u}
    BY DEF TypeInv, TypeOK, Proposal
  <2>2. w.proposal = p.id /\ w.viewer = u
    OBVIOUS
  <2>3. proposals' = (proposals \ {p}) \cup {q} /\ w \in shown'
    BY <1>4 DEF Preview, ReplaceProposal
  <2>. HIDE DEF q, w
  <2>4. ASSUME NEW r \in proposals', NEW v \in r.reviewedBy
        PROVE  \E x \in shown' : x.proposal = r.id /\ x.viewer = v
    BY <1>2, <2>1, <2>2, <2>3, <2>4
  <2>. QED BY <2>4 DEF ReviewsShown
<1>5. ASSUME NEW e \in executing, NEW d \in HostInstalls[e.candidate], PublicationInstalled(e, d)
      PROVE  ReviewsShown'
  <2>. DEFINE q == [e.proposal EXCEPT !.history =
                      @ \cup {"Applied", IF Verifies(e, d) THEN "Verified" ELSE "Conflict"}]
  <2>1. e.proposal \in proposals /\ e.proposal \in Proposal
    BY DEF IdentityInv, HoldsItsProposal, TypeInv, TypeOK
  <2>2. q.id = e.proposal.id /\ q.reviewedBy = e.proposal.reviewedBy
    BY <2>1 DEF Proposal
  <2>3. proposals' = (proposals \ {e.proposal}) \cup {q}
    BY <1>5 DEF PublicationInstalled, ReplaceProposal
  <2>. HIDE DEF q
  <2>. QED BY <1>2, <2>1, <2>2, <2>3 DEF ReviewsShown
<1>. QED BY <1>3, <1>4, <1>5, NextIsQuiet DEF Reviewed, Installed

\* An Approval keeps what it approves, and for whom, whatever becomes of it.
ApprovalsCarried ==
  \A a \in Issued' : \E b \in Issued :
    a.id = b.id /\ a.binding = b.binding /\ a.approver = b.approver

\* approve, in the branch that issues an Approval.
Issues(id, p, u, x, t) ==
  /\ Approve(id, p, u, x, t)
  /\ approvals' = approvals \cup
       {[id |-> id, binding |-> BindingOf(p, x), approver |-> u,
         expires |-> t, selection |-> policy.selection,
         grants |-> GrantsUsed(u, "Approve", Writes[p.body]),
         status |-> "Active"]}

\* Changing the status of an Approval changes nothing else of it.
LEMMA StatusOnly ==
  ASSUME NEW a \in Approval
  PROVE  /\ [a EXCEPT !.status = "Revoked"].id = a.id
         /\ [a EXCEPT !.status = "Revoked"].binding = a.binding
         /\ [a EXCEPT !.status = "Revoked"].approver = a.approver
         /\ ExpireApproval(a).id = a.id
         /\ ExpireApproval(a).binding = a.binding
         /\ ExpireApproval(a).approver = a.approver
         /\ Spend(a).id = a.id
         /\ Spend(a).binding = a.binding
         /\ Spend(a).approver = a.approver
BY DEF Approval, ExpireApproval, Spend

\* Only approve issues an Approval; every other step at most changes the status of one.
LEMMA NextCarriesApprovals ==
  ASSUME TypeInv, IdentityInv, Next
  PROVE  \/ ApprovalsCarried
         \/ \E id \in ApprovalIds, p \in proposals, u, x \in Principals, t \in Instants :
              Issues(id, p, u, x, t)
<1>1. approvals \subseteq Approval /\ \A e \in executing : e.reserved \subseteq Approval
  BY DEF TypeInv, TypeOK, Execution
<1>2. ASSUME UNCHANGED <<approvals, executing>> PROVE ApprovalsCarried
  BY <1>2 DEF ApprovalsCarried, Issued, Reserved
<1>3. ASSUME NEW a \in approvals, NEW b,
             b.id = a.id, b.binding = a.binding, b.approver = a.approver,
             approvals' = (approvals \ {a}) \cup {b}, Idle, UNCHANGED executing
      PROVE  ApprovalsCarried
  <2>1. Issued' = approvals' /\ approvals \subseteq Issued
    BY <1>3 DEF Idle, Issued, Reserved
  <2>. QED BY <1>3, <2>1 DEF ApprovalsCarried
<1>4. CASE Administer
  <2>1. ASSUME NEW a \in approvals, RevokeApproval(a) PROVE ApprovalsCarried
    <3>. DEFINE b == [a EXCEPT !.status = "Revoked"]
    <3>1. b.id = a.id /\ b.binding = a.binding /\ b.approver = a.approver
      BY <1>1, StatusOnly
    <3>2. approvals' = (approvals \ {a}) \cup {b} /\ Idle /\ UNCHANGED executing
      BY <2>1 DEF RevokeApproval
    <3>. HIDE DEF b
    <3>. QED BY <1>3, <3>1, <3>2
  <2>. QED BY <1>2, <1>4, <2>1 DEF Administer, RegisterPrincipal, DisablePrincipal, ProvisionGrant,
           RevokeGrant, TransitionEffectivePolicy
<1>5. CASE Review
  <2>1. ASSUME NEW id \in ApprovalIds, NEW p \in proposals, NEW u \in Principals,
               NEW x \in Principals, NEW t \in Instants, Approve(id, p, u, x, t)
        PROVE  ApprovalsCarried \/ Issues(id, p, u, x, t)
    <3>1. CASE p.base # revision
      BY <1>2, <2>1, <3>1 DEF Approve
    <3>2. CASE p.base = revision
      BY <2>1, <3>2 DEF Approve, Issues
    <3>. QED BY <3>1, <3>2
  <2>2. \/ UNCHANGED <<approvals, executing>>
        \/ \E id \in ApprovalIds, p \in proposals, u, x \in Principals, t \in Instants :
             Approve(id, p, u, x, t)
    BY <1>5 DEF Review, Propose, Preview
  <2>. QED BY <1>2, <2>1, <2>2
<1>6. CASE Execute
  <2>1. ASSUME NEW p \in proposals, NEW x \in Principals, NEW a \in approvals,
               ExecuteExpired(p, a, x)
        PROVE  ApprovalsCarried
    BY <1>1, <1>3, <2>1, StatusOnly DEF ExecuteExpired
  <2>2. ASSUME NEW p \in proposals, NEW x \in Principals, NEW chosen \in Choices,
               BeginExecute(p, chosen, x)
        PROVE  ApprovalsCarried
    <3>. DEFINE e == [proposal |-> p, executor |-> x, reserved |-> chosen,
                      base |-> revision, candidate |-> Evaluate(p)]
    <3>1. /\ executing' = {e} /\ approvals' = approvals \ chosen /\ e.reserved = chosen
          /\ chosen \subseteq approvals
      BY <2>2 DEF BeginExecute, RegistryWithoutReserved, Choices
    <3>. HIDE DEF e
    <3>. QED BY <3>1 DEF ApprovalsCarried, Issued, Reserved
  <2>. QED BY <1>2, <1>6, <2>1, <2>2 DEF Execute, ExecuteRefused, ExecuteStale
<1>7. CASE Publish
  <2>1. PICK e \in executing :
          \/ PublicationScopeMismatch(e)
          \/ PublicationDenied(e)
          \/ PublicationStale(e)
          \/ PublicationNoChange(e)
          \/ PublicationConflict(e)
          \/ \E d \in HostInstalls[e.candidate] : PublicationInstalled(e, d)
    BY <1>7 DEF Publish
  <2>2. e.reserved \subseteq Issued /\ e.reserved \subseteq Approval
    BY <1>1 DEF Issued, Reserved
  <2>3. ASSUME NEW back, approvals' = approvals \cup back, executing' = {},
               \A b \in back : \E a \in e.reserved :
                 b.id = a.id /\ b.binding = a.binding /\ b.approver = a.approver
        PROVE  ApprovalsCarried
    BY <2>2, <2>3 DEF ApprovalsCarried, Issued, Reserved
  <2>4. CASE approvals' = approvals \cup e.reserved /\ executing' = {}
    BY <2>3, <2>4
  <2>5. CASE PublicationDenied(e)
    <3>. DEFINE expired == {a \in e.reserved : HasExpired(a)}
                back == (e.reserved \ expired) \cup {ExpireApproval(a) : a \in expired}
    <3>1. approvals' = approvals \cup back /\ executing' = {}
      BY <2>5 DEF PublicationDenied, GiveBack, UnpublishedRest
    <3>2. \A b \in back : \E a \in e.reserved :
            b.id = a.id /\ b.binding = a.binding /\ b.approver = a.approver
      BY <2>2, StatusOnly
    <3>. HIDE DEF back
    <3>. QED BY <2>3, <3>1, <3>2
  <2>6. ASSUME NEW d \in HostInstalls[e.candidate], PublicationInstalled(e, d)
        PROVE  ApprovalsCarried
    <3>. DEFINE back == {Spend(a) : a \in e.reserved}
    <3>1. approvals' = approvals \cup back /\ executing' = {}
      BY <2>6 DEF PublicationInstalled
    <3>2. \A b \in back : \E a \in e.reserved :
            b.id = a.id /\ b.binding = a.binding /\ b.approver = a.approver
      BY <2>2, StatusOnly
    <3>. HIDE DEF back
    <3>. QED BY <2>3, <3>1, <3>2
  <2>. QED BY <2>1, <2>4, <2>5, <2>6 DEF PublicationScopeMismatch, PublicationStale,
           PublicationNoChange, PublicationConflict, GiveBack, UnpublishedRest
<1>8. CASE Environment
  BY <1>2, <1>8 DEF Environment, Tick, ExternalPublish, ReplaceOccurrence, registry
<1>. QED BY <1>4, <1>5, <1>6, <1>7, <1>8 DEF Next

\* Whoever approves has reviewed, and reviews are not taken back.
LEMMA NextKeepsApprovals ==
  ASSUME TypeInv, IdentityInv, ReviewInv, Next
  PROVE  ApprovalsReviewed'
<1>1. ProposalsCarried
  BY NextCarriesProposals
<1>2. ASSUME NEW b \in Issued
      PROVE  \E p \in proposals' : p.id = b.binding.proposal /\ b.approver \in p.reviewedBy
  BY <1>1 DEF ReviewInv, ApprovalsReviewed, ProposalsCarried, Continues
<1>3. CASE ApprovalsCarried
  BY <1>2, <1>3 DEF ApprovalsCarried, ApprovalsReviewed
<1>4. ASSUME NEW id \in ApprovalIds, NEW p \in proposals, NEW u \in Principals,
             NEW x \in Principals, NEW t \in Instants, Issues(id, p, u, x, t)
      PROVE  ApprovalsReviewed'
  <2>. DEFINE a == [id |-> id, binding |-> BindingOf(p, x), approver |-> u,
                    expires |-> t, selection |-> policy.selection,
                    grants |-> GrantsUsed(u, "Approve", Writes[p.body]),
                    status |-> "Active"]
  <2>1. a.binding.proposal = p.id /\ a.approver = u
    BY DEF BindingOf
  <2>2. approvals' = approvals \cup {a} /\ UNCHANGED executing
    BY <1>4 DEF Issues, Approve
  <2>. HIDE DEF a
  <2>3. u \in p.reviewedBy
    BY <1>4 DEF Issues, Approve, MayApprove
  <2>4. \E q \in proposals' : q.id = a.binding.proposal /\ a.approver \in q.reviewedBy
    BY <1>1, <2>1, <2>3 DEF ProposalsCarried, Continues
  <2>5. Issued' = Issued \cup {a}
    BY <2>2 DEF Issued, Reserved
  <2>. QED BY <1>2, <2>4, <2>5 DEF ApprovalsReviewed
<1>. QED BY <1>3, <1>4, NextCarriesApprovals

\* What an execution holds is planned on the document it will be compared with.
LEMMA NextKeepsExecution ==
  ASSUME TypeInv, IdentityInv, ReviewInv, Next
  PROVE  ExecutionIsPlanned'
<1>1. CASE executing' = {}
  BY <1>1 DEF ExecutionIsPlanned
<1>2. CASE UNCHANGED executing
  <2>. SUFFICES ASSUME NEW e \in executing, occurrence' = "own", e.base = revision'
                PROVE  e.candidate = CandidateOf[document'][e.proposal.body]
    BY <1>2 DEF ExecutionIsPlanned, ReviewInv
  <2>1. e.proposal \in proposals /\ e.base = e.proposal.base
    BY DEF IdentityInv, HoldsItsProposal, ExecutionIsLive
  <2>2. occurrence = "own" => e.base <= revision
    BY <2>1 DEF TypeInv, PlannedAtBase
  <2>3. e.base \in Nat /\ revision \in Nat
    BY <2>1, ConstantsAssumption DEF TypeInv, TypeOK, Proposal, Revisions
  <2>4. UNCHANGED session
    BY <2>2, <2>3, NextMovesSession DEF SessionMoves
  <2>. QED BY <2>4 DEF ExecutionIsPlanned, ReviewInv, session
<1>3. ASSUME NEW p \in proposals, NEW x \in Principals, NEW chosen \in Choices,
             BeginExecute(p, chosen, x)
      PROVE  ExecutionIsPlanned'
  <2>. DEFINE e == [proposal |-> p, executor |-> x, reserved |-> chosen,
                    base |-> revision, candidate |-> Evaluate(p)]
  <2>1. executing' = {e} /\ UNCHANGED session
    BY <1>3 DEF BeginExecute
  <2>2. /\ e.reserved = chosen /\ e.proposal = p
        /\ e.candidate = CandidateOf[document][p.body]
    BY EvaluateIsPlan
  <2>. HIDE DEF e
  <2>3. \A a, b \in chosen : a = b
    BY DEF Choices
  <2>. QED BY <2>1, <2>2, <2>3 DEF ExecutionIsPlanned, session
<1>4. \/ executing' = {} \/ UNCHANGED executing
      \/ \E p \in proposals, x \in Principals, chosen \in Choices : BeginExecute(p, chosen, x)
  <2>1. CASE Publish
    BY <2>1 DEF Publish, PublicationScopeMismatch, PublicationDenied, PublicationStale,
       PublicationNoChange, PublicationConflict, PublicationInstalled, UnpublishedRest
  <2>2. CASE Environment
    BY <2>2 DEF Environment, Tick, ExternalPublish, ReplaceOccurrence
  <2>3. CASE Administer
    BY <2>3 DEF Administer, RegisterPrincipal, DisablePrincipal, ProvisionGrant, RevokeGrant,
       TransitionEffectivePolicy, RevokeApproval
  <2>4. CASE Review
    BY <2>4 DEF Review, Propose, Preview, Approve
  <2>5. CASE Execute
    BY <2>5 DEF Execute, ExecuteRefused, ExecuteStale, ExecuteExpired
  <2>. QED BY <2>1, <2>2, <2>3, <2>4, <2>5 DEF Next
<1>. QED BY <1>1, <1>2, <1>3, <1>4

\* Nothing is reviewed in the first state.
LEMMA InitReviewInv == Init => ReviewInv
BY DEF Init, ReviewInv, MemoFaithful, ShownFaithful, ReviewsShown, ApprovalsReviewed,
       ExecutionIsPlanned, Issued, Reserved

\* The reviews, the memo and the execution stay faithful, whatever happens in between.
LEMMA NextKeepsReviewInv ==
  TypeInv /\ IdentityInv /\ ReviewInv /\ [Next]_vars => ReviewInv'
<1>1. CASE UNCHANGED vars
  BY <1>1 DEF vars, session, registry, history, ReviewInv, MemoFaithful, ShownFaithful,
     ReviewsShown, ApprovalsReviewed, ExecutionIsPlanned, Issued, Reserved
<1>. QED BY <1>1, NextKeepsMemo, NextKeepsShown, NextKeepsReviews, NextKeepsApprovals,
            NextKeepsExecution DEF ReviewInv

-----------------------------------------------------------------------------
(* Outcomes: what receipts, histories and publications say of each other   *)

\* Receipts are of issued proposals, a proposal's publication has a receipt, and no
\* proposal is executed again once it was applied.
OutcomesRecorded ==
  /\ \A r \in receipts : \E p \in proposals : p.id = r.proposal
  /\ \A q \in published : \A i \in q.by : \E r \in receipts : r.proposal = i
  /\ \A p \in proposals : "Applied" \in p.history => IsTerminal(p)

OutcomeInv ==
  /\ DelegatedNeedsHuman
  /\ ReviewedIsPublished
  /\ PublishedIsApplied
  /\ HistoryMatchesReceipts
  /\ OutcomesRecorded

\* A step that tells of no publication by a proposal.
UntoldStep ==
  /\ UNCHANGED receipts
  /\ published \subseteq published'
  /\ \A q \in published' : q \in published \/ q.by = {}
  /\ \A q \in proposals' :
       \/ IsFresh(q)
       \/ \E p \in proposals :
            /\ Continues(p, q)
            /\ q.history \cap PublishedStates = p.history \cap PublishedStates
            /\ IsTerminal(p) => IsTerminal(q)
  /\ \A p \in proposals : \E q \in proposals' : Continues(p, q)

\* Only an installation writes a receipt; other writers publish for no proposal.
LEMMA NextWithoutReceipt ==
  ASSUME Next
  PROVE  \/ Installed
         \/ /\ UNCHANGED receipts
            /\ published \subseteq published'
            /\ \A q \in published' : q \in published \/ q.by = {}
<1>1. CASE Publish
  BY <1>1 DEF Publish, PublicationScopeMismatch, PublicationDenied, PublicationStale,
     PublicationNoChange, PublicationConflict, UnpublishedRest, history, Installed
<1>2. CASE Environment
  BY <1>2 DEF Environment, Tick, ExternalPublish, ReplaceOccurrence, history, registry
<1>3. CASE Administer
  BY <1>3 DEF Administer, RegisterPrincipal, DisablePrincipal, ProvisionGrant, RevokeGrant,
     TransitionEffectivePolicy, RevokeApproval, history
<1>4. CASE Review
  <2>1. UNCHANGED <<receipts, published>>
    BY <1>4 DEF Review, Propose, Preview, Approve, history
  <2>. QED BY <2>1
<1>5. CASE Execute
  BY <1>5 DEF Execute, ExecuteRefused, ExecuteStale, ExecuteExpired, BeginExecute, history
<1>. QED BY <1>1, <1>2, <1>3, <1>4, <1>5 DEF Next

\* Every step but an installation leaves receipts and what histories tell of publications.
LEMMA NextIsUntold ==
  ASSUME TypeInv, IdentityInv, Next
  PROVE  UntoldStep \/ Installed
<1>1. CASE QuietStep
  BY <1>1, NextWithoutReceipt DEF QuietStep, QuietlyContinues, UntoldStep
<1>2. ASSUME NEW p \in proposals, NEW u \in Principals, p.base = revision, Preview(p, u)
      PROVE  UntoldStep
  <2>. DEFINE q == [p EXCEPT
                !.reviewedBy = @ \cup {u},
                !.history = @ \cup {"Previewed", "Validated", "AwaitingApproval"}]
  <2>1. /\ Continues(p, q)
        /\ q.history = p.history \cup {"Previewed", "Validated", "AwaitingApproval"}
    BY DEF Continues, TypeInv, TypeOK, Proposal
  <2>2. proposals' = (proposals \ {p}) \cup {q} /\ UNCHANGED <<receipts, published>>
    BY <1>2 DEF Preview, ReplaceProposal
  <2>. HIDE DEF q
  <2>3. q.history \cap PublishedStates = p.history \cap PublishedStates
    BY <2>1 DEF PublishedStates
  <2>4. IsTerminal(p) => IsTerminal(q)
    BY <2>1 DEF IsTerminal
  <2>5. \A r \in proposals : Continues(r, r)
    BY DEF Continues
  <2>. QED BY <2>1, <2>2, <2>3, <2>4, <2>5 DEF UntoldStep
<1>. QED BY <1>1, <1>2, NextIsQuiet DEF Reviewed

\* A spent Approval stays in the registry as it is.
LEMMA ConsumedStay ==
  ASSUME TypeInv, IdentityInv, IdentityInv', Next,
         NEW a \in approvals, a.status = "Consumed"
  PROVE  a \in approvals'
<1>1. ApprovalsStayFinal
  <2>1. CASE Environment
    BY <2>1, UnchangedApprovalsStayFinal DEF Environment, Tick, ExternalPublish,
       ReplaceOccurrence, registry
  <2>. QED BY <2>1, AdministerKeepsFinal, ReviewKeepsFinal, ExecuteKeepsFinal,
              PublishKeepsFinal DEF Next
<1>2. a \in Issued'
  BY <1>1 DEF ApprovalsStayFinal, Issued
<1>. QED BY <1>2 DEF Issued, Reserved, IdentityInv, ExecutionIsLive

\* The Approval a receipt names is the one, of that identity, that was spent.
LEMMA ReceiptNamesSpent ==
  ASSUME IdentityInv, ConsumptionInv, NEW r \in receipts, NEW i \in r.approval
  PROVE  \E a \in approvals : a.id = i /\ a.status = "Consumed"
<1>1. PICK a \in Issued : a.id = i
  BY DEF ConsumptionInv, ReceiptsNameIssued
<1>2. a.status = "Consumed"
  BY <1>1 DEF ConsumptionInv, ConsumedIffPublished
<1>. QED BY <1>1, <1>2 DEF Issued, Reserved, IdentityInv, ExecutionIsLive

\* A step that tells of no publication keeps what was told.
LEMMA UntoldKeepsOutcomeInv ==
  ASSUME TypeInv, IdentityInv, IdentityInv', ConsumptionInv, OutcomeInv, Next, UntoldStep
  PROVE  OutcomeInv'
<1>1. ASSUME NEW r \in receipts, NEW q \in proposals', r.proposal = q.id
      PROVE  \E p \in proposals :
               /\ Continues(p, q)
               /\ q.history \cap PublishedStates = p.history \cap PublishedStates
  BY <1>1 DEF UntoldStep, IsFresh, OutcomeInv, OutcomesRecorded
<1>2. DelegatedNeedsHuman'
  <2>. SUFFICES ASSUME NEW r \in receipts, NEW q \in proposals', r.proposal = q.id,
                       Delegated(q.originator) \/ Delegated(r.executor)
                PROVE  \E a \in approvals' :
                         /\ r.approval = {a.id}
                         /\ a.approver \in Humans
                         /\ a.binding.proposal = q.id /\ a.binding.executor = r.executor
    BY DEF DelegatedNeedsHuman, UntoldStep, Delegated
  <2>1. PICK p \in proposals : Continues(p, q)
    BY <1>1
  <2>2. PICK a \in approvals : /\ r.approval = {a.id}
                               /\ a.approver \in Humans
                               /\ a.binding.proposal = p.id /\ a.binding.executor = r.executor
    BY <2>1 DEF OutcomeInv, DelegatedNeedsHuman, Continues
  <2>3. a.status = "Consumed"
    BY <2>2, ReceiptNamesSpent DEF IdentityInv, ApprovalIdsUnique, Issued
  <2>. QED BY <2>1, <2>2, <2>3, ConsumedStay DEF Continues
<1>3. ReviewedIsPublished'
  <2>. SUFFICES ASSUME NEW r \in receipts, NEW a \in approvals', r.verified, a.id \in r.approval
                PROVE  \E w \in shown', q \in published' :
                         /\ w.proposal = r.proposal /\ w.viewer = a.approver
                         /\ q.by = {r.proposal} /\ q.result = r.result
                         /\ q.after = w.candidate
    BY DEF ReviewedIsPublished, UntoldStep
  <2>1. PICK b \in approvals : b.id = a.id /\ b.status = "Consumed"
    BY ReceiptNamesSpent
  <2>2. a = b
    BY <2>1, ConsumedStay DEF IdentityInv, ApprovalIdsUnique, Issued
  <2>3. shown \subseteq shown' /\ published \subseteq published'
    BY NextShows DEF Showed, UntoldStep
  <2>. QED BY <2>1, <2>2, <2>3 DEF OutcomeInv, ReviewedIsPublished
<1>4. PublishedIsApplied'
  <2>. SUFFICES ASSUME NEW r \in receipts, NEW p \in proposals', NEW q \in published',
                       r.verified, r.proposal = p.id, q.by = {p.id}
                PROVE  q.after = CandidateOf[q.before][p.body]
    BY DEF PublishedIsApplied, UntoldStep
  <2>1. q \in published
    BY DEF UntoldStep
  <2>. QED BY <1>1, <2>1 DEF OutcomeInv, PublishedIsApplied, Continues
<1>5. HistoryMatchesReceipts'
  <2>1. ASSUME NEW q \in proposals'
        PROVE  /\ "Applied" \in q.history <=> \E r \in receipts : r.proposal = q.id
               /\ "Verified" \in q.history <=> \E r \in receipts : r.proposal = q.id /\ r.verified
    <3>1. CASE IsFresh(q)
      BY <3>1 DEF IsFresh, PublishedStates, OutcomeInv, OutcomesRecorded
    <3>2. CASE ~IsFresh(q)
      <4>1. PICK p \in proposals :
              /\ Continues(p, q)
              /\ q.history \cap PublishedStates = p.history \cap PublishedStates
        BY <3>2 DEF UntoldStep
      <4>. QED BY <4>1 DEF Continues, PublishedStates, OutcomeInv, HistoryMatchesReceipts
    <3>. QED BY <3>1, <3>2
  <2>2. receipts' = receipts
    BY DEF UntoldStep
  <2>. QED BY <2>1, <2>2 DEF OutcomeInv, HistoryMatchesReceipts
<1>6. OutcomesRecorded'
  <2>1. \A r \in receipts' : \E q \in proposals' : q.id = r.proposal
    BY DEF UntoldStep, Continues, OutcomeInv, OutcomesRecorded
  <2>2. \A q \in published' : \A i \in q.by : \E r \in receipts' : r.proposal = i
    BY DEF UntoldStep, OutcomeInv, OutcomesRecorded
  <2>3. ASSUME NEW q \in proposals', "Applied" \in q.history PROVE IsTerminal(q)
    BY <2>3 DEF UntoldStep, IsFresh, PublishedStates, OutcomeInv, OutcomesRecorded
  <2>. QED BY <2>1, <2>2, <2>3 DEF OutcomesRecorded, IsTerminal
<1>. QED BY <1>2, <1>3, <1>4, <1>5, <1>6 DEF OutcomeInv

\* The records one installation leaves: the proposal p it tells in, the receipt r and
\* the publication q.
Leaves(e, d, p, r, q) ==
  /\ ReplaceProposal(e.proposal, p) /\ Continues(e.proposal, p)
  /\ p.history = e.proposal.history \cup
       {"Applied", IF Verifies(e, d) THEN "Verified" ELSE "Conflict"}
  /\ receipts' = receipts \cup {r}
  /\ r.proposal = e.proposal.id /\ r.executor = e.executor
  /\ r.approval = {a.id : a \in e.reserved}
  /\ r.result = revision + 1 /\ r.verified = Verifies(e, d)
  /\ published' = published \cup {q}
  /\ q.by = {e.proposal.id} /\ q.before = document /\ q.after = d /\ q.result = revision + 1

\* publish_candidate writes one receipt and one history, and the session one publication.
LEMMA InstallationLeaves ==
  ASSUME TypeInv, IdentityInv, NEW e \in executing, NEW d, PublicationInstalled(e, d)
  PROVE  \E p, r, q : Leaves(e, d, p, r, q)
<1>. DEFINE verified == Verifies(e, d)
            p == [e.proposal EXCEPT !.history =
                    @ \cup {"Applied", IF verified THEN "Verified" ELSE "Conflict"}]
            r == [proposal |-> e.proposal.id, executor |-> e.executor,
                  approval |-> {a.id : a \in e.reserved},
                  approveGrants |-> UNION {GrantsUsed(a.approver, "Approve", Writes[e.proposal.body])
                                             : a \in e.reserved},
                  executeGrants |-> GrantsUsed(e.executor, "Execute", Writes[e.proposal.body]),
                  base |-> e.base, result |-> revision + 1, verified |-> verified]
            q == [by |-> {e.proposal.id}, before |-> document, after |-> d,
                  result |-> revision + 1]
<1>1. e.proposal \in Proposal
  BY DEF TypeInv, TypeOK, Execution
<1>2. /\ Continues(e.proposal, p)
      /\ p.history = e.proposal.history \cup
           {"Applied", IF verified THEN "Verified" ELSE "Conflict"}
  BY <1>1 DEF Continues, Proposal
<1>3. /\ r.proposal = e.proposal.id /\ r.executor = e.executor
      /\ r.approval = {a.id : a \in e.reserved}
      /\ r.result = revision + 1 /\ r.verified = verified
  OBVIOUS
<1>4. q.by = {e.proposal.id} /\ q.before = document /\ q.after = d /\ q.result = revision + 1
  OBVIOUS
<1>5. /\ ReplaceProposal(e.proposal, p)
      /\ receipts' = receipts \cup {r}
      /\ published' = published \cup {q}
  BY DEF PublicationInstalled
<1>6. Leaves(e, d, p, r, q)
  <2>. HIDE DEF p, r, q
  <2>. QED BY <1>2, <1>3, <1>4, <1>5 DEF Leaves
<1>. QED BY <1>6

\* A publication tells what it did, and its Approval is of a Human who saw it.
LEMMA InstallationKeepsOutcomeInv ==
  ASSUME TypeInv, IdentityInv, IdentityInv', ReviewInv, ConsumptionInv, OutcomeInv, Next,
         NEW e \in executing, NEW d, PublicationInstalled(e, d)
  PROVE  OutcomeInv'
<1>1. PICK p, r, q : Leaves(e, d, p, r, q)
  BY InstallationLeaves
<1>2. /\ proposals' = (proposals \ {e.proposal}) \cup {p}
      /\ p.id = e.proposal.id /\ p.body = e.proposal.body /\ p.originator = e.proposal.originator
  BY <1>1 DEF Leaves, ReplaceProposal, Continues
<1>3. /\ receipts' = receipts \cup {r} /\ published' = published \cup {q}
      /\ r.proposal = e.proposal.id /\ r.executor = e.executor
      /\ r.approval = {a.id : a \in e.reserved}
      /\ r.result = revision + 1 /\ (r.verified <=> Verifies(e, d))
      /\ q.by = {e.proposal.id} /\ q.before = document /\ q.after = d /\ q.result = revision + 1
  BY <1>1 DEF Leaves
<1>4. /\ e.proposal \in proposals /\ IsNonterminal(e.proposal)
      /\ \A t \in proposals : t.id = e.proposal.id => t = e.proposal
  BY DEF IdentityInv, HoldsItsProposal, ExecutionIsLive, ProposalIdsUnique
<1>5. \A t \in receipts : t.proposal # e.proposal.id
  <2>1. "Applied" \notin e.proposal.history
    BY <1>4 DEF OutcomeInv, OutcomesRecorded, IsNonterminal
  <2>. QED BY <1>4, <2>1 DEF OutcomeInv, HistoryMatchesReceipts
<1>6. \A t \in published : e.proposal.id \notin t.by
  BY <1>5 DEF OutcomeInv, OutcomesRecorded
<1>7. /\ \A t \in proposals' : t = p \/ (t \in proposals /\ t.id # e.proposal.id)
      /\ p \in proposals'
  BY <1>2, <1>4
<1>8. /\ occurrence = "own" /\ e.base = revision /\ GuardAuthorizes(e)
      /\ approvals' = approvals \cup {Spend(a) : a \in e.reserved}
      /\ UNCHANGED shown
  BY DEF PublicationInstalled, RevisionIsCurrent
<1>9. \A a \in e.reserved :
        /\ a \in Approval /\ a \in Issued
        /\ Spend(a) \in approvals' /\ Spend(a).id = a.id
        /\ Spend(a).approver = a.approver /\ Spend(a).binding = a.binding
  <2>1. \A a \in e.reserved : a \in Approval /\ a \in Issued
    BY DEF TypeInv, TypeOK, Execution, Issued, Reserved
  <2>. QED BY <1>8, <2>1, StatusOnly
<1>10. Verifies(e, d) => d = CandidateOf[document][e.proposal.body]
  BY <1>8 DEF Verifies, ReviewInv, ExecutionIsPlanned
<1>11. DelegatedNeedsHuman'
  <2>1. ASSUME NEW t \in receipts, NEW o \in proposals', t.proposal = o.id,
               Delegated(o.originator) \/ Delegated(t.executor)
        PROVE  \E a \in approvals' :
                 /\ t.approval = {a.id} /\ a.approver \in Humans
                 /\ a.binding.proposal = o.id /\ a.binding.executor = t.executor
    <3>1. o \in proposals
      BY <1>2, <1>5, <1>7, <2>1
    <3>. QED BY <1>8, <2>1, <3>1 DEF OutcomeInv, DelegatedNeedsHuman
  <2>2. ASSUME Delegated(p.originator) \/ Delegated(e.executor)
        PROVE  \E a \in approvals' :
                 /\ r.approval = {a.id} /\ a.approver \in Humans
                 /\ a.binding.proposal = p.id /\ a.binding.executor = e.executor
    <3>1. RequiresApproval(e.proposal, e.executor)
      BY <1>2, <2>2 DEF RequiresApproval, Delegated
    <3>2. /\ e.reserved # {}
          /\ \A a \in e.reserved :
               /\ [a.binding EXCEPT !.policy = policy.version] = BindingOf(e.proposal, e.executor)
               /\ a.approver \in Humans
      BY <1>8, <3>1 DEF GuardAuthorizes, BoundaryAuthorized, SelectsContext, ApprovalActive
    <3>3. PICK a \in e.reserved : TRUE
      BY <3>2
    <3>4. e.reserved = {a}
      BY <3>3 DEF ReviewInv, ExecutionIsPlanned
    <3>5. a.binding \in Binding
      BY <1>9 DEF Approval
    <3>6. [a.binding EXCEPT !.policy = policy.version].proposal = a.binding.proposal
          /\ [a.binding EXCEPT !.policy = policy.version].executor = a.binding.executor
      BY <3>5 DEF Binding
    <3>7. a.binding.proposal = e.proposal.id /\ a.binding.executor = e.executor
      BY <3>2, <3>6 DEF BindingOf
    <3>. QED BY <1>2, <1>3, <1>9, <3>2, <3>4, <3>7
  <2>3. ASSUME NEW o \in proposals', r.proposal = o.id PROVE o = p
    BY <1>3, <1>7, <2>3
  <2>. QED BY <1>3, <2>1, <2>2, <2>3 DEF DelegatedNeedsHuman, Delegated
<1>12. ReviewedIsPublished'
  <2>1. ASSUME NEW t \in receipts, NEW a \in approvals', t.verified, a.id \in t.approval
        PROVE  \E w \in shown', o \in published' :
                 /\ w.proposal = t.proposal /\ w.viewer = a.approver
                 /\ o.by = {t.proposal} /\ o.result = t.result /\ o.after = w.candidate
    <3>1. PICK b \in approvals : b.id = a.id /\ b.status = "Consumed"
      BY <2>1, ReceiptNamesSpent
    <3>2. a = b
      BY <1>8, <3>1 DEF IdentityInv, ApprovalIdsUnique, Issued
    <3>. QED BY <1>3, <1>8, <2>1, <3>1, <3>2 DEF OutcomeInv, ReviewedIsPublished
  <2>2. ASSUME NEW a \in approvals', Verifies(e, d), a.id \in r.approval
        PROVE  \E w \in shown', o \in published' :
                 /\ w.proposal = r.proposal /\ w.viewer = a.approver
                 /\ o.by = {r.proposal} /\ o.result = r.result /\ o.after = w.candidate
    <3>1. PICK b \in e.reserved : b.id = a.id
      BY <1>3, <2>2
    <3>2. a = Spend(b)
      BY <1>9, <3>1 DEF IdentityInv, ApprovalIdsUnique, Issued
    <3>3. b.binding.proposal = e.proposal.id
      <4>1. [b.binding EXCEPT !.policy = policy.version] = BindingOf(e.proposal, e.executor)
        BY <1>8 DEF GuardAuthorizes, BoundaryAuthorized, SelectsContext
      <4>2. b.binding \in Binding
        BY <1>9 DEF Approval
      <4>3. [b.binding EXCEPT !.policy = policy.version].proposal = b.binding.proposal
        BY <4>2 DEF Binding
      <4>. QED BY <4>1, <4>3 DEF BindingOf
    <3>4. b.approver \in e.proposal.reviewedBy
      <4>1. PICK o \in proposals : o.id = b.binding.proposal /\ b.approver \in o.reviewedBy
        BY <1>9 DEF ReviewInv, ApprovalsReviewed
      <4>. QED BY <1>4, <3>3, <4>1
    <3>5. PICK w \in shown : w.proposal = e.proposal.id /\ w.viewer = b.approver
      BY <1>4, <3>4 DEF ReviewInv, ReviewsShown
    <3>6. e.proposal.base = revision
      BY <1>8 DEF IdentityInv, ExecutionIsLive
    <3>7. w.candidate = CandidateOf[document][e.proposal.body]
      BY <1>4, <1>8, <3>5, <3>6 DEF ReviewInv, ShownFaithful
    <3>8. w \in shown' /\ w.viewer = a.approver /\ q.after = w.candidate /\ q \in published'
      BY <1>3, <1>8, <1>9, <1>10, <2>2, <3>2, <3>5, <3>7
    <3>. QED BY <1>3, <3>5, <3>8
  <2>. QED BY <1>3, <2>1, <2>2 DEF ReviewedIsPublished
<1>13. PublishedIsApplied'
  <2>1. ASSUME NEW t \in receipts', NEW o \in proposals', NEW x \in published',
               t.verified, t.proposal = o.id, x.by = {o.id}
        PROVE  x.after = CandidateOf[x.before][o.body]
    <3>1. CASE o = p
      <4>1. x = q /\ t = r
        BY <1>2, <1>3, <1>5, <1>6, <2>1, <3>1
      <4>. QED BY <1>2, <1>3, <1>10, <2>1, <3>1, <4>1
    <3>2. CASE o # p
      <4>1. o \in proposals /\ o.id # e.proposal.id
        BY <1>7, <3>2
      <4>2. t \in receipts /\ x \in published
        BY <1>3, <2>1, <4>1
      <4>. QED BY <2>1, <4>1, <4>2 DEF OutcomeInv, PublishedIsApplied
    <3>. QED BY <3>1, <3>2
  <2>. QED BY <2>1 DEF PublishedIsApplied
<1>14. HistoryMatchesReceipts'
  <2>1. "Applied" \in p.history /\ ("Verified" \in p.history <=> Verifies(e, d))
    <3>1. "Verified" \notin e.proposal.history
      BY <1>4 DEF IsNonterminal, IsTerminal, TerminalStates
    <3>2. p.history = e.proposal.history \cup
            {"Applied", IF Verifies(e, d) THEN "Verified" ELSE "Conflict"}
      BY <1>1 DEF Leaves
    <3>. QED BY <3>1, <3>2
  <2>2. /\ "Applied" \in p.history <=> \E t \in receipts' : t.proposal = p.id
        /\ "Verified" \in p.history <=> \E t \in receipts' : t.proposal = p.id /\ t.verified
    BY <1>2, <1>3, <1>5, <2>1
  <2>3. ASSUME NEW o \in proposals, o.id # e.proposal.id
        PROVE  /\ "Applied" \in o.history <=> \E t \in receipts' : t.proposal = o.id
               /\ "Verified" \in o.history <=> \E t \in receipts' : t.proposal = o.id /\ t.verified
    BY <1>3, <2>3 DEF OutcomeInv, HistoryMatchesReceipts
  <2>4. \A s, t \in receipts' : s.proposal = t.proposal => s = t
    BY <1>3, <1>5 DEF OutcomeInv, HistoryMatchesReceipts
  <2>. QED BY <1>7, <2>2, <2>3, <2>4 DEF HistoryMatchesReceipts
<1>15. OutcomesRecorded'
  <2>1. \A t \in receipts' : \E o \in proposals' : o.id = t.proposal
    BY <1>2, <1>3, <1>7 DEF OutcomeInv, OutcomesRecorded
  <2>2. \A x \in published' : \A i \in x.by : \E t \in receipts' : t.proposal = i
    BY <1>3 DEF OutcomeInv, OutcomesRecorded
  <2>3. IsTerminal(p)
    BY <1>1 DEF Leaves, IsTerminal, TerminalStates
  <2>. QED BY <1>7, <2>1, <2>2, <2>3 DEF OutcomeInv, OutcomesRecorded, IsTerminal
<1>. QED BY <1>11, <1>12, <1>13, <1>14, <1>15 DEF OutcomeInv

\* Nothing is published in the first state.
LEMMA InitOutcomeInv == Init => OutcomeInv
BY DEF Init, OutcomeInv, DelegatedNeedsHuman, ReviewedIsPublished, PublishedIsApplied,
       HistoryMatchesReceipts, OutcomesRecorded

\* Receipts, histories, Approvals and publications go on telling the same story.
LEMMA NextKeepsOutcomeInv ==
  TypeInv /\ IdentityInv /\ IdentityInv' /\ ReviewInv /\ ConsumptionInv /\ OutcomeInv
    /\ [Next]_vars => OutcomeInv'
<1>1. ASSUME OutcomeInv, UNCHANGED vars PROVE OutcomeInv'
  <2>1. UNCHANGED <<proposals, approvals, receipts, published, shown>>
    BY <1>1 DEF vars, registry, history
  <2>2. DelegatedNeedsHuman' /\ ReviewedIsPublished'
    BY <1>1, <2>1 DEF OutcomeInv, DelegatedNeedsHuman, Delegated, ReviewedIsPublished
  <2>3. PublishedIsApplied' /\ HistoryMatchesReceipts'
    BY <1>1, <2>1 DEF OutcomeInv, PublishedIsApplied, HistoryMatchesReceipts
  <2>4. OutcomesRecorded'
    BY <1>1, <2>1 DEF OutcomeInv, OutcomesRecorded, IsTerminal
  <2>. QED BY <2>2, <2>3, <2>4 DEF OutcomeInv
<1>. QED BY <1>1, NextIsUntold, UntoldKeepsOutcomeInv, InstallationKeepsOutcomeInv DEF Installed

\* Everything the two theorems below rest on, for every reachable state.
LEMMA LifecycleInvariant ==
  Spec => [](TypeInv /\ IdentityInv /\ ReviewInv /\ ConsumptionInv /\ OutcomeInv)
BY InitTypeInv, InitIdentityInv, InitConsumption, InitReviewInv, InitOutcomeInv,
   NextKeepsTypeAndIdentity, NextKeepsReviewInv, NextKeepsConsumption, NextKeepsOutcomeInv,
   PTL DEF Spec

\* execute and publish_candidate: what a Delegated principal proposed or executed was
\* approved for that proposal and executor by a Human, and a verified execution
\* installed the very candidate its approver had been shown.
THEOREM PublicationsWereApproved == Spec => []PublicationsAreApproved
BY LifecycleInvariant, PTL DEF OutcomeInv, PublicationsAreApproved

\* Receipts and histories: a verified execution applied its proposal's own change to
\* the document it replaced, and Applied and Verified stand in a history exactly for
\* the one receipt that says so.
THEOREM ReceiptsAreTrue == Spec => []ReceiptsTellWhatHappened
BY LifecycleInvariant, PTL DEF OutcomeInv, ReceiptsTellWhatHappened

-----------------------------------------------------------------------------
(* Registry and session implement one atomic publication                   *)

\* The status of every identity, as SemanticPublication sees it.
statusNow == [id \in ApprovalIds |-> StatusOf(id)]

publicationNow == <<occurrence, revision, document, statusNow>>

\* An identity has the status of the one Approval it names.
LEMMA StatusOfIssued ==
  ASSUME IdentityInv, NEW a \in Issued
  PROVE  StatusOf(a.id) = a.status
<1>1. (CHOOSE b \in Issued : b.id = a.id) = a
  BY DEF IdentityInv, ApprovalIdsUnique
<1>. QED BY <1>1 DEF StatusOf

\* A step in which the identities of ids come to the status to, and every other
\* Approval keeps its own.
Becomes(ids, to) ==
  /\ \A a \in Issued' :
       IF a.id \in ids THEN a.status = to
       ELSE \E b \in Issued : b.id = a.id /\ b.status = a.status
  /\ \A b \in Issued : \E a \in Issued' : a.id = b.id
  /\ \A i \in ids : \E a \in Issued' : a.id = i

\* What such a step makes of the status of each identity.
LEMMA BecomesStatus ==
  ASSUME IdentityInv, IdentityInv', NEW ids, NEW to, Becomes(ids, to), NEW i
  PROVE  StatusOf(i)' = IF i \in ids THEN to ELSE StatusOf(i)
<1>1. ASSUME NEW a \in Issued' PROVE StatusOf(a.id)' = a.status
  <2>1. (CHOOSE b \in Issued' : b.id = a.id) = a
    BY DEF IdentityInv, ApprovalIdsUnique
  <2>. QED BY <2>1 DEF StatusOf
<1>2. CASE i \in ids
  BY <1>1, <1>2 DEF Becomes
<1>3. CASE i \notin ids
  <2>1. ASSUME NEW a \in Issued', a.id = i PROVE StatusOf(i)' = StatusOf(i)
    <3>1. PICK b \in Issued : b.id = a.id /\ b.status = a.status
      BY <1>3, <2>1 DEF Becomes
    <3>. QED BY <1>1, <2>1, <3>1, StatusOfIssued
  <2>2. ASSUME \A a \in Issued' : a.id # i PROVE StatusOf(i)' = StatusOf(i)
    BY <2>2 DEF StatusOf, Becomes
  <2>. QED BY <1>3, <2>1, <2>2
<1>. QED BY <1>2, <1>3

\* A step in which no identity changes its status.
LEMMA NothingBecomes ==
  ASSUME IdentityInv, IdentityInv', NEW to, Becomes({}, to)
  PROVE  UNCHANGED statusNow
BY BecomesStatus DEF statusNow

\* Such a step is a change of the abstract statuses.
LEMMA BecomesIsChange ==
  ASSUME IdentityInv, IdentityInv', NEW ids \in SUBSET ApprovalIds, NEW from, NEW to,
         Becomes(ids, to), \A i, j \in ids : i = j, \A i \in ids : StatusOf(i) = from
  PROVE  SemanticPublication!Change(ids, from, to)
BY BecomesStatus DEF SemanticPublication!Change

\* Taking an Approval out of the registry into an execution, or back, is invisible.
LEMMA SameApprovals ==
  ASSUME IdentityInv, IdentityInv', Issued' = Issued
  PROVE  UNCHANGED statusNow
BY NothingBecomes DEF Becomes

\* revoke_approval, and the expiry that an execution meets, withdraw an Active Approval.
LEMMA ExchangeWithdraws ==
  ASSUME IdentityInv, IdentityInv', UNCHANGED session,
         NEW a \in Issued, a.id \in ApprovalIds, a.status = "Active",
         NEW b, b.id = a.id, b.status \in {"Revoked", "Expired"},
         Issued' = (Issued \ {a}) \cup {b}
  PROVE  SemanticPublication!Withdraw(a.id)
<1>1. Becomes({a.id}, b.status)
  BY DEF Becomes, IdentityInv, ApprovalIdsUnique
<1>2. SemanticPublication!Change({a.id}, "Active", b.status)
  BY <1>1, StatusOfIssued, BecomesIsChange
<1>. QED BY <1>2 DEF SemanticPublication!Withdraw, session

\* Of administration only revoke_approval is visible: it withdraws an Approval.
LEMMA AdministerMaps ==
  ASSUME TypeInv, IdentityInv, IdentityInv', Administer
  PROVE  [SemanticPublication!Next]_publicationNow
<1>1. UNCHANGED session /\ Idle /\ UNCHANGED executing
  BY DEF Administer, RegisterPrincipal, DisablePrincipal, ProvisionGrant, RevokeGrant,
     TransitionEffectivePolicy, RevokeApproval
<1>2. Issued = approvals /\ Issued' = approvals'
  BY <1>1 DEF Idle, Issued, Reserved
<1>3. ASSUME NEW a \in approvals, RevokeApproval(a) PROVE SemanticPublication!Next
  <2>. DEFINE b == [a EXCEPT !.status = "Revoked"]
  <2>1. a.id \in ApprovalIds /\ b.id = a.id /\ b.status = "Revoked"
    BY DEF TypeInv, TypeOK, Approval
  <2>2. a.status = "Active" /\ approvals' = (approvals \ {a}) \cup {b}
    BY <1>3 DEF RevokeApproval
  <2>. HIDE DEF b
  <2>3. SemanticPublication!Withdraw(a.id)
    BY <1>1, <1>2, <2>1, <2>2, ExchangeWithdraws
  <2>. QED BY <2>1, <2>3 DEF SemanticPublication!Next
<1>4. CASE UNCHANGED approvals
  BY <1>1, <1>2, <1>4, SameApprovals DEF publicationNow, session
<1>. QED BY <1>3, <1>4 DEF Administer, RegisterPrincipal, DisablePrincipal, ProvisionGrant,
            RevokeGrant, TransitionEffectivePolicy

\* Of review only approve is visible: it issues an Approval.
LEMMA ReviewMaps ==
  ASSUME TypeInv, IdentityInv, IdentityInv', Review
  PROVE  [SemanticPublication!Next]_publicationNow
<1>1. UNCHANGED session /\ Idle /\ UNCHANGED executing
  BY DEF Review, Propose, Preview, Approve
<1>2. Issued = approvals /\ Issued' = approvals'
  BY <1>1 DEF Idle, Issued, Reserved
<1>3. CASE UNCHANGED approvals
  BY <1>1, <1>2, <1>3, SameApprovals DEF publicationNow, session
<1>4. ASSUME NEW id \in ApprovalIds, NEW p \in proposals, NEW u \in Principals,
             NEW x \in Principals, NEW t \in Instants, Approve(id, p, u, x, t),
             p.base = revision
      PROVE  SemanticPublication!Next
  <2>. DEFINE a == [id |-> id, binding |-> BindingOf(p, x), approver |-> u,
                    expires |-> t, selection |-> policy.selection,
                    grants |-> GrantsUsed(u, "Approve", Writes[p.body]),
                    status |-> "Active"]
  <2>1. a.id = id /\ a.status = "Active"
    OBVIOUS
  <2>2. approvals' = approvals \cup {a} /\ \A b \in approvals : b.id # id
    BY <1>4 DEF Approve
  <2>. HIDE DEF a
  <2>3. Becomes({id}, "Active")
    BY <1>2, <2>1, <2>2 DEF Becomes
  <2>4. StatusOf(id) = "Unissued"
    BY <1>2, <2>2 DEF StatusOf
  <2>5. SemanticPublication!Change({id}, "Unissued", "Active")
    BY <2>3, <2>4, BecomesIsChange
  <2>6. SemanticPublication!Issue(id)
    BY <1>1, <2>5 DEF SemanticPublication!Issue, session
  <2>. QED BY <2>6 DEF SemanticPublication!Next
<1>5. \/ UNCHANGED approvals
      \/ \E id \in ApprovalIds, p \in proposals, u, x \in Principals, t \in Instants :
           Approve(id, p, u, x, t) /\ p.base = revision
  <2>1. \/ UNCHANGED approvals
        \/ \E id \in ApprovalIds, p \in proposals, u, x \in Principals, t \in Instants :
             Approve(id, p, u, x, t)
    BY DEF Review, Propose, Preview
  <2>2. ASSUME NEW id, NEW p, NEW u, NEW x, NEW t, Approve(id, p, u, x, t), p.base # revision
        PROVE  UNCHANGED approvals
    BY <2>2 DEF Approve
  <2>. QED BY <2>1, <2>2
<1>. QED BY <1>3, <1>4, <1>5

\* Up to the reservation only an expiry found is visible.
LEMMA ExecuteMaps ==
  ASSUME TypeInv, IdentityInv, IdentityInv', Execute
  PROVE  [SemanticPublication!Next]_publicationNow
<1>1. UNCHANGED session
  BY DEF Execute, ExecuteRefused, ExecuteStale, ExecuteExpired, BeginExecute
<1>2. CASE UNCHANGED <<approvals, executing>>
  <2>1. Issued' = Issued
    BY <1>2 DEF Issued, Reserved
  <2>. QED BY <1>1, <2>1, SameApprovals DEF publicationNow, session
<1>3. ASSUME NEW p \in proposals, NEW x \in Principals, NEW a \in approvals,
             ExecuteExpired(p, a, x)
      PROVE  SemanticPublication!Next
  <2>1. /\ a.id \in ApprovalIds /\ ExpireApproval(a).id = a.id
        /\ ExpireApproval(a).status = "Expired"
    BY DEF TypeInv, TypeOK, Approval, ExpireApproval
  <2>2. /\ a.status = "Active" /\ approvals' = (approvals \ {a}) \cup {ExpireApproval(a)}
        /\ Idle /\ UNCHANGED executing
    BY <1>3 DEF ExecuteExpired, HasExpired
  <2>3. Issued = approvals /\ Issued' = approvals'
    BY <2>2 DEF Idle, Issued, Reserved
  <2>4. SemanticPublication!Withdraw(a.id)
    BY <1>1, <2>1, <2>2, <2>3, ExchangeWithdraws
  <2>. QED BY <2>1, <2>4 DEF SemanticPublication!Next
<1>4. ASSUME NEW p \in proposals, NEW x \in Principals, NEW chosen \in Choices,
             BeginExecute(p, chosen, x)
      PROVE  UNCHANGED publicationNow
  <2>. DEFINE e == [proposal |-> p, executor |-> x, reserved |-> chosen,
                    base |-> revision, candidate |-> Evaluate(p)]
  <2>1. /\ executing = {} /\ executing' = {e} /\ approvals' = approvals \ chosen
        /\ e.reserved = chosen /\ chosen \subseteq approvals
    BY <1>4 DEF BeginExecute, RegistryWithoutReserved, Choices, Idle
  <2>. HIDE DEF e
  <2>2. Issued' = Issued
    BY <2>1 DEF Issued, Reserved
  <2>. QED BY <1>1, <2>2, SameApprovals DEF publicationNow, session
<1>. QED BY <1>2, <1>3, <1>4 DEF Execute, ExecuteRefused, ExecuteStale

\* A publication installs and spends in one step, withdraws what it found expired, or is
\* invisible.
LEMMA PublishMaps ==
  ASSUME TypeInv, IdentityInv, IdentityInv', ReviewInv, Publish
  PROVE  [SemanticPublication!Next]_publicationNow
<1>1. PICK e \in executing :
        \/ PublicationScopeMismatch(e)
        \/ PublicationDenied(e)
        \/ PublicationStale(e)
        \/ PublicationNoChange(e)
        \/ PublicationConflict(e)
        \/ \E d \in HostInstalls[e.candidate] : PublicationInstalled(e, d)
  BY DEF Publish
<1>2. /\ Issued = approvals \cup e.reserved
      /\ \A a \in e.reserved : a \in Approval /\ a.status = "Active" /\ a \in Issued
      /\ \A a, b \in e.reserved : a = b
      /\ approvals \cap e.reserved = {}
  BY DEF IdentityInv, OneExecution, ExecutionIsLive, ApprovalIdsUnique, Issued, Reserved,
         TypeInv, TypeOK, Execution, ReviewInv, ExecutionIsPlanned
<1>3. executing' = {} => Issued' = approvals'
  BY DEF Issued, Reserved
<1>4. CASE /\ approvals' = approvals \cup e.reserved
           /\ UnpublishedRest
  <2>1. Issued' = Issued /\ UNCHANGED session
    BY <1>2, <1>3, <1>4 DEF UnpublishedRest
  <2>. QED BY <2>1, SameApprovals DEF publicationNow, session
<1>5. CASE PublicationDenied(e)
  <2>. DEFINE expired == {a \in e.reserved : HasExpired(a)}
  <2>1. /\ approvals' = approvals \cup ((e.reserved \ expired) \cup {ExpireApproval(a) : a \in expired})
        /\ UnpublishedRest
    BY <1>5 DEF PublicationDenied, GiveBack
  <2>2. CASE expired = {}
    BY <1>4, <2>1, <2>2
  <2>3. CASE expired # {}
    <3>1. PICK a \in expired : TRUE
      BY <2>3
    <3>2. expired = {a} /\ e.reserved = {a}
      BY <1>2, <3>1
    <3>3. /\ a.id \in ApprovalIds /\ a.status = "Active" /\ a \in Issued
          /\ ExpireApproval(a).id = a.id /\ ExpireApproval(a).status = "Expired"
      BY <1>2 DEF Approval, ExpireApproval
    <3>. HIDE DEF expired
    <3>4. Issued' = (Issued \ {a}) \cup {ExpireApproval(a)} /\ UNCHANGED session
      BY <1>2, <1>3, <2>1, <3>2 DEF UnpublishedRest
    <3>5. SemanticPublication!Withdraw(a.id)
      BY <3>3, <3>4, ExchangeWithdraws
    <3>. QED BY <3>3, <3>5 DEF SemanticPublication!Next
  <2>. QED BY <2>2, <2>3
<1>6. ASSUME NEW d \in HostInstalls[e.candidate], PublicationInstalled(e, d)
      PROVE  SemanticPublication!Next
  <2>. DEFINE ids == {a.id : a \in e.reserved}
  <2>1. \A a \in e.reserved : Spend(a).id = a.id /\ Spend(a).status = "Consumed"
    BY <1>2 DEF Approval, Spend
  <2>2. Issued' = approvals \cup {Spend(a) : a \in e.reserved}
    BY <1>3, <1>6 DEF PublicationInstalled
  <2>3. \A a \in approvals : a.id \notin ids
    BY <1>2 DEF IdentityInv, ApprovalIdsUnique
  <2>4. ids \in SUBSET ApprovalIds
    BY <1>2 DEF Approval
  <2>5. \A i, j \in ids : i = j
    BY <1>2
  <2>6. \A i \in ids : StatusOf(i) = "Active"
    BY <1>2, StatusOfIssued
  <2>7. Becomes(ids, "Consumed")
    <3>1. \A i \in ids : \E a \in Issued' : a.id = i
      BY <2>1, <2>2
    <3>2. \A a \in Issued' : a.id \in ids => a.status = "Consumed"
      BY <2>1, <2>2, <2>3
    <3>3. \A a \in Issued' : a.id \notin ids => a \in Issued
      BY <1>2, <2>1, <2>2
    <3>4. \A b \in Issued : \E a \in Issued' : a.id = b.id
      BY <1>2, <2>1, <2>2
    <3>. QED BY <3>1, <3>2, <3>3, <3>4 DEF Becomes
  <2>. HIDE DEF ids
  <2>8. SemanticPublication!Change(ids, "Active", "Consumed")
    BY <2>4, <2>5, <2>6, <2>7, BecomesIsChange
  <2>9. d \in Docs
    BY ConstantsAssumption DEF TypeInv, TypeOK, Execution
  <2>10. SemanticPublication!Install(ids, d)
    BY <1>6, <2>8 DEF PublicationInstalled, SemanticPublication!Install
  <2>. QED BY <2>4, <2>9, <2>10 DEF SemanticPublication!Next
<1>. QED BY <1>1, <1>4, <1>5, <1>6 DEF PublicationScopeMismatch, PublicationStale,
            PublicationNoChange, PublicationConflict, GiveBack

\* Another writer installs without an Approval; the clock is invisible.
LEMMA EnvironmentMaps ==
  ASSUME IdentityInv, IdentityInv', Environment
  PROVE  [SemanticPublication!Next]_publicationNow
<1>1. UNCHANGED <<approvals, executing>>
  BY DEF Environment, Tick, ExternalPublish, ReplaceOccurrence, registry
<1>2. Issued' = Issued
  BY <1>1 DEF Issued, Reserved
<1>3. UNCHANGED statusNow
  BY <1>2, SameApprovals
<1>4. CASE Tick
  BY <1>3, <1>4 DEF Tick, session, publicationNow
<1>5. ASSUME NEW d \in Docs, ExternalPublish(d) PROVE SemanticPublication!Next
  <2>1. Becomes({}, "Consumed")
    BY <1>2 DEF Becomes
  <2>2. SemanticPublication!Change({}, "Active", "Consumed")
    BY <2>1, BecomesIsChange
  <2>3. SemanticPublication!Install({}, d)
    BY <1>5, <2>2 DEF ExternalPublish, SemanticPublication!Install
  <2>. QED BY <2>3 DEF SemanticPublication!Next
<1>6. CASE ReplaceOccurrence
  BY <1>3, <1>6 DEF ReplaceOccurrence, SemanticPublication!Replace, SemanticPublication!Next,
     statusNow
<1>. QED BY <1>4, <1>5, <1>6 DEF Environment

\* Every step of the registry and of the session is one step of the abstract
\* publication, or none: the reservation of an Approval while publish_candidate is under
\* way is invisible, and what the host does in between loses or revives nothing.
THEOREM PublicationIsOneStep == Spec => ImplementsSemanticPublication
<1>1. Init => SemanticPublication!Init
  <2>1. Init => Issued = {}
    BY DEF Init, Issued, Reserved
  <2>. QED BY <2>1 DEF Init, StatusOf, SemanticPublication!Init
<1>2. TypeInv /\ IdentityInv /\ IdentityInv' /\ ReviewInv /\ [Next]_vars
        => [SemanticPublication!Next]_publicationNow
  <2>1. ASSUME IdentityInv, IdentityInv', UNCHANGED vars PROVE UNCHANGED publicationNow
    <3>1. Issued' = Issued /\ UNCHANGED <<occurrence, revision, document>>
      BY <2>1 DEF vars, registry, session, Issued, Reserved
    <3>. QED BY <2>1, <3>1, SameApprovals DEF publicationNow
  <2>. QED BY <2>1, AdministerMaps, ReviewMaps, ExecuteMaps, PublishMaps, EnvironmentMaps DEF Next
<1>. QED BY <1>1, <1>2, LifecycleInvariant, PTL
         DEF Spec, ImplementsSemanticPublication, SemanticPublication!Spec,
             SemanticPublication!publication, publicationNow, statusNow
=============================================================================

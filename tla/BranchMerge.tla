----------------------------- MODULE BranchMerge -----------------------------
(***************************************************************************)
(* Two branches of one document, edited apart and merged: what is merged   *)
(* is any three documents with a common ancestor that pass validation.     *)
(* `tachiko merge` (cli/src/commands.rs) writes the result of the v1 merge *)
(* to a new file, from which both branches go on; the v2 merge is a        *)
(* preview.  MaxEdits bounds the edits of both branches together.          *)
(***************************************************************************)
EXTENDS ThreeWayMergeV2, DocumentEdits, DocumentComparison

CONSTANTS
    Bases,      \* documents to start from
    MaxEdits

ASSUME BasesAssumption ==
    /\ MaxEdits \in Nat
    /\ \A d \in Bases : IsDocument(d) /\ Valid(d) /\ DefinitionsBound(d)

VARIABLES
    base,     \* the common ancestor
    ours,     \* the two branches
    theirs,
    edits,    \* how many edits were made
    outcome   \* the last merge: an option, [contract, result, shown]

vars == <<base, ours, theirs, edits, outcome>>

Docs == <<base, ours, theirs>>

-----------------------------------------------------------------------------
\* What an edit of a branch leaves is valid.
Edits(d) == {x \in Edited(d) : Valid(x) /\ DefinitionsBound(x)}

-----------------------------------------------------------------------------
Init ==
    /\ base \in Bases
    /\ ours = base
    /\ theirs = base
    /\ edits = 0
    /\ outcome = {}

EditOurs ==
    /\ edits < MaxEdits /\ outcome = {}
    /\ ours' \in Edits(ours)
    /\ edits' = edits + 1
    /\ UNCHANGED <<base, theirs, outcome>>

EditTheirs ==
    /\ edits < MaxEdits /\ outcome = {}
    /\ theirs' \in Edits(theirs)
    /\ edits' = edits + 1
    /\ UNCHANGED <<base, ours, outcome>>

\* A merged document is shown with its difference to the base, as an option.
Shown(result, compare(_, _)) ==
    IF result.status = "merged" THEN {compare(base, result.document)} ELSE {}

MergeBranches ==
    /\ outcome = {}
    /\ LET result == MergeDocuments(Docs)
       IN outcome' = {[contract |-> "v1", result |-> result, shown |-> Shown(result, CompareDocuments)]}
    /\ UNCHANGED <<base, ours, theirs, edits>>

PreviewMergeV2 ==
    /\ outcome = {}
    /\ LET result == MergeDocumentsV2(Docs)
       IN outcome' = {[contract |-> "v2", result |-> result, shown |-> Shown(result, CanonicalDelta)]}
    /\ UNCHANGED <<base, ours, theirs, edits>>

\* merge_documents of the CLI: write_new of a merged document.
WriteMerged ==
    /\ \E o \in outcome :
         /\ o.contract = "v1" /\ o.result.status = "merged"
         /\ base' = o.result.document
    /\ ours' = base'
    /\ theirs' = base'
    /\ outcome' = {}
    /\ UNCHANGED edits

\* A conflict, a refusal or a preview leaves the branches as they are.
Dismiss ==
    /\ outcome # {}
    /\ outcome' = {}
    /\ UNCHANGED <<base, ours, theirs, edits>>

Next == EditOurs \/ EditTheirs \/ MergeBranches \/ PreviewMergeV2 \/ WriteMerged \/ Dismiss

Spec == Init /\ [][Next]_vars

-----------------------------------------------------------------------------
(* Properties                                                              *)

\* The direct facts of a document, one by one, without any nesting.
FactsOf(d) ==
    LET schemas == UNION {{<<"schema", s, facet>> : facet \in {"key", "name"}} : s \in DOMAIN d.schemas}
        fields == UNION {{<<"field", s, f, facet>> :
                            f \in DOMAIN d.schemas[s].fields,
                            facet \in {"key", "name", "type", "required", "constraint", "format"}} :
                         s \in DOMAIN d.schemas}
        entities == UNION {{<<"entity", e, facet>> : facet \in {"key", "schema"}} : e \in DOMAIN d.entities}
        stored == {<<"stored", cell[1], d.entities[cell[1]].schema, cell[2]>> : cell \in Cells(d)}
        at(c) == CASE c[1] = "title" -> d.title
                   [] c[1] = "schema" -> d.schemas[c[2]][c[3]]
                   [] c[1] = "field" -> d.schemas[c[2]].fields[c[3]][c[4]]
                   [] c[1] = "entity" -> d.entities[c[2]][c[3]]
                   [] c[1] = "stored" -> d.entities[c[2]].fields[c[4]]
    IN [c \in {<<"title">>} \union schemas \union fields \union entities \union stored |-> at(c)]

\* No edit is lost and none is invented: every direct fact of a merged
\* document, or its absence, is what each side that changed it made of it, so
\* that none the two sides changed differently gets merged, and a fact that
\* neither changed is the base's (choose and choose_optional in
\* merge-engine/src/lib.rs, and the unmaterialized facts).
MergeFollowsTheSides ==
    \A o \in outcome : o.result.status = "merged" =>
        LET facts == [i \in Sides |-> FactsOf(Docs[i])]
            merged == FactsOf(o.result.document)
        IN \A c \in Ids(facts) \union DOMAIN merged :
             LET sides == Entries(facts, c)
                 changers == {i \in Sides : sides[i] # sides[Base]}
             IN \A i \in IF changers = {} THEN {Base} ELSE changers : Entry(merged, c) = sides[i]

\* What a conflict's target is about, whole, in a document.
SubjectOf(d, target) ==
    CASE target[1] = "document" -> {d.title}
      [] target[1] = "schema" -> Entry(d.schemas, target[2])
      [] target[1] = "schema_field" ->
           UNION {Entry(s.fields, target[3]) : s \in Entry(d.schemas, target[2])}
      [] target[1] = "entity" -> Entry(d.entities, target[2])
      [] target[1] = "stored_field" ->
           UNION {IF e.schema = target[3] THEN Entry(e.fields, target[4]) ELSE {} :
                  e \in Entry(d.entities, target[2])}

\* Conflicts are reported only where the two branches really disagree: each is
\* about something that both sides changed, and not to the same; and they come
\* in canonical order with no target, facet and kind named twice (the engines'
\* conflicts, and the subject conflicts v2 replaces).
ConflictsAreReal ==
    \A o \in outcome : o.result.status = "conflicted" =>
        LET conflicts == o.result.conflicts
        IN /\ \A i \in DOMAIN conflicts :
                LET subject == [k \in Sides |-> SubjectOf(Docs[k], Target(conflicts[i]))]
                IN \A k, l \in Sides : k < l => subject[k] # subject[l]
           /\ \A i \in DOMAIN conflicts \ {1} : Before(conflicts[i - 1], conflicts[i])

\* What comes of branches of which one is the base, or which are alike.
GivesThatSide(o) ==
    /\ (o.result.status = "merged" /\ theirs \in {base, ours}) => o.result.document = ours
    /\ (o.result.status = "merged" /\ ours = base) => o.result.document = theirs
    /\ (theirs \in {base, ours} \/ ours = base) =>
         o.result.status = "merged"
         \/ (o.result.status = "refused"
             /\ o.result.reason \in {"number_format", "definitions"}
                  \union (IF o.contract = "v1" THEN {"field_order", "display_name", "constraint"} ELSE {}))

\* A merge in which one side changed nothing, or both the same, gives the
\* changed side exactly, explicit orders and all; it is refused only for what
\* its contract does not support (the engines, and their finalization in
\* workspace-engine/src/lib.rs).
OneSidedMergeIsThatSide == \A o \in outcome : GivesThatSide(o)

\* A document with one fact of a delta made true.  A row that changes tables
\* leaves its values behind, and a value is put only into the table it names.
Put(m, key, option) ==
    [k \in {k \in DOMAIN m \union {key} : k # key \/ option # {}} |->
        IF k = key THEN The(option) ELSE m[k]]
Applied(d, fact) ==
    LET t == Place(fact)
        whole == Was(fact) = {} \/ Is(fact) = {}
        x == The(Is(fact))
    IN CASE Rank(fact) = 0 -> [d EXCEPT !.title = x]
         [] Rank(fact) = 1 /\ whole -> [d EXCEPT !.schemas = Put(@, t[1], Is(fact))]
         [] Rank(fact) = 1 -> [d EXCEPT !.schemas[t[1]][About(fact)] = x]
         [] Rank(fact) = 2 /\ whole -> [d EXCEPT !.schemas[t[1]].fields = Put(@, t[2], Is(fact))]
         [] Rank(fact) = 2 -> [d EXCEPT !.schemas[t[1]].fields[t[2]][About(fact)] = x]
         [] Rank(fact) = 3 /\ whole -> [d EXCEPT !.entities = Put(@, t[1], Is(fact))]
         [] Rank(fact) = 3 /\ About(fact) = "schema" ->
              [d EXCEPT !.entities[t[1]] = [@ EXCEPT !.schema = x, !.fields = <<>>]]
         [] Rank(fact) = 3 -> [d EXCEPT !.entities[t[1]][About(fact)] = x]
         [] Rank(fact) = 4 /\ d.entities[t[1]].schema = t[2] ->
              [d EXCEPT !.entities[t[1]].fields = Put(@, t[3], Is(fact))]
         [] Rank(fact) = 5 -> [d EXCEPT !.definitions = Is(fact)]
         [] OTHER -> d

\* A delta's facts, in their order, make the one document of the other, and
\* turned around the other of the one; no two have the same place in the order.
DeltaIsTheDifference(before, after, facts) ==
    LET turned == [i \in DOMAIN facts |->
                     Fact(Rank(facts[i]), Place(facts[i]), About(facts[i]), Is(facts[i]), Was(facts[i]))]
    IN /\ FoldLeft(Applied, before, facts) = after
       /\ FoldLeft(Applied, after, turned) = before
       /\ \A i \in DOMAIN facts \ {1} : Precedes(facts[i - 1], facts[i])

\* A comparison leaves nothing out.  What a merge shows beside its result, and
\* what any two of the documents are told to differ in, suffices to make the
\* one of the other in v2; v1, whose words are fewer, refuses what it cannot
\* say rather than say nothing, and never refuses to show what it merged
\* (canonical_delta, diff and require_diff_supported of the diff engine).
ComparisonsTellAll ==
    /\ \A o \in outcome : \A shown \in o.shown :
         /\ shown.status = "compared"
         /\ o.contract = "v2" => DeltaIsTheDifference(base, o.result.document, shown.facts)
         /\ o.contract = "v1" => (shown.facts = {} <=> o.result.document = base)
    /\ outcome = {} =>
         LET delta == CanonicalDelta(ours, theirs)
             difference == CompareDocuments(ours, theirs)
         IN /\ delta.status = "compared" => DeltaIsTheDifference(ours, theirs, delta.facts)
            /\ difference.status = "compared" => (difference.facts = {} <=> ours = theirs)

\* The columns of a merged table are where the side that moved them put them:
\* the fields of that side keep its order among them, and when neither moved
\* any the fields of the base keep theirs, and those of one side only theirs
\* (order_edited and apply_selected_field_orders in conflict_v2.rs).
MovedColumnsStayMoved ==
    \A o \in outcome : o.contract = "v2" /\ o.result.status = "merged" =>
        \A s \in Continuing(SchemasOf(Docs)) \intersect DOMAIN o.result.document.schemas :
            LET options == Entries(SchemasOf(Docs), s)
                merged == o.result.document.schemas[s]
                kept(i, fields) ==
                    LET both == fields \intersect DOMAIN merged.fields
                    IN Within(ShownOrder(merged), both) = Within(ShownOrder(The(options[i])), both)
                fieldsOf(i) == DOMAIN The(options[i]).fields
                explicit(i) == The(options[i]).order # {}
            IN /\ \A i \in OrderEditors(options) : explicit(i) => kept(i, fieldsOf(i))
               /\ OrderEditors(options) = {} /\ explicit(Base) =>
                    /\ kept(Base, fieldsOf(Base))
                    /\ kept(Ours, fieldsOf(Ours) \ fieldsOf(Theirs))
                    /\ kept(Theirs, fieldsOf(Theirs) \ fieldsOf(Ours))

\* Where v1 applies, v2 says the same: merged to the same document, refused
\* by both, or in conflict over the same facets in the same order (merge_v2 on
\* top of the frozen merge).
V2RetainsV1 ==
    \A o \in outcome : o.contract = "v1" =>
        LET v1 == o.result
            v2 == MergeDocumentsV2(Docs)
            summary(conflicts) ==
                [i \in DOMAIN conflicts |->
                    <<Target(conflicts[i]), Facet(conflicts[i]), ConflictKind(conflicts[i])>>]
        IN /\ v1.status = "merged" => v2 = v1
           /\ v1.status = "conflicted" =>
                v2.status = "conflicted" /\ summary(v2.conflicts) = summary(v1.conflicts)
           /\ v1.status = "refused" /\ v1.reason \notin {"field_order", "display_name", "constraint"} =>
                v2.status = "refused"

\* What docs/specs/conflict-resolution.md requires of a conflict's facts: a
\* present side is not equivalent to the base, nor to the other side
\* (add_complete_subject_conflicts in conflict_v2.rs).
FactsMatchKind ==
    \A o \in outcome : o.result.status = "conflicted" =>
        \A i \in DOMAIN o.result.conflicts :
            LET facts == Facts(o.result.conflicts[i])
            IN \A k, l \in Sides : k < l => facts[k] # facts[l]
=============================================================================

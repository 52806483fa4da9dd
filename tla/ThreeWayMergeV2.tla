--------------------------- MODULE ThreeWayMergeV2 ---------------------------
(***************************************************************************)
(* The v2 engine, merge-engine/src/conflict_v2.rs: constraints, display    *)
(* names and field orders are taken off the documents, v1 merges the rest, *)
(* and each is merged beside it and put on the result.  Then the workspace *)
(* boundary of both engines, in workspace-engine/src/lib.rs.               *)
(***************************************************************************)
EXTENDS ThreeWayMerge

\* SchemaFieldSubjectV2 and SchemaSubjectV2
FieldSubjectV2(f) ==
    [key |-> f.key, name |-> f.name, type |-> f.type, required |-> f.required,
     constraint |-> f.constraint]
SchemaSubjectV2(s) ==
    [key |-> s.key, name |-> s.name,
     fields |-> [f \in DOMAIN s.fields |-> FieldSubjectV2(s.fields[f])]]

\* without_constraints and without_field_orders
BareField(f) == [f EXCEPT !.name = {}, !.constraint = {}]
BareSchema(s) ==
    [s EXCEPT !.name = {}, !.order = {}, !.fields = [f \in DOMAIN @ |-> BareField(@[f])]]
Stripped(d) == [d EXCEPT !.schemas = [s \in DOMAIN @ |-> BareSchema(@[s])]]

\* IsSubjectConflict, mutated: only the conflicts over whole schemas.
IsSchemaConflict(conflict) ==
    Facet(conflict) = "subject" /\ Target(conflict)[1] = "schema"

\* is_subject_conflict: v2 finds these again on the whole documents.
IsSubjectConflict(conflict) ==
    Facet(conflict) = "subject" /\ Target(conflict)[1] \in {"schema", "schema_field"}

\* The schemas in all three documents.
Continuing(schemas) == {s \in Ids(schemas) : Present(Entries(schemas, s))}

FieldEntries(schemas, s, f) == Entries(FieldsIn(Entries(schemas, s)), f)

\* add_complete_subject_conflicts: presence, compared on everything a schema
\* or a field has.
SubjectClash(target, options, facts) ==
    IF Present(options) THEN {} ELSE Clash(target, "subject", options, facts)

SubjectConflicts(schemas) ==
    LET ofSchema(s) ==
            LET options == Entries(schemas, s)
            IN SubjectClash(SchemaTarget(s), options,
                            [i \in Sides |-> {SchemaSubjectV2(x) : x \in options[i]}])
        ofField(s, f) ==
            LET options == FieldEntries(schemas, s, f)
            IN SubjectClash(FieldTarget(s, f), options,
                            [i \in Sides |-> {FieldSubjectV2(x) : x \in options[i]}])
        fields(s) == Ids(FieldsIn(Entries(schemas, s)))
    IN (UNION {ofSchema(s) : s \in Ids(schemas)})
         \union (UNION {UNION {ofField(s, f) : f \in fields(s)} : s \in Continuing(schemas)})

\* The fields in all three documents, each with its schema.
ContinuingFields(schemas) ==
    {q \in UNION {{s} \X Ids(FieldsIn(Entries(schemas, s))) : s \in Continuing(schemas)} :
        Present(FieldEntries(schemas, q[1], q[2]))}

\* add_constraint_conflicts
ConstraintConflicts(schemas) ==
    UNION {FacetClash(FieldTarget(q[1], q[2]), "constraint", FieldEntries(schemas, q[1], q[2])) :
           q \in ContinuingFields(schemas)}

\* add_name_conflicts
NameConflicts(schemas) ==
    LET ofSchema(s) == FacetClash(SchemaTarget(s), "name", Entries(schemas, s))
        ofField(q) == FacetClash(FieldTarget(q[1], q[2]), "name", FieldEntries(schemas, q[1], q[2]))
    IN (UNION {ofSchema(s) : s \in Continuing(schemas)})
         \union (UNION {ofField(q) : q \in ContinuingFields(schemas)})

\* order_edited: a side's explicit order is not the base's with the fields it
\* removed left out and the fields it added at the end, in its own order; or
\* one of the two has no explicit order.
OrderEdited(old, new) ==
    IF old.order = {} \/ new.order = {} THEN old.order # new.order
    ELSE The(new.order) #
           Within(The(old.order), DOMAIN new.fields)
             \o Within(The(new.order), DOMAIN new.fields \ DOMAIN old.fields)

\* The sides, ours or theirs, that edited the order of a schema of the base.
OrderEditors(options) ==
    {i \in {Ours, Theirs} :
        \E old \in options[Base] : \E new \in options[i] : OrderEdited(old, new)}

\* OrdersConflict, mutated: a schema removed on one side is a change of order.
RemovalConflicts(options) ==
    LET orders == FacetOf(options, "order")
    IN IF Present(options)
       THEN OrderEditors(options) = {Ours, Theirs} /\ orders[Ours] # orders[Theirs]
       ELSE orders[Ours] # orders[Theirs]

\* add_field_order_conflicts
OrdersConflict(options) ==
    LET orders == FacetOf(options, "order")
    IN IF options[Base] = {} THEN orders[Ours] # {} /\ orders[Theirs] # {} /\ orders[Ours] # orders[Theirs]
       ELSE IF Present(options)
       THEN OrderEditors(options) = {Ours, Theirs} /\ orders[Ours] # orders[Theirs]
       ELSE OrderEditors(options) # {}

OrderConflicts(schemas) ==
    {Conflict(SchemaTarget(s), "order", FacetOf(Entries(schemas, s), "order")) :
     s \in {s \in Ids(schemas) : OrdersConflict(Entries(schemas, s))}}

-----------------------------------------------------------------------------
\* A facet of a schema or field that is in the result: merged by itself when
\* all three have it, else taken with the whole.
Settled(options, facet) ==
    The(IF Present(options) THEN Chosen(FacetOf(options, facet))
        ELSE {x[facet] : x \in Chosen(options)})

\* SelectedOrder, mutated: the other side's fields go where their ids put them.
SelectedOrderAlone(options) ==
    LET pick == IF OrderEditors(options) = {Theirs} THEN Theirs ELSE Ours
    IN IF Present(options) THEN The(options[pick]).order
       ELSE IF options[Ours] # {} THEN The(options[Ours]).order
       ELSE The(options[Theirs]).order

\* An order, and then the fields that only the other side's schema shows.
Extended(order, other) ==
    order \o Within(ShownOrder(other), DOMAIN other.fields \ ToSet(order))

\* apply_selected_field_orders: the order of the one side that edited it, or
\* ours, then the fields that only the other side lists.
SelectedOrder(options) ==
    LET pick == IF OrderEditors(options) = {Theirs} THEN Theirs ELSE Ours
        other == IF pick = Ours THEN Theirs ELSE Ours
    IN IF Present(options)
       THEN {Extended(order, The(options[other])) : order \in The(options[pick]).order}
       ELSE IF options[Ours] # {} THEN The(options[Ours]).order
       ELSE The(options[Theirs]).order

\* apply_selected_constraints, apply_selected_names and
\* apply_selected_field_orders, on v1's result
RestoredField(field, options) ==
    [field EXCEPT !.name = Settled(options, "name"), !.constraint = Settled(options, "constraint")]

RestoredSchema(schema, schemas, s) ==
    [key |-> schema.key,
     name |-> Settled(Entries(schemas, s), "name"),
     order |-> NormalizedOrder(SelectedOrder(Entries(schemas, s)), DOMAIN schema.fields),
     fields |-> [f \in DOMAIN schema.fields |->
                    RestoredField(schema.fields[f], FieldEntries(schemas, s, f))]]

Restored(document, schemas) ==
    [document EXCEPT !.schemas = [s \in DOMAIN @ |-> RestoredSchema(@[s], schemas, s)]]

\* merge_v2
MergeV2(docs) ==
    LET schemas == SchemasOf(docs)
        stripped == [i \in Sides |-> Stripped(docs[i])]
        v1 == Merge(stripped)
        passes == <<{c \in MergeConflicts(stripped) : ~IsSubjectConflict(c)},
                    SubjectConflicts(schemas), ConstraintConflicts(schemas),
                    NameConflicts(schemas), OrderConflicts(schemas)>>
        conflicts == FlattenSeq([i \in DOMAIN passes |-> SetToSeq(passes[i])])
    IN CASE \E i \in Sides : HasFormats(docs[i]) -> Refused("number_format")
         [] \E i \in Sides : docs[i].definitions # docs[Base].definitions -> Refused("definitions")
         [] OTHER ->
              IF \E i \in DOMAIN passes : passes[i] # {} THEN Conflicted(Canonical(conflicts))
              ELSE Merged(Restored(v1.document, schemas), v1.unmaterialized)

-----------------------------------------------------------------------------
(* The workspace boundary.                                                 *)

Finalized(candidate, sound(_)) ==
    IF candidate.status # "merged" THEN candidate
    ELSE IF candidate.unmaterialized = {} /\ sound(candidate.document) THEN candidate
    ELSE Refused("invalid_candidate")

SameDocument(docs) == \A i \in Sides : docs[i].id = docs[Base].id

\* merge_documents
MergeDocuments(docs) ==
    CASE ~SameDocument(docs) -> Refused("different_document")
      [] \E i \in Sides : ~Valid(docs[i]) -> Refused("invalid_input")
      [] OTHER -> Finalized(Merge(docs), Valid)

\* merge_documents_v2
MergeDocumentsV2(docs) ==
    LET sound(d) == DefinitionsBound(d) /\ Valid(d)
    IN CASE ~SameDocument(docs) -> Refused("different_document")
         [] \E i \in Sides : docs[i].definitions # docs[Base].definitions -> Refused("definitions")
         [] \E i \in Sides : ~sound(docs[i]) -> Refused("invalid_input")
         [] OTHER -> Finalized(MergeV2(docs), sound)
=============================================================================

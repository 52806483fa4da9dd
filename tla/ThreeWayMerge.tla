---------------------------- MODULE ThreeWayMerge ----------------------------
(***************************************************************************)
(* The semantic three-way merge: the frozen v1 engine in                   *)
(* merge-engine/src/lib.rs, the constraint-, name- and order-aware v2      *)
(* engine in merge-engine/src/conflict_v2.rs, which strips what v1 refuses *)
(* and puts it back, and the admission and finalization of both in         *)
(* workspace-engine/src/lib.rs.                                            *)
(*                                                                         *)
(* A triple has one value for the base, one for ours and one for theirs.   *)
(* A fact is an option: {} is absence.                                     *)
(***************************************************************************)
EXTENDS SemanticDocument

Base == 1
Ours == 2
Theirs == 3
Sides == 1 .. 3

\* Choice, mutated: two different changes are no conflict, the last one wins.
LastWins(triple) ==
    IF triple[Ours] = triple[Base] THEN {triple[Theirs]} ELSE {triple[Ours]}

\* choose and choose_optional, of a triple: the option chosen, as an option
\* itself, which is {} when the sides conflict.
Choice(triple) ==
    IF triple[Ours] = triple[Theirs] THEN {triple[Ours]}
    ELSE IF triple[Ours] = triple[Base] THEN {triple[Theirs]}
    ELSE IF triple[Theirs] = triple[Base] THEN {triple[Ours]}
    ELSE {}

Chosen(triple) == The(Choice(triple))

\* Triples made of a triple of maps, of options or of records.
Ids(maps) == UNION {DOMAIN maps[i] : i \in Sides}
Entries(maps, id) == [i \in Sides |-> Entry(maps[i], id)]
Present(options) == \A i \in Sides : options[i] # {}
FacetOf(options, facet) == [i \in Sides |-> {x[facet] : x \in options[i]}]
FieldsIn(options) == [i \in Sides |-> IF options[i] = {} THEN <<>> ELSE The(options[i]).fields]
SchemasOf(docs) == [i \in Sides |-> docs[i].schemas]

\* A conflict: its target, the facet in conflict, and the facts of the sides.
Conflict(target, facet, facts) == <<target, facet, facts>>
Target(conflict) == conflict[1]
Facet(conflict) == conflict[2]
Facts(conflict) == conflict[3]

DocumentTarget == <<"document">>
SchemaTarget(s) == <<"schema", s>>
FieldTarget(s, f) == <<"schema_field", s, f>>
EntityTarget(e) == <<"entity", e>>
StoredTarget(e, s, f) == <<"stored_field", e, s, f>>

\* merge_scalar and merge_optional: a conflict shows the facts as given.
Clash(target, facet, triple, facts) ==
    IF Choice(triple) = {} THEN {Conflict(target, facet, facts)} ELSE {}

FacetClash(target, facet, options) ==
    Clash(target, facet, FacetOf(options, facet), FacetOf(options, facet))

ConflictKind(conflict) ==
    LET facts == Facts(conflict)
    IN CASE facts[Base] = {} /\ facts[Ours] # {} /\ facts[Theirs] # {} -> "concurrent_addition"
         [] facts[Base] # {} /\ (facts[Ours] = {}) # (facts[Theirs] = {}) -> "delete_modify"
         [] Present(facts) -> "concurrent_change"

-----------------------------------------------------------------------------
(* Canonical order of conflicts: subject, stable ids, facet, kind.         *)

SubjectRank(target) ==
    CASE target[1] = "document" -> 0
      [] target[1] = "schema" -> 1
      [] target[1] = "schema_field" -> 2
      [] target[1] = "entity" -> 3
      [] target[1] = "stored_field" -> 4

FacetRank(target, facet) ==
    CASE facet \in {"title", "subject", "stored_value"} -> 0
      [] facet = "key" -> 1
      [] facet \in {"type", "schema"} -> 2
      [] facet = "name" -> IF target[1] = "schema" THEN 2 ELSE 5
      [] facet = "required" -> 3
      [] facet = "constraint" -> 4
      [] facet = "order" -> 6

KindRank(kind) ==
    CASE kind = "concurrent_addition" -> 0
      [] kind = "delete_modify" -> 1
      [] kind = "concurrent_change" -> 2

\* Subjects of one rank have as many ids.
SortKey(conflict) ==
    <<SubjectRank(Target(conflict))>> \o Tail(Target(conflict))
      \o <<FacetRank(Target(conflict), Facet(conflict)), KindRank(ConflictKind(conflict))>>

Before(c, d) ==
    LET x == SortKey(c)
        y == SortKey(d)
    IN \E i \in DOMAIN x \intersect DOMAIN y :
         x[i] < y[i] /\ \A j \in 1 .. i - 1 : x[j] = y[j]

Canonical(conflicts) == SortSeq(conflicts, Before)

-----------------------------------------------------------------------------
(* The v1 engine.                                                          *)

\* SchemaFieldSubject, SchemaSubject and EntitySubject
FieldSubject(f) == [key |-> f.key, type |-> f.type, required |-> f.required]
SchemaSubject(s) ==
    [key |-> s.key, fields |-> [f \in DOMAIN s.fields |-> FieldSubject(s.fields[f])]]

FieldConflicts(s, fields) ==
    UNION {LET options == Entries(fields, f)
           IN IF Present(options)
              THEN UNION {FacetClash(FieldTarget(s, f), facet, options) :
                          facet \in {"key", "type", "required"}}
              ELSE Clash(FieldTarget(s, f), "subject", options,
                         [i \in Sides |-> {FieldSubject(x) : x \in options[i]}])
           : f \in Ids(fields)}

SchemaConflicts(schemas) ==
    UNION {LET options == Entries(schemas, s)
           IN IF Present(options)
              THEN FieldConflicts(s, FieldsIn(options)) \union FacetClash(SchemaTarget(s), "key", options)
              ELSE Clash(SchemaTarget(s), "subject", options,
                         [i \in Sides |-> {SchemaSubject(x) : x \in options[i]}])
           : s \in Ids(schemas)}

\* Qualified, mutated: a field is the same field whatever its schema.
Unqualified(options, s, f) ==
    [i \in Sides |-> UNION {Entry(e.fields, f) : e \in options[i]}]

\* qualified_field: the facts of an entity's cell belong to a schema.
Qualified(options, s, f) ==
    [i \in Sides |-> UNION {IF e.schema = s THEN Entry(e.fields, f) ELSE {} : e \in options[i]}]

QualifiedFields(options) ==
    UNION {UNION {{e.schema} \X DOMAIN e.fields : e \in options[i]} : i \in Sides}

EntityConflicts(entities) ==
    UNION {LET options == Entries(entities, e)
           IN IF Present(options)
              THEN FacetClash(EntityTarget(e), "schema", options)
                     \union FacetClash(EntityTarget(e), "key", options)
                     \union UNION {LET facts == Qualified(options, q[1], q[2])
                                   IN Clash(StoredTarget(e, q[1], q[2]), "stored_value", facts, facts)
                                   : q \in QualifiedFields(options)}
              ELSE Clash(EntityTarget(e), "subject", options, options)
           : e \in Ids(entities)}

TitleConflicts(docs) ==
    LET titles == [i \in Sides |-> {docs[i].title}]
    IN Clash(DocumentTarget, "title", titles, titles)

MergedIds(maps) ==
    {k \in Ids(maps) : Present(Entries(maps, k)) \/ Chosen(Entries(maps, k)) # {}}

MergedFields(fields) ==
    [f \in MergedIds(fields) |->
        LET options == Entries(fields, f)
            chosen(facet) == The(Chosen(FacetOf(options, facet)))
        IN IF Present(options)
           THEN [key |-> chosen("key"), type |-> chosen("type"), required |-> chosen("required"),
                 name |-> {}, constraint |-> {}, format |-> {}]
           ELSE The(Chosen(options))]

MergedSchemas(schemas) ==
    [s \in MergedIds(schemas) |->
        LET options == Entries(schemas, s)
        IN IF Present(options)
           THEN [key |-> The(Chosen(FacetOf(options, "key"))), name |-> {}, order |-> {},
                 fields |-> MergedFields(FieldsIn(options))]
           ELSE The(Chosen(options))]

\* The stored facts that are chosen for a continuing entity.
ChosenFields(options) ==
    {q \in QualifiedFields(options) : Chosen(Qualified(options, q[1], q[2])) # {}}

MergedEntities(entities) ==
    [e \in MergedIds(entities) |->
        LET options == Entries(entities, e)
            schema == The(Chosen(FacetOf(options, "schema")))
        IN IF Present(options)
           THEN [key |-> The(Chosen(FacetOf(options, "key"))), schema |-> schema,
                 fields |-> [f \in {q[2] : q \in {q \in ChosenFields(options) : q[1] = schema}} |->
                                The(Chosen(Qualified(options, schema, f)))]]
           ELSE The(Chosen(options))]

\* unmaterialized_fields: chosen facts that belong to another schema than the
\* one chosen for their entity.
Unmaterialized(entities) ==
    UNION {LET options == Entries(entities, e)
               schema == The(Chosen(FacetOf(options, "schema")))
           IN IF Present(options)
              THEN {StoredTarget(e, q[1], q[2]) :
                    q \in {q \in ChosenFields(options) : q[1] # schema}}
              ELSE {}
           : e \in Ids(entities)}

Refused(reason) == [status |-> "refused", reason |-> reason]
Conflicted(conflicts) == [status |-> "conflicted", conflicts |-> conflicts]
Merged(document, unmaterialized) ==
    [status |-> "merged", document |-> document, unmaterialized |-> unmaterialized]

EntitiesOf(docs) == [i \in Sides |-> docs[i].entities]

MergeConflicts(docs) ==
    TitleConflicts(docs) \union SchemaConflicts(SchemasOf(docs)) \union EntityConflicts(EntitiesOf(docs))

\* merge
Merge(docs) ==
    LET conflicts == MergeConflicts(docs)
    IN CASE \E i \in Sides : HasFormats(docs[i]) -> Refused("number_format")
         [] \E i \in Sides : HasOrders(docs[i]) -> Refused("field_order")
         [] \E i \in Sides : HasNames(docs[i]) -> Refused("display_name")
         [] \E i \in Sides : HasConstraints(docs[i]) -> Refused("constraint")
         [] \E i \in Sides : docs[i].definitions # docs[Base].definitions -> Refused("definitions")
         [] OTHER ->
              IF conflicts # {} THEN Conflicted(Canonical(SetToSeq(conflicts)))
              ELSE Merged([id |-> docs[Base].id,
                           title |-> The(Chosen([i \in Sides |-> {docs[i].title}])),
                           schemas |-> MergedSchemas(SchemasOf(docs)),
                           entities |-> MergedEntities(EntitiesOf(docs)),
                           definitions |-> docs[Base].definitions],
                          Unmaterialized(EntitiesOf(docs)))
=============================================================================

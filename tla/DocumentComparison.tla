-------------------------- MODULE DocumentComparison --------------------------
(***************************************************************************)
(* What two documents are told to differ in: the canonical semantic delta  *)
(* (diff-engine/src/canonical_delta.rs) and the older difference, v1, with *)
(* its smaller vocabulary (diff-engine/src/lib.rs).  Texts made of either  *)
(* are left out, and so is the impact on formulas, which is derived.       *)
(***************************************************************************)
EXTENDS SemanticDocument

\* A fact about a subject: what it was and what it is, options.
Fact(rank, subject, kind, before, after) == <<rank, subject, kind, before, after>>
Rank(fact) == fact[1]
Place(fact) == fact[2]
About(fact) == fact[3]
Was(fact) == fact[4]
Is(fact) == fact[5]

NotCompared(reason) == [status |-> "refused", reason |-> reason]
Compared(facts) == [status |-> "compared", facts |-> facts]

Keys(before, after) == DOMAIN before \union DOMAIN after

\* Something that is on one side only, told whole.
PresenceFact(rank, subject, before, after) ==
    IF (before = {}) = (after = {}) THEN {}
    ELSE {Fact(rank, subject, IF before = {} THEN "created" ELSE "deleted", before, after)}

\* Something on both sides, told facet by facet.
FacetFacts(rank, subject, facets, before, after) ==
    {Fact(rank, subject, c[3], {c[1][c[3]]}, {c[2][c[3]]}) :
     c \in {c \in before \X after \X facets : c[1][c[3]] # c[2][c[3]]}}

-----------------------------------------------------------------------------
(* The canonical delta.                                                    *)

Variants ==
    [schema |-> <<"created", "deleted", "key", "name", "order">>,
     field  |-> <<"created", "deleted", "key", "type", "required", "constraint", "name", "format">>,
     entity |-> <<"created", "deleted", "key", "schema">>,
     stored |-> <<"created", "changed", "cleared">>,
     definition |-> <<"created", "deleted", "changed">>]
SubjectOfRank == <<"schema", "field", "entity", "stored", "definition">>
Variant(fact) ==
    IF Rank(fact) = 0 THEN 0
    ELSE CHOOSE i \in DOMAIN Variants[SubjectOfRank[Rank(fact)]] :
           Variants[SubjectOfRank[Rank(fact)]][i] = About(fact)

\* CanonicalDirectFact::ordering_key
OrderingKey(fact) == <<Rank(fact)>> \o Place(fact) \o <<Variant(fact)>>
Precedes(a, b) ==
    LET k == OrderingKey(a)
        l == OrderingKey(b)
    IN \E i \in DOMAIN k \intersect DOMAIN l :
         k[i] < l[i] /\ \A j \in 1..(i - 1) : k[j] = l[j]

FieldFacts(s, f, before, after) ==
    PresenceFact(2, <<s, f>>, before, after)
    \union FacetFacts(2, <<s, f>>, {"key", "name", "type", "required", "format", "constraint"},
                      before, after)

SchemaFacts(s, before, after) ==
    LET fields(old, new) ==
            UNION {FieldFacts(s, f, Entry(old.fields, f), Entry(new.fields, f)) :
                   f \in Keys(old.fields, new.fields)}
    IN PresenceFact(1, <<s>>, before, after)
       \union FacetFacts(1, <<s>>, {"key", "name", "order"}, before, after)
       \union (UNION {fields(c[1], c[2]) : c \in before \X after})

\* StoredFacts, mutated: a value that stays where its column's id is the same
\* in both tables goes unsaid.
StoredFactsById(e, old, new) ==
    {Fact(4, <<e, new.schema, f>>,
          IF f \notin DOMAIN old.fields THEN "created"
          ELSE IF f \notin DOMAIN new.fields THEN "cleared" ELSE "changed",
          Entry(old.fields, f), Entry(new.fields, f)) :
     f \in {f \in Keys(old.fields, new.fields) : Entry(old.fields, f) # Entry(new.fields, f)}}

\* A value belongs to a column of one table: in another table it is another.
StoredFacts(e, old, new) ==
    LET at(x, q) == IF x.schema = q[1] THEN Entry(x.fields, q[2]) ELSE {}
        columns == {old.schema, new.schema} \X Keys(old.fields, new.fields)
        kind(q) == IF at(old, q) = {} THEN "created"
                   ELSE IF at(new, q) = {} THEN "cleared" ELSE "changed"
    IN {Fact(4, <<e>> \o q, kind(q), at(old, q), at(new, q)) :
        q \in {q \in columns : at(old, q) # at(new, q)}}

EntityFacts(e, before, after) ==
    PresenceFact(3, <<e>>, before, after)
    \union FacetFacts(3, <<e>>, {"key", "schema"}, before, after)
    \union (UNION {StoredFacts(e, c[1], c[2]) : c \in before \X after})

DefinitionFacts(before, after) ==
    PresenceFact(5, <<>>, before, after)
    \union {Fact(5, <<>>, "changed", before, after) : c \in {c \in before \X after : c[1] # c[2]}}

DirectFacts(before, after) ==
    {Fact(0, <<>>, "title", {before.title}, {after.title}) :
     x \in {x \in {before} : x.title # after.title}}
    \union (UNION {SchemaFacts(s, Entry(before.schemas, s), Entry(after.schemas, s)) :
                   s \in Keys(before.schemas, after.schemas)})
    \union (UNION {EntityFacts(e, Entry(before.entities, e), Entry(after.entities, e)) :
                   e \in Keys(before.entities, after.entities)})
    \union DefinitionFacts(before.definitions, after.definitions)

\* canonical_delta
CanonicalDelta(before, after) ==
    CASE before.id # after.id -> NotCompared("different_document")
      [] ~Valid(before) \/ ~Valid(after) -> NotCompared("invalid_input")
      [] ~DefinitionsBound(before) \/ ~DefinitionsBound(after) -> NotCompared("definitions")
      [] OTHER -> Compared(SetToSortSeq(DirectFacts(before, after), Precedes))

-----------------------------------------------------------------------------
(* The v1 difference.                                                      *)

\* UnsupportedByV1, mutated: only a side's own features are looked at, not
\* those the other side alone has.
UnsupportedBefore(before, after) ==
    CASE HasFormats(before) -> {"number_format"}
      [] HasOrders(before) -> {"field_order"}
      [] HasNames(before) -> {"display_name"}
      [] HasConstraints(before) -> {"constraint"}
      [] before.definitions # after.definitions -> {"definitions"}
      [] OTHER -> {}

\* require_diff_supported: the first thing either side has that v1 has no words
\* for, an option.
UnsupportedByV1(before, after) ==
    CASE HasFormats(before) \/ HasFormats(after) -> {"number_format"}
      [] HasOrders(before) \/ HasOrders(after) -> {"field_order"}
      [] HasNames(before) \/ HasNames(after) -> {"display_name"}
      [] HasConstraints(before) \/ HasConstraints(after) -> {"constraint"}
      [] before.definitions # after.definitions -> {"definitions"}
      [] OTHER -> {}

\* compare_schema: a type or a requirement is told with the whole field.
FieldChanges(s, f, before, after) ==
    PresenceFact(2, <<s, f>>, before, after)
    \union FacetFacts(2, <<s, f>>, {"key"}, before, after)
    \union {Fact(2, <<s, f>>, "definition", before, after) :
            c \in {c \in before \X after : c[1].type # c[2].type \/ c[1].required # c[2].required}}

SchemaChanges(s, before, after) ==
    LET fields(old, new) ==
            UNION {FieldChanges(s, f, Entry(old.fields, f), Entry(new.fields, f)) :
                   f \in Keys(old.fields, new.fields)}
    IN PresenceFact(1, <<s>>, before, after)
       \union FacetFacts(1, <<s>>, {"key"}, before, after)
       \union (UNION {fields(c[1], c[2]) : c \in before \X after})

\* compare_entity: a cell is told by its row and column alone, and of a row
\* that came or went nothing but that.
EntityChanges(e, before, after) ==
    LET cells(old, new) ==
            {Fact(4, <<e, f>>, "value", Entry(old.fields, f), Entry(new.fields, f)) :
             f \in {f \in Keys(old.fields, new.fields) : Entry(old.fields, f) # Entry(new.fields, f)}}
        presence == PresenceFact(3, <<e>>, before, after)
    IN {Fact(3, <<e>>, About(fact), {}, {}) : fact \in presence}
       \union FacetFacts(3, <<e>>, {"key", "schema"}, before, after)
       \union (UNION {cells(c[1], c[2]) : c \in before \X after})

SemanticChanges(before, after) ==
    FacetFacts(0, <<>>, {"id", "title"}, {before}, {after})
    \union (UNION {SchemaChanges(s, Entry(before.schemas, s), Entry(after.schemas, s)) :
                   s \in Keys(before.schemas, after.schemas)})
    \union (UNION {EntityChanges(e, Entry(before.entities, e), Entry(after.entities, e)) :
                   e \in Keys(before.entities, after.entities)})

\* compare_documents
CompareDocuments(before, after) ==
    CASE ~Valid(before) \/ ~Valid(after) -> NotCompared("invalid_input")
      [] UnsupportedByV1(before, after) # {} -> NotCompared(The(UnsupportedByV1(before, after)))
      [] OTHER -> Compared(SemanticChanges(before, after))
=============================================================================

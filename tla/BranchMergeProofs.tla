--------------------------- MODULE BranchMergeProofs ---------------------------
(***************************************************************************)
(* Proved for every document and every edit that validation admits:        *)
(*   - MergesFollow: each fact of a merged document is what both branches  *)
(*     have of it, or what the one that changed it has;                    *)
(*   - OneSidedMerge: a merge in which one branch changed nothing, or both *)
(*     made the same of the base, is that branch, explicit orders and all; *)
(*   - V2Agrees: where v1 applies, v2 comes to the same.                   *)
(***************************************************************************)
EXTENDS BranchMerge, FiniteSetTheorems, WellFoundedInduction, SequenceTheorems, TLAPS

\* One side is the base, or the sides are alike.
Agreeing(triple) ==
    \/ triple[Ours] = triple[Theirs]
    \/ triple[Ours] = triple[Base]
    \/ triple[Theirs] = triple[Base]

\* Of alike values choose always chooses.
LEMMA AgreeingIsChosen ==
    ASSUME NEW triple, Agreeing(triple)
    PROVE  Choice(triple) # {}
  BY DEF Agreeing, Choice

\* Nor do they clash in merge_scalar or merge_optional.
LEMMA AgreeingNeverClashes ==
    ASSUME NEW triple, Agreeing(triple), NEW target, NEW facet, NEW facts
    PROVE  Clash(target, facet, triple, facts) = {}
  BY AgreeingIsChosen DEF Clash

\* What is taken out of alike maps and records is alike.
LEMMA AgreeingEntries ==
    ASSUME NEW maps, Agreeing(maps), NEW id
    PROVE  Agreeing(Entries(maps, id))
  BY DEF Agreeing, Entries, Sides, Base, Ours, Theirs

\* The same for the values of one facet.
LEMMA AgreeingFacets ==
    ASSUME NEW options, Agreeing(options), NEW facet
    PROVE  Agreeing(FacetOf(options, facet))
  BY DEF Agreeing, FacetOf, Sides, Base, Ours, Theirs

\* The same for the fields of alike schemas.
LEMMA AgreeingFields ==
    ASSUME NEW options, Agreeing(options)
    PROVE  Agreeing(FieldsIn(options))
  BY DEF Agreeing, FieldsIn, Sides, Base, Ours, Theirs

\* The same for the facts of one qualified field.
LEMMA AgreeingQualified ==
    ASSUME NEW options, Agreeing(options), NEW s, NEW f
    PROVE  Agreeing(Qualified(options, s, f))
  BY DEF Agreeing, Qualified, Sides, Base, Ours, Theirs

\* So no facet of alike records clashes.
LEMMA AgreeingFacetsNeverClash ==
    ASSUME NEW options, Agreeing(options), NEW target, NEW facet
    PROVE  FacetClash(target, facet, options) = {}
  BY AgreeingFacets, AgreeingNeverClashes DEF FacetClash

\* No field is in conflict (merge_schema_fields).
LEMMA NoFieldConflicts ==
    ASSUME NEW s, NEW fields, Agreeing(fields)
    PROVE  FieldConflicts(s, fields) = {}
<1> DEFINE Options(f) == Entries(fields, f)
           Facets(f) == UNION {FacetClash(FieldTarget(s, f), facet, Options(f)) :
                               facet \in {"key", "type", "required"}}
           Subject(f) == Clash(FieldTarget(s, f), "subject", Options(f),
                               [i \in Sides |-> {FieldSubject(x) : x \in Options(f)[i]}])
<1>1. ASSUME NEW f PROVE Facets(f) = {} /\ Subject(f) = {}
  <2>1. Agreeing(Options(f))
    BY AgreeingEntries
  <2>2. Subject(f) = {}
    BY <2>1, AgreeingNeverClashes
  <2>3. \A facet : FacetClash(FieldTarget(s, f), facet, Options(f)) = {}
    BY <2>1, AgreeingFacetsNeverClash
  <2> QED
    BY <2>2, <2>3
<1> QED
  BY <1>1 DEF FieldConflicts

\* No schema does (merge_schemas).
LEMMA NoSchemaConflicts ==
    ASSUME NEW schemas, Agreeing(schemas)
    PROVE  SchemaConflicts(schemas) = {}
<1> DEFINE Options(s) == Entries(schemas, s)
           Key(s) == FacetClash(SchemaTarget(s), "key", Options(s))
           Subject(s) == Clash(SchemaTarget(s), "subject", Options(s),
                               [i \in Sides |-> {SchemaSubject(x) : x \in Options(s)[i]}])
<1>1. ASSUME NEW s
      PROVE  FieldConflicts(s, FieldsIn(Options(s))) = {} /\ Key(s) = {} /\ Subject(s) = {}
  <2>1. Agreeing(Options(s))
    BY AgreeingEntries
  <2>2. Agreeing(FieldsIn(Options(s)))
    BY <2>1, AgreeingFields
  <2>3. FieldConflicts(s, FieldsIn(Options(s))) = {}
    BY <2>2, NoFieldConflicts
  <2>4. Key(s) = {}
    BY <2>1, AgreeingFacetsNeverClash
  <2>5. Subject(s) = {}
    BY <2>1, AgreeingNeverClashes
  <2> QED
    BY <2>3, <2>4, <2>5
<1> QED
  BY <1>1 DEF SchemaConflicts

\* No entity and no stored value does (merge_entities).
LEMMA NoEntityConflicts ==
    ASSUME NEW entities, Agreeing(entities)
    PROVE  EntityConflicts(entities) = {}
<1> DEFINE Options(e) == Entries(entities, e)
           Cell(e, q) == LET facts == Qualified(Options(e), q[1], q[2])
                         IN Clash(StoredTarget(e, q[1], q[2]), "stored_value", facts, facts)
           Subject(e) == Clash(EntityTarget(e), "subject", Options(e), Options(e))
<1>1. ASSUME NEW e
      PROVE  /\ FacetClash(EntityTarget(e), "schema", Options(e)) = {}
             /\ FacetClash(EntityTarget(e), "key", Options(e)) = {}
             /\ \A q : Cell(e, q) = {}
             /\ Subject(e) = {}
  <2>1. Agreeing(Options(e))
    BY AgreeingEntries
  <2>2. /\ FacetClash(EntityTarget(e), "schema", Options(e)) = {}
        /\ FacetClash(EntityTarget(e), "key", Options(e)) = {}
    BY <2>1, AgreeingFacetsNeverClash
  <2>3. ASSUME NEW q PROVE Cell(e, q) = {}
    BY <2>1, AgreeingQualified, AgreeingNeverClashes
  <2>4. Subject(e) = {}
    BY <2>1, AgreeingNeverClashes
  <2> QED
    BY <2>2, <2>3, <2>4
<1> QED
  BY <1>1 DEF EntityConflicts

\* The title does not (merge).
LEMMA NoTitleConflicts ==
    ASSUME NEW docs, Agreeing(docs)
    PROVE  TitleConflicts(docs) = {}
<1>1. Agreeing([i \in Sides |-> {docs[i].title}])
  BY DEF Agreeing, Sides, Base, Ours, Theirs
<1> QED
  BY <1>1, AgreeingNeverClashes DEF TitleConflicts

\* Nothing of alike documents is in conflict.
LEMMA NoMergeConflicts ==
    ASSUME NEW docs, Agreeing(docs)
    PROVE  MergeConflicts(docs) = {}
<1>1. Agreeing(SchemasOf(docs)) /\ Agreeing(EntitiesOf(docs))
  BY DEF Agreeing, SchemasOf, EntitiesOf, Sides, Base, Ours, Theirs
<1> QED
  BY <1>1, NoTitleConflicts, NoSchemaConflicts, NoEntityConflicts DEF MergeConflicts

-----------------------------------------------------------------------------
\* v2.  What is stripped of alike documents leaves alike documents.
LEMMA AgreeingStripped ==
    ASSUME NEW docs, Agreeing(docs)
    PROVE  Agreeing([i \in Sides |-> Stripped(docs[i])])
  BY DEF Agreeing, Sides, Base, Ours, Theirs

\* A field looked up in alike maps of schemas is alike.
LEMMA AgreeingFieldEntries ==
    ASSUME NEW schemas, Agreeing(schemas), NEW s, NEW f
    PROVE  Agreeing(FieldEntries(schemas, s, f))
  BY AgreeingEntries, AgreeingFields DEF FieldEntries

\* Presence does not clash (subject_presence_conflicts).
LEMMA AgreeingSubjectsNeverClash ==
    ASSUME NEW options, Agreeing(options), NEW target, NEW facts
    PROVE  SubjectClash(target, options, facts) = {}
  BY AgreeingNeverClashes DEF SubjectClash

\* No subject is in conflict (add_complete_subject_conflicts).
LEMMA NoSubjectConflicts ==
    ASSUME NEW schemas, Agreeing(schemas)
    PROVE  SubjectConflicts(schemas) = {}
<1> DEFINE Schema(s) == LET options == Entries(schemas, s)
                        IN SubjectClash(SchemaTarget(s), options,
                                        [i \in Sides |-> {SchemaSubjectV2(x) : x \in options[i]}])
           Field(s, f) == LET options == FieldEntries(schemas, s, f)
                          IN SubjectClash(FieldTarget(s, f), options,
                                          [i \in Sides |-> {FieldSubjectV2(x) : x \in options[i]}])
<1>1. \A s : Schema(s) = {}
  BY AgreeingEntries, AgreeingSubjectsNeverClash
<1>2. \A s, f : Field(s, f) = {}
  BY AgreeingFieldEntries, AgreeingSubjectsNeverClash
<1>3. SubjectConflicts(schemas) =
        (UNION {Schema(s) : s \in Ids(schemas)})
          \union (UNION {UNION {Field(s, f) : f \in Ids(FieldsIn(Entries(schemas, s)))} :
                         s \in Continuing(schemas)})
  BY DEF SubjectConflicts
<1> HIDE DEF Schema, Field
<1> QED
  BY <1>1, <1>2, <1>3

\* No constraint and no name is (add_constraint_conflicts, add_name_conflicts).
LEMMA NoConstraintOrNameConflicts ==
    ASSUME NEW schemas, Agreeing(schemas)
    PROVE  ConstraintConflicts(schemas) = {} /\ NameConflicts(schemas) = {}
<1>1. ASSUME NEW s, NEW f, NEW facet
      PROVE  FacetClash(FieldTarget(s, f), facet, FieldEntries(schemas, s, f)) = {}
  BY AgreeingFieldEntries, AgreeingFacetsNeverClash
<1>2. ASSUME NEW s, NEW facet
      PROVE  FacetClash(SchemaTarget(s), facet, Entries(schemas, s)) = {}
  BY AgreeingEntries, AgreeingFacetsNeverClash
<1> QED
  BY <1>1, <1>2 DEF ConstraintConflicts, NameConflicts

\* Without explicit orders no side edits one.
LEMMA NoOrderEditors ==
    ASSUME NEW docs, \A i \in Sides : ~HasOrders(docs[i]), NEW s
    PROVE  OrderEditors(Entries(SchemasOf(docs), s)) = {}
<1>1. ASSUME NEW i \in Sides, NEW x \in Entries(SchemasOf(docs), s)[i]
      PROVE  x.order = {}
  BY <1>1 DEF Entries, Entry, SchemasOf, HasOrders, Range
<1>2. \A old, new : old.order = {} /\ new.order = {} => ~OrderEdited(old, new)
  BY DEF OrderEdited
<1> QED
  BY <1>1, <1>2 DEF OrderEditors, Sides, Base, Ours, Theirs

\* Orders nobody edited, and alike where both sides have them, do not conflict.
LEMMA UneditedOrdersNeverConflict ==
    ASSUME NEW options, OrderEditors(options) = {},
           FacetOf(options, "order")[Ours] # {} /\ FacetOf(options, "order")[Theirs] # {} =>
             FacetOf(options, "order")[Ours] = FacetOf(options, "order")[Theirs]
    PROVE  ~OrdersConflict(options)
  BY DEF OrdersConflict

\* No order is in conflict where there is none (add_field_order_conflicts).
LEMMA NoOrderConflicts ==
    ASSUME NEW docs, \A i \in Sides : ~HasOrders(docs[i])
    PROVE  OrderConflicts(SchemasOf(docs)) = {}
<1> DEFINE options(s) == Entries(SchemasOf(docs), s)
           orders(s) == FacetOf(options(s), "order")
<1>1. ASSUME NEW s PROVE ~OrdersConflict(options(s))
  <2>1. OrderEditors(options(s)) = {}
    BY NoOrderEditors
  <2>2. ASSUME NEW i \in Sides, orders(s)[i] # {} PROVE orders(s)[i] = {{}}
    <3>1. \A x \in options(s)[i] : x.order = {}
      BY DEF Entries, Entry, SchemasOf, HasOrders, Range
    <3> QED
      BY <2>2, <3>1 DEF FacetOf
  <2>3. Ours \in Sides /\ Theirs \in Sides
    BY DEF Sides, Ours, Theirs
  <2> HIDE DEF options
  <2> QED
    BY <2>1, <2>2, <2>3, UneditedOrdersNeverConflict
<1> QED
  BY <1>1 DEF OrderConflicts

-----------------------------------------------------------------------------
\* What is shown is the merge of the branches as they are.
OutcomeIsOfDocs ==
    \A o \in outcome :
        o.result = IF o.contract = "v1" THEN MergeDocuments(Docs) ELSE MergeDocumentsV2(Docs)

\* Every outcome is that of the branches as they are (merge_documents of the CLI).
THEOREM OutcomeOfDocs == Spec => []OutcomeIsOfDocs
<1>1. Init => OutcomeIsOfDocs
  BY DEF Init, OutcomeIsOfDocs
<1>2. OutcomeIsOfDocs /\ [Next]_vars => OutcomeIsOfDocs'
  <2> SUFFICES ASSUME OutcomeIsOfDocs, [Next]_vars PROVE OutcomeIsOfDocs'
    OBVIOUS
  <2>1. CASE EditOurs
    BY <2>1 DEF EditOurs, OutcomeIsOfDocs
  <2>2. CASE EditTheirs
    BY <2>2 DEF EditTheirs, OutcomeIsOfDocs
  <2>3. CASE MergeBranches
    BY <2>3 DEF MergeBranches, OutcomeIsOfDocs, Docs
  <2>4. CASE PreviewMergeV2
    BY <2>4 DEF PreviewMergeV2, OutcomeIsOfDocs, Docs
  <2>5. CASE WriteMerged
    BY <2>5 DEF WriteMerged, OutcomeIsOfDocs
  <2>6. CASE Dismiss
    BY <2>6 DEF Dismiss, OutcomeIsOfDocs
  <2>7. CASE UNCHANGED vars
    BY <2>7 DEF vars, OutcomeIsOfDocs, Docs
  <2> QED
    BY <2>1, <2>2, <2>3, <2>4, <2>5, <2>6, <2>7 DEF Next
<1> QED
  BY <1>1, <1>2, PTL DEF Spec

-----------------------------------------------------------------------------
\* A fact of a merge is what each side that changed it made of it, and that of
\* the base where none did.
Follows(option, triple) ==
    LET changers == {i \in Sides : triple[i] # triple[Base]}
    IN \A i \in IF changers = {} THEN {Base} ELSE changers : option = triple[i]

\* The three sides.
LEMMA SidesAre ==
    /\ Sides = {Base, Ours, Theirs}
    /\ Base # Ours /\ Base # Theirs /\ Ours # Theirs
    /\ Base \in Sides /\ Ours \in Sides /\ Theirs \in Sides
  BY DEF Sides, Base, Ours, Theirs

\* What an option of one value holds.
LEMMA TheOne ==
    ASSUME NEW x
    PROVE  The({x}) = x
  BY DEF The

\* choose and choose_optional choose the value of a side.
LEMMA ChoiceIs ==
    ASSUME NEW triple, Choice(triple) # {}
    PROVE  \E i \in Sides : Choice(triple) = {triple[i]} /\ Chosen(triple) = triple[i]
<1>1. Choice(triple) \in {{triple[Ours]}, {triple[Theirs]}}
  BY DEF Choice
<1> QED
  BY <1>1, TheOne, SidesAre DEF Chosen

\* The same, side by side.
LEMMA FollowsIs ==
    ASSUME NEW option, NEW triple
    PROVE  Follows(option, triple) <=>
             /\ triple[Ours] # triple[Base] => option = triple[Ours]
             /\ triple[Theirs] # triple[Base] => option = triple[Theirs]
             /\ triple[Ours] = triple[Base] /\ triple[Theirs] = triple[Base] => option = triple[Base]
<1> DEFINE changers == {i \in Sides : triple[i] # triple[Base]}
<1>1. \A i : i \in changers <=> (i = Ours \/ i = Theirs) /\ triple[i] # triple[Base]
  BY SidesAre
<1>2. Follows(option, triple) <=> \A i \in IF changers = {} THEN {Base} ELSE changers : option = triple[i]
  BY DEF Follows
<1> HIDE DEF changers
<1>3. changers = {} <=> triple[Ours] = triple[Base] /\ triple[Theirs] = triple[Base]
  BY <1>1
<1> QED
  BY <1>1, <1>2, <1>3

\* A choice follows the sides.
LEMMA ChoiceFollows ==
    ASSUME NEW triple, Choice(triple) # {}
    PROVE  Follows(Chosen(triple), triple)
<1>1. Chosen(triple) = IF triple[Ours] = triple[Theirs] THEN triple[Ours]
                       ELSE IF triple[Ours] = triple[Base] THEN triple[Theirs] ELSE triple[Ours]
  <2>1. The({triple[Ours]}) = triple[Ours] /\ The({triple[Theirs]}) = triple[Theirs]
    BY TheOne
  <2> QED
    BY <2>1 DEF Chosen, Choice
<1>2. triple[Ours] # triple[Theirs] /\ triple[Ours] # triple[Base] => triple[Theirs] = triple[Base]
  BY DEF Choice
<1> QED
  BY <1>1, <1>2, FollowsIs

\* So does any part of what follows them.
LEMMA FollowsPart ==
    ASSUME NEW option, NEW triple, Follows(option, triple), NEW part, NEW parts,
           \A i \in Sides : triple[i] = triple[Base] => parts[i] = parts[Base],
           \A i \in Sides : option = triple[i] => part = parts[i]
    PROVE  Follows(part, parts)
  BY FollowsIs, SidesAre

\* Where there is a choice of a whole there is one of any part of it, and one
\* side gives both.
LEMMA ChoiceOfPart ==
    ASSUME NEW triple, Choice(triple) # {}, NEW parts,
           \A i, j \in Sides : triple[i] = triple[j] => parts[i] = parts[j]
    PROVE  /\ Choice(parts) # {}
           /\ \E i \in Sides : Chosen(triple) = triple[i] /\ Chosen(parts) = parts[i]
  BY TheOne, SidesAre DEF Choice, Chosen

-----------------------------------------------------------------------------
\* The definition of a field, as an option; and a stored value.
FieldOf(schemas, s, f) == UNION {Entry(x.fields, f) : x \in Entry(schemas, s)}
StoredIn(entities, e, s, f) ==
    UNION {IF x.schema = s THEN Entry(x.fields, f) ELSE {} : x \in Entry(entities, e)}

\* The names of the direct facts.
SchemaFactNames == {"key", "name"}
FieldFactNames == {"key", "name", "type", "required", "constraint", "format"}
EntityFactNames == {"key", "schema"}

IsFactName(c) ==
    \/ c = <<"title">>
    \/ \E s : \E facet \in SchemaFactNames : c = <<"schema", s, facet>>
    \/ \E s, f : \E facet \in FieldFactNames : c = <<"field", s, f, facet>>
    \/ \E e : \E facet \in EntityFactNames : c = <<"entity", e, facet>>
    \/ \E e, s, f : c = <<"stored", e, s, f>>

\* What a document holds under each name.
LEMMA FactsAre ==
    ASSUME NEW d
    PROVE  /\ Entry(FactsOf(d), <<"title">>) = {d.title}
           /\ \A s : \A facet \in SchemaFactNames :
                Entry(FactsOf(d), <<"schema", s, facet>>) = {x[facet] : x \in Entry(d.schemas, s)}
           /\ \A s, f : \A facet \in FieldFactNames :
                Entry(FactsOf(d), <<"field", s, f, facet>>) = {x[facet] : x \in FieldOf(d.schemas, s, f)}
           /\ \A e : \A facet \in EntityFactNames :
                Entry(FactsOf(d), <<"entity", e, facet>>) = {x[facet] : x \in Entry(d.entities, e)}
           /\ \A e, s, f :
                Entry(FactsOf(d), <<"stored", e, s, f>>) = StoredIn(d.entities, e, s, f)
           /\ \A c \in DOMAIN FactsOf(d) : IsFactName(c)
<1> DEFINE schemas == UNION {{<<"schema", s, facet>> : facet \in {"key", "name"}} : s \in DOMAIN d.schemas}
           fields == UNION {{<<"field", s, f, facet>> :
                               f \in DOMAIN d.schemas[s].fields,
                               facet \in {"key", "name", "type", "required", "constraint", "format"}} :
                            s \in DOMAIN d.schemas}
           entities == UNION {{<<"entity", e, facet>> : facet \in {"key", "schema"}} : e \in DOMAIN d.entities}
           stored == {<<"stored", cell[1], d.entities[cell[1]].schema, cell[2]>> : cell \in Cells(d)}
           at(c) == CASE c[1] = "title" -> d.title
                      [] c[1] = "schema" -> d.schemas[c[2]][c[3]]
                      [] c[1] = "field" -> d.schemas[c[2]].fields[c[3]][c[4]]
                      [] c[1] = "entity" -> d.entities[c[2]][c[3]]
                      [] c[1] = "stored" -> d.entities[c[2]].fields[c[4]]
           all == {<<"title">>} \union schemas \union fields \union entities \union stored
<1>1. FactsOf(d) = [c \in all |-> at(c)]
  BY DEF FactsOf
<1>2. /\ \A s, facet : <<"schema", s, facet>> \in schemas <=> s \in DOMAIN d.schemas /\ facet \in SchemaFactNames
      /\ \A c \in schemas : \E s : \E facet \in SchemaFactNames : c = <<"schema", s, facet>>
  BY DEF SchemaFactNames
<1>3. /\ \A s, f, facet : <<"field", s, f, facet>> \in fields <=>
           s \in DOMAIN d.schemas /\ f \in DOMAIN d.schemas[s].fields /\ facet \in FieldFactNames
      /\ \A c \in fields : \E s, f : \E facet \in FieldFactNames : c = <<"field", s, f, facet>>
  BY DEF FieldFactNames
<1>4. /\ \A e, facet : <<"entity", e, facet>> \in entities <=> e \in DOMAIN d.entities /\ facet \in EntityFactNames
      /\ \A c \in entities : \E e : \E facet \in EntityFactNames : c = <<"entity", e, facet>>
  BY DEF EntityFactNames
<1>5. /\ \A e, s, f : <<"stored", e, s, f>> \in stored <=>
           e \in DOMAIN d.entities /\ f \in DOMAIN d.entities[e].fields /\ s = d.entities[e].schema
      /\ \A c \in stored : \E e, s, f : c = <<"stored", e, s, f>>
  <2>1. Cells(d) = UNION {{e} \X DOMAIN d.entities[e].fields : e \in DOMAIN d.entities}
    BY DEF Cells
  <2>2. \A cell : cell \in Cells(d) <=>
          \E e \in DOMAIN d.entities : \E f \in DOMAIN d.entities[e].fields : cell = <<e, f>>
    BY <2>1
  <2>3. \A c : c \in stored <=>
          \E e \in DOMAIN d.entities : \E f \in DOMAIN d.entities[e].fields :
            c = <<"stored", e, d.entities[e].schema, f>>
    <3>1. ASSUME NEW c \in stored
          PROVE  \E e \in DOMAIN d.entities : \E f \in DOMAIN d.entities[e].fields :
                   c = <<"stored", e, d.entities[e].schema, f>>
      <4>1. PICK cell \in Cells(d) : c = <<"stored", cell[1], d.entities[cell[1]].schema, cell[2]>>
        OBVIOUS
      <4>2. PICK e \in DOMAIN d.entities : \E f \in DOMAIN d.entities[e].fields : cell = <<e, f>>
        BY <2>2
      <4>3. PICK f \in DOMAIN d.entities[e].fields : cell = <<e, f>>
        BY <4>2
      <4>4. cell[1] = e /\ cell[2] = f
        BY <4>3
      <4> QED
        BY <4>1, <4>4
    <3>2. ASSUME NEW e \in DOMAIN d.entities, NEW f \in DOMAIN d.entities[e].fields
          PROVE  <<"stored", e, d.entities[e].schema, f>> \in stored
      <4>1. <<e, f>> \in Cells(d) /\ <<e, f>>[1] = e /\ <<e, f>>[2] = f
        BY <2>2
      <4> QED
        BY <4>1
    <3> QED
      BY <3>1, <3>2
  <2> HIDE DEF stored
  <2> QED
    BY <2>3
<1> HIDE DEF schemas, fields, entities, stored
<1>6. /\ <<"title">> \in all
      /\ \A s, facet : <<"schema", s, facet>> \in all <=> <<"schema", s, facet>> \in schemas
      /\ \A s, f, facet : <<"field", s, f, facet>> \in all <=> <<"field", s, f, facet>> \in fields
      /\ \A e, facet : <<"entity", e, facet>> \in all <=> <<"entity", e, facet>> \in entities
      /\ \A e, s, f : <<"stored", e, s, f>> \in all <=> <<"stored", e, s, f>> \in stored
  <2>1. /\ \A c \in schemas : c[1] = "schema"
        /\ \A c \in fields : c[1] = "field"
        /\ \A c \in entities : c[1] = "entity"
        /\ \A c \in stored : c[1] = "stored"
    BY <1>2, <1>3, <1>4, <1>5
  <2>2. \A c : c \in all <=> c = <<"title">> \/ c \in schemas \/ c \in fields \/ c \in entities \/ c \in stored
    OBVIOUS
  <2> HIDE DEF all
  <2>3. /\ \A s, facet : <<"schema", s, facet>>[1] = "schema"
        /\ \A s, f, facet : <<"field", s, f, facet>>[1] = "field"
        /\ \A e, facet : <<"entity", e, facet>>[1] = "entity"
        /\ \A e, s, f : <<"stored", e, s, f>>[1] = "stored"
        /\ <<"title">>[1] = "title"
    OBVIOUS
  <2> QED
    BY <2>1, <2>2, <2>3
<1>7. \A c \in all : IsFactName(c)
  BY <1>2, <1>3, <1>4, <1>5 DEF IsFactName
<1>8. \A c : Entry(FactsOf(d), c) = IF c \in all THEN {at(c)} ELSE {}
  <2> HIDE DEF all, at
  <2> QED
    BY <1>1 DEF Entry
<1>9. /\ at(<<"title">>) = d.title
      /\ \A s, facet : at(<<"schema", s, facet>>) = d.schemas[s][facet]
      /\ \A s, f, facet : at(<<"field", s, f, facet>>) = d.schemas[s].fields[f][facet]
      /\ \A e, facet : at(<<"entity", e, facet>>) = d.entities[e][facet]
      /\ \A e, s, f : at(<<"stored", e, s, f>>) = d.entities[e].fields[f]
  OBVIOUS
<1>10. DOMAIN FactsOf(d) = all
  BY <1>1
<1> HIDE DEF all, at
<1>11. Entry(FactsOf(d), <<"title">>) = {d.title}
  BY <1>6, <1>8, <1>9
<1>12. ASSUME NEW s, NEW facet \in SchemaFactNames
       PROVE  Entry(FactsOf(d), <<"schema", s, facet>>) = {x[facet] : x \in Entry(d.schemas, s)}
  <2>1. {x[facet] : x \in Entry(d.schemas, s)} = IF s \in DOMAIN d.schemas THEN {d.schemas[s][facet]} ELSE {}
    BY DEF Entry
  <2> QED
    BY <1>2, <1>6, <1>8, <1>9, <2>1
<1>13. ASSUME NEW s, NEW f, NEW facet \in FieldFactNames
       PROVE  Entry(FactsOf(d), <<"field", s, f, facet>>) = {x[facet] : x \in FieldOf(d.schemas, s, f)}
  <2>1. FieldOf(d.schemas, s, f) = IF s \in DOMAIN d.schemas /\ f \in DOMAIN d.schemas[s].fields
                                   THEN {d.schemas[s].fields[f]} ELSE {}
    BY DEF FieldOf, Entry
  <2> QED
    BY <1>3, <1>6, <1>8, <1>9, <2>1
<1>14. ASSUME NEW e, NEW facet \in EntityFactNames
       PROVE  Entry(FactsOf(d), <<"entity", e, facet>>) = {x[facet] : x \in Entry(d.entities, e)}
  <2>1. {x[facet] : x \in Entry(d.entities, e)} = IF e \in DOMAIN d.entities THEN {d.entities[e][facet]} ELSE {}
    BY DEF Entry
  <2> QED
    BY <1>4, <1>6, <1>8, <1>9, <2>1
<1>15. ASSUME NEW e, NEW s, NEW f
       PROVE  Entry(FactsOf(d), <<"stored", e, s, f>>) = StoredIn(d.entities, e, s, f)
  <2>1. StoredIn(d.entities, e, s, f) =
          IF e \in DOMAIN d.entities /\ f \in DOMAIN d.entities[e].fields /\ s = d.entities[e].schema
          THEN {d.entities[e].fields[f]} ELSE {}
    BY DEF StoredIn, Entry
  <2>2. <<"stored", e, s, f>> \in all <=>
          e \in DOMAIN d.entities /\ f \in DOMAIN d.entities[e].fields /\ s = d.entities[e].schema
    BY <1>5, <1>6
  <2>3. Entry(FactsOf(d), <<"stored", e, s, f>>) =
          IF <<"stored", e, s, f>> \in all THEN {d.entities[e].fields[f]} ELSE {}
    <3>1. at(<<"stored", e, s, f>>) = d.entities[e].fields[f]
      BY <1>9
    <3> DEFINE c == <<"stored", e, s, f>>
    <3>2. Entry(FactsOf(d), c) = IF c \in all THEN {at(c)} ELSE {}
      BY <1>8
    <3> QED
      BY <3>1, <3>2
  <2> QED
    BY <2>1, <2>2, <2>3
<1> QED
  BY <1>7, <1>10, <1>11, <1>12, <1>13, <1>14, <1>15

-----------------------------------------------------------------------------
\* An option is a set of at most one value.
IsOption(x) == x = {} \/ \E y : x = {y}

\* An entry is an option, and says whether the map has the key.
LEMMA EntryIsOption ==
    ASSUME NEW m, NEW key
    PROVE  /\ IsOption(Entry(m, key))
           /\ Entry(m, key) # {} <=> key \in DOMAIN m
           /\ key \in DOMAIN m => Entry(m, key) = {m[key]}
  BY DEF Entry, IsOption

\* What an option that is not empty is.
LEMMA OptionIs ==
    ASSUME NEW x, IsOption(x)
    PROVE  x # {} => x = {The(x)}
  BY TheOne DEF IsOption

\* A choice among options is an option.
LEMMA ChosenOption ==
    ASSUME NEW options, Choice(options) # {}, \A i \in Sides : IsOption(options[i])
    PROVE  IsOption(Chosen(options))
  BY ChoiceIs

\* What a clash says: nothing where there is none.
LEMMA NoClash ==
    ASSUME NEW target, NEW facet, NEW triple, NEW facts, Clash(target, facet, triple, facts) = {}
    PROVE  Choice(triple) # {}
  BY DEF Clash

\* The same for the clash of one facet.
LEMMA NoFacetClash ==
    ASSUME NEW target, NEW facet, NEW options, FacetClash(target, facet, options) = {}
    PROVE  Choice(FacetOf(options, facet)) # {}
  BY NoClash DEF FacetClash

\* A facet of the triple of a present subject.
LEMMA ChosenFacet ==
    ASSUME NEW options, \A i \in Sides : IsOption(options[i]), Present(options), NEW facet,
           Choice(FacetOf(options, facet)) # {}
    PROVE  Chosen(FacetOf(options, facet)) = {The(Chosen(FacetOf(options, facet)))}
<1>1. PICK i \in Sides : Chosen(FacetOf(options, facet)) = FacetOf(options, facet)[i]
  BY ChoiceIs
<1>2. FacetOf(options, facet)[i] = {x[facet] : x \in options[i]}
  BY DEF FacetOf
<1>3. options[i] # {} /\ IsOption(options[i])
  BY DEF Present
<1>4. PICK y : options[i] = {y}
  BY <1>3 DEF IsOption
<1>5. FacetOf(options, facet)[i] = {y[facet]}
  BY <1>2, <1>4
<1> QED
  BY <1>1, <1>5, TheOne

\* An entry that no map has is chosen to be absent.
LEMMA NobodysEntry ==
    ASSUME NEW maps, NEW id, id \notin Ids(maps)
    PROVE  /\ ~Present(Entries(maps, id))
           /\ Choice(Entries(maps, id)) # {} /\ Chosen(Entries(maps, id)) = {}
<1>1. \A i \in Sides : Entries(maps, id)[i] = {}
  BY DEF Ids, Entries, Entry
<1> QED
  BY <1>1, TheOne, SidesAre DEF Choice, Chosen, Present

\* The sides of a triple of entries are options.
LEMMA EntriesAreOptions ==
    ASSUME NEW maps, NEW id, NEW i \in Sides
    PROVE  IsOption(Entries(maps, id)[i])
  BY EntryIsOption DEF Entries

\* The subjects a merged map holds.
LEMMA MergedEntry ==
    ASSUME NEW maps, NEW merged, DOMAIN merged = MergedIds(maps), NEW id,
           ~Present(Entries(maps, id)), Choice(Entries(maps, id)) # {},
           id \in DOMAIN merged => merged[id] = The(Chosen(Entries(maps, id)))
    PROVE  Entry(merged, id) = Chosen(Entries(maps, id))
<1>1. id \in DOMAIN merged <=> Chosen(Entries(maps, id)) # {}
  BY NobodysEntry DEF MergedIds
<1>2. IsOption(Chosen(Entries(maps, id)))
  BY ChosenOption, EntriesAreOptions
<1> QED
  BY <1>1, <1>2, EntryIsOption, OptionIs

\* What is in all three is in the result.
LEMMA PresentIsMerged ==
    ASSUME NEW maps, NEW id, Present(Entries(maps, id))
    PROVE  id \in Ids(maps) /\ id \in MergedIds(maps)
  BY NobodysEntry DEF MergedIds

-----------------------------------------------------------------------------
\* A field of merge_schema_fields: chosen whole, or facet by facet.
LEMMA MergedFieldsFollow ==
    ASSUME NEW s, NEW fields, FieldConflicts(s, fields) = {}, NEW f
    PROVE  LET options == Entries(fields, f)
           IN /\ ~Present(options) =>
                   Choice(options) # {} /\ Entry(MergedFields(fields), f) = Chosen(options)
              /\ Present(options) =>
                   /\ \A facet \in {"key", "type", "required"} : Choice(FacetOf(options, facet)) # {}
                   /\ Entry(MergedFields(fields), f) =
                        {[key |-> The(Chosen(FacetOf(options, "key"))),
                          type |-> The(Chosen(FacetOf(options, "type"))),
                          required |-> The(Chosen(FacetOf(options, "required"))),
                          name |-> {}, constraint |-> {}, format |-> {}]}
<1> DEFINE options == Entries(fields, f)
           Facets == UNION {FacetClash(FieldTarget(s, f), facet, options) :
                            facet \in {"key", "type", "required"}}
           Subject == Clash(FieldTarget(s, f), "subject", options,
                            [i \in Sides |-> {FieldSubject(x) : x \in options[i]}])
           merged == MergedFields(fields)
           record == [key |-> The(Chosen(FacetOf(options, "key"))),
                      type |-> The(Chosen(FacetOf(options, "type"))),
                      required |-> The(Chosen(FacetOf(options, "required"))),
                      name |-> {}, constraint |-> {}, format |-> {}]
<1>1. f \in Ids(fields) => (IF Present(options) THEN Facets = {} ELSE Subject = {})
  BY DEF FieldConflicts
<1>2. DOMAIN merged = MergedIds(fields)
      /\ (f \in DOMAIN merged => merged[f] = IF Present(options) THEN record ELSE The(Chosen(options)))
  BY DEF MergedFields
<1>3. CASE ~Present(options)
  <2>1. Choice(options) # {}
    BY <1>1, <1>3, NoClash, NobodysEntry
  <2> HIDE DEF merged, record
  <2>2. Entry(merged, f) = Chosen(options)
    BY <1>2, <1>3, <2>1, MergedEntry
  <2> QED
    BY <1>3, <2>1, <2>2 DEF merged
<1>4. CASE Present(options)
  <2>1. f \in Ids(fields) /\ f \in MergedIds(fields)
    BY <1>4, PresentIsMerged
  <2>2. ASSUME NEW facet \in {"key", "type", "required"} PROVE Choice(FacetOf(options, facet)) # {}
    <3>1. FacetClash(FieldTarget(s, f), facet, options) = {}
      <4>1. Facets = {}
        BY <1>1, <1>4, <2>1
      <4> HIDE DEF options
      <4> QED
        BY <4>1
    <3> QED
      BY <3>1, NoFacetClash
  <2> HIDE DEF merged, record
  <2>3. Entry(merged, f) = {record}
    BY <1>2, <1>4, <2>1, EntryIsOption
  <2> QED
    BY <1>4, <2>2, <2>3 DEF merged, record
<1> QED
  BY <1>3, <1>4

\* A schema of merge_schemas: chosen whole, or facet by facet.
LEMMA MergedSchemasFollow ==
    ASSUME NEW schemas, SchemaConflicts(schemas) = {}, NEW s
    PROVE  LET options == Entries(schemas, s)
           IN /\ ~Present(options) =>
                   Choice(options) # {} /\ Entry(MergedSchemas(schemas), s) = Chosen(options)
              /\ Present(options) =>
                   /\ Choice(FacetOf(options, "key")) # {}
                   /\ FieldConflicts(s, FieldsIn(options)) = {}
                   /\ Entry(MergedSchemas(schemas), s) =
                        {[key |-> The(Chosen(FacetOf(options, "key"))), name |-> {}, order |-> {},
                          fields |-> MergedFields(FieldsIn(options))]}
<1> DEFINE options == Entries(schemas, s)
           Key == FacetClash(SchemaTarget(s), "key", options)
           Subject == Clash(SchemaTarget(s), "subject", options,
                            [i \in Sides |-> {SchemaSubject(x) : x \in options[i]}])
           merged == MergedSchemas(schemas)
           record == [key |-> The(Chosen(FacetOf(options, "key"))), name |-> {}, order |-> {},
                      fields |-> MergedFields(FieldsIn(options))]
<1>1. s \in Ids(schemas) =>
        (IF Present(options) THEN FieldConflicts(s, FieldsIn(options)) \union Key = {} ELSE Subject = {})
  BY DEF SchemaConflicts
<1>2. DOMAIN merged = MergedIds(schemas)
      /\ (s \in DOMAIN merged => merged[s] = IF Present(options) THEN record ELSE The(Chosen(options)))
  BY DEF MergedSchemas
<1>3. CASE ~Present(options)
  <2>1. Choice(options) # {}
    BY <1>1, <1>3, NoClash, NobodysEntry
  <2> HIDE DEF merged, record
  <2>2. Entry(merged, s) = Chosen(options)
    BY <1>2, <1>3, <2>1, MergedEntry
  <2> QED
    BY <1>3, <2>1, <2>2 DEF merged
<1>4. CASE Present(options)
  <2>1. s \in Ids(schemas) /\ s \in MergedIds(schemas)
    BY <1>4, PresentIsMerged
  <2>2. FieldConflicts(s, FieldsIn(options)) = {} /\ Key = {}
    <3> HIDE DEF options
    <3> QED
      BY <1>1, <1>4, <2>1
  <2>3. Choice(FacetOf(options, "key")) # {}
    BY <2>2, NoFacetClash
  <2> HIDE DEF merged, record
  <2>4. Entry(merged, s) = {record}
    BY <1>2, <1>4, <2>1, EntryIsOption
  <2> QED
    BY <1>4, <2>2, <2>3, <2>4 DEF merged, record
<1> QED
  BY <1>3, <1>4

-----------------------------------------------------------------------------
\* The fields of a triple of schemas, whether the schemas are there or not.
LEMMA FieldEntriesAre ==
    ASSUME NEW schemas, NEW s, NEW f, NEW i \in Sides
    PROVE  /\ FieldEntries(schemas, s, f)[i] = FieldOf(schemas[i], s, f)
           /\ FieldOf(schemas[i], s, f) = UNION {Entry(x.fields, f) : x \in Entries(schemas, s)[i]}
           /\ IsOption(FieldOf(schemas[i], s, f))
           /\ Entry(schemas[i], s) = {} => FieldOf(schemas[i], s, f) = {}
<1> DEFINE option == Entry(schemas[i], s)
<1>1. Entries(schemas, s)[i] = option
  BY DEF Entries
<1>2. FieldEntries(schemas, s, f)[i] = Entry(FieldsIn(Entries(schemas, s))[i], f)
  BY DEF FieldEntries, Entries
<1>3. FieldsIn(Entries(schemas, s))[i] = IF option = {} THEN <<>> ELSE The(option).fields
  BY <1>1 DEF FieldsIn
<1>4. FieldOf(schemas[i], s, f) = UNION {Entry(x.fields, f) : x \in option}
  BY DEF FieldOf
<1>5. IsOption(option)
  BY EntryIsOption
<1> HIDE DEF option
<1>6. CASE option = {}
  <2>1. Entry(<<>>, f) = {}
    BY DEF Entry
  <2> QED
    BY <1>1, <1>2, <1>3, <1>4, <1>6, <2>1 DEF IsOption, option
<1>7. CASE option # {}
  <2>1. option = {The(option)}
    BY <1>5, <1>7, OptionIs
  <2>2. FieldOf(schemas[i], s, f) = Entry(The(option).fields, f)
    BY <1>4, <2>1
  <2>3. IsOption(FieldOf(schemas[i], s, f))
    BY <2>2, EntryIsOption
  <2>4. FieldEntries(schemas, s, f)[i] = FieldOf(schemas[i], s, f)
    BY <1>1, <1>2, <1>3, <1>7, <2>2
  <2>5. FieldOf(schemas[i], s, f) = UNION {Entry(x.fields, f) : x \in Entries(schemas, s)[i]}
    BY <1>1, <1>4
  <2> QED
    BY <1>7, <2>3, <2>4, <2>5 DEF option
<1> QED
  BY <1>6, <1>7

\* A field of the merged schemas: chosen whole, or continuing.
LEMMA MergedFieldOf ==
    ASSUME NEW schemas, SchemaConflicts(schemas) = {}, NEW s, NEW f
    PROVE  LET options == FieldEntries(schemas, s, f)
               field == FieldOf(MergedSchemas(schemas), s, f)
           IN \/ ~Present(options) /\ Choice(options) # {} /\ field = Chosen(options)
              \/ /\ Present(options) /\ Present(Entries(schemas, s))
                 /\ \A facet \in {"key", "type", "required"} : Choice(FacetOf(options, facet)) # {}
                 /\ field = {[key |-> The(Chosen(FacetOf(options, "key"))),
                              type |-> The(Chosen(FacetOf(options, "type"))),
                              required |-> The(Chosen(FacetOf(options, "required"))),
                              name |-> {}, constraint |-> {}, format |-> {}]}
<1> DEFINE whole == Entries(schemas, s)
           options == FieldEntries(schemas, s, f)
           merged == MergedSchemas(schemas)
           field == FieldOf(merged, s, f)
<1>1. CASE Present(whole)
  <2>1. /\ FieldConflicts(s, FieldsIn(whole)) = {}
        /\ Entry(merged, s) = {[key |-> The(Chosen(FacetOf(whole, "key"))), name |-> {}, order |-> {},
                                fields |-> MergedFields(FieldsIn(whole))]}
    BY <1>1, MergedSchemasFollow
  <2>2. field = Entry(MergedFields(FieldsIn(whole)), f)
    BY <2>1 DEF FieldOf
  <2>3. options = Entries(FieldsIn(whole), f)
    BY DEF FieldEntries
  <2> HIDE DEF options, field, whole
  <2> QED
    BY <1>1, <2>1, <2>2, <2>3, MergedFieldsFollow DEF options, field, whole
<1>2. CASE ~Present(whole)
  <2>1. Choice(whole) # {} /\ Entry(merged, s) = Chosen(whole)
    BY <1>2, MergedSchemasFollow
  <2>2. \A i \in Sides : options[i] = UNION {Entry(x.fields, f) : x \in whole[i]}
    <3>1. ASSUME NEW i \in Sides PROVE options[i] = UNION {Entry(x.fields, f) : x \in whole[i]}
      <4>1. options[i] = FieldOf(schemas[i], s, f)
        BY FieldEntriesAre
      <4>2. FieldOf(schemas[i], s, f) = UNION {Entry(x.fields, f) : x \in whole[i]}
        BY FieldEntriesAre
      <4> QED
        BY <4>1, <4>2
    <3> QED
      BY <3>1
  <2>3. \A i, j \in Sides : whole[i] = whole[j] => options[i] = options[j]
    BY <2>2
  <2>4. Choice(options) # {} /\ \E i \in Sides : Chosen(whole) = whole[i] /\ Chosen(options) = options[i]
    <3> HIDE DEF whole, options
    <3> QED
      BY <2>1, <2>3, ChoiceOfPart
  <2>5. field = Chosen(options)
    <3>1. field = UNION {Entry(x.fields, f) : x \in Chosen(whole)}
      BY <2>1 DEF FieldOf
    <3> QED
      BY <2>2, <2>4, <3>1
  <2>6. ~Present(options)
    <3>1. PICK i \in Sides : whole[i] = {}
      BY <1>2 DEF Present
    <3>2. options[i] = {}
      BY <2>2, <3>1
    <3> QED
      BY <3>2 DEF Present
  <2> QED
    BY <2>4, <2>5, <2>6
<1> QED
  BY <1>1, <1>2

-----------------------------------------------------------------------------
\* The facts of schemas and fields in schemas are what the sides made of them.
SchemasFollow(merged, schemas) ==
    /\ \A s : \A facet \in SchemaFactNames :
         Follows({x[facet] : x \in Entry(merged, s)}, FacetOf(Entries(schemas, s), facet))
    /\ \A s, f : \A facet \in FieldFactNames :
         Follows({x[facet] : x \in FieldOf(merged, s, f)}, FacetOf(FieldEntries(schemas, s, f), facet))

\* The same for the facts of entities.
EntitiesFollow(merged, entities) ==
    /\ \A e : \A facet \in EntityFactNames :
         Follows({x[facet] : x \in Entry(merged, e)}, FacetOf(Entries(entities, e), facet))
    /\ \A e, s, f : Follows(StoredIn(merged, e, s, f), Qualified(Entries(entities, e), s, f))

\* The facets of something chosen whole.
LEMMA WholeFollows ==
    ASSUME NEW options, Choice(options) # {}, NEW facet
    PROVE  Follows({x[facet] : x \in Chosen(options)}, FacetOf(options, facet))
<1>1. Follows(Chosen(options), options)
  BY ChoiceFollows
<1>2. \A i \in Sides : FacetOf(options, facet)[i] = {x[facet] : x \in options[i]}
  BY DEF FacetOf
<1> DEFINE part == {x[facet] : x \in Chosen(options)}
           parts == FacetOf(options, facet)
<1>3. \A i \in Sides : options[i] = options[Base] => parts[i] = parts[Base]
  BY <1>2, SidesAre
<1>4. \A i \in Sides : Chosen(options) = options[i] => part = parts[i]
  BY <1>2
<1> HIDE DEF part, parts
<1>5. Follows(part, parts)
  BY <1>1, <1>3, <1>4, FollowsPart
<1> QED
  BY <1>5 DEF part, parts

\* One facet of something that continues.
LEMMA FacetFollows ==
    ASSUME NEW options, \A i \in Sides : IsOption(options[i]), Present(options), NEW facet,
           Choice(FacetOf(options, facet)) # {}, NEW merged,
           merged[facet] = The(Chosen(FacetOf(options, facet)))
    PROVE  Follows({x[facet] : x \in {merged}}, FacetOf(options, facet))
<1>1. {x[facet] : x \in {merged}} = {The(Chosen(FacetOf(options, facet)))}
  OBVIOUS
<1> QED
  BY <1>1, ChosenFacet, ChoiceFollows

-----------------------------------------------------------------------------
\* A stored fact is an option, and absent where no side stores it.
LEMMA QualifiedIs ==
    ASSUME NEW options, \A i \in Sides : IsOption(options[i]), NEW s, NEW f
    PROVE  /\ \A i \in Sides : IsOption(Qualified(options, s, f)[i])
           /\ <<s, f>> \notin QualifiedFields(options) =>
                Choice(Qualified(options, s, f)) # {} /\ Chosen(Qualified(options, s, f)) = {}
<1> DEFINE facts == Qualified(options, s, f)
<1>1. \A i \in Sides : facts[i] = UNION {IF e.schema = s THEN Entry(e.fields, f) ELSE {} : e \in options[i]}
  BY DEF Qualified
<1>2. ASSUME NEW i \in Sides
      PROVE  IsOption(facts[i]) /\ (<<s, f>> \notin QualifiedFields(options) => facts[i] = {})
  <2>1. CASE options[i] = {}
    BY <1>1, <2>1 DEF IsOption
  <2>2. CASE options[i] # {}
    <3>1. PICK e : options[i] = {e}
      BY <2>2 DEF IsOption
    <3>2. facts[i] = IF e.schema = s THEN Entry(e.fields, f) ELSE {}
      <4> DEFINE of(x) == IF x.schema = s THEN Entry(x.fields, f) ELSE {}
      <4>1. facts[i] = UNION {of(x) : x \in {e}}
        BY <1>1, <3>1
      <4>2. UNION {of(x) : x \in {e}} = of(e)
        <5> HIDE DEF of
        <5> QED
          OBVIOUS
      <4> QED
        BY <4>1, <4>2
    <3>3. IsOption(facts[i])
      <4>1. IsOption(Entry(e.fields, f)) /\ IsOption({})
        BY EntryIsOption DEF IsOption
      <4> HIDE DEF facts
      <4> QED
        BY <3>2, <4>1
    <3>4. facts[i] # {} => <<s, f>> \in QualifiedFields(options)
      <4>1. facts[i] # {} => e.schema = s /\ f \in DOMAIN e.fields
        BY <3>2, EntryIsOption
      <4>2. facts[i] # {} => <<s, f>> \in {e.schema} \X DOMAIN e.fields
        BY <4>1
      <4> QED
        BY <3>1, <4>2 DEF QualifiedFields
    <3> QED
      BY <3>3, <3>4
  <2> QED
    BY <2>1, <2>2
<1> HIDE DEF facts
<1>3. (\A i \in Sides : facts[i] = {}) => Choice(facts) # {} /\ Chosen(facts) = {}
  BY TheOne, SidesAre DEF Choice, Chosen
<1> QED
  BY <1>2, <1>3 DEF facts

-----------------------------------------------------------------------------
\* The stored facts of a continuing entity that goes to a schema.
MergedRow(options, schema) ==
    [f \in {q[2] : q \in {q \in ChosenFields(options) : q[1] = schema}} |->
        The(Chosen(Qualified(options, schema, f)))]

\* What the entities of a merge without conflict or unmaterialized fact hold.
LEMMA MergedEntityIs ==
    ASSUME NEW entities, EntityConflicts(entities) = {}, Unmaterialized(entities) = {}, NEW e
    PROVE  LET options == Entries(entities, e)
               merged == MergedEntities(entities)
               schema == The(Chosen(FacetOf(options, "schema")))
           IN /\ ~Present(options) =>
                   Choice(options) # {} /\ Entry(merged, e) = Chosen(options)
              /\ Present(options) =>
                   /\ e \in DOMAIN merged
                   /\ Choice(FacetOf(options, "key")) # {} /\ Choice(FacetOf(options, "schema")) # {}
                   /\ merged[e].key = The(Chosen(FacetOf(options, "key")))
                   /\ merged[e].schema = schema
                   /\ \A s, f : Choice(Qualified(options, s, f)) # {}
                   /\ \A q \in ChosenFields(options) : q[1] = schema
                   /\ merged[e].fields = MergedRow(options, schema)
<1> DEFINE options == Entries(entities, e)
           schema == The(Chosen(FacetOf(options, "schema")))
           Facets == FacetClash(EntityTarget(e), "schema", options)
                       \union FacetClash(EntityTarget(e), "key", options)
           Cell(q) == LET facts == Qualified(options, q[1], q[2])
                      IN Clash(StoredTarget(e, q[1], q[2]), "stored_value", facts, facts)
           Cellss == UNION {Cell(q) : q \in QualifiedFields(options)}
           Subject == Clash(EntityTarget(e), "subject", options, options)
           Missing == {StoredTarget(e, q[1], q[2]) : q \in {q \in ChosenFields(options) : q[1] # schema}}
           merged == MergedEntities(entities)
           fields == MergedRow(options, schema)
           record == [key |-> The(Chosen(FacetOf(options, "key"))), schema |-> schema, fields |-> fields]
<1>1. e \in Ids(entities) => (IF Present(options) THEN Facets \union Cellss = {} ELSE Subject = {})
  BY DEF EntityConflicts
<1>2. e \in Ids(entities) /\ Present(options) => Missing = {}
  BY DEF Unmaterialized
<1>3. DOMAIN merged = MergedIds(entities)
      /\ (e \in DOMAIN merged => merged[e] = IF Present(options) THEN record ELSE The(Chosen(options)))
  BY DEF MergedEntities, MergedRow
<1>4. CASE ~Present(options)
  <2>1. Choice(options) # {}
    BY <1>1, <1>4, NoClash, NobodysEntry
  <2> HIDE DEF merged, record
  <2>2. Entry(merged, e) = Chosen(options)
    BY <1>3, <1>4, <2>1, MergedEntry
  <2> QED
    BY <1>4, <2>1, <2>2 DEF merged
<1>5. CASE Present(options)
  <2>1. e \in Ids(entities) /\ e \in MergedIds(entities)
    BY <1>5, PresentIsMerged
  <2>2. Facets = {} /\ Cellss = {} /\ Missing = {}
    <3> HIDE DEF options, Facets, Cellss, Missing
    <3> QED
      BY <1>1, <1>2, <1>5, <2>1
  <2>3. Choice(FacetOf(options, "key")) # {} /\ Choice(FacetOf(options, "schema")) # {}
    BY <2>2, NoFacetClash
  <2>4. ASSUME NEW s, NEW f PROVE Choice(Qualified(options, s, f)) # {}
    <3>1. CASE <<s, f>> \in QualifiedFields(options)
      <4>1. Cell(<<s, f>>) = {}
        <5> HIDE DEF Cell, options
        <5> QED
          BY <2>2, <3>1
      <4>2. <<s, f>>[1] = s /\ <<s, f>>[2] = f
        OBVIOUS
      <4>3. Clash(StoredTarget(e, s, f), "stored_value", Qualified(options, s, f), Qualified(options, s, f)) = {}
        BY <4>1, <4>2
      <4> QED
        BY <4>3, NoClash
    <3>2. CASE <<s, f>> \notin QualifiedFields(options)
      BY <3>2, QualifiedIs, EntriesAreOptions
    <3> QED
      BY <3>1, <3>2
  <2>5. \A q \in ChosenFields(options) : q[1] = schema
    <3> HIDE DEF options, schema
    <3> QED
      BY <2>2
  <2> HIDE DEF record, merged
  <2>6. e \in DOMAIN merged /\ merged[e] = record
    BY <1>3, <1>5, <2>1
  <2>7. /\ record.key = The(Chosen(FacetOf(options, "key"))) /\ record.schema = schema
        /\ record.fields = fields
    BY DEF record
  <2> QED
    BY <1>5, <2>3, <2>4, <2>5, <2>6, <2>7 DEF merged
<1> QED
  BY <1>4, <1>5

\* The stored facts of a continuing entity.
LEMMA MergedStored ==
    ASSUME NEW options, \A i \in Sides : IsOption(options[i]), NEW schema,
           \A s, f : Choice(Qualified(options, s, f)) # {},
           \A q \in ChosenFields(options) : q[1] = schema, NEW s, NEW f, NEW x,
           x.schema = schema,
           x.fields = MergedRow(options, schema)
    PROVE  (IF x.schema = s THEN Entry(x.fields, f) ELSE {}) = Chosen(Qualified(options, s, f))
<1> DEFINE facts == Qualified(options, s, f)
           names == {q[2] : q \in {q \in ChosenFields(options) : q[1] = schema}}
<1>1. <<s, f>> \in ChosenFields(options) <=> Chosen(facts) # {}
  <2>1. <<s, f>> \notin QualifiedFields(options) => Chosen(facts) = {}
    BY QualifiedIs
  <2>2. <<s, f>>[1] = s /\ <<s, f>>[2] = f
    OBVIOUS
  <2> QED
    BY <2>1, <2>2 DEF ChosenFields
<1>2. IsOption(Chosen(facts))
  BY QualifiedIs, ChosenOption
<1>3. CASE s # schema
  <2>1. <<s, f>> \notin ChosenFields(options)
    BY <1>3
  <2> QED
    BY <1>1, <1>3, <2>1
<1>4. CASE s = schema
  <2>1. f \in names <=> <<s, f>> \in ChosenFields(options)
    <3>1. \A q \in ChosenFields(options) : q = <<q[1], q[2]>>
      <4>1. ASSUME NEW q \in ChosenFields(options) PROVE q = <<q[1], q[2]>>
        <5>1. q \in QualifiedFields(options)
          BY DEF ChosenFields
        <5>2. PICK i \in Sides : q \in UNION {{y.schema} \X DOMAIN y.fields : y \in options[i]}
          BY <5>1 DEF QualifiedFields
        <5>3. PICK y \in options[i] : q \in {y.schema} \X DOMAIN y.fields
          BY <5>2
        <5> QED
          BY <5>3
      <4> QED
        BY <4>1
    <3>2. \A q \in ChosenFields(options) : q[1] = schema
      OBVIOUS
    <3>3. ASSUME f \in names PROVE <<s, f>> \in ChosenFields(options)
      <4>1. PICK q \in ChosenFields(options) : q[2] = f
        BY <3>3
      <4>2. q = <<q[1], q[2]>> /\ q[1] = schema
        BY <3>1, <3>2
      <4> QED
        BY <1>4, <4>1, <4>2
    <3>4. ASSUME <<s, f>> \in ChosenFields(options) PROVE f \in names
      <4>1. <<s, f>>[1] = s /\ <<s, f>>[2] = f
        OBVIOUS
      <4> QED
        BY <1>4, <3>4, <4>1
    <3> QED
      BY <3>3, <3>4
  <2>2. DOMAIN x.fields = names /\ (f \in names => x.fields[f] = The(Chosen(facts)))
    BY <1>4 DEF MergedRow
  <2> HIDE DEF names, facts
  <2>3. Entry(x.fields, f) = Chosen(facts)
    <3>1. CASE f \in names
      <4>1. Entry(x.fields, f) = {The(Chosen(facts))}
        BY <2>2, <3>1, EntryIsOption
      <4>2. Chosen(facts) = {The(Chosen(facts))}
        BY <1>1, <1>2, <2>1, <3>1, OptionIs DEF facts
      <4> QED
        BY <4>1, <4>2
    <3>2. CASE f \notin names
      <4>1. Entry(x.fields, f) = {}
        BY <2>2, <3>2, EntryIsOption
      <4>2. Chosen(facts) = {}
        BY <1>1, <2>1, <3>2 DEF facts
      <4> QED
        BY <4>1, <4>2
    <3> QED
      BY <3>1, <3>2
  <2> QED
    BY <1>4, <2>3 DEF facts
<1> QED
  BY <1>3, <1>4

\* The stored fact of a merged entity.
LEMMA StoredInIs ==
    ASSUME NEW entities, NEW e, NEW s, NEW f
    PROVE  e \in DOMAIN entities =>
             StoredIn(entities, e, s, f) =
               IF entities[e].schema = s THEN Entry(entities[e].fields, f) ELSE {}
<1> DEFINE of(x) == IF x.schema = s THEN Entry(x.fields, f) ELSE {}
<1>1. StoredIn(entities, e, s, f) = UNION {of(x) : x \in Entry(entities, e)}
  BY DEF StoredIn
<1>2. e \in DOMAIN entities => UNION {of(x) : x \in {entities[e]}} = of(entities[e])
  <2> HIDE DEF of
  <2> QED
    OBVIOUS
<1> QED
  BY <1>1, <1>2, EntryIsOption

\* Every fact of an entity, of a merge without conflicts.
LEMMA MergedEntitiesFollow ==
    ASSUME NEW entities, EntityConflicts(entities) = {}, Unmaterialized(entities) = {}
    PROVE  EntitiesFollow(MergedEntities(entities), entities)
<1> DEFINE merged == MergedEntities(entities)
<1>1. ASSUME NEW e
      PROVE  /\ \A facet \in EntityFactNames :
                  Follows({x[facet] : x \in Entry(merged, e)}, FacetOf(Entries(entities, e), facet))
             /\ \A s, f : Follows(StoredIn(merged, e, s, f), Qualified(Entries(entities, e), s, f))
  <2> DEFINE options == Entries(entities, e)
  <2>1. CASE ~Present(options)
    <3>1. Choice(options) # {} /\ Entry(merged, e) = Chosen(options)
      BY <2>1, MergedEntityIs
    <3>2. \A facet : Follows({x[facet] : x \in Entry(merged, e)}, FacetOf(options, facet))
      BY <3>1, WholeFollows
    <3>3. ASSUME NEW s, NEW f PROVE Follows(StoredIn(merged, e, s, f), Qualified(options, s, f))
      <4> DEFINE facts(x) == UNION {IF y.schema = s THEN Entry(y.fields, f) ELSE {} : y \in x}
                 parts == Qualified(options, s, f)
                 part == StoredIn(merged, e, s, f)
      <4>1. part = facts(Chosen(options))
        BY <3>1 DEF StoredIn
      <4>2. \A i \in Sides : parts[i] = facts(options[i])
        BY DEF Qualified
      <4>3. Follows(Chosen(options), options)
        BY <3>1, ChoiceFollows
      <4> HIDE DEF facts, parts, part
      <4>4. \A i \in Sides : options[i] = options[Base] => parts[i] = parts[Base]
        BY <4>2, SidesAre
      <4>5. \A i \in Sides : Chosen(options) = options[i] => part = parts[i]
        BY <4>1, <4>2
      <4>6. Follows(part, parts)
        BY <4>3, <4>4, <4>5, FollowsPart
      <4> QED
        BY <4>6 DEF parts, part
    <3> QED
      BY <3>2, <3>3
  <2>2. CASE Present(options)
    <3> DEFINE schema == The(Chosen(FacetOf(options, "schema")))
    <3>1. /\ e \in DOMAIN merged
          /\ Choice(FacetOf(options, "key")) # {} /\ Choice(FacetOf(options, "schema")) # {}
          /\ merged[e].key = The(Chosen(FacetOf(options, "key")))
          /\ merged[e].schema = schema
          /\ \A s, f : Choice(Qualified(options, s, f)) # {}
          /\ \A q \in ChosenFields(options) : q[1] = schema
          /\ merged[e].fields = MergedRow(options, schema)
      BY <2>2, MergedEntityIs
    <3>2. \A i \in Sides : IsOption(options[i])
      BY EntriesAreOptions
    <3> HIDE DEF merged, options, schema
    <3>3. Entry(merged, e) = {merged[e]}
      BY <3>1, EntryIsOption
    <3>4. ASSUME NEW facet \in EntityFactNames
          PROVE  Follows({x[facet] : x \in Entry(merged, e)}, FacetOf(options, facet))
      <4>1. merged[e][facet] = The(Chosen(FacetOf(options, facet))) /\ Choice(FacetOf(options, facet)) # {}
        BY <3>1 DEF schema, EntityFactNames
      <4> QED
        BY <2>2, <3>2, <3>3, <4>1, FacetFollows
    <3>5. ASSUME NEW s, NEW f PROVE Follows(StoredIn(merged, e, s, f), Qualified(options, s, f))
      <4>1. StoredIn(merged, e, s, f) = IF merged[e].schema = s THEN Entry(merged[e].fields, f) ELSE {}
        BY <3>1, StoredInIs
      <4>2. StoredIn(merged, e, s, f) = Chosen(Qualified(options, s, f))
        <5> DEFINE x == merged[e]
        <5>1. /\ x.schema = schema
              /\ x.fields = MergedRow(options, schema)
          BY <3>1
        <5> HIDE DEF x
        <5>2. (IF x.schema = s THEN Entry(x.fields, f) ELSE {}) = Chosen(Qualified(options, s, f))
          <6>1. /\ \A t, g : Choice(Qualified(options, t, g)) # {}
                /\ \A q \in ChosenFields(options) : q[1] = schema
            BY <3>1
          <6> QED
            BY <3>2, <5>1, <6>1, MergedStored
        <5> QED
          BY <4>1, <5>2 DEF x
      <4> QED
        BY <3>1, <4>2, ChoiceFollows
    <3> QED
      BY <3>4, <3>5 DEF options
  <2> QED
    BY <2>1, <2>2
<1> QED
  BY <1>1 DEF EntitiesFollow

-----------------------------------------------------------------------------
\* What a document without names, constraints and number formats says of them.
LEMMA PlainFields ==
    ASSUME NEW d
    PROVE  /\ ~HasNames(d) => /\ \A s : \A x \in Entry(d.schemas, s) : x.name = {}
                              /\ \A s, f : \A x \in FieldOf(d.schemas, s, f) : x.name = {}
           /\ ~HasConstraints(d) => \A s, f : \A x \in FieldOf(d.schemas, s, f) : x.constraint = {}
           /\ ~HasFormats(d) => \A s, f : \A x \in FieldOf(d.schemas, s, f) : x.format = {}
<1>1. ASSUME NEW s, NEW x \in Entry(d.schemas, s)
      PROVE  x \in Range(d.schemas)
  BY DEF Entry, Range
<1>2. ASSUME NEW s, NEW f, NEW x \in FieldOf(d.schemas, s, f)
      PROVE  x \in FieldsOf(d)
  <2>1. PICK y \in Entry(d.schemas, s) : x \in Entry(y.fields, f)
    BY DEF FieldOf
  <2>2. y \in Range(d.schemas)
    BY <1>1
  <2>3. f \in DOMAIN y.fields /\ x = y.fields[f]
    BY <2>1 DEF Entry
  <2> QED
    BY <2>2, <2>3 DEF FieldsOf
<1> QED
  BY <1>1, <1>2 DEF HasNames, HasConstraints, HasFormats

\* A facet that nobody sets is followed by not setting it.
LEMMA UnsetFollows ==
    ASSUME NEW options, \A i \in Sides : IsOption(options[i]), Present(options), NEW facet,
           \A i \in Sides : \A x \in options[i] : x[facet] = {}, NEW merged, merged[facet] = {}
    PROVE  Follows({x[facet] : x \in {merged}}, FacetOf(options, facet))
<1>1. ASSUME NEW i \in Sides PROVE FacetOf(options, facet)[i] = {{}}
  <2>1. PICK y : options[i] = {y}
    BY DEF Present, IsOption
  <2>2. FacetOf(options, facet)[i] = {x[facet] : x \in {y}}
    BY <2>1 DEF FacetOf
  <2> QED
    BY <2>1, <2>2
<1> QED
  BY <1>1, FollowsIs, SidesAre

\* Every fact of a schema and of a field, of a v1 merge without conflicts.
LEMMA MergedSchemasFollowSides ==
    ASSUME NEW schemas, SchemaConflicts(schemas) = {},
           \A i \in Sides :
             /\ \A s : \A x \in Entry(schemas[i], s) : x.name = {}
             /\ \A s, f : \A x \in FieldOf(schemas[i], s, f) :
                  x.name = {} /\ x.constraint = {} /\ x.format = {}
    PROVE  SchemasFollow(MergedSchemas(schemas), schemas)
<1> DEFINE merged == MergedSchemas(schemas)
<1>1. ASSUME NEW s, NEW facet \in SchemaFactNames
      PROVE  Follows({x[facet] : x \in Entry(merged, s)}, FacetOf(Entries(schemas, s), facet))
  <2> DEFINE options == Entries(schemas, s)
  <2>1. CASE ~Present(options)
    <3>1. Choice(options) # {} /\ Entry(merged, s) = Chosen(options)
      BY <2>1, MergedSchemasFollow
    <3> QED
      BY <3>1, WholeFollows
  <2>2. CASE Present(options)
    <3> DEFINE record == [key |-> The(Chosen(FacetOf(options, "key"))), name |-> {}, order |-> {},
                          fields |-> MergedFields(FieldsIn(options))]
    <3>1. Choice(FacetOf(options, "key")) # {} /\ Entry(merged, s) = {record}
      BY <2>2, MergedSchemasFollow
    <3>2. record.key = The(Chosen(FacetOf(options, "key"))) /\ record.name = {}
      OBVIOUS
    <3>3. \A i \in Sides : IsOption(options[i])
      BY EntriesAreOptions
    <3>4. \A i \in Sides : \A x \in options[i] : x.name = {}
      BY DEF Entries
    <3> HIDE DEF record, options
    <3>5. CASE facet = "key"
      <4>1. record[facet] = The(Chosen(FacetOf(options, facet))) /\ Choice(FacetOf(options, facet)) # {}
        BY <3>1, <3>2, <3>5
      <4>2. Follows({x[facet] : x \in {record}}, FacetOf(options, facet))
        BY <2>2, <3>3, <4>1, FacetFollows
      <4> QED
        BY <3>1, <4>2 DEF options
    <3>6. CASE facet = "name"
      <4>1. record[facet] = {} /\ \A i \in Sides : \A x \in options[i] : x[facet] = {}
        BY <3>2, <3>4, <3>6
      <4>2. Follows({x[facet] : x \in {record}}, FacetOf(options, facet))
        BY <2>2, <3>3, <4>1, UnsetFollows
      <4> QED
        BY <3>1, <4>2 DEF options
    <3> QED
      BY <3>5, <3>6 DEF SchemaFactNames
  <2> QED
    BY <2>1, <2>2
<1>2. ASSUME NEW s, NEW f, NEW facet \in FieldFactNames
      PROVE  Follows({x[facet] : x \in FieldOf(merged, s, f)}, FacetOf(FieldEntries(schemas, s, f), facet))
  <2> DEFINE options == FieldEntries(schemas, s, f)
             field == FieldOf(merged, s, f)
             record == [key |-> The(Chosen(FacetOf(options, "key"))),
                        type |-> The(Chosen(FacetOf(options, "type"))),
                        required |-> The(Chosen(FacetOf(options, "required"))),
                        name |-> {}, constraint |-> {}, format |-> {}]
  <2>1. \/ Choice(options) # {} /\ field = Chosen(options)
        \/ /\ Present(options)
           /\ \A g \in {"key", "type", "required"} : Choice(FacetOf(options, g)) # {}
           /\ field = {record}
    BY MergedFieldOf
  <2>2. \A i \in Sides : options[i] = FieldOf(schemas[i], s, f) /\ IsOption(options[i])
    BY FieldEntriesAre
  <2>3. /\ \A g \in {"key", "type", "required"} : record[g] = The(Chosen(FacetOf(options, g)))
        /\ \A g \in {"name", "constraint", "format"} : record[g] = {}
    OBVIOUS
  <2>4. \A g \in {"name", "constraint", "format"} : \A i \in Sides : \A x \in options[i] : x[g] = {}
    <3>1. \A i \in Sides : \A x \in options[i] : x.name = {} /\ x.constraint = {} /\ x.format = {}
      <4> HIDE DEF options
      <4> QED
        BY <2>2
    <3> QED
      BY <3>1
  <2> HIDE DEF options, field, record
  <2>5. CASE Choice(options) # {} /\ field = Chosen(options)
    BY <2>5, WholeFollows DEF options, field
  <2>6. CASE /\ Present(options)
             /\ \A g \in {"key", "type", "required"} : Choice(FacetOf(options, g)) # {}
             /\ field = {record}
    <3>1. CASE facet \in {"key", "type", "required"}
      <4>1. record[facet] = The(Chosen(FacetOf(options, facet))) /\ Choice(FacetOf(options, facet)) # {}
        BY <2>3, <2>6, <3>1
      <4>2. Follows({x[facet] : x \in {record}}, FacetOf(options, facet))
        BY <2>2, <2>6, <4>1, FacetFollows
      <4> QED
        BY <2>6, <4>2 DEF options, field
    <3>2. CASE facet \in {"name", "constraint", "format"}
      <4>1. record[facet] = {} /\ \A i \in Sides : \A x \in options[i] : x[facet] = {}
        BY <2>3, <2>4, <3>2
      <4>2. Follows({x[facet] : x \in {record}}, FacetOf(options, facet))
        BY <2>2, <2>6, <4>1, UnsetFollows
      <4> QED
        BY <2>6, <4>2 DEF options, field
    <3> QED
      BY <3>1, <3>2 DEF FieldFactNames
  <2> QED
    BY <2>1, <2>5, <2>6
<1> QED
  BY <1>1, <1>2 DEF SchemasFollow

-----------------------------------------------------------------------------
\* What is taken off a field, and what is left on it.
LEMMA BareFieldIs ==
    ASSUME NEW f, IsField(f)
    PROVE  /\ IsField(BareField(f))
           /\ \A facet \in {"key", "type", "required", "format"} : BareField(f)[facet] = f[facet]
           /\ BareField(f).name = {} /\ BareField(f).constraint = {}
  BY DEF IsField, IsRecord, BareField

\* The same for a schema.
LEMMA BareSchemaIs ==
    ASSUME NEW s, IsSchema(s)
    PROVE  /\ IsSchema(BareSchema(s))
           /\ BareSchema(s).key = s.key /\ BareSchema(s).name = {} /\ BareSchema(s).order = {}
           /\ DOMAIN BareSchema(s).fields = DOMAIN s.fields
           /\ \A f \in DOMAIN s.fields : BareSchema(s).fields[f] = BareField(s.fields[f])
<1> DEFINE bare == BareSchema(s)
<1>1. DOMAIN s = {"key", "name", "order", "fields"}
  BY DEF IsSchema, IsRecord
<1>2. /\ bare.key = s.key /\ bare.name = {} /\ bare.order = {}
      /\ bare.fields = [f \in DOMAIN s.fields |-> BareField(s.fields[f])]
  BY <1>1 DEF BareSchema
<1>3. IsRecord(bare, {"key", "name", "order", "fields"})
  BY <1>1 DEF IsRecord, BareSchema
<1> HIDE DEF bare
<1>4. \A f \in DOMAIN s.fields : IsField(BareField(s.fields[f]))
  BY BareFieldIs DEF IsSchema
<1>5. IsSchema(bare)
  BY <1>2, <1>3, <1>4 DEF IsSchema, IsMap
<1> QED
  BY <1>2, <1>5 DEF bare

\* The same for a document.
LEMMA StrippedIs ==
    ASSUME NEW d, IsDocument(d)
    PROVE  /\ Stripped(d).schemas = [s \in DOMAIN d.schemas |-> BareSchema(d.schemas[s])]
           /\ Stripped(d).entities = d.entities /\ Stripped(d).title = d.title
           /\ Stripped(d).id = d.id /\ Stripped(d).definitions = d.definitions
           /\ IsDocument(Stripped(d))
<1> DEFINE bare == Stripped(d)
<1>1. DOMAIN d = {"id", "title", "schemas", "entities", "definitions"}
  BY DEF IsDocument, IsRecord
<1>2. bare = [d EXCEPT !.schemas = [s \in DOMAIN d.schemas |-> BareSchema(d.schemas[s])]]
  BY <1>1 DEF Stripped
<1>3. /\ bare.schemas = [s \in DOMAIN d.schemas |-> BareSchema(d.schemas[s])]
      /\ bare.entities = d.entities /\ bare.title = d.title
      /\ bare.id = d.id /\ bare.definitions = d.definitions
  BY <1>1, <1>2
<1>4. IsRecord(bare, {"id", "title", "schemas", "entities", "definitions"})
  BY <1>1, <1>2 DEF IsRecord
<1> HIDE DEF bare
<1>5. \A s \in DOMAIN d.schemas : IsSchema(BareSchema(d.schemas[s]))
  BY BareSchemaIs DEF IsDocument
<1>6. IsDocument(bare)
  BY <1>3, <1>4, <1>5 DEF IsDocument, IsMap
<1> QED
  BY <1>3, <1>6 DEF bare

-----------------------------------------------------------------------------
\* Maps of schemas, and the same without what v1 refuses.
AreBareOf(bare, schemas) ==
    \A i \in Sides :
        /\ \A s \in DOMAIN schemas[i] : IsSchema(schemas[i][s])
        /\ bare[i] = [s \in DOMAIN schemas[i] |-> BareSchema(schemas[i][s])]

\* The schemas and fields of the one and the other.
LEMMA BareEntries ==
    ASSUME NEW bare, NEW schemas, AreBareOf(bare, schemas), NEW i \in Sides
    PROVE  /\ \A s : /\ \A x \in Entry(schemas[i], s) : IsSchema(x)
                     /\ Entry(bare[i], s) = {BareSchema(x) : x \in Entry(schemas[i], s)}
           /\ \A s, f : /\ \A x \in FieldOf(schemas[i], s, f) : IsField(x)
                        /\ FieldOf(bare[i], s, f) = {BareField(x) : x \in FieldOf(schemas[i], s, f)}
<1>1. /\ DOMAIN bare[i] = DOMAIN schemas[i]
      /\ \A s \in DOMAIN schemas[i] : IsSchema(schemas[i][s]) /\ bare[i][s] = BareSchema(schemas[i][s])
  BY DEF AreBareOf
<1>2. ASSUME NEW s
      PROVE  /\ \A x \in Entry(schemas[i], s) : IsSchema(x)
             /\ Entry(bare[i], s) = {BareSchema(x) : x \in Entry(schemas[i], s)}
  <2>1. CASE s \in DOMAIN schemas[i]
    <3>1. Entry(schemas[i], s) = {schemas[i][s]} /\ Entry(bare[i], s) = {bare[i][s]}
      BY <1>1, <2>1, EntryIsOption
    <3> QED
      BY <1>1, <2>1, <3>1
  <2>2. CASE s \notin DOMAIN schemas[i]
    <3>1. Entry(schemas[i], s) = {} /\ Entry(bare[i], s) = {}
      BY <1>1, <2>2, EntryIsOption
    <3> QED
      BY <3>1
  <2> QED
    BY <2>1, <2>2
<1>3. ASSUME NEW s, NEW f
      PROVE  /\ \A x \in FieldOf(schemas[i], s, f) : IsField(x)
             /\ FieldOf(bare[i], s, f) = {BareField(x) : x \in FieldOf(schemas[i], s, f)}
  <2>1. CASE s \in DOMAIN schemas[i]
    <3> DEFINE whole == schemas[i][s]
               small == bare[i][s]
    <3>1. Entry(schemas[i], s) = {whole} /\ Entry(bare[i], s) = {small}
      BY <1>1, <2>1, EntryIsOption
    <3>2. FieldOf(schemas[i], s, f) = Entry(whole.fields, f) /\ FieldOf(bare[i], s, f) = Entry(small.fields, f)
      <4> HIDE DEF whole, small
      <4> QED
        BY <3>1 DEF FieldOf
    <3>3. /\ IsSchema(whole)
          /\ DOMAIN small.fields = DOMAIN whole.fields
          /\ \A g \in DOMAIN whole.fields : small.fields[g] = BareField(whole.fields[g])
      BY <1>1, <2>1, BareSchemaIs
    <3>4. \A g \in DOMAIN whole.fields : IsField(whole.fields[g])
      BY <3>3 DEF IsSchema
    <3> HIDE DEF whole, small
    <3>5. CASE f \in DOMAIN whole.fields
      <4>1. Entry(whole.fields, f) = {whole.fields[f]} /\ Entry(small.fields, f) = {small.fields[f]}
        BY <3>3, <3>5, EntryIsOption
      <4> QED
        BY <3>2, <3>3, <3>4, <3>5, <4>1
    <3>6. CASE f \notin DOMAIN whole.fields
      <4>1. Entry(whole.fields, f) = {} /\ Entry(small.fields, f) = {}
        BY <3>3, <3>6, EntryIsOption
      <4> QED
        BY <3>2, <4>1
    <3> QED
      BY <3>5, <3>6
  <2>2. CASE s \notin DOMAIN schemas[i]
    <3>1. Entry(schemas[i], s) = {} /\ Entry(bare[i], s) = {}
      BY <1>1, <2>2, EntryIsOption
    <3> QED
      BY <3>1 DEF FieldOf
  <2> QED
    BY <2>1, <2>2
<1> QED
  BY <1>2, <1>3

\* What the two triples of a schema have in common.
LEMMA BareSchemaTriples ==
    ASSUME NEW bare, NEW schemas, AreBareOf(bare, schemas), NEW s
    PROVE  /\ \A i \in Sides :
                Entries(bare, s)[i] = {BareSchema(x) : x \in Entries(schemas, s)[i]}
                /\ \A x \in Entries(schemas, s)[i] : IsSchema(x)
           /\ Present(Entries(bare, s)) <=> Present(Entries(schemas, s))
           /\ FacetOf(Entries(bare, s), "key") = FacetOf(Entries(schemas, s), "key")
<1>1. ASSUME NEW i \in Sides
      PROVE  /\ Entries(bare, s)[i] = {BareSchema(x) : x \in Entries(schemas, s)[i]}
             /\ \A x \in Entries(schemas, s)[i] : IsSchema(x)
  BY BareEntries DEF Entries
<1>2. Present(Entries(bare, s)) <=> Present(Entries(schemas, s))
  BY <1>1 DEF Present
<1>3. FacetOf(Entries(bare, s), "key") = FacetOf(Entries(schemas, s), "key")
  <2>1. ASSUME NEW i \in Sides
        PROVE  {x.key : x \in Entries(bare, s)[i]} = {x.key : x \in Entries(schemas, s)[i]}
    <3>1. \A x \in Entries(schemas, s)[i] : BareSchema(x).key = x.key
      BY <1>1, BareSchemaIs
    <3> QED
      BY <1>1, <3>1
  <2> QED
    BY <2>1 DEF FacetOf
<1> QED
  BY <1>1, <1>2, <1>3

\* The same for a field.
LEMMA BareFieldTriples ==
    ASSUME NEW bare, NEW schemas, AreBareOf(bare, schemas), NEW s, NEW f
    PROVE  /\ \A i \in Sides :
                FieldEntries(bare, s, f)[i] = {BareField(x) : x \in FieldEntries(schemas, s, f)[i]}
                /\ \A x \in FieldEntries(schemas, s, f)[i] : IsField(x)
           /\ Present(FieldEntries(bare, s, f)) <=> Present(FieldEntries(schemas, s, f))
           /\ \A facet \in {"key", "type", "required", "format"} :
                FacetOf(FieldEntries(bare, s, f), facet) = FacetOf(FieldEntries(schemas, s, f), facet)
<1>1. ASSUME NEW i \in Sides
      PROVE  /\ FieldEntries(bare, s, f)[i] = {BareField(x) : x \in FieldEntries(schemas, s, f)[i]}
             /\ \A x \in FieldEntries(schemas, s, f)[i] : IsField(x)
  <2>1. FieldEntries(bare, s, f)[i] = FieldOf(bare[i], s, f)
        /\ FieldEntries(schemas, s, f)[i] = FieldOf(schemas[i], s, f)
    BY FieldEntriesAre
  <2>2. /\ FieldOf(bare[i], s, f) = {BareField(x) : x \in FieldOf(schemas[i], s, f)}
        /\ \A x \in FieldOf(schemas[i], s, f) : IsField(x)
    BY BareEntries
  <2> QED
    BY <2>1, <2>2
<1>2. Present(FieldEntries(bare, s, f)) <=> Present(FieldEntries(schemas, s, f))
  BY <1>1 DEF Present
<1>3. ASSUME NEW facet \in {"key", "type", "required", "format"}
      PROVE  FacetOf(FieldEntries(bare, s, f), facet) = FacetOf(FieldEntries(schemas, s, f), facet)
  <2>1. ASSUME NEW i \in Sides
        PROVE  {x[facet] : x \in FieldEntries(bare, s, f)[i]} = {x[facet] : x \in FieldEntries(schemas, s, f)[i]}
    <3>1. \A x \in FieldEntries(schemas, s, f)[i] : BareField(x)[facet] = x[facet]
      BY <1>1, BareFieldIs
    <3> QED
      BY <1>1, <3>1
  <2> QED
    BY <2>1 DEF FacetOf
<1> QED
  BY <1>1, <1>2, <1>3

-----------------------------------------------------------------------------
\* Without subject conflicts, whatever is not in all three documents is chosen
\* whole.
LEMMA SubjectsAreChosen ==
    ASSUME NEW schemas, SubjectConflicts(schemas) = {}
    PROVE  /\ \A s : ~Present(Entries(schemas, s)) => Choice(Entries(schemas, s)) # {}
           /\ \A s, f : ~Present(FieldEntries(schemas, s, f)) => Choice(FieldEntries(schemas, s, f)) # {}
<1> DEFINE Schema(s) == LET options == Entries(schemas, s)
                        IN SubjectClash(SchemaTarget(s), options,
                                        [i \in Sides |-> {SchemaSubjectV2(x) : x \in options[i]}])
           Field(s, f) == LET options == FieldEntries(schemas, s, f)
                          IN SubjectClash(FieldTarget(s, f), options,
                                          [i \in Sides |-> {FieldSubjectV2(x) : x \in options[i]}])
           ids(s) == Ids(FieldsIn(Entries(schemas, s)))
<1>1. (UNION {Schema(s) : s \in Ids(schemas)})
        \union (UNION {UNION {Field(s, f) : f \in ids(s)} : s \in Continuing(schemas)}) = {}
  BY DEF SubjectConflicts
<1>2. ASSUME NEW s, ~Present(Entries(schemas, s)) PROVE Choice(Entries(schemas, s)) # {}
  <2>1. CASE s \in Ids(schemas)
    <3>1. Schema(s) = {}
      <4> HIDE DEF Schema, Field, ids
      <4> QED
        BY <1>1, <2>1
    <3> QED
      BY <1>2, <3>1, NoClash DEF SubjectClash
  <2>2. CASE s \notin Ids(schemas)
    BY <2>2, NobodysEntry
  <2> QED
    BY <2>1, <2>2
<1>3. ASSUME NEW s, NEW f, ~Present(FieldEntries(schemas, s, f)) PROVE Choice(FieldEntries(schemas, s, f)) # {}
  <2>1. CASE ~Present(Entries(schemas, s))
    <3> DEFINE whole == Entries(schemas, s)
               options == FieldEntries(schemas, s, f)
    <3>1. Choice(whole) # {}
      BY <1>2, <2>1
    <3>2. \A i \in Sides : options[i] = UNION {Entry(x.fields, f) : x \in whole[i]}
      <4>1. ASSUME NEW i \in Sides PROVE options[i] = UNION {Entry(x.fields, f) : x \in whole[i]}
        <5>1. options[i] = FieldOf(schemas[i], s, f)
          BY FieldEntriesAre
        <5>2. FieldOf(schemas[i], s, f) = UNION {Entry(x.fields, f) : x \in whole[i]}
          BY FieldEntriesAre
        <5> QED
          BY <5>1, <5>2
      <4> QED
        BY <4>1
    <3> HIDE DEF whole, options
    <3>3. \A i, j \in Sides : whole[i] = whole[j] => options[i] = options[j]
      BY <3>2
    <3>4. Choice(options) # {}
      BY <3>1, <3>3, ChoiceOfPart
    <3> QED
      BY <3>4 DEF options
  <2>2. CASE Present(Entries(schemas, s)) /\ f \in ids(s)
    <3>1. s \in Continuing(schemas)
      BY <2>2, PresentIsMerged DEF Continuing
    <3>2. Field(s, f) = {}
      <4> HIDE DEF Schema, Field, ids
      <4> QED
        BY <1>1, <2>2, <3>1
    <3> QED
      BY <1>3, <3>2, NoClash DEF SubjectClash
  <2>3. CASE f \notin ids(s)
    BY <2>3, NobodysEntry DEF FieldEntries
  <2> QED
    BY <2>1, <2>2, <2>3
<1> QED
  BY <1>2, <1>3

\* A continuing facet of which v2 finds no conflict is chosen.
LEMMA FacetsAreChosen ==
    ASSUME NEW schemas, ConstraintConflicts(schemas) = {}, NameConflicts(schemas) = {}
    PROVE  /\ \A s : Present(Entries(schemas, s)) => Choice(FacetOf(Entries(schemas, s), "name")) # {}
           /\ \A s, f : Present(Entries(schemas, s)) /\ Present(FieldEntries(schemas, s, f)) =>
                /\ Choice(FacetOf(FieldEntries(schemas, s, f), "name")) # {}
                /\ Choice(FacetOf(FieldEntries(schemas, s, f), "constraint")) # {}
<1> DEFINE Schema(s) == FacetClash(SchemaTarget(s), "name", Entries(schemas, s))
           Field(q, facet) == FacetClash(FieldTarget(q[1], q[2]), facet, FieldEntries(schemas, q[1], q[2]))
<1>1. /\ UNION {Field(q, "constraint") : q \in ContinuingFields(schemas)} = {}
      /\ (UNION {Schema(s) : s \in Continuing(schemas)})
           \union (UNION {Field(q, "name") : q \in ContinuingFields(schemas)}) = {}
  BY DEF ConstraintConflicts, NameConflicts
<1>2. ASSUME NEW s, Present(Entries(schemas, s)) PROVE Choice(FacetOf(Entries(schemas, s), "name")) # {}
  <2>1. s \in Continuing(schemas)
    BY <1>2, PresentIsMerged DEF Continuing
  <2>2. Schema(s) = {}
    <3> HIDE DEF Schema, Field
    <3> QED
      BY <1>1, <2>1
  <2> QED
    BY <2>2, NoFacetClash
<1>3. ASSUME NEW s, NEW f, Present(Entries(schemas, s)), Present(FieldEntries(schemas, s, f))
      PROVE  /\ Choice(FacetOf(FieldEntries(schemas, s, f), "name")) # {}
             /\ Choice(FacetOf(FieldEntries(schemas, s, f), "constraint")) # {}
  <2>1. s \in Continuing(schemas)
    BY <1>3, PresentIsMerged DEF Continuing
  <2>2. f \in Ids(FieldsIn(Entries(schemas, s)))
    BY <1>3, PresentIsMerged DEF FieldEntries
  <2> DEFINE q == <<s, f>>
  <2>3. q[1] = s /\ q[2] = f
    OBVIOUS
  <2>4. q \in ContinuingFields(schemas)
    BY <1>3, <2>1, <2>2 DEF ContinuingFields
  <2> HIDE DEF q
  <2>5. Field(q, "constraint") = {} /\ Field(q, "name") = {}
    <3> HIDE DEF Schema, Field
    <3> QED
      BY <1>1, <2>4
  <2> QED
    BY <2>3, <2>5, NoFacetClash
<1> QED
  BY <1>2, <1>3

-----------------------------------------------------------------------------
\* What a conflict is about.
LEMMA ClashIs ==
    ASSUME NEW target, NEW facet, NEW triple, NEW facts, NEW c \in Clash(target, facet, triple, facts)
    PROVE  Choice(triple) = {} /\ Target(c) = target /\ Facet(c) = facet
<1>1. c = <<target, facet, facts>> /\ Choice(triple) = {}
  BY DEF Clash, Conflict
<1> QED
  BY <1>1 DEF Target, Facet

\* The targets that are no subjects.
LEMMA TargetsDiffer ==
    /\ DocumentTarget[1] = "document"
    /\ \A e : EntityTarget(e)[1] = "entity"
    /\ \A e, s, f : StoredTarget(e, s, f)[1] = "stored_field"
  BY DEF DocumentTarget, EntityTarget, StoredTarget

\* A facet's conflict is no subject conflict.
LEMMA NotASubject ==
    ASSUME NEW target, NEW facet, NEW triple, NEW facts, NEW c \in Clash(target, facet, triple, facts),
           facet # "subject" \/ target[1] \notin {"schema", "schema_field"}
    PROVE  ~IsSubjectConflict(c)
  BY ClashIs DEF IsSubjectConflict

\* v1 finds no subject conflict in the stripped schemas that v2 does not find.
LEMMA NoHiddenSubjects ==
    ASSUME NEW bare, NEW schemas, AreBareOf(bare, schemas), SubjectConflicts(schemas) = {}
    PROVE  \A c \in SchemaConflicts(bare) : ~IsSubjectConflict(c)
<1>1. ASSUME NEW s, ~Present(Entries(bare, s)) PROVE Choice(Entries(bare, s)) # {}
  <2> DEFINE whole == Entries(schemas, s)
             parts == Entries(bare, s)
  <2>1. Choice(whole) # {}
    BY <1>1, BareSchemaTriples, SubjectsAreChosen
  <2>2. \A i \in Sides : parts[i] = {BareSchema(x) : x \in whole[i]}
    BY BareSchemaTriples
  <2> HIDE DEF whole, parts
  <2>3. \A i, j \in Sides : whole[i] = whole[j] => parts[i] = parts[j]
    BY <2>2
  <2>4. Choice(parts) # {}
    BY <2>1, <2>3, ChoiceOfPart
  <2> QED
    BY <2>4 DEF parts
<1>2. ASSUME NEW s, NEW f, ~Present(FieldEntries(bare, s, f)) PROVE Choice(FieldEntries(bare, s, f)) # {}
  <2> DEFINE whole == FieldEntries(schemas, s, f)
             parts == FieldEntries(bare, s, f)
  <2>1. Choice(whole) # {}
    BY <1>2, BareFieldTriples, SubjectsAreChosen
  <2>2. \A i \in Sides : parts[i] = {BareField(x) : x \in whole[i]}
    BY BareFieldTriples
  <2> HIDE DEF whole, parts
  <2>3. \A i, j \in Sides : whole[i] = whole[j] => parts[i] = parts[j]
    BY <2>2
  <2>4. Choice(parts) # {}
    BY <2>1, <2>3, ChoiceOfPart
  <2> QED
    BY <2>4 DEF parts
<1>3. ASSUME NEW s, NEW c \in FieldConflicts(s, FieldsIn(Entries(bare, s)))
      PROVE  ~IsSubjectConflict(c)
  <2> DEFINE fields == FieldsIn(Entries(bare, s))
             Facets(f) == UNION {FacetClash(FieldTarget(s, f), facet, Entries(fields, f)) :
                                 facet \in {"key", "type", "required"}}
             Subject(f) == Clash(FieldTarget(s, f), "subject", Entries(fields, f),
                                 [i \in Sides |-> {FieldSubject(x) : x \in Entries(fields, f)[i]}])
             Of(f) == IF Present(Entries(fields, f)) THEN Facets(f) ELSE Subject(f)
  <2>1. FieldConflicts(s, fields) = UNION {Of(f) : f \in Ids(fields)}
    BY DEF FieldConflicts
  <2>2. PICK f : c \in Of(f)
    <3> HIDE DEF Of
    <3> QED
      BY <1>3, <2>1
  <2>3. Entries(fields, f) = FieldEntries(bare, s, f)
    BY DEF FieldEntries
  <2>4. CASE Present(Entries(fields, f))
    <3>1. PICK facet \in {"key", "type", "required"} :
            c \in Clash(FieldTarget(s, f), facet, FacetOf(Entries(fields, f), facet), FacetOf(Entries(fields, f), facet))
      BY <2>2, <2>4 DEF FacetClash
    <3> QED
      BY <3>1, NotASubject
  <2>5. CASE ~Present(Entries(fields, f))
    BY <1>2, <2>2, <2>3, <2>5, ClashIs
  <2> QED
    BY <2>4, <2>5
<1>4. ASSUME NEW c \in SchemaConflicts(bare) PROVE ~IsSubjectConflict(c)
  <2> DEFINE Key(s) == FacetClash(SchemaTarget(s), "key", Entries(bare, s))
             Subject(s) == Clash(SchemaTarget(s), "subject", Entries(bare, s),
                                 [i \in Sides |-> {SchemaSubject(x) : x \in Entries(bare, s)[i]}])
             Of(s) == IF Present(Entries(bare, s))
                      THEN FieldConflicts(s, FieldsIn(Entries(bare, s))) \union Key(s) ELSE Subject(s)
  <2>1. SchemaConflicts(bare) = UNION {Of(s) : s \in Ids(bare)}
    BY DEF SchemaConflicts
  <2>2. PICK s : c \in Of(s)
    <3> HIDE DEF Of
    <3> QED
      BY <1>4, <2>1
  <2>3. CASE ~Present(Entries(bare, s))
    BY <1>1, <2>2, <2>3, ClashIs
  <2>4. CASE c \in FieldConflicts(s, FieldsIn(Entries(bare, s)))
    BY <1>3, <2>4
  <2>5. CASE c \in Key(s)
    BY <2>5, NotASubject DEF FacetClash
  <2> QED
    BY <2>2, <2>3, <2>4, <2>5
<1> QED
  BY <1>4

\* Nor do its titles and entities have any.
LEMMA OtherConflictsAreNoSubjects ==
    ASSUME NEW docs, NEW c \in TitleConflicts(docs) \union EntityConflicts(EntitiesOf(docs))
    PROVE  ~IsSubjectConflict(c)
<1>1. CASE c \in TitleConflicts(docs)
  BY <1>1, NotASubject DEF TitleConflicts
<1>2. CASE c \in EntityConflicts(EntitiesOf(docs))
  <2> DEFINE options(e) == Entries(EntitiesOf(docs), e)
             Cell(e, q) == LET facts == Qualified(options(e), q[1], q[2])
                           IN Clash(StoredTarget(e, q[1], q[2]), "stored_value", facts, facts)
             Cells_(e) == UNION {Cell(e, q) : q \in QualifiedFields(options(e))}
             Facets(e) == FacetClash(EntityTarget(e), "schema", options(e))
                            \union FacetClash(EntityTarget(e), "key", options(e))
             Subject(e) == Clash(EntityTarget(e), "subject", options(e), options(e))
             Of(e) == IF Present(options(e)) THEN Facets(e) \union Cells_(e) ELSE Subject(e)
  <2>1. EntityConflicts(EntitiesOf(docs)) = UNION {Of(e) : e \in Ids(EntitiesOf(docs))}
    BY DEF EntityConflicts
  <2>2. PICK e : c \in Of(e)
    <3> HIDE DEF Of
    <3> QED
      BY <1>2, <2>1
  <2>3. c \in Facets(e) \union Cells_(e) \union Subject(e)
    <3> HIDE DEF Facets, Cells_, Subject
    <3> QED
      BY <2>2
  <2>4. CASE c \in Facets(e)
    BY <2>4, NotASubject DEF FacetClash
  <2>5. CASE c \in Cells_(e)
    <3>1. PICK q : c \in Cell(e, q)
      <4> HIDE DEF Cell
      <4> QED
        BY <2>5
    <3> QED
      BY <3>1, NotASubject, TargetsDiffer
  <2>6. CASE c \in Subject(e)
    BY <2>6, NotASubject, TargetsDiffer
  <2> QED
    BY <2>3, <2>4, <2>5, <2>6
<1> QED
  BY <1>1, <1>2

-----------------------------------------------------------------------------
\* A facet of something chosen whole, as v2 settles it.
LEMMA SettledWhole ==
    ASSUME NEW options, ~Present(options), NEW facet, NEW x, Chosen(options) = {x}
    PROVE  Settled(options, facet) = x[facet]
<1>1. {y[facet] : y \in Chosen(options)} = {x[facet]}
  OBVIOUS
<1> QED
  BY <1>1, TheOne DEF Settled

\* A facet of something that continues, as v2 settles it.
LEMMA SettledPart ==
    ASSUME NEW options, Present(options), NEW facet
    PROVE  Settled(options, facet) = The(Chosen(FacetOf(options, facet)))
  BY DEF Settled

\* What is put back on a field, and what is left alone.
LEMMA RestoredFieldIs ==
    ASSUME NEW field, IsField(field), NEW options
    PROVE  /\ \A facet \in {"key", "type", "required", "format"} : RestoredField(field, options)[facet] = field[facet]
           /\ RestoredField(field, options).name = Settled(options, "name")
           /\ RestoredField(field, options).constraint = Settled(options, "constraint")
  BY DEF IsField, IsRecord, RestoredField

\* Schemas with names, constraints and orders put back.
AreRestored(restored, merged, schemas) ==
    /\ DOMAIN restored = DOMAIN merged
    /\ \A s \in DOMAIN merged : restored[s] = RestoredSchema(merged[s], schemas, s)

\* The schemas and fields of such schemas.
LEMMA RestoredEntries ==
    ASSUME NEW merged, NEW schemas, NEW restored, AreRestored(restored, merged, schemas), NEW s
    PROVE  /\ Entry(restored, s) = {RestoredSchema(x, schemas, s) : x \in Entry(merged, s)}
           /\ \A f : FieldOf(restored, s, f) =
                       {RestoredField(x, FieldEntries(schemas, s, f)) : x \in FieldOf(merged, s, f)}
<1>1. CASE s \notin DOMAIN merged
  <2>1. Entry(restored, s) = {} /\ Entry(merged, s) = {}
    BY <1>1, EntryIsOption DEF AreRestored
  <2> QED
    BY <2>1 DEF FieldOf
<1>2. CASE s \in DOMAIN merged
  <2> DEFINE x == merged[s]
             y == RestoredSchema(x, schemas, s)
  <2>1. Entry(restored, s) = {y} /\ Entry(merged, s) = {x}
    BY <1>2, EntryIsOption DEF AreRestored
  <2>2. y.fields = [g \in DOMAIN x.fields |-> RestoredField(x.fields[g], FieldEntries(schemas, s, g))]
    BY DEF RestoredSchema
  <2>3. \A f : FieldOf(restored, s, f) = Entry(y.fields, f) /\ FieldOf(merged, s, f) = Entry(x.fields, f)
    <3> HIDE DEF x, y
    <3> QED
      BY <2>1 DEF FieldOf
  <2>4. Entry(restored, s) = {RestoredSchema(z, schemas, s) : z \in Entry(merged, s)}
    BY <2>1
  <2> HIDE DEF x, y
  <2>5. ASSUME NEW f, f \in DOMAIN x.fields
        PROVE  FieldOf(restored, s, f) = {RestoredField(z, FieldEntries(schemas, s, f)) : z \in FieldOf(merged, s, f)}
    <3>1. Entry(y.fields, f) = {y.fields[f]} /\ Entry(x.fields, f) = {x.fields[f]}
      BY <2>2, <2>5, EntryIsOption
    <3>2. y.fields[f] = RestoredField(x.fields[f], FieldEntries(schemas, s, f))
      BY <2>2, <2>5
    <3> QED
      BY <2>3, <3>1, <3>2
  <2>6. ASSUME NEW f, f \notin DOMAIN x.fields
        PROVE  FieldOf(restored, s, f) = {RestoredField(z, FieldEntries(schemas, s, f)) : z \in FieldOf(merged, s, f)}
    <3>1. Entry(y.fields, f) = {} /\ Entry(x.fields, f) = {}
      BY <2>2, <2>6, EntryIsOption
    <3> QED
      BY <2>3, <3>1
  <2> QED
    BY <2>4, <2>5, <2>6
<1> QED
  BY <1>1, <1>2

\* Every fact of a schema, of a v2 merge without conflicts.
LEMMA RestoredSchemaFollows ==
    ASSUME NEW bare, NEW schemas, AreBareOf(bare, schemas),
           SchemaConflicts(bare) = {}, SubjectConflicts(schemas) = {},
           ConstraintConflicts(schemas) = {}, NameConflicts(schemas) = {},
           NEW restored, AreRestored(restored, MergedSchemas(bare), schemas),
           NEW s, NEW facet \in SchemaFactNames
    PROVE  Follows({x[facet] : x \in Entry(restored, s)}, FacetOf(Entries(schemas, s), facet))
<1> DEFINE options == Entries(schemas, s)
           parts == Entries(bare, s)
           merged == MergedSchemas(bare)
<1>1. Entry(restored, s) = {RestoredSchema(x, schemas, s) : x \in Entry(merged, s)}
  BY RestoredEntries
<1>2. \A x : RestoredSchema(x, schemas, s).key = x.key
             /\ RestoredSchema(x, schemas, s).name = Settled(options, "name")
  BY DEF RestoredSchema
<1>3. /\ \A i \in Sides : parts[i] = {BareSchema(x) : x \in options[i]} /\ \A x \in options[i] : IsSchema(x)
      /\ Present(parts) <=> Present(options)
      /\ FacetOf(parts, "key") = FacetOf(options, "key")
  BY BareSchemaTriples
<1>4. \A i \in Sides : IsOption(options[i])
  BY EntriesAreOptions
<1>5. CASE ~Present(options)
  <2>1. Choice(parts) # {} /\ Entry(merged, s) = Chosen(parts)
    BY <1>3, <1>5, MergedSchemasFollow
  <2>2. Choice(options) # {}
    BY <1>5, SubjectsAreChosen
  <2>3. PICK i \in Sides : Chosen(options) = options[i] /\ Chosen(parts) = parts[i]
    <3> HIDE DEF options, parts
    <3>1. \A i, j \in Sides : options[i] = options[j] => parts[i] = parts[j]
      BY <1>3
    <3> QED
      BY <2>2, <3>1, ChoiceOfPart
  <2> HIDE DEF options, parts, merged
  <2>4. {x[facet] : x \in Entry(restored, s)} = {x[facet] : x \in Chosen(options)}
    <3>1. CASE options[i] = {}
      <4>1. Entry(merged, s) = {}
        BY <1>3, <2>1, <2>3, <3>1
      <4> QED
        BY <1>1, <2>3, <3>1, <4>1
    <3>2. CASE options[i] # {}
      <4>1. PICK x : options[i] = {x}
        BY <1>4, <3>2 DEF IsOption
      <4> DEFINE y == RestoredSchema(BareSchema(x), schemas, s)
      <4>2. Entry(restored, s) = {y}
        <5>1. Entry(merged, s) = {BareSchema(x)}
          BY <1>3, <2>1, <2>3, <4>1
        <5> QED
          BY <1>1, <5>1
      <4>3. y.key = x.key
        BY <1>2, <1>3, <4>1, BareSchemaIs
      <4>4. y.name = x.name
        BY <1>2, <1>5, <2>3, <4>1, SettledWhole
      <4>5. y[facet] = x[facet]
        BY <4>3, <4>4 DEF SchemaFactNames
      <4> HIDE DEF y
      <4> QED
        BY <2>3, <4>1, <4>2, <4>5
    <3> QED
      BY <3>1, <3>2
  <2> QED
    BY <2>2, <2>4, WholeFollows DEF options
<1>6. CASE Present(options)
  <2>1. Choice(FacetOf(options, "key")) # {} /\ Choice(FacetOf(options, "name")) # {}
    BY <1>3, <1>6, MergedSchemasFollow, FacetsAreChosen
  <2>2. PICK x : Entry(merged, s) = {x} /\ x.key = The(Chosen(FacetOf(options, "key")))
    <3> DEFINE x == [key |-> The(Chosen(FacetOf(parts, "key"))), name |-> {}, order |-> {},
                     fields |-> MergedFields(FieldsIn(parts))]
    <3>1. Entry(merged, s) = {x}
      BY <1>3, <1>6, MergedSchemasFollow
    <3>2. x.key = The(Chosen(FacetOf(options, "key")))
      BY <1>3
    <3> HIDE DEF x
    <3> QED
      BY <3>1, <3>2
  <2> DEFINE y == RestoredSchema(x, schemas, s)
  <2>3. Entry(restored, s) = {y}
    BY <1>1, <2>2
  <2>4. y.key = The(Chosen(FacetOf(options, "key"))) /\ y.name = The(Chosen(FacetOf(options, "name")))
    BY <1>2, <1>6, <2>2, SettledPart
  <2> HIDE DEF y, options
  <2>5. y[facet] = The(Chosen(FacetOf(options, facet))) /\ Choice(FacetOf(options, facet)) # {}
    BY <2>1, <2>4 DEF SchemaFactNames
  <2>6. Follows({z[facet] : z \in {y}}, FacetOf(options, facet))
    BY <1>4, <1>6, <2>5, FacetFollows
  <2> QED
    BY <2>3, <2>6 DEF options
<1> QED
  BY <1>5, <1>6

\* Every fact of a field, of a v2 merge without conflicts.
LEMMA RestoredFieldFollows ==
    ASSUME NEW bare, NEW schemas, AreBareOf(bare, schemas),
           SchemaConflicts(bare) = {}, SubjectConflicts(schemas) = {},
           ConstraintConflicts(schemas) = {}, NameConflicts(schemas) = {},
           \A i \in Sides : \A s, f : \A x \in FieldOf(schemas[i], s, f) : x.format = {},
           NEW restored, AreRestored(restored, MergedSchemas(bare), schemas),
           NEW s, NEW f, NEW facet \in FieldFactNames
    PROVE  Follows({x[facet] : x \in FieldOf(restored, s, f)}, FacetOf(FieldEntries(schemas, s, f), facet))
<1> DEFINE options == FieldEntries(schemas, s, f)
           parts == FieldEntries(bare, s, f)
           field == FieldOf(MergedSchemas(bare), s, f)
           record == [key |-> The(Chosen(FacetOf(parts, "key"))),
                      type |-> The(Chosen(FacetOf(parts, "type"))),
                      required |-> The(Chosen(FacetOf(parts, "required"))),
                      name |-> {}, constraint |-> {}, format |-> {}]
<1>1. FieldOf(restored, s, f) = {RestoredField(x, options) : x \in field}
  BY RestoredEntries
<1>2. /\ \A i \in Sides : parts[i] = {BareField(x) : x \in options[i]} /\ \A x \in options[i] : IsField(x)
      /\ Present(parts) <=> Present(options)
      /\ \A g \in {"key", "type", "required"} : FacetOf(parts, g) = FacetOf(options, g)
  BY BareFieldTriples
<1>3. \A i \in Sides : options[i] = FieldOf(schemas[i], s, f) /\ IsOption(options[i])
  BY FieldEntriesAre
<1>4. \/ ~Present(parts) /\ Choice(parts) # {} /\ field = Chosen(parts)
      \/ /\ Present(parts) /\ Present(Entries(bare, s))
         /\ \A g \in {"key", "type", "required"} : Choice(FacetOf(parts, g)) # {}
         /\ field = {record}
  BY MergedFieldOf
<1>5. CASE ~Present(options)
  <2>1. Choice(options) # {}
    BY <1>5, SubjectsAreChosen
  <2> HIDE DEF options, parts, field
  <2>2. PICK i \in Sides : Chosen(options) = options[i] /\ Chosen(parts) = parts[i]
    <3>1. \A i, j \in Sides : options[i] = options[j] => parts[i] = parts[j]
      BY <1>2
    <3> QED
      BY <2>1, <3>1, ChoiceOfPart
  <2>3. field = {BareField(x) : x \in options[i]}
    BY <1>2, <1>4, <1>5, <2>2
  <2>4. {x[facet] : x \in FieldOf(restored, s, f)} = {x[facet] : x \in Chosen(options)}
    <3>1. CASE options[i] = {}
      BY <1>1, <2>2, <2>3, <3>1
    <3>2. CASE options[i] # {}
      <4>1. PICK x : options[i] = {x}
        BY <1>3, <3>2 DEF IsOption
      <4> DEFINE z == BareField(x)
                 y == RestoredField(z, options)
      <4>2. FieldOf(restored, s, f) = {y}
        BY <1>1, <2>3, <4>1
      <4>3. IsField(x)
        BY <1>2, <4>1
      <4>4. IsField(z) /\ \A g \in {"key", "type", "required", "format"} : z[g] = x[g]
        BY <4>3, BareFieldIs
      <4>5. /\ \A g \in {"key", "type", "required", "format"} : y[g] = z[g]
            /\ y.name = Settled(options, "name") /\ y.constraint = Settled(options, "constraint")
        BY <4>4, RestoredFieldIs
      <4>6. Settled(options, "name") = x.name /\ Settled(options, "constraint") = x.constraint
        BY <1>5, <2>2, <4>1, SettledWhole
      <4> HIDE DEF y, z
      <4>7. y[facet] = x[facet]
        BY <4>4, <4>5, <4>6 DEF FieldFactNames
      <4> QED
        BY <2>2, <4>1, <4>2, <4>7
    <3> QED
      BY <3>1, <3>2
  <2> QED
    BY <2>1, <2>4, WholeFollows DEF options
<1>6. CASE Present(options)
  <2>1. /\ Present(Entries(schemas, s)) /\ field = {record}
        /\ \A g \in {"key", "type", "required"} : Choice(FacetOf(parts, g)) # {}
    BY <1>2, <1>4, <1>6, BareSchemaTriples
  <2>2. Choice(FacetOf(options, "name")) # {} /\ Choice(FacetOf(options, "constraint")) # {}
    BY <1>6, <2>1, FacetsAreChosen
  <2>3. IsField(record) /\ record.format = {}
        /\ \A g \in {"key", "type", "required"} : record[g] = The(Chosen(FacetOf(parts, g)))
    BY DEF IsField, IsRecord
  <2> HIDE DEF options, parts, field, record
  <2> DEFINE y == RestoredField(record, options)
  <2>4. FieldOf(restored, s, f) = {y}
    BY <1>1, <2>1
  <2>5. /\ \A g \in {"key", "type", "required", "format"} : y[g] = record[g]
        /\ y.name = Settled(options, "name") /\ y.constraint = Settled(options, "constraint")
    BY <2>3, RestoredFieldIs
  <2>6. /\ Settled(options, "name") = The(Chosen(FacetOf(options, "name")))
        /\ Settled(options, "constraint") = The(Chosen(FacetOf(options, "constraint")))
    BY <1>6, SettledPart
  <2> HIDE DEF y
  <2>7. CASE facet = "format"
    <3>1. y[facet] = {} /\ \A i \in Sides : \A x \in options[i] : x[facet] = {}
      <4>1. \A i \in Sides : \A x \in options[i] : x.format = {}
        BY <1>3
      <4> QED
        BY <2>3, <2>5, <2>7, <4>1
    <3>2. Follows({x[facet] : x \in {y}}, FacetOf(options, facet))
      BY <1>3, <1>6, <3>1, UnsetFollows
    <3> QED
      BY <2>4, <3>2 DEF options
  <2>8. CASE facet # "format"
    <3>1. y[facet] = The(Chosen(FacetOf(options, facet))) /\ Choice(FacetOf(options, facet)) # {}
      <4>1. CASE facet \in {"key", "type", "required"}
        BY <1>2, <2>1, <2>3, <2>5, <4>1
      <4>2. CASE facet \in {"name", "constraint"}
        BY <2>2, <2>5, <2>6, <4>2
      <4> QED
        BY <2>8, <4>1, <4>2 DEF FieldFactNames
    <3>2. Follows({x[facet] : x \in {y}}, FacetOf(options, facet))
      BY <1>3, <1>6, <3>1, FacetFollows
    <3> QED
      BY <2>4, <3>2 DEF options
  <2> QED
    BY <2>7, <2>8
<1> QED
  BY <1>5, <1>6

-----------------------------------------------------------------------------
\* The facets of a document.
DocumentFacets == {"id", "title", "schemas", "entities", "definitions"}

\* A map with one entry more.
LEMMA AddedShape ==
    ASSUME NEW m, NEW new, NEW x \in Added(m, new)
    PROVE  /\ IsMap(x)
           /\ IsFiniteSet(DOMAIN m) => IsFiniteSet(DOMAIN x)
           /\ \A k \in DOMAIN x : (k \in DOMAIN m /\ x[k] = m[k]) \/ (k \in DOMAIN new /\ x[k] \in new[k])
<1>1. PICK id \in DOMAIN new \ DOMAIN m : x \in {With(m, id, y) : y \in new[id]}
  BY DEF Added
<1>2. PICK y \in new[id] : x = With(m, id, y)
  BY <1>1
<1>3. DOMAIN x = DOMAIN m \union {id}
  BY <1>2 DEF With
<1>4. IsFiniteSet(DOMAIN m) => IsFiniteSet(DOMAIN x)
  BY <1>3, FS_AddElement
<1> QED
  BY <1>2, <1>4 DEF With, IsMap

\* A map with one entry less.
LEMMA WithoutShape ==
    ASSUME NEW m, NEW key
    PROVE  /\ IsMap(Without(m, key)) /\ DOMAIN Without(m, key) \subseteq DOMAIN m
           /\ \A k \in DOMAIN Without(m, key) : Without(m, key)[k] = m[k]
           /\ IsFiniteSet(DOMAIN m) => IsFiniteSet(DOMAIN Without(m, key))
<1>1. /\ IsMap(Without(m, key)) /\ DOMAIN Without(m, key) \subseteq DOMAIN m
      /\ \A k \in DOMAIN Without(m, key) : Without(m, key)[k] = m[k]
  BY DEF Without, Restrict, IsMap
<1> QED
  BY <1>1, FS_Subset

\* An assignment to facets that there are leaves a record a record.
LEMMA RevisedShape ==
    ASSUME NEW x, NEW facets, NEW domain, IsRecord(x, domain), DOMAIN facets \subseteq domain,
           NEW y \in Revised(x, facets)
    PROVE  /\ IsRecord(y, domain)
           /\ \A facet \in domain : facet \notin DOMAIN facets => y[facet] = x[facet]
<1>1. PICK facet \in DOMAIN facets : y \in {[x EXCEPT ![facet] = v] : v \in facets[facet]}
  BY DEF Revised
<1>2. PICK v \in facets[facet] : y = [x EXCEPT ![facet] = v]
  BY <1>1
<1> QED
  BY <1>2 DEF IsRecord

\* An edit of a field leaves a field.
LEMMA FieldShape ==
    ASSUME NEW f, IsField(f), NEW x \in Revised(f, FieldFacets)
    PROVE  IsField(x)
  BY EditsAssumption, RevisedShape DEF IsField

\* An edit of a schema leaves a schema.
LEMMA SchemaShape ==
    ASSUME NEW s, IsSchema(s), NEW x \in SchemaEdits(s)
    PROVE  IsSchema(x)
<1> DEFINE facets == {"key", "name", "order", "fields"}
<1>1. /\ IsRecord(s, facets) /\ DOMAIN s = facets
      /\ IsMap(s.fields) /\ \A f \in DOMAIN s.fields : IsField(s.fields[f])
      /\ IsFiniteSet(DOMAIN s.fields) /\ \A order \in s.order : s.order = {order}
  BY DEF IsSchema, IsRecord
<1>2. CASE x \in Revised(s, SchemaFacets)
  <2>1. /\ DOMAIN SchemaFacets \subseteq facets
        /\ "fields" \notin DOMAIN SchemaFacets /\ "order" \notin DOMAIN SchemaFacets
    BY EditsAssumption
  <2>2. IsRecord(x, facets) /\ x.fields = s.fields /\ x.order = s.order
    BY <1>1, <1>2, <2>1, RevisedShape
  <2> QED
    BY <1>1, <2>2 DEF IsSchema
<1>3. CASE x \in {[s EXCEPT !.order = order] : order \in Orders(s)}
  <2>1. PICK order \in Orders(s) : x = [s EXCEPT !.order = order]
    BY <1>3
  <2>2. IsRecord(x, facets) /\ x.fields = s.fields /\ x.order = order
    BY <1>1, <2>1 DEF IsRecord
  <2>3. \A one \in order : order = {one}
    BY DEF Orders
  <2> QED
    BY <1>1, <2>2, <2>3 DEF IsSchema
<1>4. CASE x \in {Refielded(s, fields) :
                  fields \in Added(s.fields, NewFields) \union {Without(s.fields, f) : f \in DOMAIN s.fields}}
  <2>1. PICK fields \in Added(s.fields, NewFields) \union {Without(s.fields, f) : f \in DOMAIN s.fields} :
          x = Refielded(s, fields)
    BY <1>4
  <2>2. /\ IsMap(fields) /\ IsFiniteSet(DOMAIN fields)
        /\ \A f \in DOMAIN fields : IsField(fields[f])
    <3>1. CASE fields \in Added(s.fields, NewFields)
      BY <1>1, <3>1, AddedShape, EditsAssumption
    <3>2. CASE fields \in {Without(s.fields, f) : f \in DOMAIN s.fields}
      BY <1>1, <3>2, WithoutShape
    <3> QED
      BY <2>1, <3>1, <3>2
  <2>3. IsRecord(x, facets) /\ x.fields = fields /\ x.order = NormalizedOrder(s.order, DOMAIN fields)
    BY <1>1, <2>1 DEF IsRecord, Refielded
  <2>4. \A one \in x.order : x.order = {one}
    <3>1. CASE s.order = {}
      BY <2>3, <3>1 DEF NormalizedOrder
    <3>2. CASE s.order # {}
      <4>1. PICK order : s.order = {order}
        BY <1>1, <3>2
      <4> QED
        BY <2>3, <4>1 DEF NormalizedOrder
    <3> QED
      BY <3>1, <3>2
  <2> QED
    BY <2>2, <2>3, <2>4 DEF IsSchema
<1>5. CASE x \in UNION {{[s EXCEPT !.fields[f] = y] : y \in Revised(s.fields[f], FieldFacets)} :
                        f \in DOMAIN s.fields}
  <2>1. PICK f \in DOMAIN s.fields : x \in {[s EXCEPT !.fields[f] = y] : y \in Revised(s.fields[f], FieldFacets)}
    BY <1>5
  <2>2. PICK y \in Revised(s.fields[f], FieldFacets) : x = [s EXCEPT !.fields[f] = y]
    BY <2>1
  <2>3. IsField(y)
    BY <1>1, FieldShape
  <2>4. x = [s EXCEPT !.fields = [s.fields EXCEPT ![f] = y]]
    BY <1>1, <2>2
  <2>5. IsRecord(x, facets) /\ x.fields = [s.fields EXCEPT ![f] = y] /\ x.order = s.order
    BY <1>1, <2>4 DEF IsRecord
  <2>6. IsMap([s.fields EXCEPT ![f] = y])
    BY DEF IsMap
  <2> QED
    BY <1>1, <2>3, <2>5, <2>6 DEF IsSchema
<1> QED
  BY <1>2, <1>3, <1>4, <1>5 DEF SchemaEdits

\* An edit of an entity leaves an entity.
LEMMA EntityShape ==
    ASSUME NEW e, IsEntity(e), NEW x \in EntityEdits(e)
    PROVE  IsEntity(x)
<1> DEFINE facets == {"key", "schema", "fields"}
<1>1. IsRecord(e, facets) /\ DOMAIN e = facets /\ IsMap(e.fields)
  BY DEF IsEntity, IsRecord
<1>2. CASE x \in Revised(e, EntityFacets)
  <2>1. DOMAIN EntityFacets \subseteq facets /\ "fields" \notin DOMAIN EntityFacets
    BY EditsAssumption
  <2>2. IsRecord(x, facets) /\ x.fields = e.fields
    BY <1>1, <1>2, <2>1, RevisedShape
  <2> QED
    BY <1>1, <2>2 DEF IsEntity
<1>3. CASE x \in {[e EXCEPT !.fields = Without(@, f)] : f \in DOMAIN e.fields}
  <2>1. PICK f : x = [e EXCEPT !.fields = Without(e.fields, f)]
    BY <1>3
  <2>2. IsRecord(x, facets) /\ x.fields = Without(e.fields, f)
    BY <1>1, <2>1 DEF IsRecord
  <2> QED
    BY <2>2, WithoutShape DEF IsEntity
<1>4. CASE x \in {[e EXCEPT !.fields = With(@, f, v)] : f \in DOMAIN e.fields \union DOMAIN NewFields, v \in Values}
  <2>1. PICK f, v : x = [e EXCEPT !.fields = With(e.fields, f, v)]
    BY <1>4
  <2>2. IsRecord(x, facets) /\ x.fields = With(e.fields, f, v)
    BY <1>1, <2>1 DEF IsRecord
  <2>3. IsMap(With(e.fields, f, v))
    BY DEF IsMap, With
  <2> QED
    BY <2>2, <2>3 DEF IsEntity
<1> QED
  BY <1>2, <1>3, <1>4 DEF EntityEdits

\* What goes with a removed schema or field leaves a document.
LEMMA PrunedShape ==
    ASSUME NEW d, IsDocument(d)
    PROVE  IsDocument(Pruned(d))
<1> DEFINE left == {e \in DOMAIN d.entities : d.entities[e].schema \in DOMAIN d.schemas}
           declared(e) == DOMAIN d.schemas[d.entities[e].schema].fields
           row(e) == [d.entities[e] EXCEPT !.fields = Restrict(@, DOMAIN @ \intersect declared(e))]
           rows == [e \in left |-> row(e)]
<1>1. DOMAIN d = DocumentFacets /\ IsRecord(d, DocumentFacets)
  BY DEF IsDocument, IsRecord, DocumentFacets
<1>2. Pruned(d) = [d EXCEPT !.entities = rows]
  BY DEF Pruned
<1>3. ASSUME NEW e \in left PROVE IsEntity(row(e))
  <2>1. IsEntity(d.entities[e])
    BY DEF IsDocument
  <2>2. \A y : IsEntity(y) => \A z : IsMap(z) => IsEntity([y EXCEPT !.fields = z])
    BY DEF IsEntity, IsRecord
  <2>3. IsMap(Restrict(d.entities[e].fields, DOMAIN d.entities[e].fields \intersect declared(e)))
    BY DEF IsMap, Restrict
  <2> QED
    BY <2>1, <2>2, <2>3
<1>4. IsMap(rows) /\ \A e \in DOMAIN rows : IsEntity(rows[e])
  <2> HIDE DEF left, row
  <2> QED
    BY <1>3 DEF IsMap
<1> HIDE DEF rows
<1>5. /\ IsRecord(Pruned(d), DocumentFacets)
      /\ Pruned(d).schemas = d.schemas /\ Pruned(d).entities = rows
  BY <1>1, <1>2 DEF IsRecord, DocumentFacets
<1> QED
  BY <1>4, <1>5 DEF IsDocument, DocumentFacets

\* An edit leaves a document.
LEMMA EditedShape ==
    ASSUME NEW d, IsDocument(d), NEW x \in Edited(d)
    PROVE  IsDocument(x)
<1> DEFINE schemas == Added(d.schemas, NewSchemas)
                        \union {Without(d.schemas, s) : s \in DOMAIN d.schemas}
                        \union UNION {{[d.schemas EXCEPT ![s] = y] : y \in SchemaEdits(d.schemas[s])} :
                                      s \in DOMAIN d.schemas}
           entities == Added(d.entities, NewEntities)
                         \union {Without(d.entities, e) : e \in DOMAIN d.entities}
                         \union UNION {{[d.entities EXCEPT ![e] = y] : y \in EntityEdits(d.entities[e])} :
                                       e \in DOMAIN d.entities}
<1>1. /\ DOMAIN d = DocumentFacets /\ IsRecord(d, DocumentFacets)
      /\ IsMap(d.schemas) /\ \A s \in DOMAIN d.schemas : IsSchema(d.schemas[s])
      /\ IsMap(d.entities) /\ \A e \in DOMAIN d.entities : IsEntity(d.entities[e])
  BY DEF IsDocument, IsRecord, DocumentFacets
<1>2. x \in {[d EXCEPT !.title = title] : title \in Titles}
             \union {[d EXCEPT !.definitions = definitions] : definitions \in Definitions}
             \union {Pruned([d EXCEPT !.schemas = y]) : y \in schemas}
             \union {[d EXCEPT !.entities = y] : y \in entities}
  BY DEF Edited
<1>3. ASSUME NEW y \in schemas PROVE IsMap(y) /\ \A s \in DOMAIN y : IsSchema(y[s])
  <2>1. CASE y \in Added(d.schemas, NewSchemas)
    BY <1>1, <2>1, AddedShape, EditsAssumption
  <2>2. CASE y \in {Without(d.schemas, s) : s \in DOMAIN d.schemas}
    BY <1>1, <2>2, WithoutShape
  <2>3. ASSUME NEW s \in DOMAIN d.schemas,
               y \in {[d.schemas EXCEPT ![s] = z] : z \in SchemaEdits(d.schemas[s])}
        PROVE  IsMap(y) /\ \A t \in DOMAIN y : IsSchema(y[t])
    <3>1. PICK z \in SchemaEdits(d.schemas[s]) : y = [d.schemas EXCEPT ![s] = z]
      BY <2>3
    <3>2. IsSchema(z)
      BY <1>1, SchemaShape
    <3>3. IsMap(y) /\ DOMAIN y = DOMAIN d.schemas /\ y[s] = z /\ \A t \in DOMAIN y : t # s => y[t] = d.schemas[t]
      BY <3>1 DEF IsMap
    <3> QED
      BY <1>1, <3>2, <3>3
  <2> QED
    BY <2>1, <2>2, <2>3
<1>4. ASSUME NEW y \in entities PROVE IsMap(y) /\ \A e \in DOMAIN y : IsEntity(y[e])
  <2>1. CASE y \in Added(d.entities, NewEntities)
    BY <1>1, <2>1, AddedShape, EditsAssumption
  <2>2. CASE y \in {Without(d.entities, e) : e \in DOMAIN d.entities}
    BY <1>1, <2>2, WithoutShape
  <2>3. ASSUME NEW e \in DOMAIN d.entities,
               y \in {[d.entities EXCEPT ![e] = z] : z \in EntityEdits(d.entities[e])}
        PROVE  IsMap(y) /\ \A t \in DOMAIN y : IsEntity(y[t])
    <3>1. PICK z \in EntityEdits(d.entities[e]) : y = [d.entities EXCEPT ![e] = z]
      BY <2>3
    <3>2. IsEntity(z)
      BY <1>1, EntityShape
    <3>3. IsMap(y) /\ DOMAIN y = DOMAIN d.entities /\ y[e] = z /\ \A t \in DOMAIN y : t # e => y[t] = d.entities[t]
      BY <3>1 DEF IsMap
    <3> QED
      BY <1>1, <3>2, <3>3
  <2> QED
    BY <2>1, <2>2, <2>3
<1> HIDE DEF schemas, entities
<1>5. ASSUME NEW v PROVE IsDocument([d EXCEPT !.title = v]) /\ IsDocument([d EXCEPT !.definitions = v])
  BY <1>1 DEF IsDocument, IsRecord, DocumentFacets
<1>6. ASSUME NEW y \in schemas PROVE IsDocument(Pruned([d EXCEPT !.schemas = y]))
  <2> DEFINE z == [d EXCEPT !.schemas = y]
  <2>1. IsRecord(z, DocumentFacets) /\ z.schemas = y /\ z.entities = d.entities
    BY <1>1 DEF IsRecord, DocumentFacets
  <2> HIDE DEF z
  <2>2. IsDocument(z)
    BY <1>1, <1>3, <2>1 DEF IsDocument, DocumentFacets
  <2>3. IsDocument(Pruned(z))
    BY <2>2, PrunedShape
  <2> QED
    BY <2>3 DEF z
<1>7. ASSUME NEW y \in entities PROVE IsDocument([d EXCEPT !.entities = y])
  <2> DEFINE z == [d EXCEPT !.entities = y]
  <2>1. IsRecord(z, DocumentFacets) /\ z.schemas = d.schemas /\ z.entities = y
    BY <1>1 DEF IsRecord, DocumentFacets
  <2> HIDE DEF z
  <2>2. IsDocument(z)
    BY <1>1, <1>4, <2>1 DEF IsDocument, DocumentFacets
  <2> QED
    BY <2>2 DEF z
<1> QED
  BY <1>2, <1>5, <1>6, <1>7

-----------------------------------------------------------------------------
\* The three outcomes of a merge.
LEMMA Statuses ==
    /\ \A reason : Refused(reason).status = "refused"
    /\ \A conflicts : Conflicted(conflicts).status = "conflicted"
    /\ \A document, unmaterialized :
         /\ Merged(document, unmaterialized).status = "merged"
         /\ Merged(document, unmaterialized).document = document
         /\ Merged(document, unmaterialized).unmaterialized = unmaterialized
  BY DEF Refused, Conflicted, Merged

\* What v1 makes of documents without conflicts.
MergedDocument(docs) ==
    [id |-> docs[Base].id,
     title |-> The(Chosen([i \in Sides |-> {docs[i].title}])),
     schemas |-> MergedSchemas(SchemasOf(docs)),
     entities |-> MergedEntities(EntitiesOf(docs)),
     definitions |-> docs[Base].definitions]

\* What v1 refuses, and what it makes of the rest.
LEMMA MergeOfAdmitted ==
    ASSUME NEW docs
    PROVE  /\ Merge(docs).status = "merged" =>
                \A i \in Sides :
                  /\ ~HasFormats(docs[i]) /\ ~HasOrders(docs[i])
                  /\ ~HasNames(docs[i]) /\ ~HasConstraints(docs[i])
                  /\ docs[i].definitions = docs[Base].definitions
           /\ (\A i \in Sides :
                  /\ ~HasFormats(docs[i]) /\ ~HasOrders(docs[i])
                  /\ ~HasNames(docs[i]) /\ ~HasConstraints(docs[i])
                  /\ docs[i].definitions = docs[Base].definitions) =>
                Merge(docs) = IF MergeConflicts(docs) # {}
                              THEN Conflicted(Canonical(SetToSeq(MergeConflicts(docs))))
                              ELSE Merged(MergedDocument(docs), Unmaterialized(EntitiesOf(docs)))
<1> DEFINE other == IF MergeConflicts(docs) # {}
                    THEN Conflicted(Canonical(SetToSeq(MergeConflicts(docs))))
                    ELSE Merged(MergedDocument(docs), Unmaterialized(EntitiesOf(docs)))
           formats == \E i \in Sides : HasFormats(docs[i])
           orders == \E i \in Sides : HasOrders(docs[i])
           names == \E i \in Sides : HasNames(docs[i])
           constraints == \E i \in Sides : HasConstraints(docs[i])
           definitions == \E i \in Sides : docs[i].definitions # docs[Base].definitions
<1>1. Merge(docs) = CASE formats -> Refused("number_format")
                      [] orders -> Refused("field_order")
                      [] names -> Refused("display_name")
                      [] constraints -> Refused("constraint")
                      [] definitions -> Refused("definitions")
                      [] OTHER -> other
  BY DEF Merge, MergedDocument
<1> HIDE DEF other, formats, orders, names, constraints, definitions
<1>2. Merge(docs).status = "merged" =>
        ~formats /\ ~orders /\ ~names /\ ~constraints /\ ~definitions
  BY <1>1, Statuses
<1>3. ~formats /\ ~orders /\ ~names /\ ~constraints /\ ~definitions => Merge(docs) = other
  BY <1>1
<1> QED
  BY <1>2, <1>3 DEF other, formats, orders, names, constraints, definitions

\* A v1 merge that comes to a document.
LEMMA MergedOnly ==
    ASSUME NEW docs, Merge(docs).status = "merged"
    PROVE  /\ MergeConflicts(docs) = {}
           /\ Merge(docs).document = MergedDocument(docs)
           /\ Merge(docs).unmaterialized = Unmaterialized(EntitiesOf(docs))
           /\ \A i \in Sides : ~HasFormats(docs[i]) /\ ~HasNames(docs[i]) /\ ~HasConstraints(docs[i])
<1>1. \A i \in Sides :
        /\ ~HasFormats(docs[i]) /\ ~HasOrders(docs[i])
        /\ ~HasNames(docs[i]) /\ ~HasConstraints(docs[i])
        /\ docs[i].definitions = docs[Base].definitions
  BY MergeOfAdmitted
<1>2. Merge(docs) = IF MergeConflicts(docs) # {}
                    THEN Conflicted(Canonical(SetToSeq(MergeConflicts(docs))))
                    ELSE Merged(MergedDocument(docs), Unmaterialized(EntitiesOf(docs)))
  BY <1>1, MergeOfAdmitted
<1>3. MergeConflicts(docs) = {}
  BY <1>2, Statuses
<1> QED
  BY <1>1, <1>2, <1>3, Statuses

\* The title of a v1 document.
LEMMA TitleFollows ==
    ASSUME NEW docs, TitleConflicts(docs) = {}
    PROVE  Follows({The(Chosen([i \in Sides |-> {docs[i].title}]))}, [i \in Sides |-> {docs[i].title}])
<1> DEFINE titles == [i \in Sides |-> {docs[i].title}]
<1>1. Choice(titles) # {}
  BY NoClash DEF TitleConflicts
<1>2. PICK i \in Sides : Chosen(titles) = titles[i]
  BY <1>1, ChoiceIs
<1>3. titles[i] = {docs[i].title}
  OBVIOUS
<1>4. {The(Chosen(titles))} = Chosen(titles)
  BY <1>2, <1>3, TheOne
<1> HIDE DEF titles
<1>5. Follows(Chosen(titles), titles)
  BY <1>1, ChoiceFollows
<1>6. Follows({The(Chosen(titles))}, titles)
  BY <1>4, <1>5
<1> QED
  BY <1>6 DEF titles

-----------------------------------------------------------------------------
\* A document whose facts are all what the sides made of them.
DocumentFollows(merged, docs) ==
    /\ Follows({merged.title}, [i \in Sides |-> {docs[i].title}])
    /\ SchemasFollow(merged.schemas, SchemasOf(docs))
    /\ EntitiesFollow(merged.entities, EntitiesOf(docs))

\* What v1 merges follows the sides.
LEMMA MergeFollows ==
    ASSUME NEW docs, Merge(docs).status = "merged", Merge(docs).unmaterialized = {}
    PROVE  DocumentFollows(Merge(docs).document, docs)
<1>1. /\ MergeConflicts(docs) = {} /\ Merge(docs).document = MergedDocument(docs)
      /\ Unmaterialized(EntitiesOf(docs)) = {}
      /\ \A i \in Sides : ~HasFormats(docs[i]) /\ ~HasNames(docs[i]) /\ ~HasConstraints(docs[i])
  BY MergedOnly
<1>2. TitleConflicts(docs) = {} /\ SchemaConflicts(SchemasOf(docs)) = {} /\ EntityConflicts(EntitiesOf(docs)) = {}
  BY <1>1 DEF MergeConflicts
<1>3. \A i \in Sides : SchemasOf(docs)[i] = docs[i].schemas
  BY DEF SchemasOf
<1>4. ASSUME NEW i \in Sides
      PROVE  /\ \A s : \A x \in Entry(SchemasOf(docs)[i], s) : x.name = {}
             /\ \A s, f : \A x \in FieldOf(SchemasOf(docs)[i], s, f) :
                  x.name = {} /\ x.constraint = {} /\ x.format = {}
  BY <1>1, <1>3, PlainFields
<1>5. SchemasFollow(MergedSchemas(SchemasOf(docs)), SchemasOf(docs))
  BY <1>2, <1>4, MergedSchemasFollowSides
<1>6. EntitiesFollow(MergedEntities(EntitiesOf(docs)), EntitiesOf(docs))
  BY <1>1, <1>2, MergedEntitiesFollow
<1>7. /\ MergedDocument(docs).title = The(Chosen([i \in Sides |-> {docs[i].title}]))
      /\ MergedDocument(docs).schemas = MergedSchemas(SchemasOf(docs))
      /\ MergedDocument(docs).entities = MergedEntities(EntitiesOf(docs))
  BY DEF MergedDocument
<1> QED
  BY <1>1, <1>2, <1>5, <1>6, <1>7, TitleFollows DEF DocumentFollows

\* Without what v1 refuses, documents are without names and constraints.
LEMMA StrippedIsPlain ==
    ASSUME NEW d, IsDocument(d)
    PROVE  /\ ~HasNames(Stripped(d)) /\ ~HasConstraints(Stripped(d)) /\ ~HasOrders(Stripped(d))
           /\ ~HasFormats(d) => ~HasFormats(Stripped(d))
<1>1. Stripped(d).schemas = [s \in DOMAIN d.schemas |-> BareSchema(d.schemas[s])]
  BY StrippedIs
<1>2. ASSUME NEW x \in Range(Stripped(d).schemas)
      PROVE  \E y \in Range(d.schemas) : IsSchema(y) /\ x = BareSchema(y)
  <2>1. PICK s \in DOMAIN d.schemas : x = BareSchema(d.schemas[s])
    BY <1>1 DEF Range
  <2> QED
    BY <2>1 DEF Range, IsDocument
<1>3. ASSUME NEW x \in FieldsOf(Stripped(d))
      PROVE  \E y \in FieldsOf(d) : IsField(y) /\ x = BareField(y)
  <2>1. PICK s \in Range(Stripped(d).schemas) : \E f \in DOMAIN s.fields : x = s.fields[f]
    BY DEF FieldsOf
  <2>2. PICK f \in DOMAIN s.fields : x = s.fields[f]
    BY <2>1
  <2>3. PICK y \in Range(d.schemas) : IsSchema(y) /\ s = BareSchema(y)
    BY <1>2
  <2>4. f \in DOMAIN y.fields /\ x = BareField(y.fields[f])
    BY <2>2, <2>3, BareSchemaIs
  <2>5. IsField(y.fields[f])
    BY <2>3, <2>4 DEF IsSchema
  <2>6. y.fields[f] \in FieldsOf(d)
    BY <2>3, <2>4 DEF FieldsOf
  <2> QED
    BY <2>4, <2>5, <2>6
<1>4. \A x \in Range(Stripped(d).schemas) : x.name = {} /\ x.order = {}
  BY <1>2, BareSchemaIs
<1>5. \A x \in FieldsOf(Stripped(d)) : x.name = {} /\ x.constraint = {}
  BY <1>3, BareFieldIs
<1>6. ~HasFormats(d) => \A x \in FieldsOf(Stripped(d)) : x.format = {}
  BY <1>3, BareFieldIs DEF HasFormats
<1> QED
  BY <1>4, <1>5, <1>6 DEF HasNames, HasOrders, HasConstraints, HasFormats

\* A v2 merge that comes to a document.
LEMMA MergeV2Only ==
    ASSUME NEW docs, MergeV2(docs).status = "merged"
    PROVE  LET stripped == [i \in Sides |-> Stripped(docs[i])]
               schemas == SchemasOf(docs)
           IN /\ \A i \in Sides : ~HasFormats(docs[i]) /\ docs[i].definitions = docs[Base].definitions
              /\ {c \in MergeConflicts(stripped) : ~IsSubjectConflict(c)} = {}
              /\ SubjectConflicts(schemas) = {} /\ ConstraintConflicts(schemas) = {}
              /\ NameConflicts(schemas) = {}
              /\ MergeV2(docs).document = Restored(Merge(stripped).document, schemas)
              /\ MergeV2(docs).unmaterialized = Merge(stripped).unmaterialized
<1> DEFINE stripped == [i \in Sides |-> Stripped(docs[i])]
           schemas == SchemasOf(docs)
           passes == <<{c \in MergeConflicts(stripped) : ~IsSubjectConflict(c)},
                       SubjectConflicts(schemas), ConstraintConflicts(schemas),
                       NameConflicts(schemas), OrderConflicts(schemas)>>
           conflicting == \E i \in DOMAIN passes : passes[i] # {}
           conflicts == Conflicted(Canonical(FlattenSeq([i \in DOMAIN passes |-> SetToSeq(passes[i])])))
           formats == \E i \in Sides : HasFormats(docs[i])
           definitions == \E i \in Sides : docs[i].definitions # docs[Base].definitions
           result == Merged(Restored(Merge(stripped).document, schemas), Merge(stripped).unmaterialized)
<1>1. MergeV2(docs) = CASE formats -> Refused("number_format")
                        [] definitions -> Refused("definitions")
                        [] OTHER -> IF conflicting THEN conflicts ELSE result
  BY DEF MergeV2
<1>2. result.document = Restored(Merge(stripped).document, schemas)
      /\ result.unmaterialized = Merge(stripped).unmaterialized
  BY Statuses
<1>3. ~formats /\ ~definitions /\ ~conflicting /\ MergeV2(docs) = result
  <2>1. conflicts.status = "conflicted"
    BY Statuses
  <2> HIDE DEF formats, definitions, conflicting, conflicts, result
  <2> QED
    BY <1>1, <2>1, Statuses
<1>4. /\ {c \in MergeConflicts(stripped) : ~IsSubjectConflict(c)} = {}
      /\ SubjectConflicts(schemas) = {} /\ ConstraintConflicts(schemas) = {}
      /\ NameConflicts(schemas) = {}
  <2>1. \A i \in 1 .. 5 : passes[i] = {}
    BY <1>3
  <2>2. passes[1] = {} /\ passes[2] = {} /\ passes[3] = {} /\ passes[4] = {}
    <3> HIDE DEF passes
    <3> QED
      BY <2>1
  <2> QED
    BY <2>2
<1>5. \A i \in Sides : ~HasFormats(docs[i]) /\ docs[i].definitions = docs[Base].definitions
  BY <1>3
<1> HIDE DEF result, passes, conflicting, conflicts, formats, definitions, stripped, schemas
<1>6. /\ MergeV2(docs).document = Restored(Merge(stripped).document, schemas)
      /\ MergeV2(docs).unmaterialized = Merge(stripped).unmaterialized
  BY <1>2, <1>3
<1> QED
  BY <1>4, <1>5, <1>6 DEF stripped, schemas

\* What v2 merges follows the sides.
LEMMA MergeV2Follows ==
    ASSUME NEW docs, \A i \in Sides : IsDocument(docs[i]),
           MergeV2(docs).status = "merged", MergeV2(docs).unmaterialized = {}
    PROVE  DocumentFollows(MergeV2(docs).document, docs)
<1> DEFINE stripped == [i \in Sides |-> Stripped(docs[i])]
           schemas == SchemasOf(docs)
           bare == SchemasOf(stripped)
           document == MergedDocument(stripped)
           restored == [s \in DOMAIN document.schemas |-> RestoredSchema(document.schemas[s], schemas, s)]
<1>1. /\ \A i \in Sides : ~HasFormats(docs[i]) /\ docs[i].definitions = docs[Base].definitions
      /\ {c \in MergeConflicts(stripped) : ~IsSubjectConflict(c)} = {}
      /\ SubjectConflicts(schemas) = {} /\ ConstraintConflicts(schemas) = {}
      /\ NameConflicts(schemas) = {}
      /\ MergeV2(docs).document = Restored(Merge(stripped).document, schemas)
      /\ MergeV2(docs).unmaterialized = Merge(stripped).unmaterialized
  BY MergeV2Only
<1>2. ASSUME NEW i \in Sides
      PROVE  /\ stripped[i] = Stripped(docs[i])
             /\ stripped[i].schemas = [s \in DOMAIN docs[i].schemas |-> BareSchema(docs[i].schemas[s])]
             /\ stripped[i].entities = docs[i].entities /\ stripped[i].title = docs[i].title
             /\ stripped[i].definitions = docs[i].definitions
             /\ ~HasFormats(stripped[i]) /\ ~HasOrders(stripped[i])
             /\ ~HasNames(stripped[i]) /\ ~HasConstraints(stripped[i])
  <2>1. stripped[i] = Stripped(docs[i]) /\ IsDocument(docs[i])
    OBVIOUS
  <2> HIDE DEF stripped
  <2> QED
    BY <1>1, <2>1, StrippedIs, StrippedIsPlain
<1> HIDE DEF stripped
<1>3. AreBareOf(bare, schemas)
  <2>1. \A i \in Sides : schemas[i] = docs[i].schemas /\ bare[i] = stripped[i].schemas
    BY DEF SchemasOf
  <2>2. \A i \in Sides : \A s \in DOMAIN docs[i].schemas : IsSchema(docs[i].schemas[s])
    BY DEF IsDocument
  <2> HIDE DEF bare, schemas
  <2> QED
    BY <1>2, <2>1, <2>2 DEF AreBareOf
<1>4. MergeConflicts(stripped) = {}
  <2>1. \A c \in SchemaConflicts(bare) : ~IsSubjectConflict(c)
    BY <1>1, <1>3, NoHiddenSubjects
  <2>2. \A c \in TitleConflicts(stripped) \union EntityConflicts(EntitiesOf(stripped)) : ~IsSubjectConflict(c)
    BY OtherConflictsAreNoSubjects
  <2>3. \A c \in MergeConflicts(stripped) : ~IsSubjectConflict(c)
    BY <2>1, <2>2 DEF MergeConflicts
  <2> QED
    BY <1>1, <2>3
<1>5. Merge(stripped) = Merged(document, Unmaterialized(EntitiesOf(stripped)))
  <2>1. \A i \in Sides :
          /\ ~HasFormats(stripped[i]) /\ ~HasOrders(stripped[i])
          /\ ~HasNames(stripped[i]) /\ ~HasConstraints(stripped[i])
          /\ stripped[i].definitions = stripped[Base].definitions
    BY <1>1, <1>2, SidesAre
  <2> QED
    BY <1>4, <2>1, MergeOfAdmitted
<1>6. Merge(stripped).document = document /\ Unmaterialized(EntitiesOf(stripped)) = {}
  <2> HIDE DEF document
  <2> QED
    BY <1>1, <1>5, Statuses
<1>7. EntitiesOf(stripped) = EntitiesOf(docs) /\ [i \in Sides |-> {stripped[i].title}] = [i \in Sides |-> {docs[i].title}]
  BY <1>2 DEF EntitiesOf
<1>8. /\ document.title = The(Chosen([i \in Sides |-> {stripped[i].title}]))
      /\ document.schemas = MergedSchemas(bare)
      /\ document.entities = MergedEntities(EntitiesOf(stripped))
  BY DEF MergedDocument
<1>9. /\ MergeV2(docs).document.schemas = restored
      /\ MergeV2(docs).document.title = document.title
      /\ MergeV2(docs).document.entities = document.entities
  <2>1. "schemas" \in DOMAIN document /\ "title" \in DOMAIN document /\ "entities" \in DOMAIN document
    BY DEF MergedDocument
  <2>2. MergeV2(docs).document = [document EXCEPT !.schemas = restored]
    <3> HIDE DEF document
    <3> QED
      BY <1>1, <1>6 DEF Restored
  <2> HIDE DEF document, restored
  <2> QED
    BY <2>1, <2>2
<1>10. TitleConflicts(stripped) = {} /\ SchemaConflicts(bare) = {} /\ EntityConflicts(EntitiesOf(stripped)) = {}
  BY <1>4 DEF MergeConflicts
<1>11. AreRestored(restored, MergedSchemas(bare), schemas)
  <2> HIDE DEF document
  <2> QED
    BY <1>8 DEF AreRestored
<1>12. \A i \in Sides : \A s, f : \A x \in FieldOf(schemas[i], s, f) : x.format = {}
  <2>1. \A i \in Sides : schemas[i] = docs[i].schemas
    BY DEF SchemasOf
  <2> HIDE DEF schemas
  <2> QED
    BY <1>1, <2>1, PlainFields
<1> HIDE DEF restored, document, bare, schemas
<1>13. SchemasFollow(restored, schemas)
  BY <1>1, <1>3, <1>10, <1>11, <1>12, RestoredSchemaFollows, RestoredFieldFollows DEF SchemasFollow
<1>14. EntitiesFollow(document.entities, EntitiesOf(docs))
  BY <1>6, <1>7, <1>8, <1>10, MergedEntitiesFollow
<1>15. Follows({document.title}, [i \in Sides |-> {docs[i].title}])
  BY <1>7, <1>8, <1>10, TitleFollows
<1> QED
  BY <1>9, <1>13, <1>14, <1>15 DEF DocumentFollows, schemas

-----------------------------------------------------------------------------
\* Triples alike on the sides are followed alike.
LEMMA FollowsAlike ==
    ASSUME NEW option, NEW triple, NEW other, \A i \in Sides : triple[i] = other[i],
           Follows(option, triple)
    PROVE  Follows(option, other)
  BY FollowsIs, SidesAre

\* A merged document that follows the sides does so fact by fact.
LEMMA FactsFollow ==
    ASSUME NEW merged, NEW docs, DocumentFollows(merged, docs), NEW c, IsFactName(c)
    PROVE  Follows(Entry(FactsOf(merged), c), Entries([i \in Sides |-> FactsOf(docs[i])], c))
<1> DEFINE triple == Entries([i \in Sides |-> FactsOf(docs[i])], c)
<1>1. \A i \in Sides : triple[i] = Entry(FactsOf(docs[i]), c)
  BY DEF Entries
<1>2. \A i \in Sides : SchemasOf(docs)[i] = docs[i].schemas /\ EntitiesOf(docs)[i] = docs[i].entities
  BY DEF SchemasOf, EntitiesOf
<1> HIDE DEF triple
<1>3. CASE c = <<"title">>
  <2> DEFINE titles == [i \in Sides |-> {docs[i].title}]
  <2>1. Entry(FactsOf(merged), c) = {merged.title} /\ \A i \in Sides : triple[i] = titles[i]
    BY <1>1, <1>3, FactsAre
  <2>2. Follows({merged.title}, titles)
    BY DEF DocumentFollows
  <2> HIDE DEF titles
  <2> QED
    BY <2>1, <2>2, FollowsAlike DEF triple
<1>4. ASSUME NEW s, NEW facet \in SchemaFactNames, c = <<"schema", s, facet>>
      PROVE  Follows(Entry(FactsOf(merged), c), triple)
  <2> DEFINE facts == FacetOf(Entries(SchemasOf(docs), s), facet)
             fact == {x[facet] : x \in Entry(merged.schemas, s)}
  <2>1. Entry(FactsOf(merged), c) = fact
    BY <1>4, FactsAre
  <2>2. ASSUME NEW i \in Sides PROVE triple[i] = facts[i]
    <3>1. triple[i] = {x[facet] : x \in Entry(docs[i].schemas, s)}
      BY <1>1, <1>4, FactsAre
    <3>2. Entries(SchemasOf(docs), s)[i] = Entry(docs[i].schemas, s)
      BY <1>2 DEF Entries
    <3> QED
      BY <3>1, <3>2 DEF FacetOf
  <2>3. Follows(fact, facts)
    BY DEF DocumentFollows, SchemasFollow
  <2> HIDE DEF facts, fact
  <2> QED
    BY <2>1, <2>2, <2>3, FollowsAlike
<1>5. ASSUME NEW s, NEW f, NEW facet \in FieldFactNames, c = <<"field", s, f, facet>>
      PROVE  Follows(Entry(FactsOf(merged), c), triple)
  <2> DEFINE facts == FacetOf(FieldEntries(SchemasOf(docs), s, f), facet)
             fact == {x[facet] : x \in FieldOf(merged.schemas, s, f)}
  <2>1. Entry(FactsOf(merged), c) = fact
    BY <1>5, FactsAre
  <2>2. ASSUME NEW i \in Sides PROVE triple[i] = facts[i]
    <3>1. triple[i] = {x[facet] : x \in FieldOf(docs[i].schemas, s, f)}
      BY <1>1, <1>5, FactsAre
    <3>2. FieldEntries(SchemasOf(docs), s, f)[i] = FieldOf(docs[i].schemas, s, f)
      BY <1>2, FieldEntriesAre
    <3> QED
      BY <3>1, <3>2 DEF FacetOf
  <2>3. Follows(fact, facts)
    BY DEF DocumentFollows, SchemasFollow
  <2> HIDE DEF facts, fact
  <2> QED
    BY <2>1, <2>2, <2>3, FollowsAlike
<1>6. ASSUME NEW e, NEW facet \in EntityFactNames, c = <<"entity", e, facet>>
      PROVE  Follows(Entry(FactsOf(merged), c), triple)
  <2> DEFINE facts == FacetOf(Entries(EntitiesOf(docs), e), facet)
             fact == {x[facet] : x \in Entry(merged.entities, e)}
  <2>1. Entry(FactsOf(merged), c) = fact
    BY <1>6, FactsAre
  <2>2. ASSUME NEW i \in Sides PROVE triple[i] = facts[i]
    <3>1. triple[i] = {x[facet] : x \in Entry(docs[i].entities, e)}
      BY <1>1, <1>6, FactsAre
    <3>2. Entries(EntitiesOf(docs), e)[i] = Entry(docs[i].entities, e)
      BY <1>2 DEF Entries
    <3> QED
      BY <3>1, <3>2 DEF FacetOf
  <2>3. Follows(fact, facts)
    BY DEF DocumentFollows, EntitiesFollow
  <2> HIDE DEF facts, fact
  <2> QED
    BY <2>1, <2>2, <2>3, FollowsAlike
<1>7. ASSUME NEW e, NEW s, NEW f, c = <<"stored", e, s, f>>
      PROVE  Follows(Entry(FactsOf(merged), c), triple)
  <2> DEFINE facts == Qualified(Entries(EntitiesOf(docs), e), s, f)
             fact == StoredIn(merged.entities, e, s, f)
  <2>1. Entry(FactsOf(merged), c) = fact
    BY <1>7, FactsAre
  <2>2. ASSUME NEW i \in Sides PROVE triple[i] = facts[i]
    <3>1. triple[i] = StoredIn(docs[i].entities, e, s, f)
      BY <1>1, <1>7, FactsAre
    <3>2. Entries(EntitiesOf(docs), e)[i] = Entry(docs[i].entities, e)
      BY <1>2 DEF Entries
    <3> QED
      BY <3>1, <3>2 DEF Qualified, StoredIn
  <2>3. Follows(fact, facts)
    BY DEF DocumentFollows, EntitiesFollow
  <2> HIDE DEF facts, fact
  <2> QED
    BY <2>1, <2>2, <2>3, FollowsAlike
<1> QED
  BY <1>3, <1>4, <1>5, <1>6, <1>7 DEF IsFactName, triple

-----------------------------------------------------------------------------
\* Merged fields are no more than those of the sides.
LEMMA MergedFieldsFinite ==
    ASSUME NEW fields, \A i \in Sides : IsFiniteSet(DOMAIN fields[i])
    PROVE  IsFiniteSet(DOMAIN MergedFields(fields))
<1>1. DOMAIN MergedFields(fields) \subseteq Ids(fields)
  BY DEF MergedFields, MergedIds
<1>2. Ids(fields) \subseteq DOMAIN fields[Base] \union DOMAIN fields[Ours] \union DOMAIN fields[Theirs]
  BY SidesAre DEF Ids
<1>3. IsFiniteSet(DOMAIN fields[Base] \union DOMAIN fields[Ours] \union DOMAIN fields[Theirs])
  BY SidesAre, FS_Union
<1> QED
  BY <1>1, <1>2, <1>3, FS_Subset

\* The document v1 writes is a document.
LEMMA MergedShape ==
    ASSUME NEW docs, \A i \in Sides : IsDocument(docs[i]), MergeConflicts(docs) = {}
    PROVE  IsDocument(MergedDocument(docs))
<1> DEFINE schemas == SchemasOf(docs)
           entities == EntitiesOf(docs)
           document == MergedDocument(docs)
<1>1. /\ IsRecord(document, {"id", "title", "schemas", "entities", "definitions"})
      /\ document.schemas = MergedSchemas(schemas) /\ document.entities = MergedEntities(entities)
  BY DEF MergedDocument, IsRecord
<1>2. SchemaConflicts(schemas) = {} /\ EntityConflicts(entities) = {}
  BY DEF MergeConflicts
<1>3. ASSUME NEW maps, NEW id, ~Present(Entries(maps, id)), Choice(Entries(maps, id)) # {},
             id \in MergedIds(maps)
      PROVE  \E i \in Sides : id \in DOMAIN maps[i] /\ The(Chosen(Entries(maps, id))) = maps[i][id]
  <2>1. PICK i \in Sides : Chosen(Entries(maps, id)) = Entries(maps, id)[i]
    BY <1>3, ChoiceIs
  <2>2. Entries(maps, id)[i] = Entry(maps[i], id)
    BY DEF Entries
  <2>3. Entry(maps[i], id) # {}
    BY <1>3, <2>1, <2>2 DEF MergedIds
  <2>4. id \in DOMAIN maps[i] /\ Entry(maps[i], id) = {maps[i][id]}
    BY <2>3, EntryIsOption
  <2>5. The({maps[i][id]}) = maps[i][id]
    BY TheOne
  <2> QED
    BY <2>1, <2>2, <2>4, <2>5
<1>4. ASSUME NEW s, NEW fields, FieldConflicts(s, fields) = {},
             \A i \in Sides : \A f \in DOMAIN fields[i] : IsField(fields[i][f])
      PROVE  IsMap(MergedFields(fields)) /\ \A f \in DOMAIN MergedFields(fields) : IsField(MergedFields(fields)[f])
  <2> DEFINE merged == MergedFields(fields)
             record(f) == [key |-> The(Chosen(FacetOf(Entries(fields, f), "key"))),
                           type |-> The(Chosen(FacetOf(Entries(fields, f), "type"))),
                           required |-> The(Chosen(FacetOf(Entries(fields, f), "required"))),
                           name |-> {}, constraint |-> {}, format |-> {}]
  <2>1. /\ DOMAIN merged = MergedIds(fields) /\ IsMap(merged)
        /\ \A f \in DOMAIN merged : merged[f] = IF Present(Entries(fields, f)) THEN record(f)
                                                ELSE The(Chosen(Entries(fields, f)))
    BY DEF MergedFields, IsMap
  <2>2. \A f : IsField(record(f))
    BY DEF IsField, IsRecord
  <2> HIDE DEF merged, record
  <2>3. ASSUME NEW f \in DOMAIN merged PROVE IsField(merged[f])
    <3>1. CASE Present(Entries(fields, f))
      BY <2>1, <2>2, <3>1
    <3>2. CASE ~Present(Entries(fields, f))
      <4>1. Choice(Entries(fields, f)) # {}
        BY <1>4, <3>2, MergedFieldsFollow
      <4>2. \E i \in Sides : f \in DOMAIN fields[i] /\ The(Chosen(Entries(fields, f))) = fields[i][f]
        BY <1>3, <2>1, <3>2, <4>1
      <4> QED
        BY <1>4, <2>1, <3>2, <4>2
    <3> QED
      BY <3>1, <3>2
  <2> QED
    BY <2>1, <2>3 DEF merged
<1>5. \A i \in Sides : \A s \in DOMAIN schemas[i] : IsSchema(schemas[i][s])
  BY DEF SchemasOf, IsDocument
<1>6. \A i \in Sides : \A e \in DOMAIN entities[i] : IsEntity(entities[i][e])
  BY DEF EntitiesOf, IsDocument
<1> HIDE DEF schemas, entities, document
<1>7. IsMap(MergedSchemas(schemas)) /\ \A s \in DOMAIN MergedSchemas(schemas) : IsSchema(MergedSchemas(schemas)[s])
  <2> DEFINE merged == MergedSchemas(schemas)
             fields(s) == FieldsIn(Entries(schemas, s))
             record(s) == [key |-> The(Chosen(FacetOf(Entries(schemas, s), "key"))), name |-> {}, order |-> {},
                           fields |-> MergedFields(fields(s))]
  <2>1. /\ DOMAIN merged = MergedIds(schemas) /\ IsMap(merged)
        /\ \A s \in DOMAIN merged : merged[s] = IF Present(Entries(schemas, s)) THEN record(s)
                                                ELSE The(Chosen(Entries(schemas, s)))
    BY DEF MergedSchemas, IsMap
  <2>2. \A s : /\ IsRecord(record(s), {"key", "name", "order", "fields"})
               /\ record(s).fields = MergedFields(fields(s)) /\ record(s).order = {}
    BY DEF IsRecord
  <2> HIDE DEF merged, record
  <2>3. ASSUME NEW s \in DOMAIN merged PROVE IsSchema(merged[s])
    <3>1. CASE Present(Entries(schemas, s))
      <4>1. FieldConflicts(s, fields(s)) = {}
        BY <1>2, <3>1, MergedSchemasFollow
      <4>2. ASSUME NEW i \in Sides
            PROVE  IsFiniteSet(DOMAIN fields(s)[i]) /\ \A f \in DOMAIN fields(s)[i] : IsField(fields(s)[i][f])
        <5>1. Entries(schemas, s)[i] = Entry(schemas[i], s) /\ Entry(schemas[i], s) # {}
          BY <3>1 DEF Entries, Present
        <5>2. s \in DOMAIN schemas[i] /\ Entry(schemas[i], s) = {schemas[i][s]}
          BY <5>1, EntryIsOption
        <5>3. fields(s)[i] = schemas[i][s].fields
          BY <5>1, <5>2, TheOne DEF FieldsIn
        <5> QED
          BY <1>5, <5>2, <5>3 DEF IsSchema
      <4> HIDE DEF fields
      <4>3. IsMap(MergedFields(fields(s))) /\ \A f \in DOMAIN MergedFields(fields(s)) : IsField(MergedFields(fields(s))[f])
        BY <1>4, <4>1, <4>2
      <4>4. IsFiniteSet(DOMAIN MergedFields(fields(s)))
        BY <4>2, MergedFieldsFinite
      <4> QED
        BY <2>1, <2>2, <3>1, <4>3, <4>4 DEF IsSchema
    <3>2. CASE ~Present(Entries(schemas, s))
      <4>1. Choice(Entries(schemas, s)) # {}
        BY <1>2, <3>2, MergedSchemasFollow
      <4>2. \E i \in Sides : s \in DOMAIN schemas[i] /\ The(Chosen(Entries(schemas, s))) = schemas[i][s]
        BY <1>3, <2>1, <3>2, <4>1
      <4> QED
        BY <1>5, <2>1, <3>2, <4>2
    <3> QED
      BY <3>1, <3>2
  <2> QED
    BY <2>1, <2>3 DEF merged
<1>8. IsMap(MergedEntities(entities)) /\ \A e \in DOMAIN MergedEntities(entities) : IsEntity(MergedEntities(entities)[e])
  <2> DEFINE merged == MergedEntities(entities)
             schema(e) == The(Chosen(FacetOf(Entries(entities, e), "schema")))
             record(e) == [key |-> The(Chosen(FacetOf(Entries(entities, e), "key"))), schema |-> schema(e),
                           fields |-> MergedRow(Entries(entities, e), schema(e))]
  <2>1. /\ DOMAIN merged = MergedIds(entities) /\ IsMap(merged)
        /\ \A e \in DOMAIN merged : merged[e] = IF Present(Entries(entities, e)) THEN record(e)
                                                ELSE The(Chosen(Entries(entities, e)))
    BY DEF MergedEntities, MergedRow, IsMap
  <2>2. \A e : IsEntity(record(e))
    BY DEF IsEntity, IsRecord, IsMap, MergedRow
  <2> HIDE DEF merged, record
  <2>3. ASSUME NEW e \in DOMAIN merged PROVE IsEntity(merged[e])
    <3>1. CASE Present(Entries(entities, e))
      BY <2>1, <2>2, <3>1
    <3>2. CASE ~Present(Entries(entities, e))
      <4>1. Choice(Entries(entities, e)) # {}
        <5> DEFINE options == Entries(entities, e)
                   Subject == Clash(EntityTarget(e), "subject", options, options)
        <5>1. e \in Ids(entities)
          BY <2>1 DEF MergedIds
        <5>2. Subject = {}
          BY <1>2, <3>2, <5>1 DEF EntityConflicts
        <5> QED
          BY <5>2, NoClash
      <4>2. \E i \in Sides : e \in DOMAIN entities[i] /\ The(Chosen(Entries(entities, e))) = entities[i][e]
        BY <1>3, <2>1, <3>2, <4>1
      <4> QED
        BY <1>6, <2>1, <3>2, <4>2
    <3> QED
      BY <3>1, <3>2
  <2> QED
    BY <2>1, <2>3 DEF merged
<1>9. IsDocument(document)
  BY <1>1, <1>7, <1>8 DEF IsDocument
<1> QED
  BY <1>9 DEF document

-----------------------------------------------------------------------------
\* A merge that merge_documents lets through is the one of the engine.
LEMMA AdmittedMerge ==
    ASSUME NEW docs, MergeDocuments(docs).status = "merged"
    PROVE  /\ MergeDocuments(docs) = Merge(docs)
           /\ Merge(docs).unmaterialized = {}
<1>1. MergeDocuments(docs) = Finalized(Merge(docs), Valid)
  BY Statuses, Zenon DEF MergeDocuments
<1>2. Finalized(Merge(docs), Valid) = Merge(docs) /\ Merge(docs).unmaterialized = {}
  BY <1>1, Statuses DEF Finalized
<1> QED
  BY <1>1, <1>2

\* The same for merge_documents_v2.
LEMMA AdmittedMergeV2 ==
    ASSUME NEW docs, MergeDocumentsV2(docs).status = "merged"
    PROVE  /\ MergeDocumentsV2(docs) = MergeV2(docs)
           /\ MergeV2(docs).unmaterialized = {}
<1> DEFINE sound(d) == DefinitionsBound(d) /\ Valid(d)
           different == ~SameDocument(docs)
           definitions == \E i \in Sides : docs[i].definitions # docs[Base].definitions
           invalid == \E i \in Sides : ~sound(docs[i])
           other == IF MergeV2(docs).status # "merged" THEN MergeV2(docs)
                    ELSE IF MergeV2(docs).unmaterialized = {} /\ sound(MergeV2(docs).document) THEN MergeV2(docs)
                    ELSE Refused("invalid_candidate")
<1>1. MergeDocumentsV2(docs) = CASE different -> Refused("different_document")
                                 [] definitions -> Refused("definitions")
                                 [] invalid -> Refused("invalid_input")
                                 [] OTHER -> other
  BY DEF MergeDocumentsV2, Finalized
<1>2. MergeDocumentsV2(docs) = other
  <2> HIDE DEF different, definitions, invalid, other
  <2> QED
    BY <1>1, Statuses
<1> QED
  BY <1>2, Statuses

\* Every fact of the sides and of the result follows the sides.
LEMMA OutcomeFollows ==
    ASSUME NEW merged, NEW docs, DocumentFollows(merged, docs)
    PROVE  LET facts == [i \in Sides |-> FactsOf(docs[i])]
           IN \A c \in Ids(facts) \union DOMAIN FactsOf(merged) :
                Follows(Entry(FactsOf(merged), c), Entries(facts, c))
<1> DEFINE facts == [i \in Sides |-> FactsOf(docs[i])]
<1>1. ASSUME NEW c \in Ids(facts) \union DOMAIN FactsOf(merged) PROVE IsFactName(c)
  <2>1. CASE c \in DOMAIN FactsOf(merged)
    BY <2>1, FactsAre
  <2>2. CASE c \in Ids(facts)
    <3>1. PICK i \in Sides : c \in DOMAIN facts[i]
      BY <2>2 DEF Ids
    <3>2. facts[i] = FactsOf(docs[i])
      OBVIOUS
    <3> QED
      BY <3>1, <3>2, FactsAre
  <2> QED
    BY <2>1, <2>2
<1> QED
  BY <1>1, FactsFollow

-----------------------------------------------------------------------------
\* The branches and their base are documents.
DocsAreDocuments == \A i \in Sides : IsDocument(Docs[i])

\* The branches and their base, one by one.
LEMMA DocsAre ==
    /\ DocsAreDocuments <=> IsDocument(base) /\ IsDocument(ours) /\ IsDocument(theirs)
    /\ Docs[Base] = base /\ Docs[Ours] = ours /\ Docs[Theirs] = theirs
  BY SidesAre DEF DocsAreDocuments, Docs, Base, Ours, Theirs

\* Edits and written merges leave documents (what the CLI's merge_documents
\* writes is what both branches go on from).
THEOREM DocsStayDocuments == Spec => []DocsAreDocuments
<1>1. Init => DocsAreDocuments
  BY BasesAssumption, DocsAre DEF Init
<1>2. OutcomeIsOfDocs /\ DocsAreDocuments /\ [Next]_vars => DocsAreDocuments'
  <2> SUFFICES ASSUME OutcomeIsOfDocs, DocsAreDocuments, [Next]_vars PROVE DocsAreDocuments'
    OBVIOUS
  <2>1. SUFFICES IsDocument(base') /\ IsDocument(ours') /\ IsDocument(theirs')
    BY SidesAre DEF DocsAreDocuments, Docs, Base, Ours, Theirs
  <2>2. IsDocument(base) /\ IsDocument(ours) /\ IsDocument(theirs)
    BY DocsAre
  <2>3. CASE EditOurs
    BY <2>2, <2>3, EditedShape DEF EditOurs, Edits
  <2>4. CASE EditTheirs
    BY <2>2, <2>4, EditedShape DEF EditTheirs, Edits
  <2>5. CASE MergeBranches
    BY <2>2, <2>5 DEF MergeBranches
  <2>6. CASE PreviewMergeV2
    BY <2>2, <2>6 DEF PreviewMergeV2
  <2>7. CASE WriteMerged
    <3>1. PICK o \in outcome : /\ o.contract = "v1" /\ o.result.status = "merged"
                               /\ base' = o.result.document
      BY <2>7 DEF WriteMerged
    <3>2. o.result = MergeDocuments(Docs)
      BY <3>1 DEF OutcomeIsOfDocs
    <3>3. o.result = Merge(Docs) /\ Merge(Docs).status = "merged"
      BY <3>1, <3>2, AdmittedMerge
    <3>4. MergeConflicts(Docs) = {} /\ o.result.document = MergedDocument(Docs)
      BY <3>3, MergedOnly
    <3>5. IsDocument(base')
      BY <3>1, <3>4, MergedShape DEF DocsAreDocuments
    <3> QED
      BY <2>7, <3>5 DEF WriteMerged
  <2>8. CASE Dismiss
    BY <2>2, <2>8 DEF Dismiss
  <2>9. CASE UNCHANGED vars
    BY <2>2, <2>9 DEF vars
  <2> QED
    BY <2>3, <2>4, <2>5, <2>6, <2>7, <2>8, <2>9 DEF Next
<1> QED
  BY <1>1, <1>2, OutcomeOfDocs, PTL DEF Spec

\* No edit is lost and none invented, for every document and every edit: each
\* direct fact of a merged document is what each side that changed it made of
\* it (choose and choose_optional, and the v2 facets beside them).
THEOREM MergesFollow == Spec => []MergeFollowsTheSides
<1>1. OutcomeIsOfDocs /\ DocsAreDocuments => MergeFollowsTheSides
  <2> SUFFICES ASSUME OutcomeIsOfDocs, DocsAreDocuments, NEW o \in outcome, o.result.status = "merged"
               PROVE  \A c \in Ids([i \in Sides |-> FactsOf(Docs[i])]) \union DOMAIN FactsOf(o.result.document) :
                        Follows(Entry(FactsOf(o.result.document), c),
                                Entries([i \in Sides |-> FactsOf(Docs[i])], c))
    BY DEF MergeFollowsTheSides, Follows
  <2>1. DocumentFollows(o.result.document, Docs)
    <3>1. CASE o.contract = "v1"
      <4>1. o.result = MergeDocuments(Docs)
        BY <3>1 DEF OutcomeIsOfDocs
      <4> QED
        BY <4>1, AdmittedMerge, MergeFollows
    <3>2. CASE o.contract # "v1"
      <4>1. o.result = MergeDocumentsV2(Docs)
        BY <3>2 DEF OutcomeIsOfDocs
      <4> QED
        BY <4>1, AdmittedMergeV2, MergeV2Follows DEF DocsAreDocuments
    <3> QED
      BY <3>1, <3>2
  <2> QED
    BY <2>1, OutcomeFollows
<1> QED
  BY <1>1, OutcomeOfDocs, DocsStayDocuments, PTL

-----------------------------------------------------------------------------
\* A side wins where the other is the base or like it. It wins every part as
\* well, and what v1 merges is then that side.

\* The other side is the base, or like side k.
Wins(triple, k) ==
    \/ k = Ours /\ triple[Theirs] \in {triple[Base], triple[Ours]}
    \/ k = Theirs /\ triple[Ours] \in {triple[Base], triple[Theirs]}

\* choose and choose_optional take the side that wins.
LEMMA WinnerIsChosen ==
    ASSUME NEW triple, NEW k, Wins(triple, k)
    PROVE  k \in Sides /\ Choice(triple) = {triple[k]} /\ Chosen(triple) = triple[k]
<1>1. k \in Sides /\ Choice(triple) = {triple[k]}
  BY SidesAre DEF Wins, Choice
<1> QED
  BY <1>1, TheOne DEF Chosen

\* Who wins the whole wins the part.
LEMMA WinsPart ==
    ASSUME NEW triple, NEW k, Wins(triple, k), NEW parts,
           \A i, j \in Sides : triple[i] = triple[j] => parts[i] = parts[j]
    PROVE  Wins(parts, k)
  BY SidesAre DEF Wins

\* Entries under one id are won by who wins the maps.
LEMMA WinsEntries ==
    ASSUME NEW maps, NEW k, Wins(maps, k), NEW id
    PROVE  Wins(Entries(maps, id), k) /\ Entries(maps, id)[k] = Entry(maps[k], id)
<1>1. \A i \in Sides : Entries(maps, id)[i] = Entry(maps[i], id)
  BY DEF Entries
<1> QED
  BY <1>1, WinnerIsChosen, WinsPart

\* So are the values of one facet.
LEMMA WinsFacet ==
    ASSUME NEW options, NEW k, Wins(options, k), NEW facet
    PROVE  Wins(FacetOf(options, facet), k) /\ FacetOf(options, facet)[k] = {x[facet] : x \in options[k]}
<1>1. \A i \in Sides : FacetOf(options, facet)[i] = {x[facet] : x \in options[i]}
  BY DEF FacetOf
<1>2. \A i, j \in Sides : options[i] = options[j] => FacetOf(options, facet)[i] = FacetOf(options, facet)[j]
  BY <1>1
<1> QED
  BY <1>1, <1>2, WinnerIsChosen, WinsPart

\* So are the fields of a schema.
LEMMA WinsFields ==
    ASSUME NEW options, NEW k, Wins(options, k)
    PROVE  /\ Wins(FieldsIn(options), k)
           /\ options[k] # {} => FieldsIn(options)[k] = The(options[k]).fields
<1>1. \A i \in Sides : FieldsIn(options)[i] = IF options[i] = {} THEN <<>> ELSE The(options[i]).fields
  BY DEF FieldsIn
<1>2. \A i, j \in Sides : options[i] = options[j] => FieldsIn(options)[i] = FieldsIn(options)[j]
  BY <1>1
<1> QED
  BY <1>1, <1>2, WinnerIsChosen, WinsPart

\* So are the stored values of one qualified field.
LEMMA WinsQualified ==
    ASSUME NEW options, NEW k, Wins(options, k), NEW s, NEW f
    PROVE  Wins(Qualified(options, s, f), k)
<1> DEFINE of(x) == UNION {IF e.schema = s THEN Entry(e.fields, f) ELSE {} : e \in x}
<1>1. \A i \in Sides : Qualified(options, s, f)[i] = of(options[i])
  BY DEF Qualified
<1> HIDE DEF of
<1>2. \A i, j \in Sides : options[i] = options[j] => Qualified(options, s, f)[i] = Qualified(options, s, f)[j]
  BY <1>1
<1> QED
  BY <1>2, WinsPart

\* A facet of the winner.
LEMMA WinningFacet ==
    ASSUME NEW options, NEW k, Wins(options, k), NEW x, options[k] = {x}, NEW facet
    PROVE  The(Chosen(FacetOf(options, facet))) = x[facet]
<1>1. Chosen(FacetOf(options, facet)) = {y[facet] : y \in {x}}
  BY WinsFacet, WinnerIsChosen
<1>2. {y[facet] : y \in {x}} = {x[facet]}
  OBVIOUS
<1> QED
  BY <1>1, <1>2, TheOne

\* A merged map has the keys of the winner.
LEMMA WinningIds ==
    ASSUME NEW maps, NEW k, Wins(maps, k)
    PROVE  /\ MergedIds(maps) = DOMAIN maps[k]
           /\ \A id \in DOMAIN maps[k] :
                /\ Entries(maps, id)[k] = {maps[k][id]}
                /\ The(Chosen(Entries(maps, id))) = maps[k][id]
<1>1. k \in Sides
  BY WinnerIsChosen
<1>2. ASSUME NEW id
      PROVE  /\ Chosen(Entries(maps, id)) = Entry(maps[k], id) /\ Entries(maps, id)[k] = Entry(maps[k], id)
             /\ id \in MergedIds(maps) <=> id \in DOMAIN maps[k]
             /\ id \in DOMAIN maps[k] => Entry(maps[k], id) = {maps[k][id]}
  <2>1. Chosen(Entries(maps, id)) = Entry(maps[k], id) /\ Entries(maps, id)[k] = Entry(maps[k], id)
    BY WinsEntries, WinnerIsChosen
  <2>2. /\ Entry(maps[k], id) # {} <=> id \in DOMAIN maps[k]
        /\ id \in DOMAIN maps[k] => Entry(maps[k], id) = {maps[k][id]}
    BY EntryIsOption
  <2>3. Present(Entries(maps, id)) => Entries(maps, id)[k] # {}
    BY <1>1 DEF Present
  <2>4. id \in DOMAIN maps[k] => id \in Ids(maps)
    BY <1>1 DEF Ids
  <2>5. id \in MergedIds(maps) <=>
          id \in Ids(maps) /\ (Present(Entries(maps, id)) \/ Chosen(Entries(maps, id)) # {})
    BY DEF MergedIds
  <2> QED
    BY <2>1, <2>2, <2>3, <2>4, <2>5
<1>3. \A id : id \in MergedIds(maps) <=> id \in DOMAIN maps[k]
  BY <1>2
<1> QED
  BY <1>2, <1>3, TheOne

-----------------------------------------------------------------------------
\* A field without what v1 refuses.
IsBareField(f) == IsField(f) /\ f.name = {} /\ f.constraint = {} /\ f.format = {}
\* A schema without what v1 refuses.
IsBareSchema(s) ==
    /\ IsSchema(s) /\ s.name = {} /\ s.order = {}
    /\ \A f \in DOMAIN s.fields : IsBareField(s.fields[f])

\* merge_schema_fields takes the fields of the winner.
LEMMA WinningFields ==
    ASSUME NEW fields, NEW k, Wins(fields, k), IsMap(fields[k]),
           \A f \in DOMAIN fields[k] : IsBareField(fields[k][f])
    PROVE  MergedFields(fields) = fields[k]
<1> DEFINE record(f) == [key |-> The(Chosen(FacetOf(Entries(fields, f), "key"))),
                         type |-> The(Chosen(FacetOf(Entries(fields, f), "type"))),
                         required |-> The(Chosen(FacetOf(Entries(fields, f), "required"))),
                         name |-> {}, constraint |-> {}, format |-> {}]
           merged == MergedFields(fields)
<1>1. merged = [f \in MergedIds(fields) |->
                  IF Present(Entries(fields, f)) THEN record(f) ELSE The(Chosen(Entries(fields, f)))]
  BY DEF MergedFields
<1>2. ASSUME NEW f \in DOMAIN fields[k] PROVE record(f) = fields[k][f]
  <2> DEFINE x == fields[k][f]
             options == Entries(fields, f)
  <2>1. Wins(options, k) /\ options[k] = {x}
    BY WinsEntries, WinningIds
  <2>2. IsBareField(x)
    OBVIOUS
  <2> HIDE DEF x, options
  <2>3. \A facet : The(Chosen(FacetOf(options, facet))) = x[facet]
    BY <2>1, WinningFacet
  <2>4. x = [key |-> x.key, type |-> x.type, required |-> x.required,
             name |-> {}, constraint |-> {}, format |-> {}]
    <3>1. /\ x = [facet \in {"key", "name", "type", "required", "constraint", "format"} |-> x[facet]]
          /\ x.name = {} /\ x.constraint = {} /\ x.format = {}
      BY <2>2 DEF IsBareField, IsField, IsRecord
    <3> QED
      BY <3>1
  <2> QED
    BY <2>3, <2>4 DEF x, options
<1> HIDE DEF record, merged
<1>3. \A f \in DOMAIN fields[k] :
        (IF Present(Entries(fields, f)) THEN record(f) ELSE The(Chosen(Entries(fields, f)))) = fields[k][f]
  BY <1>2, WinningIds
<1>4. MergedIds(fields) = DOMAIN fields[k]
  BY WinningIds
<1>5. merged = [f \in DOMAIN fields[k] |-> fields[k][f]]
  BY <1>1, <1>3, <1>4
<1> QED
  BY <1>5 DEF IsMap, merged

\* merge_schemas takes the schemas of the winner.
LEMMA WinningSchemas ==
    ASSUME NEW schemas, NEW k, Wins(schemas, k), IsMap(schemas[k]),
           \A s \in DOMAIN schemas[k] : IsBareSchema(schemas[k][s])
    PROVE  MergedSchemas(schemas) = schemas[k]
<1> DEFINE record(s) == [key |-> The(Chosen(FacetOf(Entries(schemas, s), "key"))), name |-> {}, order |-> {},
                         fields |-> MergedFields(FieldsIn(Entries(schemas, s)))]
           merged == MergedSchemas(schemas)
<1>1. merged = [s \in MergedIds(schemas) |->
                  IF Present(Entries(schemas, s)) THEN record(s) ELSE The(Chosen(Entries(schemas, s)))]
  BY DEF MergedSchemas
<1>2. ASSUME NEW s \in DOMAIN schemas[k] PROVE record(s) = schemas[k][s]
  <2> DEFINE x == schemas[k][s]
             options == Entries(schemas, s)
             fields == FieldsIn(options)
  <2>1. Wins(options, k) /\ options[k] = {x}
    BY WinsEntries, WinningIds
  <2>2. IsBareSchema(x)
    OBVIOUS
  <2> HIDE DEF x, options
  <2>3. The(Chosen(FacetOf(options, "key"))) = x.key
    BY <2>1, WinningFacet
  <2>4. Wins(fields, k) /\ fields[k] = x.fields
    <3>1. options[k] # {} /\ The(options[k]) = x
      BY <2>1, TheOne
    <3> QED
      BY <2>1, <3>1, WinsFields
  <2> HIDE DEF fields
  <2>5. MergedFields(fields) = x.fields
    BY <2>2, <2>4, WinningFields DEF IsBareSchema, IsSchema
  <2>6. x = [key |-> x.key, name |-> {}, order |-> {}, fields |-> x.fields]
    <3>1. x = [facet \in {"key", "name", "order", "fields"} |-> x[facet]] /\ x.name = {} /\ x.order = {}
      BY <2>2 DEF IsBareSchema, IsSchema, IsRecord
    <3> QED
      BY <3>1
  <2> QED
    BY <2>3, <2>5, <2>6 DEF x, options, fields
<1> HIDE DEF record, merged
<1>3. \A s \in DOMAIN schemas[k] :
        (IF Present(Entries(schemas, s)) THEN record(s) ELSE The(Chosen(Entries(schemas, s)))) = schemas[k][s]
  BY <1>2, WinningIds
<1>4. MergedIds(schemas) = DOMAIN schemas[k]
  BY WinningIds
<1>5. merged = [s \in DOMAIN schemas[k] |-> schemas[k][s]]
  BY <1>1, <1>3, <1>4
<1> QED
  BY <1>5 DEF IsMap, merged

\* The stored facts of the winner.
LEMMA WinningRow ==
    ASSUME NEW options, NEW k, Wins(options, k), \A i \in Sides : IsOption(options[i]),
           NEW x, options[k] = {x}, IsMap(x.fields)
    PROVE  /\ \A q \in ChosenFields(options) : q[1] = x.schema
           /\ MergedRow(options, x.schema) = x.fields
<1>1. k \in Sides
  BY WinnerIsChosen
<1>2. ASSUME NEW s, NEW f
      PROVE  Chosen(Qualified(options, s, f)) = IF x.schema = s THEN Entry(x.fields, f) ELSE {}
  <2> DEFINE of(e) == IF e.schema = s THEN Entry(e.fields, f) ELSE {}
  <2>1. Qualified(options, s, f)[k] = UNION {of(e) : e \in {x}}
    BY <1>1 DEF Qualified
  <2>2. UNION {of(e) : e \in {x}} = of(x)
    <3> HIDE DEF of
    <3> QED
      OBVIOUS
  <2>3. Chosen(Qualified(options, s, f)) = Qualified(options, s, f)[k]
    BY WinsQualified, WinnerIsChosen
  <2> QED
    BY <2>1, <2>2, <2>3
<1>3. ASSUME NEW q \in ChosenFields(options) PROVE q[1] = x.schema /\ q[2] \in DOMAIN x.fields
  <2>1. Chosen(Qualified(options, q[1], q[2])) # {}
    BY DEF ChosenFields
  <2>2. Chosen(Qualified(options, q[1], q[2])) = IF x.schema = q[1] THEN Entry(x.fields, q[2]) ELSE {}
    BY <1>2
  <2> QED
    BY <2>1, <2>2, EntryIsOption
<1>4. ASSUME NEW f \in DOMAIN x.fields
      PROVE  <<x.schema, f>> \in ChosenFields(options) /\ The(Chosen(Qualified(options, x.schema, f))) = x.fields[f]
  <2> DEFINE q == <<x.schema, f>>
  <2>1. q[1] = x.schema /\ q[2] = f
    OBVIOUS
  <2>2. Chosen(Qualified(options, x.schema, f)) = {x.fields[f]}
    BY <1>2, EntryIsOption
  <2>3. q \in QualifiedFields(options)
    <3>1. q \in {x.schema} \X DOMAIN x.fields
      OBVIOUS
    <3> HIDE DEF q
    <3> QED
      BY <1>1, <3>1 DEF QualifiedFields
  <2> HIDE DEF q
  <2> QED
    BY <2>1, <2>2, <2>3, TheOne DEF ChosenFields, q
<1> DEFINE names == {q[2] : q \in {q \in ChosenFields(options) : q[1] = x.schema}}
<1>5. names = DOMAIN x.fields
  <2>1. \A f \in names : f \in DOMAIN x.fields
    BY <1>3
  <2>2. ASSUME NEW f \in DOMAIN x.fields PROVE f \in names
    <3>1. <<x.schema, f>> \in ChosenFields(options) /\ <<x.schema, f>>[1] = x.schema /\ <<x.schema, f>>[2] = f
      BY <1>4
    <3> QED
      BY <3>1
  <2> HIDE DEF names
  <2> QED
    BY <2>1, <2>2
<1>6. MergedRow(options, x.schema) = [f \in names |-> The(Chosen(Qualified(options, x.schema, f)))]
  BY DEF MergedRow
<1> HIDE DEF names
<1>7. MergedRow(options, x.schema) = [f \in DOMAIN x.fields |-> x.fields[f]]
  BY <1>4, <1>5, <1>6
<1> QED
  BY <1>3, <1>7 DEF IsMap

\* merge_entities takes the rows of the winner, and materializes each of them.
LEMMA WinningEntities ==
    ASSUME NEW entities, NEW k, Wins(entities, k), IsMap(entities[k]),
           \A e \in DOMAIN entities[k] : IsEntity(entities[k][e])
    PROVE  MergedEntities(entities) = entities[k] /\ Unmaterialized(entities) = {}
<1> DEFINE schema(e) == The(Chosen(FacetOf(Entries(entities, e), "schema")))
           record(e) == [key |-> The(Chosen(FacetOf(Entries(entities, e), "key"))), schema |-> schema(e),
                         fields |-> MergedRow(Entries(entities, e), schema(e))]
           merged == MergedEntities(entities)
<1>1. merged = [e \in MergedIds(entities) |->
                  IF Present(Entries(entities, e)) THEN record(e) ELSE The(Chosen(Entries(entities, e)))]
  BY DEF MergedEntities, MergedRow
<1>2. ASSUME NEW e \in DOMAIN entities[k]
      PROVE  /\ record(e) = entities[k][e]
             /\ \A q \in ChosenFields(Entries(entities, e)) : q[1] = schema(e)
  <2> DEFINE x == entities[k][e]
             options == Entries(entities, e)
  <2>1. Wins(options, k) /\ options[k] = {x} /\ \A i \in Sides : IsOption(options[i])
    BY WinsEntries, WinningIds, EntriesAreOptions
  <2>2. IsEntity(x)
    OBVIOUS
  <2> HIDE DEF x, options
  <2>3. \A facet : The(Chosen(FacetOf(options, facet))) = x[facet]
    BY <2>1, WinningFacet
  <2>4. /\ \A q \in ChosenFields(options) : q[1] = x.schema
        /\ MergedRow(options, x.schema) = x.fields
    BY <2>1, <2>2, WinningRow DEF IsEntity
  <2>5. x = [key |-> x.key, schema |-> x.schema, fields |-> x.fields]
    <3>1. x = [facet \in {"key", "schema", "fields"} |-> x[facet]]
      BY <2>2 DEF IsEntity, IsRecord
    <3> QED
      BY <3>1
  <2> QED
    BY <2>3, <2>4, <2>5 DEF x, options
<1>3. Unmaterialized(entities) = {}
  <2>1. ASSUME NEW e \in Ids(entities), Present(Entries(entities, e))
        PROVE  \A q \in ChosenFields(Entries(entities, e)) : q[1] = schema(e)
    <3>1. k \in Sides /\ Entries(entities, e)[k] = Entry(entities[k], e)
      BY WinnerIsChosen, WinsEntries
    <3>2. e \in DOMAIN entities[k]
      BY <2>1, <3>1, EntryIsOption DEF Present
    <3> QED
      BY <1>2, <3>2
  <2> QED
    BY <2>1 DEF Unmaterialized
<1> HIDE DEF record, merged
<1>4. \A e \in DOMAIN entities[k] :
        (IF Present(Entries(entities, e)) THEN record(e) ELSE The(Chosen(Entries(entities, e)))) = entities[k][e]
  BY <1>2, WinningIds
<1>5. MergedIds(entities) = DOMAIN entities[k]
  BY WinningIds
<1>6. merged = [e \in DOMAIN entities[k] |-> entities[k][e]]
  BY <1>1, <1>4, <1>5
<1> QED
  BY <1>3, <1>6 DEF IsMap, merged

-----------------------------------------------------------------------------
\* v2 puts back what v1 was not shown: where a side wins, that is what it had.

\* Where a side wins, there is nothing to disagree about.
LEMMA WinsAgree ==
    ASSUME NEW triple, NEW k, Wins(triple, k)
    PROVE  Agreeing(triple)
  BY DEF Wins, Agreeing

\* A document that v1 does not refuse.
IsPlain(d) == ~HasFormats(d) /\ ~HasOrders(d) /\ ~HasNames(d) /\ ~HasConstraints(d)

\* The schemas of a document that v1 does not refuse are bare.
LEMMA PlainSchemas ==
    ASSUME NEW d, IsDocument(d), IsPlain(d)
    PROVE  \A s \in DOMAIN d.schemas : IsBareSchema(d.schemas[s])
<1>1. ASSUME NEW s \in DOMAIN d.schemas PROVE IsBareSchema(d.schemas[s])
  <2> DEFINE x == d.schemas[s]
  <2>1. x \in Range(d.schemas) /\ IsSchema(x)
    BY DEF Range, IsDocument
  <2> HIDE DEF x
  <2>2. x.name = {} /\ x.order = {}
    BY <2>1 DEF IsPlain, HasNames, HasOrders
  <2>3. ASSUME NEW f \in DOMAIN x.fields PROVE IsBareField(x.fields[f])
    <3>1. x.fields[f] \in FieldsOf(d)
      BY <2>1 DEF FieldsOf
    <3>2. IsField(x.fields[f])
      BY <2>1 DEF IsSchema
    <3> QED
      BY <3>1, <3>2 DEF IsBareField, IsPlain, HasNames, HasConstraints, HasFormats
  <2> QED
    BY <2>1, <2>2, <2>3 DEF IsBareSchema, x
<1> QED
  BY <1>1

\* Where a side wins, v1 merges to it.
LEMMA WinningMerge ==
    ASSUME NEW docs, NEW k, Wins(docs, k), \A i \in Sides : IsDocument(docs[i]) /\ IsPlain(docs[i]),
           \A i \in Sides : docs[i].definitions = docs[Base].definitions /\ docs[i].id = docs[Base].id
    PROVE  Merge(docs) = Merged(docs[k], {})
<1> DEFINE schemas == SchemasOf(docs)
           entities == EntitiesOf(docs)
           titles == [i \in Sides |-> {docs[i].title}]
           document == MergedDocument(docs)
<1>1. k \in Sides
  BY WinnerIsChosen
<1>2. \A i \in Sides : schemas[i] = docs[i].schemas /\ entities[i] = docs[i].entities /\ titles[i] = {docs[i].title}
  BY DEF SchemasOf, EntitiesOf
<1>3. MergeConflicts(docs) = {}
  BY WinsAgree, NoMergeConflicts
<1>4. document = [id |-> docs[Base].id, title |-> The(Chosen(titles)), schemas |-> MergedSchemas(schemas),
                  entities |-> MergedEntities(entities), definitions |-> docs[Base].definitions]
  BY DEF MergedDocument
<1>5. Merge(docs) = Merged(document, Unmaterialized(entities))
  <2>1. \A i \in Sides :
          /\ ~HasFormats(docs[i]) /\ ~HasOrders(docs[i])
          /\ ~HasNames(docs[i]) /\ ~HasConstraints(docs[i])
          /\ docs[i].definitions = docs[Base].definitions
    BY DEF IsPlain
  <2> QED
    BY <1>3, <2>1, MergeOfAdmitted
<1> HIDE DEF schemas, entities, titles, document
<1>6. Wins(schemas, k) /\ Wins(entities, k) /\ Wins(titles, k)
  <2>1. \A i, j \in Sides : docs[i] = docs[j] =>
          schemas[i] = schemas[j] /\ entities[i] = entities[j] /\ titles[i] = titles[j]
    BY <1>2
  <2>2. Wins(schemas, k)
    BY <2>1, WinsPart
  <2>3. Wins(entities, k)
    BY <2>1, WinsPart
  <2>4. Wins(titles, k)
    BY <2>1, WinsPart
  <2> QED
    BY <2>2, <2>3, <2>4
<1>7. MergedSchemas(schemas) = docs[k].schemas
  <2>1. IsMap(schemas[k]) /\ \A s \in DOMAIN schemas[k] : IsBareSchema(schemas[k][s])
    BY <1>1, <1>2, PlainSchemas DEF IsDocument
  <2> QED
    BY <1>1, <1>2, <1>6, <2>1, WinningSchemas
<1>8. MergedEntities(entities) = docs[k].entities /\ Unmaterialized(entities) = {}
  <2>1. IsMap(entities[k]) /\ \A e \in DOMAIN entities[k] : IsEntity(entities[k][e])
    BY <1>1, <1>2 DEF IsDocument
  <2> QED
    BY <1>1, <1>2, <1>6, <2>1, WinningEntities
<1>9. The(Chosen(titles)) = docs[k].title
  <2>1. Chosen(titles) = titles[k]
    BY <1>6, WinnerIsChosen
  <2>2. Chosen(titles) = {docs[k].title}
    BY <1>1, <1>2, <2>1
  <2> QED
    BY <2>2, TheOne
<1>10. document = docs[k]
  <2> DEFINE d == docs[k]
  <2>1. d = [facet \in {"id", "title", "schemas", "entities", "definitions"} |-> d[facet]]
    BY <1>1 DEF IsDocument, IsRecord
  <2>2. d.id = docs[Base].id /\ d.definitions = docs[Base].definitions
    BY <1>1
  <2> HIDE DEF d
  <2>3. d = [id |-> d.id, title |-> d.title, schemas |-> d.schemas, entities |-> d.entities,
             definitions |-> d.definitions]
    BY <2>1
  <2> QED
    BY <1>4, <1>7, <1>8, <1>9, <2>2, <2>3 DEF d
<1> QED
  BY <1>5, <1>8, <1>10

-----------------------------------------------------------------------------
\* What is taken off a field or schema of the winner is put back.
LEMMA RestoredWinningField ==
    ASSUME NEW options, NEW k, Wins(options, k), NEW x, options[k] = {x}, IsField(x)
    PROVE  RestoredField(BareField(x), options) = x
<1>1. ASSUME NEW facet PROVE Settled(options, facet) = x[facet]
  <2>1. CASE Present(options)
    BY <2>1, SettledPart, WinningFacet
  <2>2. CASE ~Present(options)
    BY <2>2, WinnerIsChosen, SettledWhole
  <2> QED
    BY <2>1, <2>2
<1>2. Settled(options, "name") = x.name /\ Settled(options, "constraint") = x.constraint
  BY <1>1
<1>3. x = [facet \in {"key", "name", "type", "required", "constraint", "format"} |-> x[facet]]
  BY DEF IsField, IsRecord
<1>4. [[x EXCEPT !.name = {}, !.constraint = {}] EXCEPT !.name = x.name, !.constraint = x.constraint] = x
  BY <1>3
<1> QED
  BY <1>2, <1>4 DEF RestoredField, BareField

-----------------------------------------------------------------------------
\* What Within and NormalizedOrder leave of an order.

\* Every nonempty set of natural numbers has a least element.
LEMMA LeastNat ==
  ASSUME NEW T \in SUBSET Nat, T # {}
  PROVE  \E n \in T : \A m \in T : n <= m
<1> DEFINE Below == OpToRel(<, Nat)
<1>1. IsWellFoundedOn(Below, Nat)
  BY NatLessThanWellFounded
<1>2. \A m, n \in Nat : m < n => <<m, n>> \in Below
  BY DEF OpToRel
<1> HIDE DEF Below
<1>3. PICK n \in T : \A m \in T : ~(<<m, n>> \in Below)
  BY <1>1, WFMin
<1>4. \A m \in T : ~(m < n)
  BY <1>2, <1>3
<1>5. \A m \in T : n <= m
  BY <1>4
<1> QED BY <1>5

\* Induction over an initial segment of the natural numbers, for a set of them.
LEMMA SegmentInduction ==
  ASSUME NEW N \in Nat, NEW S,
         0 \in S, \A k \in 1 .. N : k - 1 \in S => k \in S
  PROVE  0 .. N \subseteq S
<1> DEFINE T == {k \in 0 .. N : k \notin S}
<1> SUFFICES ASSUME T # {} PROVE FALSE
  OBVIOUS
<1>1. T \in SUBSET Nat
  OBVIOUS
<1>2. PICK n \in T : \A m \in T : n <= m
  BY <1>1, LeastNat
<1>3. n # 0 /\ n \in 1 .. N
  BY <1>2
<1>4. n - 1 \in 0 .. N /\ ~(n <= n - 1)
  BY <1>3
<1>5. n - 1 \in S
  BY <1>2, <1>4
<1> QED BY <1>2, <1>3, <1>5

\* What Within keeps of the first elements, one element after the other.
IsKept(kept, seq, ids, N) ==
    kept = [n \in 0 .. N |->
              IF n = 0 THEN <<>>
              ELSE IF seq[n] \in ids THEN Append(kept[n - 1], seq[n])
              ELSE kept[n - 1]]

\* One element after the other.
LEMMA KeptSteps ==
    ASSUME NEW N \in Nat, NEW seq, NEW ids, NEW kept, IsKept(kept, seq, ids, N)
    PROVE  /\ kept[0] = <<>>
           /\ \A n \in 1 .. N : kept[n] = IF seq[n] \in ids THEN Append(kept[n - 1], seq[n]) ELSE kept[n - 1]
<1>1. \A n \in 0 .. N : kept[n] = IF n = 0 THEN <<>>
                                  ELSE IF seq[n] \in ids THEN Append(kept[n - 1], seq[n])
                                  ELSE kept[n - 1]
  BY DEF IsKept
<1> QED
  BY <1>1

\* The recursion of Within has a function.
LEMMA KeptExists ==
    ASSUME NEW seq, NEW ids, NEW N \in Nat
    PROVE  \E kept : IsKept(kept, seq, ids, N)
<1> DEFINE S == {n \in 0 .. N : \E kept : IsKept(kept, seq, ids, n)}
<1>1. 0 \in S
  <2>1. IsKept([n \in 0 .. 0 |-> <<>>], seq, ids, 0)
    BY DEF IsKept
  <2> QED
    BY <2>1
<1>2. ASSUME NEW n \in 1 .. N, n - 1 \in S PROVE n \in S
  <2>1. PICK kept : IsKept(kept, seq, ids, n - 1)
    BY <1>2
  <2> DEFINE last == IF seq[n] \in ids THEN Append(kept[n - 1], seq[n]) ELSE kept[n - 1]
             longer == [k \in 0 .. n |-> IF k = n THEN last ELSE kept[k]]
  <2>2. /\ \A k \in 0 .. n - 1 : longer[k] = kept[k]
        /\ longer[n] = last
    OBVIOUS
  <2>3. \A k \in 0 .. n - 1 : kept[k] = IF k = 0 THEN <<>>
                                        ELSE IF seq[k] \in ids THEN Append(kept[k - 1], seq[k])
                                        ELSE kept[k - 1]
    BY <2>1 DEF IsKept
  <2>4. ASSUME NEW k \in 0 .. n
        PROVE  longer[k] = IF k = 0 THEN <<>>
                           ELSE IF seq[k] \in ids THEN Append(longer[k - 1], seq[k])
                           ELSE longer[k - 1]
    <3> HIDE DEF longer
    <3>1. CASE k = n
      <4>1. longer[k - 1] = kept[n - 1] /\ k # 0
        BY <2>2, <3>1
      <4> QED
        BY <2>2, <3>1, <4>1
    <3>2. CASE k # n
      <4>1. k \in 0 .. n - 1 /\ (k # 0 => k - 1 \in 0 .. n - 1)
        BY <3>2
      <4>2. k # 0 => longer[k - 1] = kept[k - 1]
        BY <2>2, <4>1
      <4> QED
        BY <2>2, <2>3, <4>1, <4>2
    <3> QED
      BY <3>1, <3>2
  <2>5. IsKept(longer, seq, ids, n)
    BY <2>4 DEF IsKept
  <2> QED
    BY <2>5
<1> HIDE DEF S
<1>3. N \in S
  BY <1>1, <1>2, SegmentInduction
<1> QED
  BY <1>3 DEF S

\* Within is where it ends.
LEMMA WithinIsKept ==
    ASSUME NEW seq, NEW ids, Len(seq) \in Nat
    PROVE  \E kept : IsKept(kept, seq, ids, Len(seq)) /\ Within(seq, ids) = kept[Len(seq)]
<1> DEFINE all == CHOOSE kept : IsKept(kept, seq, ids, Len(seq))
<1>1. IsKept(all, seq, ids, Len(seq))
  BY KeptExists
<1>2. Within(seq, ids) = all[Len(seq)]
  BY DEF Within, IsKept
<1> QED
  BY <1>1, <1>2

\* It is a sequence of the ids.
LEMMA WithinTyped ==
    ASSUME NEW seq, NEW ids, Len(seq) \in Nat
    PROVE  Within(seq, ids) \in Seq(ids)
<1>1. PICK N \in Nat : N = Len(seq)
  OBVIOUS
<1>2. PICK kept : IsKept(kept, seq, ids, N) /\ Within(seq, ids) = kept[N]
  BY <1>1, WithinIsKept
<1> DEFINE S == {n \in 0 .. N : kept[n] \in Seq(ids)}
<1>3. /\ kept[0] = <<>>
      /\ \A n \in 1 .. N : kept[n] = IF seq[n] \in ids THEN Append(kept[n - 1], seq[n]) ELSE kept[n - 1]
  BY <1>2, KeptSteps
<1>4. 0 \in S
  <2>1. 0 \in 0 .. N /\ <<>> \in Seq(ids)
    BY EmptySeq
  <2>2. kept[0] \in Seq(ids)
    BY <1>3, <2>1
  <2> QED
    BY <2>1, <2>2
<1>5. ASSUME NEW n \in 1 .. N, n - 1 \in S PROVE n \in S
  <2>1. kept[n - 1] \in Seq(ids) /\ n \in 0 .. N
    BY <1>5
  <2>2. seq[n] \in ids => Append(kept[n - 1], seq[n]) \in Seq(ids)
    BY <2>1, AppendProperties
  <2>3. kept[n] \in Seq(ids)
    BY <1>3, <2>1, <2>2
  <2> QED
    BY <2>1, <2>3
<1> HIDE DEF S
<1>6. N \in S
  <2>1. 0 .. N \subseteq S
    BY <1>4, <1>5, SegmentInduction
  <2> QED
    BY <2>1
<1> QED
  BY <1>2, <1>6 DEF S

\* Of ids alone it keeps all.
LEMMA WithinAll ==
    ASSUME NEW ids, NEW seq \in Seq(ids)
    PROVE  Within(seq, ids) = seq
<1>1. PICK N \in Nat : N = Len(seq)
  BY LenProperties
<1>2. PICK kept : IsKept(kept, seq, ids, N) /\ Within(seq, ids) = kept[N]
  BY <1>1, WithinIsKept
<1> DEFINE S == {n \in 0 .. N : kept[n] = SubSeq(seq, 1, n)}
<1>3. /\ kept[0] = <<>>
      /\ \A n \in 1 .. N : kept[n] = IF seq[n] \in ids THEN Append(kept[n - 1], seq[n]) ELSE kept[n - 1]
  BY <1>2, KeptSteps
<1>4. 0 \in S
  <2>1. SubSeq(seq, 1, 0) = <<>> /\ 0 \in 0 .. N
    BY SubSeqEmpty
  <2>2. kept[0] = SubSeq(seq, 1, 0)
    BY <1>3, <2>1
  <2> QED
    BY <2>1, <2>2
<1>5. ASSUME NEW n \in 1 .. N, n - 1 \in S PROVE n \in S
  <2>1. kept[n - 1] = SubSeq(seq, 1, n - 1) /\ n \in 0 .. N
    BY <1>5
  <2>2. seq[n] \in ids
    BY <1>1, ElementOfSeq
  <2>3. kept[n] = Append(SubSeq(seq, 1, n - 1), seq[n])
    BY <1>3, <2>1, <2>2
  <2>4. SubSeq(seq, 1, n) = SubSeq(seq, 1, n - 1) \o <<seq[n]>>
    <3>1. 1 \in 1 .. Len(seq) /\ n \in 1 .. Len(seq)
      BY <1>1
    <3> QED
      BY <3>1, SubSeqRecursiveSecond
  <2>5. SubSeq(seq, 1, n - 1) \in Seq(ids)
    <3>1. 1 \in Int /\ n - 1 \in Int /\ \A i \in 1 .. n - 1 : seq[i] \in ids
      BY <1>1, ElementOfSeq
    <3> QED
      BY <3>1, SubSeqProperties
  <2>6. kept[n] = SubSeq(seq, 1, n)
    BY <2>2, <2>3, <2>4, <2>5, AppendIsConcat
  <2> QED
    BY <2>1, <2>6
<1> HIDE DEF S
<1>6. N \in S
  <2>1. 0 .. N \subseteq S
    BY <1>4, <1>5, SegmentInduction
  <2> QED
    BY <2>1
<1>7. SubSeq(seq, 1, N) = seq
  BY <1>1, SubSeqFull
<1> QED
  BY <1>2, <1>6, <1>7 DEF S

\* Of others it keeps none.
LEMMA WithinNone ==
    ASSUME NEW ids, NEW others, NEW seq \in Seq(others), others \intersect ids = {}
    PROVE  Within(seq, ids) = <<>>
<1>1. PICK N \in Nat : N = Len(seq)
  BY LenProperties
<1>2. PICK kept : IsKept(kept, seq, ids, N) /\ Within(seq, ids) = kept[N]
  BY <1>1, WithinIsKept
<1> DEFINE S == {n \in 0 .. N : kept[n] = <<>>}
<1>3. /\ kept[0] = <<>>
      /\ \A n \in 1 .. N : kept[n] = IF seq[n] \in ids THEN Append(kept[n - 1], seq[n]) ELSE kept[n - 1]
  BY <1>2, KeptSteps
<1>4. 0 \in S
  BY <1>3
<1>5. ASSUME NEW n \in 1 .. N, n - 1 \in S PROVE n \in S
  <2>1. seq[n] \notin ids
    BY <1>1, ElementOfSeq
  <2> QED
    BY <1>3, <1>5, <2>1
<1> HIDE DEF S
<1>6. N \in S
  <2>1. 0 .. N \subseteq S
    BY <1>4, <1>5, SegmentInduction
  <2> QED
    BY <2>1
<1> QED
  BY <1>2, <1>6 DEF S

\* Of one sequence after another it keeps what it keeps of the one, and then of
\* the other.
LEMMA WithinConcat ==
    ASSUME NEW ids, NEW A, NEW s \in Seq(A), NEW t \in Seq(A)
    PROVE  Within(s \o t, ids) = Within(s, ids) \o Within(t, ids)
<1> DEFINE r == s \o t
<1>1. PICK M \in Nat, N \in Nat : M = Len(s) /\ N = Len(t)
  BY LenProperties
<1>2. /\ Len(r) = M + N /\ M + N \in Nat
      /\ \A n \in 1 .. M : r[n] = s[n]
      /\ \A n \in 1 .. N : r[M + n] = t[n]
  BY <1>1, ConcatProperties
<1> HIDE DEF r
<1>3. PICK first : IsKept(first, s, ids, M) /\ Within(s, ids) = first[M]
  BY <1>1, WithinIsKept
<1>4. PICK second : IsKept(second, t, ids, N) /\ Within(t, ids) = second[N]
  BY <1>1, WithinIsKept
<1>5. PICK kept : IsKept(kept, r, ids, M + N) /\ Within(r, ids) = kept[M + N]
  BY <1>2, WithinIsKept
<1>6. /\ first[0] = <<>>
      /\ \A n \in 1 .. M : first[n] = IF s[n] \in ids THEN Append(first[n - 1], s[n]) ELSE first[n - 1]
  BY <1>3, KeptSteps
<1>7. /\ second[0] = <<>>
      /\ \A n \in 1 .. N : second[n] = IF t[n] \in ids THEN Append(second[n - 1], t[n]) ELSE second[n - 1]
  BY <1>4, KeptSteps
<1>8. /\ kept[0] = <<>>
      /\ \A n \in 1 .. M + N : kept[n] = IF r[n] \in ids THEN Append(kept[n - 1], r[n]) ELSE kept[n - 1]
  BY <1>2, <1>5, KeptSteps
<1> DEFINE P == {n \in 0 .. M : kept[n] = first[n] /\ first[n] \in Seq(ids)}
           Q == {n \in 0 .. N : kept[M + n] = first[M] \o second[n] /\ second[n] \in Seq(ids)}
<1>9. 0 \in P
  <2>1. 0 \in 0 .. M /\ <<>> \in Seq(ids)
    BY EmptySeq
  <2>2. kept[0] = first[0] /\ first[0] \in Seq(ids)
    BY <1>6, <1>8, <2>1
  <2> QED
    BY <2>1, <2>2
<1>10. ASSUME NEW n \in 1 .. M, n - 1 \in P PROVE n \in P
  <2>1. n \in 1 .. M + N /\ n \in 0 .. M /\ r[n] = s[n]
    BY <1>2
  <2>2. kept[n - 1] = first[n - 1] /\ first[n - 1] \in Seq(ids)
    BY <1>10
  <2>3. kept[n] = first[n]
    BY <1>6, <1>8, <2>1, <2>2
  <2>4. s[n] \in ids => Append(first[n - 1], s[n]) \in Seq(ids)
    BY <2>2, AppendProperties
  <2>5. first[n] \in Seq(ids)
    BY <1>6, <2>2, <2>4
  <2> QED
    BY <2>1, <2>3, <2>5
<1>11. kept[M] = first[M] /\ first[M] \in Seq(ids)
  <2> HIDE DEF P
  <2>1. 0 .. M \subseteq P
    BY <1>9, <1>10, SegmentInduction
  <2> QED
    BY <2>1 DEF P
<1> HIDE DEF P
<1>12. 0 \in Q
  <2>1. kept[M + 0] = first[M] \o <<>>
    BY <1>11, ConcatEmptySeq
  <2>2. 0 \in 0 .. N /\ <<>> \in Seq(ids)
    BY EmptySeq
  <2>3. kept[M + 0] = first[M] \o second[0] /\ second[0] \in Seq(ids)
    BY <1>7, <2>1, <2>2
  <2> QED
    BY <2>2, <2>3
<1>13. ASSUME NEW n \in 1 .. N, n - 1 \in Q PROVE n \in Q
  <2>1. /\ M + n \in 1 .. M + N /\ n \in 0 .. N /\ r[M + n] = t[n]
        /\ (M + n) - 1 = M + (n - 1)
    BY <1>2
  <2>2. kept[(M + n) - 1] = first[M] \o second[n - 1] /\ second[n - 1] \in Seq(ids)
    BY <1>13, <2>1
  <2> HIDE DEF Q
  <2>3. kept[M + n] = IF t[n] \in ids THEN Append(first[M] \o second[n - 1], t[n]) ELSE first[M] \o second[n - 1]
    BY <1>8, <2>1, <2>2
  <2>4. second[n] = IF t[n] \in ids THEN Append(second[n - 1], t[n]) ELSE second[n - 1]
    BY <1>7
  <2>5. ASSUME t[n] \in ids
        PROVE  /\ Append(first[M] \o second[n - 1], t[n]) = first[M] \o Append(second[n - 1], t[n])
               /\ Append(second[n - 1], t[n]) \in Seq(ids)
    <3>1. Append(second[n - 1], t[n]) = second[n - 1] \o <<t[n]>> /\ Append(second[n - 1], t[n]) \in Seq(ids)
      BY <2>2, <2>5, AppendIsConcat, AppendProperties
    <3>2. first[M] \o second[n - 1] \in Seq(ids)
      BY <1>11, <2>2, ConcatProperties
    <3>3. Append(first[M] \o second[n - 1], t[n]) = (first[M] \o second[n - 1]) \o <<t[n]>>
      BY <2>5, <3>2, AppendIsConcat
    <3>4. <<t[n]>> \in Seq(ids)
      BY <2>5
    <3>5. (first[M] \o second[n - 1]) \o <<t[n]>> = first[M] \o (second[n - 1] \o <<t[n]>>)
      <4> DEFINE a == first[M]
                 b == second[n - 1]
                 c == <<t[n]>>
      <4>1. a \in Seq(ids) /\ b \in Seq(ids) /\ c \in Seq(ids)
        BY <1>11, <2>2, <3>4
      <4> HIDE DEF a, b, c
      <4>2. (a \o b) \o c = a \o (b \o c)
        BY <4>1, ConcatAssociative, SMTT(30)
      <4> QED
        BY <4>2 DEF a, b, c
    <3> QED
      BY <3>1, <3>3, <3>5
  <2>6. kept[M + n] = first[M] \o second[n]
    BY <2>3, <2>4, <2>5
  <2>7. second[n] \in Seq(ids)
    BY <2>2, <2>4, <2>5
  <2> QED
    BY <2>1, <2>6, <2>7 DEF Q
<1>14. kept[M + N] = first[M] \o second[N]
  <2> HIDE DEF Q
  <2>1. 0 .. N \subseteq Q
    BY <1>12, <1>13, SegmentInduction
  <2>2. N \in Q
    BY <2>1
  <2> QED
    BY <2>2 DEF Q
<1> QED
  BY <1>3, <1>4, <1>5, <1>14 DEF r


\* Nothing, by id.
LEMMA NothingById == ById({}) = <<>>
  BY FS_EmptySet DEF ById

\* By id, a finite set is a sequence.
LEMMA ByIdIsSequence ==
    ASSUME NEW ids, IsFiniteSet(ids)
    PROVE  \E S : ById(ids) \in Seq(S)
<1>1. Cardinality(ids) \in Nat
  BY FS_CardinalityType
<1> DEFINE at(k) == CHOOSE i \in ids : Cardinality({j \in ids : j <= i}) = k
           S == {at(k) : k \in 1 .. Cardinality(ids)}
           all == [k \in 1 .. Cardinality(ids) |-> at(k)]
<1>2. ById(ids) = all
  BY DEF ById
<1>3. all \in [1 .. Cardinality(ids) -> S]
  OBVIOUS
<1> HIDE DEF all, S
<1>4. all \in Seq(S)
  BY <1>1, <1>3, SeqDef
<1> QED
  BY <1>2, <1>4

\* The order of a table that has one: it lists the fields.
LEMMA OrderOf ==
    ASSUME NEW x, IsSchema(x), OrderFits(x), NEW order \in x.order
    PROVE  /\ x.order = {order} /\ The(x.order) = order
           /\ order \in Seq(DOMAIN x.fields) /\ ToSet(order) = DOMAIN x.fields
<1>1. x.order = {order}
  BY DEF IsSchema
<1> QED
  BY <1>1 DEF OrderFits, The

\* The empty sequence.
LEMMA EmptyWithin ==
    ASSUME NEW ids
    PROVE  Within(<<>>, ids) = <<>>
  BY WithinAll, EmptySeq

\* It is shown as it is, and is normal.
LEMMA OrderIsNormal ==
    ASSUME NEW x, IsSchema(x), OrderFits(x), NEW order \in x.order
    PROVE  ShownOrder(x) = order /\ NormalizedOrder({order}, DOMAIN x.fields) = {order}
<1>1. /\ x.order # {} /\ The(x.order) = order
      /\ order \in Seq(DOMAIN x.fields) /\ ToSet(order) = DOMAIN x.fields
  BY OrderOf
<1>2. Within(order, DOMAIN x.fields) = order
  BY <1>1, WithinAll
<1>3. DOMAIN x.fields \ ToSet(order) = {}
  BY <1>1
<1>4. order \o <<>> = order
  BY <1>1, ConcatEmptySeq
<1>5. ShownOrder(x) = Within(order, DOMAIN x.fields) \o ById(DOMAIN x.fields \ ToSet(order))
  BY <1>1 DEF ShownOrder
<1>6. NormalizedOrder({order}, DOMAIN x.fields) =
        {Within(order, DOMAIN x.fields) \o ById(DOMAIN x.fields \ ToSet(Within(order, DOMAIN x.fields)))}
  BY DEF NormalizedOrder
<1> QED
  BY <1>2, <1>3, <1>4, <1>5, <1>6, NothingById

\* What is shown is a sequence.
LEMMA ShownIsSequence ==
    ASSUME NEW x, IsSchema(x), OrderFits(x)
    PROVE  Len(ShownOrder(x)) \in Nat
<1>1. CASE x.order = {}
  <2>1. ToSet(<<>>) = {}
    BY DEF ToSet
  <2>2. ShownOrder(x) = <<>> \o ById(DOMAIN x.fields \ {})
    BY <1>1, <2>1, EmptyWithin DEF ShownOrder
  <2>3. DOMAIN x.fields \ {} = DOMAIN x.fields /\ IsFiniteSet(DOMAIN x.fields)
    BY DEF IsSchema
  <2>4. PICK S : ById(DOMAIN x.fields) \in Seq(S)
    BY <2>3, ByIdIsSequence
  <2>5. ShownOrder(x) = ById(DOMAIN x.fields)
    BY <2>2, <2>3, <2>4, ConcatEmptySeq
  <2> QED
    BY <2>4, <2>5, LenProperties
<1>2. CASE x.order # {}
  <2>1. PICK order : order \in x.order
    BY <1>2
  <2>2. ShownOrder(x) = order /\ order \in Seq(DOMAIN x.fields)
    BY <2>1, OrderOf, OrderIsNormal
  <2> QED
    BY <2>2, LenProperties
<1> QED
  BY <1>1, <1>2

\* A table whose order is the one of the base is not an edit of it.
LEMMA SameOrderUnedited ==
    ASSUME NEW x, IsSchema(x), OrderFits(x)
    PROVE  ~OrderEdited(x, x)
<1>1. CASE x.order = {}
  BY <1>1 DEF OrderEdited
<1>2. CASE x.order # {}
  <2>1. PICK order : order \in x.order
    BY <1>2
  <2>2. /\ The(x.order) = order /\ order \in Seq(DOMAIN x.fields)
    BY <2>1, OrderOf
  <2>3. Within(order, DOMAIN x.fields) = order
    BY <2>2, WithinAll
  <2>4. Within(order, DOMAIN x.fields \ DOMAIN x.fields) = <<>>
    BY <2>2, WithinNone
  <2>5. order \o <<>> = order
    BY <2>2, ConcatEmptySeq
  <2> QED
    BY <1>2, <2>2, <2>3, <2>4, <2>5 DEF OrderEdited
<1> QED
  BY <1>1, <1>2

\* Fields of others listed after all of a table's own are left out of its order.
LEMMA ExtensionIsNormal ==
    ASSUME NEW x, IsSchema(x), OrderFits(x), NEW order \in x.order,
           NEW others, NEW rest \in Seq(others), others \intersect DOMAIN x.fields = {},
           NEW orders, orders = {order \o rest}
    PROVE  NormalizedOrder(orders, DOMAIN x.fields) = x.order
<1> DEFINE fields == DOMAIN x.fields
           S == fields \union others
<1>1. order \in Seq(fields) /\ ToSet(order) = fields
  BY OrderOf
<1>2. rest \in Seq(others)
  OBVIOUS
<1>3. order \in Seq(S) /\ rest \in Seq(S)
  BY <1>1, <1>2, SeqMonotonic
<1>4. Within(order \o rest, fields) = Within(order, fields) \o Within(rest, fields)
  <2> HIDE DEF fields, S
  <2> QED
    BY <1>3, WithinConcat
<1>5. Within(order, fields) = order
  BY <1>1, WithinAll
<1>6. Within(rest, fields) = <<>>
  <2>1. others \intersect fields = {}
    OBVIOUS
  <2> HIDE DEF fields
  <2> QED
    BY <1>2, <2>1, WithinNone
<1>7. order \o <<>> = order
  BY <1>1, ConcatEmptySeq
<1>8. Within(order \o rest, fields) = order
  BY <1>4, <1>5, <1>6, <1>7
<1>9. NormalizedOrder(orders, fields) =
        {Within(order \o rest, fields) \o ById(fields \ ToSet(Within(order \o rest, fields)))}
  BY DEF NormalizedOrder
<1>10. fields \ ToSet(order) = {}
  BY <1>1
<1>11. x.order = {order}
  BY OrderOf
<1> QED
  BY <1>7, <1>8, <1>9, <1>10, <1>11, NothingById

\* The order of a table, extended by what another shows.
Extensions(x, y) == {Extended(order, y) : order \in x.order}

\* The order of a table, extended by what another shows, is restored as it was.
LEMMA PickedOrder ==
    ASSUME NEW x, IsSchema(x), OrderFits(x), NEW y, IsSchema(y), OrderFits(y)
    PROVE  NormalizedOrder(Extensions(x, y), DOMAIN x.fields) = x.order
<1>1. CASE x.order = {}
  BY <1>1 DEF NormalizedOrder, Extensions
<1>2. CASE x.order # {}
  <2>1. PICK order : order \in x.order
    BY <1>2
  <2>2. x.order = {order}
    BY <2>1, OrderOf
  <2>3. Len(ShownOrder(y)) \in Nat
    BY ShownIsSequence
  <2> DEFINE others == DOMAIN y.fields \ ToSet(order)
             rest == Within(ShownOrder(y), others)
  <2>4. Extensions(x, y) = {order \o rest}
    BY <2>2 DEF Extensions, Extended
  <2>5. rest \in Seq(others)
    BY <2>3, WithinTyped
  <2>6. others \intersect DOMAIN x.fields = {}
    BY <2>1, OrderOf
  <2> HIDE DEF others, rest
  <2> QED
    BY <2>1, <2>4, <2>5, <2>6, ExtensionIsNormal
<1> QED
  BY <1>1, <1>2

\* The order of the base, extended by the fields of a table that did not edit
\* it, is restored to the order of that table.
LEMMA UneditedOrder ==
    ASSUME NEW b, IsSchema(b), OrderFits(b), NEW x, IsSchema(x), OrderFits(x), ~OrderEdited(b, x)
    PROVE  NormalizedOrder(Extensions(b, x), DOMAIN x.fields) = x.order
<1>1. CASE b.order = {} \/ x.order = {}
  <2>1. b.order = {} /\ x.order = {}
    BY <1>1 DEF OrderEdited
  <2> QED
    BY <2>1 DEF NormalizedOrder, Extensions
<1>2. CASE b.order # {} /\ x.order # {}
  <2>1. PICK old \in b.order, new \in x.order : TRUE
    BY <1>2
  <2>2. /\ b.order = {old} /\ The(b.order) = old /\ old \in Seq(DOMAIN b.fields) /\ ToSet(old) = DOMAIN b.fields
        /\ x.order = {new} /\ The(x.order) = new /\ new \in Seq(DOMAIN x.fields) /\ ToSet(new) = DOMAIN x.fields
    BY <2>1, OrderOf
  <2> DEFINE fields == DOMAIN x.fields
             added == Within(new, fields \ DOMAIN b.fields)
  <2>3. new = Within(old, fields) \o added
    BY <1>2, <2>2 DEF OrderEdited
  <2>4. ShownOrder(x) = new
    BY <2>1, OrderIsNormal
  <2>5. Extended(old, x) = old \o added
    BY <2>2, <2>4 DEF Extended
  <2>6. added \in Seq(fields \ DOMAIN b.fields)
    <3>1. Len(new) \in Nat
      BY <2>2, LenProperties
    <3> QED
      BY <3>1, WithinTyped
  <2> HIDE DEF added
  <2>7. Within(added, fields) = added
    <3>1. added \in Seq(fields)
      BY <2>6, SeqMonotonic
    <3> HIDE DEF fields
    <3> QED
      BY <3>1, WithinAll
  <2>8. Within(old \o added, fields) = Within(old, fields) \o Within(added, fields)
    <3> DEFINE S == DOMAIN b.fields \union fields
    <3>1. old \in Seq(S) /\ added \in Seq(S)
      BY <2>2, <2>6, SeqMonotonic
    <3> HIDE DEF S, fields
    <3> QED
      BY <3>1, WithinConcat
  <2>9. Within(old \o added, fields) = new
    BY <2>3, <2>7, <2>8
  <2>10. NormalizedOrder({old \o added}, fields) =
           {Within(old \o added, fields) \o ById(fields \ ToSet(Within(old \o added, fields)))}
    BY DEF NormalizedOrder
  <2>11. new \o <<>> = new /\ fields \ ToSet(new) = {}
    BY <2>2, ConcatEmptySeq
  <2>12. NormalizedOrder({old \o added}, fields) = {new}
    BY <2>9, <2>10, <2>11, NothingById
  <2>13. Extensions(b, x) = {Extended(old, x)}
    BY <2>2 DEF Extensions
  <2> QED
    BY <2>2, <2>5, <2>12, <2>13
<1> QED
  BY <1>1, <1>2

\* A table whose order nobody else edited gets its own order back
\* (apply_selected_field_orders).
LEMMA WinningOrder ==
    ASSUME NEW options, NEW k, Wins(options, k), NEW x, options[k] = {x},
           \A i \in Sides : IsOption(options[i]) /\ \A y \in options[i] : IsSchema(y) /\ OrderFits(y)
    PROVE  NormalizedOrder(SelectedOrder(options), DOMAIN x.fields) = x.order
<1> DEFINE pick == IF OrderEditors(options) = {Theirs} THEN Theirs ELSE Ours
           other == IF pick = Ours THEN Theirs ELSE Ours
           Back(order) == NormalizedOrder(order, DOMAIN x.fields) = x.order
<1>1. k \in {Ours, Theirs} /\ IsSchema(x) /\ OrderFits(x)
  BY SidesAre DEF Wins
<1>2. Back(x.order)
  <2>1. CASE x.order = {}
    BY <2>1 DEF NormalizedOrder
  <2>2. CASE x.order # {}
    <3>1. PICK order : order \in x.order
      BY <2>2
    <3> QED
      BY <1>1, <3>1, OrderOf, OrderIsNormal
  <2> QED
    BY <2>1, <2>2
<1>3. CASE ~Present(options)
  <2>1. SelectedOrder(options) = IF options[Ours] # {} THEN The(options[Ours]).order ELSE The(options[Theirs]).order
    BY <1>3 DEF SelectedOrder
  <2>2. options[Ours] # {} => options[Ours] = {x}
    <3>1. k = Theirs /\ options[Ours] \in {options[Base], options[Theirs]} => options[Ours] = {x} \/ options[Ours] = {}
      BY <1>3, SidesAre DEF Present
    <3> QED
      BY <1>1, <3>1, SidesAre DEF Wins
  <2>3. options[Ours] = {} => options[Theirs] = {x}
    BY <1>1
  <2>4. SelectedOrder(options) = x.order
    BY <2>1, <2>2, <2>3, TheOne
  <2> QED
    BY <1>2, <2>4
<1>4. CASE Present(options)
  <2>1. SelectedOrder(options) = Extensions(The(options[pick]), The(options[other]))
    BY <1>4 DEF SelectedOrder, Extensions
  <2>2. PICK b, l, r : /\ options[Base] = {b} /\ options[Ours] = {l} /\ options[Theirs] = {r}
                       /\ IsSchema(b) /\ OrderFits(b) /\ IsSchema(l) /\ OrderFits(l) /\ IsSchema(r) /\ OrderFits(r)
    <3>1. ASSUME NEW i \in Sides PROVE \E y : options[i] = {y} /\ IsSchema(y) /\ OrderFits(y)
      BY <1>4 DEF Present, IsOption
    <3> QED
      BY <3>1, SidesAre
  <2>3. /\ Ours \in OrderEditors(options) <=> OrderEdited(b, l)
        /\ Theirs \in OrderEditors(options) <=> OrderEdited(b, r)
        /\ OrderEditors(options) \subseteq {Ours, Theirs}
    BY <2>2 DEF OrderEditors
  <2>4. The(options[Ours]) = l /\ The(options[Theirs]) = r
    BY <2>2, TheOne
  <2>5. CASE k = Ours
    <3>1. x = l /\ r \in {b, l}
      BY <2>2, <2>5, SidesAre DEF Wins
    <3>2. OrderEditors(options) # {Theirs}
      BY <2>2, <2>3, <3>1, SameOrderUnedited, SidesAre
    <3>3. SelectedOrder(options) = Extensions(l, r)
      BY <2>1, <2>4, <3>2, SidesAre
    <3> QED
      BY <2>2, <3>1, <3>3, PickedOrder
  <2>6. CASE k = Theirs /\ l = r
    <3>1. x = l
      BY <2>2, <2>6
    <3>2. OrderEditors(options) # {Theirs}
      BY <2>3, <2>6, SidesAre
    <3>3. SelectedOrder(options) = Extensions(l, r)
      BY <2>1, <2>4, <3>2, SidesAre
    <3> QED
      BY <2>2, <3>1, <3>3, PickedOrder
  <2>7. CASE k = Theirs /\ l # r
    <3>1. x = r /\ l = b
      BY <2>2, <2>7, SidesAre DEF Wins
    <3>2. OrderEditors(options) = IF OrderEdited(b, r) THEN {Theirs} ELSE {}
      BY <2>2, <2>3, <3>1, SameOrderUnedited, SidesAre
    <3>3. CASE OrderEdited(b, r)
      <4>1. SelectedOrder(options) = Extensions(r, l)
        BY <2>1, <2>4, <3>2, <3>3, SidesAre
      <4> QED
        BY <2>2, <3>1, <4>1, PickedOrder
    <3>4. CASE ~OrderEdited(b, r)
      <4>1. SelectedOrder(options) = Extensions(b, r)
        BY <2>1, <2>4, <3>1, <3>2, <3>4, SidesAre
      <4> QED
        BY <2>2, <3>1, <3>4, <4>1, UneditedOrder
    <3> QED
      BY <3>3, <3>4
  <2> QED
    BY <1>1, <2>5, <2>6, <2>7
<1> QED
  BY <1>3, <1>4

\* Of alike sides no order is in conflict: what a side has of the base it did
\* not edit (add_field_order_conflicts).
LEMMA AgreeingOrders ==
    ASSUME NEW options, Agreeing(options),
           \A i \in Sides : IsOption(options[i]) /\ \A y \in options[i] : IsSchema(y) /\ OrderFits(y)
    PROVE  ~OrdersConflict(options)
<1> DEFINE orders == FacetOf(options, "order")
<1>1. \A i \in Sides : orders[i] = {y.order : y \in options[i]}
  BY DEF FacetOf
<1>2. ASSUME NEW i \in {Ours, Theirs}, options[i] = options[Base] PROVE i \notin OrderEditors(options)
  <2>1. ASSUME NEW old \in options[Base], NEW new \in options[i] PROVE ~OrderEdited(old, new)
    <3>1. new = old /\ IsSchema(old) /\ OrderFits(old)
      BY <1>2, SidesAre DEF IsOption
    <3> QED
      BY <3>1, SameOrderUnedited
  <2> QED
    BY <2>1 DEF OrderEditors
<1>3. \A i \in {Ours, Theirs} : options[i] = {} => i \notin OrderEditors(options)
  BY DEF OrderEditors
<1>4. OrderEditors(options) \subseteq {Ours, Theirs}
  BY DEF OrderEditors
<1>5. OrdersConflict(options) =>
        IF options[Base] = {} THEN orders[Ours] # {} /\ orders[Theirs] # {} /\ orders[Ours] # orders[Theirs]
        ELSE IF Present(options)
        THEN OrderEditors(options) = {Ours, Theirs} /\ orders[Ours] # orders[Theirs]
        ELSE OrderEditors(options) # {}
  BY DEF OrdersConflict
<1> HIDE DEF orders
<1>6. \A i \in Sides : options[i] = {} => orders[i] = {}
  BY <1>1
<1>7. CASE options[Ours] = options[Theirs]
  <2>1. orders[Ours] = orders[Theirs]
    BY <1>1, <1>7, SidesAre
  <2>2. options[Base] # {} /\ ~Present(options) => options[Ours] = {} /\ options[Theirs] = {}
    BY <1>7, SidesAre DEF Present
  <2> QED
    BY <1>3, <1>4, <1>5, <2>1, <2>2
<1>8. ASSUME NEW i \in {Ours, Theirs}, options[i] = options[Base] PROVE ~OrdersConflict(options)
  <2>1. i \notin OrderEditors(options)
    BY <1>2, <1>8
  <2>2. options[Base] = {} => orders[i] = {}
    BY <1>6, <1>8, SidesAre
  <2>3. options[Base] # {} /\ ~Present(options) => \A j \in {Ours, Theirs} : j # i => options[j] = {}
    BY <1>8, SidesAre DEF Present
  <2>4. options[Base] # {} /\ ~Present(options) => OrderEditors(options) = {}
    BY <1>3, <1>4, <2>1, <2>3
  <2> QED
    BY <1>5, <2>1, <2>2, <2>4
<1> QED
  BY <1>7, <1>8 DEF Agreeing

\* Where nobody has an order, none is selected.
LEMMA NoOrderIsSelected ==
    ASSUME NEW options, \A i \in Sides : IsOption(options[i]) /\ \A x \in options[i] : x.order = {},
           options[Ours] # {} \/ options[Theirs] # {}
    PROVE  SelectedOrder(options) = {}
<1> DEFINE pick == IF OrderEditors(options) = {Theirs} THEN Theirs ELSE Ours
           other == IF pick = Ours THEN Theirs ELSE Ours
           extended(order) == Extended(order, The(options[other]))
<1>1. ASSUME NEW i \in Sides, options[i] # {} PROVE The(options[i]).order = {}
  <2>1. options[i] = {The(options[i])}
    BY <1>1, OptionIs
  <2> QED
    BY <2>1
<1>2. SelectedOrder(options) = IF Present(options) THEN {extended(order) : order \in The(options[pick]).order}
                               ELSE IF options[Ours] # {} THEN The(options[Ours]).order
                               ELSE The(options[Theirs]).order
  BY DEF SelectedOrder
<1>3. pick \in Sides
  BY SidesAre
<1>4. {extended(order) : order \in {}} = {}
  OBVIOUS
<1> HIDE DEF pick, extended
<1>5. CASE Present(options)
  BY <1>1, <1>2, <1>3, <1>4, <1>5 DEF Present
<1>6. CASE ~Present(options)
  BY <1>1, <1>2, <1>6, SidesAre
<1> QED
  BY <1>5, <1>6

\* What is taken off a schema of the winner is put back.
LEMMA RestoredWinningSchema ==
    ASSUME NEW schemas, NEW k, Wins(schemas, k), NEW s \in DOMAIN schemas[k], IsSchema(schemas[k][s]),
           \A i \in Sides : \A x \in Entries(schemas, s)[i] : IsSchema(x) /\ OrderFits(x)
    PROVE  RestoredSchema(BareSchema(schemas[k][s]), schemas, s) = schemas[k][s]
<1> DEFINE x == schemas[k][s]
           options == Entries(schemas, s)
           bare == BareSchema(x)
           restored == RestoredSchema(bare, schemas, s)
<1>1. Wins(options, k) /\ options[k] = {x} /\ k \in Sides
  BY WinsEntries, WinningIds, WinnerIsChosen
<1>2. IsSchema(x)
  OBVIOUS
<1>3. /\ bare.key = x.key /\ DOMAIN bare.fields = DOMAIN x.fields
      /\ \A f \in DOMAIN x.fields : bare.fields[f] = BareField(x.fields[f])
  BY <1>2, BareSchemaIs
<1>4. \A i \in Sides : IsOption(options[i]) /\ \A y \in options[i] : IsSchema(y) /\ OrderFits(y)
  BY EntriesAreOptions
<1>5. restored = [key |-> bare.key, name |-> Settled(options, "name"),
                  order |-> NormalizedOrder(SelectedOrder(options), DOMAIN bare.fields),
                  fields |-> [f \in DOMAIN bare.fields |->
                                RestoredField(bare.fields[f], FieldEntries(schemas, s, f))]]
  BY DEF RestoredSchema
<1>6. ASSUME NEW f \in DOMAIN x.fields
      PROVE  RestoredField(BareField(x.fields[f]), FieldEntries(schemas, s, f)) = x.fields[f]
  <2> DEFINE fields == FieldsIn(options)
  <2>1. options[k] # {} /\ The(options[k]) = x
    BY <1>1, TheOne
  <2>2. Wins(fields, k) /\ fields[k] = x.fields
    <3> HIDE DEF x, options
    <3>1. Wins(FieldsIn(options), k) /\ FieldsIn(options)[k] = The(options[k]).fields
      BY <1>1, <2>1, WinsFields
    <3> QED
      BY <2>1, <3>1
  <2>3. FieldEntries(schemas, s, f) = Entries(fields, f)
    BY DEF FieldEntries
  <2> HIDE DEF fields, x, options
  <2>4. Wins(Entries(fields, f), k) /\ Entries(fields, f)[k] = {x.fields[f]}
    BY <2>2, WinsEntries, EntryIsOption
  <2>5. IsField(x.fields[f])
    BY <1>2 DEF IsSchema
  <2> QED
    BY <2>3, <2>4, <2>5, RestoredWinningField
<1> HIDE DEF x, options, bare, restored
<1>7. Settled(options, "name") = x.name
  <2>1. CASE Present(options)
    BY <1>1, <2>1, SettledPart, WinningFacet
  <2>2. CASE ~Present(options)
    BY <1>1, <2>2, WinnerIsChosen, SettledWhole
  <2> QED
    BY <2>1, <2>2
<1>8. NormalizedOrder(SelectedOrder(options), DOMAIN bare.fields) = x.order
  BY <1>1, <1>3, <1>4, WinningOrder
<1>9. [f \in DOMAIN bare.fields |-> RestoredField(bare.fields[f], FieldEntries(schemas, s, f))] = x.fields
  <2>1. x.fields = [f \in DOMAIN x.fields |-> x.fields[f]]
    BY <1>2 DEF IsSchema, IsMap
  <2>2. \A f \in DOMAIN bare.fields : RestoredField(bare.fields[f], FieldEntries(schemas, s, f)) = x.fields[f]
    BY <1>3, <1>6
  <2> QED
    BY <1>3, <2>1, <2>2
<1>10. x = [key |-> x.key, name |-> x.name, order |-> x.order, fields |-> x.fields]
  <2>1. x = [facet \in {"key", "name", "order", "fields"} |-> x[facet]]
    BY <1>2 DEF IsSchema, IsRecord
  <2> QED
    BY <1>2, <2>1
<1> QED
  BY <1>3, <1>5, <1>7, <1>8, <1>9, <1>10 DEF x, options, bare, restored

\* v2 of what it does not refuse: it is in conflict if any of its passes is,
\* and else v1's result with what was taken off put back.
LEMMA MergeV2OfAdmitted ==
    ASSUME NEW docs, \A i \in Sides : ~HasFormats(docs[i]) /\ docs[i].definitions = docs[Base].definitions
    PROVE  LET stripped == [i \in Sides |-> Stripped(docs[i])]
               schemas == SchemasOf(docs)
           IN IF /\ {c \in MergeConflicts(stripped) : ~IsSubjectConflict(c)} = {}
                 /\ SubjectConflicts(schemas) = {} /\ ConstraintConflicts(schemas) = {}
                 /\ NameConflicts(schemas) = {} /\ OrderConflicts(schemas) = {}
              THEN MergeV2(docs) = Merged(Restored(Merge(stripped).document, schemas), Merge(stripped).unmaterialized)
              ELSE MergeV2(docs).status = "conflicted"
<1> DEFINE stripped == [i \in Sides |-> Stripped(docs[i])]
           schemas == SchemasOf(docs)
           inherited == {c \in MergeConflicts(stripped) : ~IsSubjectConflict(c)}
           passes == <<inherited, SubjectConflicts(schemas), ConstraintConflicts(schemas),
                       NameConflicts(schemas), OrderConflicts(schemas)>>
           conflicting == \E i \in DOMAIN passes : passes[i] # {}
           conflicts == Conflicted(Canonical(FlattenSeq([i \in DOMAIN passes |-> SetToSeq(passes[i])])))
           result == Merged(Restored(Merge(stripped).document, schemas), Merge(stripped).unmaterialized)
           formats == \E i \in Sides : HasFormats(docs[i])
           definitions == \E i \in Sides : docs[i].definitions # docs[Base].definitions
<1>1. MergeV2(docs) = CASE formats -> Refused("number_format")
                        [] definitions -> Refused("definitions")
                        [] OTHER -> IF conflicting THEN conflicts ELSE result
  BY DEF MergeV2
<1>2. ~formats /\ ~definitions
  OBVIOUS
<1>3. conflicts.status = "conflicted"
  BY Statuses
<1>4. conflicting <=> ~(/\ inherited = {} /\ SubjectConflicts(schemas) = {} /\ ConstraintConflicts(schemas) = {}
                       /\ NameConflicts(schemas) = {} /\ OrderConflicts(schemas) = {})
  <2> HIDE DEF inherited, schemas
  <2>1. /\ passes[1] = inherited /\ passes[2] = SubjectConflicts(schemas)
        /\ passes[3] = ConstraintConflicts(schemas) /\ passes[4] = NameConflicts(schemas)
        /\ passes[5] = OrderConflicts(schemas)
    OBVIOUS
  <2>2. DOMAIN passes = 1 .. 5
    OBVIOUS
  <2> HIDE DEF passes
  <2> QED
    BY <2>1, <2>2
<1> HIDE DEF inherited, passes, conflicting, conflicts, result, formats, definitions, schemas
<1>5. /\ ~conflicting => MergeV2(docs) = result
      /\ conflicting => MergeV2(docs).status = "conflicted"
  BY <1>1, <1>2, <1>3
<1> QED
  BY <1>4, <1>5 DEF result, schemas, inherited

\* Orders list the fields.
OrdersFit(d) == \A s \in DOMAIN d.schemas : OrderFits(d.schemas[s])

\* Of alike documents no order is in conflict.
LEMMA NoAgreeingOrderConflicts ==
    ASSUME NEW docs, Agreeing(docs), \A i \in Sides : IsDocument(docs[i]) /\ OrdersFit(docs[i])
    PROVE  /\ OrderConflicts(SchemasOf(docs)) = {}
           /\ \A s : \A i \in Sides : \A x \in Entries(SchemasOf(docs), s)[i] : IsSchema(x) /\ OrderFits(x)
<1> DEFINE schemas == SchemasOf(docs)
<1>1. \A i \in Sides : schemas[i] = docs[i].schemas
  BY DEF SchemasOf
<1>2. Agreeing(schemas)
  BY <1>1, SidesAre DEF Agreeing
<1> HIDE DEF schemas
<1>3. ASSUME NEW s, NEW i \in Sides, NEW x \in Entries(schemas, s)[i] PROVE IsSchema(x) /\ OrderFits(x)
  <2>1. x \in Entry(docs[i].schemas, s)
    BY <1>1, <1>3 DEF Entries
  <2> QED
    BY <2>1 DEF Entry, IsDocument, OrdersFit
<1>4. ASSUME NEW s PROVE ~OrdersConflict(Entries(schemas, s))
  <2>1. Agreeing(Entries(schemas, s))
    BY <1>2, AgreeingEntries
  <2>2. \A i \in Sides : IsOption(Entries(schemas, s)[i])
    BY EntriesAreOptions
  <2> QED
    BY <1>3, <2>1, <2>2, AgreeingOrders
<1> QED
  BY <1>3, <1>4 DEF OrderConflicts, schemas

\* Where a side wins, v2 merges to it.
LEMMA WinningMergeV2 ==
    ASSUME NEW docs, NEW k, Wins(docs, k), \A i \in Sides : IsDocument(docs[i]) /\ OrdersFit(docs[i]),
           \A i \in Sides : ~HasFormats(docs[i]),
           \A i \in Sides : docs[i].definitions = docs[Base].definitions /\ docs[i].id = docs[Base].id
    PROVE  MergeV2(docs) = Merged(docs[k], {})
<1> DEFINE stripped == [i \in Sides |-> Stripped(docs[i])]
           schemas == SchemasOf(docs)
           result == Merged(Restored(Merge(stripped).document, schemas), Merge(stripped).unmaterialized)
<1>1. k \in Sides
  BY WinnerIsChosen
<1>2. (/\ {c \in MergeConflicts(stripped) : ~IsSubjectConflict(c)} = {}
       /\ SubjectConflicts(schemas) = {} /\ ConstraintConflicts(schemas) = {}
       /\ NameConflicts(schemas) = {} /\ OrderConflicts(schemas) = {}) => MergeV2(docs) = result
  BY MergeV2OfAdmitted
<1>3. \A i \in Sides : stripped[i] = Stripped(docs[i]) /\ schemas[i] = docs[i].schemas
  BY DEF SchemasOf
<1>4. MergeConflicts(stripped) = {}
  BY WinsAgree, AgreeingStripped, NoMergeConflicts
<1>5. Wins(schemas, k)
  <2> HIDE DEF stripped, schemas
  <2> QED
    BY <1>3, WinsPart
<1>6. /\ SubjectConflicts(schemas) = {} /\ ConstraintConflicts(schemas) = {}
      /\ NameConflicts(schemas) = {} /\ OrderConflicts(schemas) = {}
  BY <1>5, WinsAgree, NoSubjectConflicts, NoConstraintOrNameConflicts, NoAgreeingOrderConflicts
<1>7. MergeV2(docs) = result
  <2>1. {c \in MergeConflicts(stripped) : ~IsSubjectConflict(c)} = {}
    BY <1>4
  <2> HIDE DEF stripped, schemas, result
  <2> QED
    BY <1>2, <1>6, <2>1
<1> HIDE DEF stripped
<1>8. Merge(stripped) = Merged(stripped[k], {})
  <2>1. Wins(stripped, k)
    BY <1>3, WinsPart
  <2>2. ASSUME NEW i \in Sides
        PROVE  /\ IsDocument(stripped[i]) /\ IsPlain(stripped[i])
               /\ stripped[i].id = docs[i].id /\ stripped[i].definitions = docs[i].definitions
    BY <1>3, StrippedIs, StrippedIsPlain DEF IsPlain
  <2>3. \A i \in Sides : /\ stripped[i].definitions = stripped[Base].definitions
                         /\ stripped[i].id = stripped[Base].id
    BY <2>2, SidesAre
  <2> QED
    BY <2>1, <2>2, <2>3, WinningMerge
<1>9. Restored(stripped[k], schemas) = docs[k]
  <2> DEFINE d == docs[k]
             bare == [s \in DOMAIN d.schemas |-> BareSchema(d.schemas[s])]
             restored == [s \in DOMAIN bare |-> RestoredSchema(bare[s], schemas, s)]
  <2>1. /\ d = [facet \in {"id", "title", "schemas", "entities", "definitions"} |-> d[facet]]
        /\ d.schemas = [s \in DOMAIN d.schemas |-> d.schemas[s]]
        /\ \A s \in DOMAIN d.schemas : IsSchema(d.schemas[s])
    BY <1>1 DEF IsDocument, IsRecord, IsMap
  <2>2. stripped[k] = [d EXCEPT !.schemas = bare]
    BY <1>1, <1>3 DEF Stripped
  <2>3. ASSUME NEW s \in DOMAIN d.schemas PROVE RestoredSchema(bare[s], schemas, s) = d.schemas[s]
    <3>1. \A i \in Sides : \A x \in Entries(schemas, s)[i] : IsSchema(x) /\ OrderFits(x)
      BY WinsAgree, NoAgreeingOrderConflicts
    <3>2. schemas[k] = d.schemas
      BY <1>1, <1>3
    <3>3. bare[s] = BareSchema(schemas[k][s])
      BY <3>2
    <3> HIDE DEF d, bare, schemas
    <3> QED
      BY <1>5, <2>1, <3>1, <3>2, <3>3, RestoredWinningSchema
  <2>4. restored = d.schemas
    <3>1. DOMAIN bare = DOMAIN d.schemas
      OBVIOUS
    <3> HIDE DEF d, bare
    <3> QED
      BY <2>1, <2>3, <3>1
  <2>5. Restored([d EXCEPT !.schemas = bare], schemas) = [d EXCEPT !.schemas = restored]
    <3>1. [d EXCEPT !.schemas = bare].schemas = bare
      BY <2>1
    <3> HIDE DEF d, bare
    <3>2. Restored([d EXCEPT !.schemas = bare], schemas) = [[d EXCEPT !.schemas = bare] EXCEPT !.schemas = restored]
      BY <3>1 DEF Restored
    <3> HIDE DEF restored
    <3>3. [[d EXCEPT !.schemas = bare] EXCEPT !.schemas = restored] = [d EXCEPT !.schemas = restored]
      BY <2>1
    <3> QED
      BY <3>2, <3>3
  <2>6. [d EXCEPT !.schemas = d.schemas] = d
    <3> HIDE DEF d
    <3> QED
      BY <2>1
  <2> HIDE DEF bare, restored, d
  <2> QED
    BY <2>2, <2>4, <2>5, <2>6 DEF d
<1>10. Merge(stripped).document = stripped[k] /\ Merge(stripped).unmaterialized = {}
  BY <1>8, Statuses
<1> QED
  BY <1>7, <1>9, <1>10

-----------------------------------------------------------------------------
\* Admission and finalization: an edit keeps a document's id, and v1 keeps saved
\* definitions bound to numeric fields without looking at them.

\* An edit leaves a document's id.
LEMMA EditedId ==
    ASSUME NEW d, IsDocument(d), NEW x \in Edited(d)
    PROVE  x.id = d.id
<1>1. DOMAIN d = DocumentFacets
  BY DEF IsDocument, IsRecord, DocumentFacets
<1>2. ASSUME NEW v
      PROVE  /\ [d EXCEPT !.title = v].id = d.id /\ [d EXCEPT !.definitions = v].id = d.id
             /\ [d EXCEPT !.entities = v].id = d.id /\ [d EXCEPT !.schemas = v].id = d.id
             /\ DOMAIN [d EXCEPT !.schemas = v] = DocumentFacets
  BY <1>1 DEF DocumentFacets
<1>3. ASSUME NEW z, DOMAIN z = DocumentFacets PROVE Pruned(z).id = z.id
  BY <1>3 DEF Pruned, DocumentFacets
<1>4. ASSUME NEW v PROVE Pruned([d EXCEPT !.schemas = v]).id = d.id
  <2> DEFINE z == [d EXCEPT !.schemas = v]
  <2>1. DOMAIN z = DocumentFacets /\ z.id = d.id
    BY <1>2
  <2> HIDE DEF z
  <2>2. Pruned(z).id = d.id
    BY <1>3, <2>1
  <2> QED
    BY <2>2 DEF z
<1>5. \/ \E v : x = [d EXCEPT !.title = v]
      \/ \E v : x = [d EXCEPT !.definitions = v]
      \/ \E v : x = Pruned([d EXCEPT !.schemas = v])
      \/ \E v : x = [d EXCEPT !.entities = v]
  BY DEF Edited
<1>6. CASE \E v : x = [d EXCEPT !.title = v]
  BY <1>2, <1>6
<1>7. CASE \E v : x = [d EXCEPT !.definitions = v]
  BY <1>2, <1>7
<1>8. CASE \E v : x = Pruned([d EXCEPT !.schemas = v])
  BY <1>4, <1>8
<1>9. CASE \E v : x = [d EXCEPT !.entities = v]
  BY <1>2, <1>9
<1> QED
  BY <1>5, <1>6, <1>7, <1>8, <1>9

\* A saved definition names a numeric field.
LEMMA BoundIs ==
    ASSUME NEW d
    PROVE  DefinitionsBound(d) <=>
             \A column \in d.definitions :
               \E x \in FieldOf(d.schemas, column[1], column[2]) : x.type = NumberType
  BY DEF DefinitionsBound, FieldOf

\* v1 keeps saved definitions bound without looking at them: the fields they
\* name are in all three documents, and numeric in each.
LEMMA MergeKeepsBound ==
    ASSUME NEW docs, MergeConflicts(docs) = {},
           \A i \in Sides : DefinitionsBound(docs[i]) /\ docs[i].definitions = docs[Base].definitions
    PROVE  DefinitionsBound(MergedDocument(docs))
<1> DEFINE schemas == SchemasOf(docs)
<1>1. SchemaConflicts(schemas) = {} /\ \A i \in Sides : schemas[i] = docs[i].schemas
  BY DEF MergeConflicts, SchemasOf
<1>2. /\ MergedDocument(docs).schemas = MergedSchemas(schemas)
      /\ MergedDocument(docs).definitions = docs[Base].definitions
  BY DEF MergedDocument
<1> HIDE DEF schemas
<1>3. ASSUME NEW column \in docs[Base].definitions
      PROVE  \E x \in FieldOf(MergedSchemas(schemas), column[1], column[2]) : x.type = NumberType
  <2> DEFINE options == FieldEntries(schemas, column[1], column[2])
             types == FacetOf(options, "type")
  <2>1. ASSUME NEW i \in Sides PROVE options[i] # {} /\ types[i] = {NumberType}
    <3>1. options[i] = FieldOf(docs[i].schemas, column[1], column[2])
      BY <1>1, FieldEntriesAre
    <3>2. PICK x \in options[i] : x.type = NumberType
      BY <3>1, BoundIs
    <3>3. IsOption(options[i])
      BY EntriesAreOptions DEF FieldEntries
    <3>4. options[i] = {x}
      BY <3>2, <3>3 DEF IsOption
    <3>5. types[i] = {y.type : y \in options[i]}
      BY DEF FacetOf
    <3> QED
      BY <3>2, <3>4, <3>5
  <2>2. Present(options)
    BY <2>1 DEF Present
  <2>3. The(Chosen(types)) = NumberType
    <3> HIDE DEF types
    <3>1. Chosen(types) = {NumberType}
      BY <2>1, SidesAre, TheOne DEF Chosen, Choice
    <3> QED
      BY <3>1, TheOne
  <2>4. FieldOf(MergedSchemas(schemas), column[1], column[2]) =
          {[key |-> The(Chosen(FacetOf(options, "key"))), type |-> The(Chosen(types)),
            required |-> The(Chosen(FacetOf(options, "required"))),
            name |-> {}, constraint |-> {}, format |-> {}]}
    BY <1>1, <2>2, MergedFieldOf
  <2> HIDE DEF options, types
  <2> QED
    BY <2>3, <2>4
<1> QED
  BY <1>2, <1>3, BoundIs

-----------------------------------------------------------------------------
\* What merge_documents comes to where a side wins: that side, or a refusal for
\* what v1 does not support.
LEMMA WinningOutcome ==
    ASSUME NEW docs, NEW k, Wins(docs, k), \A i \in Sides : IsDocument(docs[i]),
           \A i \in Sides : Valid(docs[i]) /\ DefinitionsBound(docs[i]) /\ docs[i].id = docs[Base].id
    PROVE  \/ MergeDocuments(docs) = Merged(docs[k], {})
           \/ \E reason \in {"number_format", "definitions", "field_order", "display_name", "constraint"} :
                MergeDocuments(docs) = Refused(reason)
<1> DEFINE formats == \E i \in Sides : HasFormats(docs[i])
           orders == \E i \in Sides : HasOrders(docs[i])
           names == \E i \in Sides : HasNames(docs[i])
           constraints == \E i \in Sides : HasConstraints(docs[i])
           definitions == \E i \in Sides : docs[i].definitions # docs[Base].definitions
           plain == ~formats /\ ~orders /\ ~names /\ ~constraints /\ ~definitions
           other == IF MergeConflicts(docs) # {}
                    THEN Conflicted(Canonical(SetToSeq(MergeConflicts(docs))))
                    ELSE Merged(MergedDocument(docs), Unmaterialized(EntitiesOf(docs)))
           reasons == {"number_format", "definitions", "field_order", "display_name", "constraint"}
<1>1. MergeDocuments(docs) = Finalized(Merge(docs), Valid)
  BY Zenon DEF MergeDocuments, SameDocument
<1>2. k \in Sides
  BY WinnerIsChosen
<1>3. CASE plain
  <2>1. Merge(docs) = Merged(docs[k], {})
    BY <1>3, WinningMerge DEF IsPlain
  <2>2. Valid(docs[k])
    BY <1>2
  <2> QED
    BY <1>1, <2>1, <2>2, Statuses DEF Finalized
<1>4. CASE ~plain
  <2>1. Merge(docs) = CASE formats -> Refused("number_format")
                        [] orders -> Refused("field_order")
                        [] names -> Refused("display_name")
                        [] constraints -> Refused("constraint")
                        [] definitions -> Refused("definitions")
                        [] OTHER -> other
    BY DEF Merge, MergedDocument
  <2> HIDE DEF other, formats, orders, names, constraints, definitions
  <2>2. \/ Merge(docs) = Refused("number_format") \/ Merge(docs) = Refused("field_order")
        \/ Merge(docs) = Refused("display_name") \/ Merge(docs) = Refused("constraint")
        \/ Merge(docs) = Refused("definitions")
    BY <1>4, <2>1
  <2>3. PICK reason \in reasons : Merge(docs) = Refused(reason)
    BY <2>2
  <2>4. Finalized(Refused(reason), Valid) = Refused(reason)
    BY Statuses DEF Finalized
  <2> QED
    BY <1>1, <2>3, <2>4
<1> QED
  BY <1>3, <1>4

\* v2 refuses number formats.
LEMMA FormatsAreRefused ==
    ASSUME NEW docs, \E i \in Sides : HasFormats(docs[i]),
           \A i \in Sides : docs[i].definitions = docs[Base].definitions
    PROVE  MergeV2(docs) = Refused("number_format")
  BY Zenon DEF MergeV2

\* The same of v2.
LEMMA WinningOutcomeV2 ==
    ASSUME NEW docs, NEW k, Wins(docs, k), \A i \in Sides : IsDocument(docs[i]),
           \A i \in Sides : Valid(docs[i]) /\ DefinitionsBound(docs[i]) /\ docs[i].id = docs[Base].id
    PROVE  \/ MergeDocumentsV2(docs) = Merged(docs[k], {})
           \/ \E reason \in {"number_format", "definitions"} : MergeDocumentsV2(docs) = Refused(reason)
<1> DEFINE sound(d) == DefinitionsBound(d) /\ Valid(d)
           different == ~SameDocument(docs)
           formats == \E i \in Sides : HasFormats(docs[i])
           definitions == \E i \in Sides : docs[i].definitions # docs[Base].definitions
           invalid == \E i \in Sides : ~sound(docs[i])
           other == Finalized(MergeV2(docs), sound)
<1>1. MergeDocumentsV2(docs) = CASE different -> Refused("different_document")
                                 [] definitions -> Refused("definitions")
                                 [] invalid -> Refused("invalid_input")
                                 [] OTHER -> other
  BY DEF MergeDocumentsV2
<1>2. ~different /\ ~invalid
  BY DEF SameDocument
<1>3. k \in Sides
  BY WinnerIsChosen
<1>4. CASE definitions
  <2> HIDE DEF different, definitions, invalid, other
  <2> QED
    BY <1>1, <1>2, <1>4
<1>5. CASE ~definitions /\ formats
  <2>1. MergeV2(docs) = Refused("number_format")
    BY <1>5, FormatsAreRefused
  <2>2. other = Refused("number_format")
    BY <2>1, Statuses DEF Finalized
  <2> HIDE DEF different, definitions, invalid, other
  <2> QED
    BY <1>1, <1>2, <1>5, <2>2
<1>6. CASE ~definitions /\ ~formats
  <2>1. MergeV2(docs) = Merged(docs[k], {})
    <3>1. \A i \in Sides : OrdersFit(docs[i])
      BY DEF OrdersFit, Valid, StructureFits, Range
    <3> QED
      BY <1>6, <3>1, WinningMergeV2
  <2>2. sound(docs[k])
    BY <1>3
  <2>3. other = Merged(docs[k], {})
    BY <2>1, <2>2, Statuses DEF Finalized
  <2> HIDE DEF different, definitions, invalid, other
  <2> QED
    BY <1>1, <1>2, <1>6, <2>3
<1> QED
  BY <1>4, <1>5, <1>6

-----------------------------------------------------------------------------
\* The branches stay sound, so a fast-forward is exact.

\* The branches and their base are sound documents of one id, which admission
\* asks of them.
DocsAreSound == \A i \in Sides : Valid(Docs[i]) /\ DefinitionsBound(Docs[i]) /\ Docs[i].id = base.id

\* The same, one by one.
LEMMA SoundDocsAre ==
    DocsAreSound <=>
      /\ Valid(base) /\ DefinitionsBound(base)
      /\ Valid(ours) /\ DefinitionsBound(ours) /\ ours.id = base.id
      /\ Valid(theirs) /\ DefinitionsBound(theirs) /\ theirs.id = base.id
  BY SidesAre DEF DocsAreSound, Docs, Base, Ours, Theirs

\* Edits are validated, and so is what a merge writes, but for its saved
\* definitions, which v1's admission does not look at (MergeKeepsBound).
THEOREM DocsStaySound == Spec => []DocsAreSound
<1>1. Init => DocsAreSound
  BY BasesAssumption, SoundDocsAre DEF Init
<1>2. OutcomeIsOfDocs /\ DocsAreDocuments /\ DocsAreSound /\ [Next]_vars => DocsAreSound'
  <2> SUFFICES ASSUME OutcomeIsOfDocs, DocsAreDocuments, DocsAreSound, [Next]_vars PROVE DocsAreSound'
    OBVIOUS
  <2>1. SUFFICES /\ Valid(base') /\ DefinitionsBound(base')
                 /\ Valid(ours') /\ DefinitionsBound(ours') /\ ours'.id = base'.id
                 /\ Valid(theirs') /\ DefinitionsBound(theirs') /\ theirs'.id = base'.id
    BY SidesAre DEF DocsAreSound, Docs, Base, Ours, Theirs
  <2>2. /\ Valid(base) /\ DefinitionsBound(base) /\ IsDocument(ours) /\ IsDocument(theirs)
        /\ Valid(ours) /\ DefinitionsBound(ours) /\ ours.id = base.id
        /\ Valid(theirs) /\ DefinitionsBound(theirs) /\ theirs.id = base.id
    BY DocsAre, SoundDocsAre
  <2>3. CASE EditOurs
    BY <2>2, <2>3, EditedId DEF EditOurs, Edits
  <2>4. CASE EditTheirs
    BY <2>2, <2>4, EditedId DEF EditTheirs, Edits
  <2>5. CASE MergeBranches
    BY <2>2, <2>5 DEF MergeBranches
  <2>6. CASE PreviewMergeV2
    BY <2>2, <2>6 DEF PreviewMergeV2
  <2>7. CASE WriteMerged
    <3>1. PICK o \in outcome : /\ o.contract = "v1" /\ o.result.status = "merged"
                               /\ base' = o.result.document
      BY <2>7 DEF WriteMerged
    <3>2. MergeDocuments(Docs).status = "merged" /\ base' = MergeDocuments(Docs).document
      BY <3>1 DEF OutcomeIsOfDocs
    <3>3. MergeDocuments(Docs) = Finalized(Merge(Docs), Valid) /\ MergeDocuments(Docs) = Merge(Docs)
      BY <3>2, AdmittedMerge, Statuses, Zenon DEF MergeDocuments
    <3>4. Valid(base')
      BY <3>2, <3>3, Statuses DEF Finalized
    <3>5. MergeConflicts(Docs) = {} /\ base' = MergedDocument(Docs)
      BY <3>2, <3>3, MergedOnly
    <3>6. \A i \in Sides : Docs[i].definitions = Docs[Base].definitions
      BY <3>2, <3>3, MergeOfAdmitted
    <3>7. DefinitionsBound(MergedDocument(Docs))
      BY <3>5, <3>6, MergeKeepsBound DEF DocsAreSound
    <3> QED
      BY <2>7, <3>4, <3>5, <3>7 DEF WriteMerged
  <2>8. CASE Dismiss
    BY <2>2, <2>8 DEF Dismiss
  <2>9. CASE UNCHANGED vars
    BY <2>2, <2>9 DEF vars
  <2> QED
    BY <2>3, <2>4, <2>5, <2>6, <2>7, <2>8, <2>9 DEF Next
<1> QED
  BY <1>1, <1>2, OutcomeOfDocs, DocsStayDocuments, PTL DEF Spec

\* A merge in which one side changed nothing, or both the same, gives the
\* changed side exactly, explicit orders and all, whatever the documents and
\* the edits (the engines, and their finalization in the workspace engine).
THEOREM OneSidedMerge == Spec => []OneSidedMergeIsThatSide
<1>1. OutcomeIsOfDocs /\ DocsAreDocuments /\ DocsAreSound => OneSidedMergeIsThatSide
  <2> SUFFICES ASSUME OutcomeIsOfDocs, DocsAreDocuments, DocsAreSound, NEW o \in outcome
               PROVE  GivesThatSide(o)
    BY DEF OneSidedMergeIsThatSide
  <2> DEFINE shared == {"number_format", "definitions"}
             reasons == shared \union (IF o.contract = "v1" THEN {"field_order", "display_name", "constraint"} ELSE {})
  <2>1. ASSUME NEW k, Wins(Docs, k)
        PROVE  \/ o.result = Merged(Docs[k], {})
               \/ \E reason \in reasons : o.result = Refused(reason)
    <3>1. \A i \in Sides : /\ IsDocument(Docs[i]) /\ Valid(Docs[i]) /\ DefinitionsBound(Docs[i])
                           /\ Docs[i].id = Docs[Base].id
      BY DocsAre DEF DocsAreDocuments, DocsAreSound
    <3>2. CASE o.contract = "v1"
      <4>1. o.result = MergeDocuments(Docs)
        BY <3>2 DEF OutcomeIsOfDocs
      <4>2. \/ MergeDocuments(Docs) = Merged(Docs[k], {})
            \/ \E reason \in {"number_format", "definitions", "field_order", "display_name", "constraint"} :
                 MergeDocuments(Docs) = Refused(reason)
        BY <2>1, <3>1, WinningOutcome
      <4>3. {"number_format", "definitions", "field_order", "display_name", "constraint"} = reasons
        BY <3>2
      <4> HIDE DEF reasons
      <4> QED
        BY <4>1, <4>2, <4>3
    <3>3. CASE o.contract # "v1"
      <4>1. o.result = MergeDocumentsV2(Docs)
        BY <3>3 DEF OutcomeIsOfDocs
      <4>2. \/ MergeDocumentsV2(Docs) = Merged(Docs[k], {})
            \/ \E reason \in shared : MergeDocumentsV2(Docs) = Refused(reason)
        BY <2>1, <3>1, WinningOutcomeV2
      <4>3. shared \subseteq reasons
        OBVIOUS
      <4> HIDE DEF reasons, shared
      <4> QED
        BY <4>1, <4>2, <4>3
    <3> QED
      BY <3>2, <3>3
  <2>2. /\ theirs \in {base, ours} => Wins(Docs, Ours)
        /\ ours = base => Wins(Docs, Theirs)
    BY DocsAre DEF Wins
  <2>3. \A reason : /\ Refused(reason).status = "refused" /\ Refused(reason).reason = reason
    BY DEF Refused
  <2> HIDE DEF reasons
  <2>4. ASSUME NEW k, Wins(Docs, k)
        PROVE  /\ o.result.status = "merged" => o.result.document = Docs[k]
               /\ o.result.status = "merged" \/ (o.result.status = "refused" /\ o.result.reason \in reasons)
    BY <2>1, <2>3, <2>4, Statuses
  <2>5. /\ (o.result.status = "merged" /\ theirs \in {base, ours}) => o.result.document = ours
        /\ (o.result.status = "merged" /\ ours = base) => o.result.document = theirs
    BY <2>2, <2>4, DocsAre
  <2>6. (theirs \in {base, ours} \/ ours = base) =>
          o.result.status = "merged" \/ (o.result.status = "refused" /\ o.result.reason \in reasons)
    BY <2>2, <2>4
  <2> QED
    BY <2>5, <2>6 DEF GivesThatSide, reasons
<1> QED
  BY <1>1, OutcomeOfDocs, DocsStayDocuments, DocsStaySound, PTL

-----------------------------------------------------------------------------
\* A plain document has nothing that v1 refuses. v2 takes nothing off it.

\* Nothing is taken off a field or schema that has nothing v1 refuses.
LEMMA BareStays ==
    /\ \A f : IsBareField(f) => BareField(f) = f
    /\ \A s : IsBareSchema(s) => BareSchema(s) = s
<1>1. ASSUME NEW f, IsBareField(f) PROVE BareField(f) = f
  <2>1. /\ f = [facet \in {"key", "name", "type", "required", "constraint", "format"} |-> f[facet]]
        /\ f.name = {} /\ f.constraint = {}
    BY <1>1 DEF IsBareField, IsField, IsRecord
  <2> QED
    BY <2>1 DEF BareField
<1>2. ASSUME NEW s, IsBareSchema(s) PROVE BareSchema(s) = s
  <2> DEFINE fields == [f \in DOMAIN s.fields |-> BareField(s.fields[f])]
  <2>1. /\ s = [facet \in {"key", "name", "order", "fields"} |-> s[facet]]
        /\ s.fields = [f \in DOMAIN s.fields |-> s.fields[f]]
        /\ s.name = {} /\ s.order = {}
    BY <1>2 DEF IsBareSchema, IsSchema, IsRecord, IsMap
  <2>2. \A f \in DOMAIN s.fields : BareField(s.fields[f]) = s.fields[f]
    BY <1>1, <1>2 DEF IsBareSchema
  <2>3. fields = s.fields
    BY <2>1, <2>2
  <2>4. BareSchema(s) = [s EXCEPT !.name = {}, !.order = {}, !.fields = fields]
    BY <2>1 DEF BareSchema
  <2> HIDE DEF fields
  <2> QED
    BY <2>1, <2>3, <2>4
<1> QED
  BY <1>1, <1>2

\* Nor off a document that v1 does not refuse.
LEMMA PlainStays ==
    ASSUME NEW d, IsDocument(d), IsPlain(d)
    PROVE  Stripped(d) = d
<1> DEFINE schemas == [s \in DOMAIN d.schemas |-> BareSchema(d.schemas[s])]
<1>1. /\ d = [facet \in {"id", "title", "schemas", "entities", "definitions"} |-> d[facet]]
      /\ d.schemas = [s \in DOMAIN d.schemas |-> d.schemas[s]]
  BY DEF IsDocument, IsRecord, IsMap
<1>2. \A s \in DOMAIN d.schemas : BareSchema(d.schemas[s]) = d.schemas[s]
  BY PlainSchemas, BareStays
<1>3. schemas = d.schemas
  BY <1>1, <1>2
<1>4. Stripped(d) = [d EXCEPT !.schemas = schemas]
  BY <1>1 DEF Stripped
<1> HIDE DEF schemas
<1> QED
  BY <1>1, <1>3, <1>4

\* What nobody sets is settled as unset.
LEMMA UnsetSettles ==
    ASSUME NEW options, \A i \in Sides : IsOption(options[i]), NEW facet,
           \A i \in Sides : \A x \in options[i] : x[facet] = {},
           Present(options) \/ (Choice(options) # {} /\ Chosen(options) # {})
    PROVE  Settled(options, facet) = {}
<1>1. CASE Present(options)
  <2> DEFINE facets == FacetOf(options, facet)
  <2>1. ASSUME NEW i \in Sides PROVE facets[i] = {{}}
    <3>1. PICK y : options[i] = {y}
      BY <1>1 DEF Present, IsOption
    <3>2. facets[i] = {x[facet] : x \in {y}}
      BY <3>1 DEF FacetOf
    <3> QED
      BY <3>1, <3>2
  <2> HIDE DEF facets
  <2>2. Chosen(facets) = {{}}
    BY <2>1, SidesAre, TheOne DEF Chosen, Choice
  <2>3. The(Chosen(facets)) = {}
    BY <2>2, TheOne
  <2> QED
    BY <1>1, <2>3, SettledPart DEF facets
<1>2. CASE ~Present(options)
  <2>1. PICK i \in Sides : Chosen(options) = options[i]
    BY <1>2, ChoiceIs
  <2>2. PICK y : options[i] = {y}
    BY <1>2, <2>1 DEF IsOption
  <2> QED
    BY <1>2, <2>1, <2>2, SettledWhole
<1> QED
  BY <1>1, <1>2

\* The sides of a triple of plain documents.
LEMMA PlainSides ==
    ASSUME NEW docs, \A i \in Sides : IsPlain(docs[i]), NEW i \in Sides
    PROVE  /\ \A s : /\ IsOption(Entries(SchemasOf(docs), s)[i])
                     /\ \A x \in Entries(SchemasOf(docs), s)[i] : x.name = {} /\ x.order = {}
           /\ \A s, f : /\ IsOption(FieldEntries(SchemasOf(docs), s, f)[i])
                        /\ \A x \in FieldEntries(SchemasOf(docs), s, f)[i] :
                             x.name = {} /\ x.constraint = {} /\ x.format = {}
<1> DEFINE schemas == SchemasOf(docs)
<1>1. schemas[i] = docs[i].schemas
  BY DEF SchemasOf
<1> HIDE DEF schemas
<1>2. ASSUME NEW s PROVE Entries(schemas, s)[i] = Entry(docs[i].schemas, s)
  BY <1>1 DEF Entries
<1>3. ASSUME NEW s, NEW f PROVE FieldEntries(schemas, s, f)[i] = FieldOf(docs[i].schemas, s, f)
  BY <1>1, FieldEntriesAre
<1>4. ASSUME NEW s, NEW x \in Entry(docs[i].schemas, s) PROVE x.name = {} /\ x.order = {}
  <2>1. x \in Range(docs[i].schemas)
    BY DEF Entry, Range
  <2> QED
    BY <2>1 DEF IsPlain, HasNames, HasOrders
<1>5. ASSUME NEW s, NEW f, NEW x \in FieldOf(docs[i].schemas, s, f)
      PROVE  x.name = {} /\ x.constraint = {} /\ x.format = {}
  BY PlainFields DEF IsPlain
<1>6. \A s, f : IsOption(FieldEntries(schemas, s, f)[i])
  BY EntriesAreOptions DEF FieldEntries
<1> QED
  BY <1>2, <1>3, <1>4, <1>5, <1>6, EntriesAreOptions DEF schemas

-----------------------------------------------------------------------------
\* v1's result of plain documents is plain, and v2 puts nothing back.

\* What v1 makes of plain documents is plain.
LEMMA MergedIsPlain ==
    ASSUME NEW docs, \A i \in Sides : IsDocument(docs[i]) /\ IsPlain(docs[i]), MergeConflicts(docs) = {}
    PROVE  LET schemas == SchemasOf(docs)
               merged == MergedSchemas(schemas)
           IN \A s \in DOMAIN merged :
                /\ Present(Entries(schemas, s))
                     \/ (Choice(Entries(schemas, s)) # {} /\ Chosen(Entries(schemas, s)) # {})
                /\ merged[s].name = {} /\ merged[s].order = {}
                /\ \A f \in DOMAIN merged[s].fields :
                     /\ LET options == FieldEntries(schemas, s, f)
                        IN Present(options) \/ (Choice(options) # {} /\ Chosen(options) # {})
                     /\ IsBareField(merged[s].fields[f])
<1> DEFINE schemas == SchemasOf(docs)
           merged == MergedSchemas(schemas)
<1>1. SchemaConflicts(schemas) = {}
  BY DEF MergeConflicts
<1>2. \A s \in DOMAIN merged : IsSchema(merged[s])
  <2>1. IsDocument(MergedDocument(docs)) /\ MergedDocument(docs).schemas = merged
    BY MergedShape DEF MergedDocument
  <2> QED
    BY <2>1 DEF IsDocument
<1>3. /\ \A i \in Sides : \A s : \A x \in Entries(schemas, s)[i] : x.name = {} /\ x.order = {}
      /\ \A i \in Sides : \A s, f : \A x \in FieldEntries(schemas, s, f)[i] :
           x.name = {} /\ x.constraint = {} /\ x.format = {}
  BY PlainSides
<1> HIDE DEF schemas
<1> SUFFICES ASSUME NEW s \in DOMAIN merged
             PROVE  /\ Present(Entries(schemas, s))
                         \/ (Choice(Entries(schemas, s)) # {} /\ Chosen(Entries(schemas, s)) # {})
                    /\ merged[s].name = {} /\ merged[s].order = {}
                    /\ \A f \in DOMAIN merged[s].fields :
                         /\ \/ Present(FieldEntries(schemas, s, f))
                            \/ /\ Choice(FieldEntries(schemas, s, f)) # {}
                               /\ Chosen(FieldEntries(schemas, s, f)) # {}
                         /\ IsBareField(merged[s].fields[f])
  BY DEF schemas
<1> DEFINE whole == Entries(schemas, s)
           x == merged[s]
<1>4. Entry(merged, s) = {x}
  BY EntryIsOption
<1>5. IsSchema(x)
  BY <1>2
<1> HIDE DEF x, merged
<1>6. Present(whole) \/ (Choice(whole) # {} /\ Chosen(whole) # {})
  BY <1>1, <1>4, MergedSchemasFollow DEF merged
<1>7. x.name = {} /\ x.order = {}
  <2>1. CASE Present(whole)
    <3> DEFINE record == [key |-> The(Chosen(FacetOf(whole, "key"))), name |-> {}, order |-> {},
                          fields |-> MergedFields(FieldsIn(whole))]
    <3>1. Entry(merged, s) = {record}
      BY <1>1, <2>1, MergedSchemasFollow DEF merged
    <3>2. record.name = {} /\ record.order = {}
      OBVIOUS
    <3> HIDE DEF record
    <3> QED
      BY <1>4, <3>1, <3>2
  <2>2. CASE ~Present(whole)
    <3>1. Choice(whole) # {} /\ Entry(merged, s) = Chosen(whole)
      BY <1>1, <2>2, MergedSchemasFollow DEF merged
    <3>2. PICK i \in Sides : Chosen(whole) = whole[i]
      BY <3>1, ChoiceIs
    <3> QED
      BY <1>3, <1>4, <3>1, <3>2
  <2> QED
    BY <2>1, <2>2
<1>8. ASSUME NEW f \in DOMAIN x.fields
      PROVE  /\ \/ Present(FieldEntries(schemas, s, f))
                \/ Choice(FieldEntries(schemas, s, f)) # {} /\ Chosen(FieldEntries(schemas, s, f)) # {}
             /\ IsBareField(x.fields[f])
  <2> DEFINE options == FieldEntries(schemas, s, f)
             y == x.fields[f]
             record == [key |-> The(Chosen(FacetOf(options, "key"))),
                        type |-> The(Chosen(FacetOf(options, "type"))),
                        required |-> The(Chosen(FacetOf(options, "required"))),
                        name |-> {}, constraint |-> {}, format |-> {}]
  <2>1. FieldOf(merged, s, f) = {y}
    <3>1. FieldOf(merged, s, f) = Entry(x.fields, f)
      BY <1>4 DEF FieldOf
    <3> QED
      BY <3>1, EntryIsOption
  <2>2. \/ ~Present(options) /\ Choice(options) # {} /\ {y} = Chosen(options)
        \/ Present(options) /\ {y} = {record}
    BY <1>1, <2>1, MergedFieldOf DEF merged
  <2>3. IsField(y)
    BY <1>5 DEF IsSchema
  <2>4. record.name = {} /\ record.constraint = {} /\ record.format = {}
    OBVIOUS
  <2>5. \A i \in Sides : \A z \in options[i] : z.name = {} /\ z.constraint = {} /\ z.format = {}
    BY <1>3
  <2> HIDE DEF options, record, y
  <2>6. CASE ~Present(options) /\ Choice(options) # {} /\ {y} = Chosen(options)
    <3>1. PICK i \in Sides : Chosen(options) = options[i]
      BY <2>6, ChoiceIs
    <3>2. y.name = {} /\ y.constraint = {} /\ y.format = {}
      BY <2>5, <2>6, <3>1
    <3> QED
      BY <2>3, <2>6, <3>2 DEF IsBareField, options, y
  <2>7. CASE Present(options) /\ {y} = {record}
    <3>1. y = record
      BY <2>7
    <3> QED
      BY <2>3, <2>4, <2>7, <3>1 DEF IsBareField, options, y
  <2> QED
    BY <2>2, <2>6, <2>7
<1> QED
  BY <1>6, <1>7, <1>8 DEF x

\* On plain documents nothing is put back.
LEMMA NothingIsRestored ==
    ASSUME NEW docs, \A i \in Sides : IsDocument(docs[i]) /\ IsPlain(docs[i]), MergeConflicts(docs) = {}
    PROVE  Restored(MergedDocument(docs), SchemasOf(docs)) = MergedDocument(docs)
<1> DEFINE schemas == SchemasOf(docs)
           d == MergedDocument(docs)
           merged == MergedSchemas(schemas)
           restored == [s \in DOMAIN merged |-> RestoredSchema(merged[s], schemas, s)]
<1>1. IsDocument(d) /\ d.schemas = merged
  BY MergedShape DEF MergedDocument
<1>2. ASSUME NEW options, Present(options) \/ (Choice(options) # {} /\ Chosen(options) # {})
      PROVE  options[Ours] # {} \/ options[Theirs] # {}
  <2>1. CASE Present(options)
    BY <2>1, SidesAre DEF Present
  <2>2. CASE Choice(options) # {} /\ Chosen(options) # {}
    <3>1. Choice(options) \in {{options[Ours]}, {options[Theirs]}}
      BY <2>2 DEF Choice
    <3>2. The({options[Ours]}) = options[Ours] /\ The({options[Theirs]}) = options[Theirs]
      BY TheOne
    <3>3. Chosen(options) = options[Ours] \/ Chosen(options) = options[Theirs]
      BY <3>1, <3>2 DEF Chosen
    <3> QED
      BY <2>2, <3>3
  <2> QED
    BY <1>2, <2>1, <2>2
<1>3. ASSUME NEW s \in DOMAIN merged PROVE RestoredSchema(merged[s], schemas, s) = merged[s]
  <2> DEFINE x == merged[s]
             options == Entries(schemas, s)
  <2>1. /\ Present(options) \/ (Choice(options) # {} /\ Chosen(options) # {})
        /\ x.name = {} /\ x.order = {}
        /\ \A f \in DOMAIN x.fields :
             /\ LET fields == FieldEntries(schemas, s, f)
                IN Present(fields) \/ (Choice(fields) # {} /\ Chosen(fields) # {})
             /\ IsBareField(x.fields[f])
    BY MergedIsPlain
  <2>2. IsSchema(x)
    BY <1>1 DEF IsDocument
  <2>3. \A i \in Sides : IsOption(options[i]) /\ \A y \in options[i] : y.name = {} /\ y.order = {}
    BY PlainSides
  <2>4. \A f : \A i \in Sides :
          /\ IsOption(FieldEntries(schemas, s, f)[i])
          /\ \A y \in FieldEntries(schemas, s, f)[i] : y.name = {} /\ y.constraint = {}
    BY PlainSides
  <2>5. RestoredSchema(x, schemas, s) =
          [key |-> x.key, name |-> Settled(options, "name"),
           order |-> NormalizedOrder(SelectedOrder(options), DOMAIN x.fields),
           fields |-> [f \in DOMAIN x.fields |-> RestoredField(x.fields[f], FieldEntries(schemas, s, f))]]
    BY DEF RestoredSchema
  <2> HIDE DEF x, options, schemas
  <2>6. Settled(options, "name") = {}
    BY <2>1, <2>3, UnsetSettles
  <2>7. NormalizedOrder(SelectedOrder(options), DOMAIN x.fields) = {}
    <3>1. SelectedOrder(options) = {}
      BY <1>2, <2>1, <2>3, NoOrderIsSelected
    <3> QED
      BY <3>1 DEF NormalizedOrder
  <2>8. ASSUME NEW f \in DOMAIN x.fields
        PROVE  RestoredField(x.fields[f], FieldEntries(schemas, s, f)) = x.fields[f]
    <3> DEFINE fields == FieldEntries(schemas, s, f)
               y == x.fields[f]
    <3>1. Present(fields) \/ (Choice(fields) # {} /\ Chosen(fields) # {})
      BY <2>1
    <3>2. \A i \in Sides : IsOption(fields[i]) /\ \A z \in fields[i] : z.name = {} /\ z.constraint = {}
      BY <2>4
    <3>3. IsBareField(y)
      BY <2>1
    <3> HIDE DEF fields, y
    <3>4. Settled(fields, "name") = {}
      BY <3>1, <3>2, UnsetSettles
    <3>5. Settled(fields, "constraint") = {}
      BY <3>1, <3>2, UnsetSettles
    <3>6. y = [facet \in {"key", "name", "type", "required", "constraint", "format"} |-> y[facet]]
          /\ y.name = {} /\ y.constraint = {}
      BY <3>3 DEF IsBareField, IsField, IsRecord
    <3>7. [y EXCEPT !.name = {}, !.constraint = {}] = y
      BY <3>6
    <3> QED
      BY <3>4, <3>5, <3>7 DEF RestoredField, fields, y
  <2>9. [f \in DOMAIN x.fields |-> RestoredField(x.fields[f], FieldEntries(schemas, s, f))] = x.fields
    <3>1. x.fields = [f \in DOMAIN x.fields |-> x.fields[f]]
      BY <2>2 DEF IsSchema, IsMap
    <3> QED
      BY <2>8, <3>1
  <2>10. x = [key |-> x.key, name |-> {}, order |-> {}, fields |-> x.fields]
    <3>1. x = [facet \in {"key", "name", "order", "fields"} |-> x[facet]]
      BY <2>2 DEF IsSchema, IsRecord
    <3> QED
      BY <2>1, <3>1
  <2> QED
    BY <2>5, <2>6, <2>7, <2>9, <2>10 DEF x
<1>4. /\ d = [facet \in {"id", "title", "schemas", "entities", "definitions"} |-> d[facet]]
      /\ merged = [s \in DOMAIN merged |-> merged[s]]
  BY <1>1 DEF IsDocument, IsRecord, IsMap
<1> HIDE DEF d, merged, schemas
<1>5. restored = merged
  BY <1>3, <1>4
<1>6. Restored(d, schemas) = [d EXCEPT !.schemas = restored]
  BY <1>1 DEF Restored
<1> HIDE DEF restored
<1> QED
  BY <1>1, <1>4, <1>5, <1>6 DEF d, schemas

-----------------------------------------------------------------------------
\* v2's own passes are quiet on plain documents exactly where v1 is.

\* Where v1 finds no conflict in plain documents, v2 finds none.
LEMMA QuietPasses ==
    ASSUME NEW docs, \A i \in Sides : IsPlain(docs[i]), MergeConflicts(docs) = {}
    PROVE  LET schemas == SchemasOf(docs)
           IN /\ SubjectConflicts(schemas) = {} /\ ConstraintConflicts(schemas) = {}
              /\ NameConflicts(schemas) = {} /\ OrderConflicts(schemas) = {}
<1> DEFINE schemas == SchemasOf(docs)
<1>1. SchemaConflicts(schemas) = {}
  BY DEF MergeConflicts
<1>2. /\ \A i \in Sides : \A s : \A x \in Entries(schemas, s)[i] : x.name = {}
      /\ \A i \in Sides : \A s, f : \A x \in FieldEntries(schemas, s, f)[i] : x.name = {} /\ x.constraint = {}
      /\ \A i \in Sides : \A s : IsOption(Entries(schemas, s)[i])
      /\ \A i \in Sides : \A s, f : IsOption(FieldEntries(schemas, s, f)[i])
  BY PlainSides
<1>3. OrderConflicts(schemas) = {}
  BY NoOrderConflicts DEF IsPlain
<1> HIDE DEF schemas
<1>4. SubjectConflicts(schemas) = {}
  <2> DEFINE Schema(s) == LET options == Entries(schemas, s)
                          IN SubjectClash(SchemaTarget(s), options,
                                          [i \in Sides |-> {SchemaSubjectV2(x) : x \in options[i]}])
             Field(s, f) == LET options == FieldEntries(schemas, s, f)
                            IN SubjectClash(FieldTarget(s, f), options,
                                            [i \in Sides |-> {FieldSubjectV2(x) : x \in options[i]}])
  <2>1. ASSUME NEW options, ~Present(options) => Choice(options) # {}, NEW target, NEW facts
        PROVE  SubjectClash(target, options, facts) = {}
    BY <2>1 DEF SubjectClash, Clash
  <2>2. \A s : ~Present(Entries(schemas, s)) => Choice(Entries(schemas, s)) # {}
    BY <1>1, MergedSchemasFollow
  <2>3. \A s, f : ~Present(FieldEntries(schemas, s, f)) => Choice(FieldEntries(schemas, s, f)) # {}
    BY <1>1, MergedFieldOf
  <2>4. (\A s : Schema(s) = {}) /\ \A s, f : Field(s, f) = {}
    BY <2>1, <2>2, <2>3
  <2>5. SubjectConflicts(schemas) =
          (UNION {Schema(s) : s \in Ids(schemas)})
            \union (UNION {UNION {Field(s, f) : f \in Ids(FieldsIn(Entries(schemas, s)))} :
                           s \in Continuing(schemas)})
    BY DEF SubjectConflicts
  <2> HIDE DEF Schema, Field
  <2> QED
    BY <2>4, <2>5
<1>5. ASSUME NEW options, \A i \in Sides : IsOption(options[i]), Present(options), NEW facet,
             \A i \in Sides : \A x \in options[i] : x[facet] = {}, NEW target
      PROVE  FacetClash(target, facet, options) = {}
  <2> DEFINE facets == FacetOf(options, facet)
  <2>1. ASSUME NEW i \in Sides PROVE facets[i] = {{}}
    <3>1. PICK y : options[i] = {y}
      BY <1>5 DEF Present, IsOption
    <3>2. facets[i] = {x[facet] : x \in {y}}
      BY <3>1 DEF FacetOf
    <3> QED
      BY <1>5, <3>1, <3>2
  <2>2. Choice(facets) # {}
    <3> HIDE DEF facets
    <3> QED
      BY <2>1, SidesAre DEF Choice
  <2> QED
    BY <2>2 DEF FacetClash, Clash
<1>6. ASSUME NEW s \in Continuing(schemas) PROVE FacetClash(SchemaTarget(s), "name", Entries(schemas, s)) = {}
  <2> DEFINE options == Entries(schemas, s)
             facet == "name"
  <2>1. Present(options)
    BY DEF Continuing
  <2>2. \A i \in Sides : \A x \in options[i] : x[facet] = {}
    BY <1>2
  <2>3. \A i \in Sides : IsOption(options[i])
    BY <1>2
  <2> HIDE DEF options, facet
  <2>4. FacetClash(SchemaTarget(s), facet, options) = {}
    BY <1>5, <2>1, <2>2, <2>3
  <2> QED
    BY <2>4 DEF options, facet
<1>7. ASSUME NEW q \in ContinuingFields(schemas), NEW facet \in {"name", "constraint"}
      PROVE  FacetClash(FieldTarget(q[1], q[2]), facet, FieldEntries(schemas, q[1], q[2])) = {}
  <2> DEFINE options == FieldEntries(schemas, q[1], q[2])
  <2>1. Present(options)
    BY DEF ContinuingFields
  <2>2. \A i \in Sides : \A x \in options[i] : x.name = {} /\ x.constraint = {}
    BY <1>2
  <2>3. \A i \in Sides : IsOption(options[i])
    BY <1>2
  <2> HIDE DEF options
  <2>4. \A i \in Sides : \A x \in options[i] : x[facet] = {}
    BY <2>2
  <2>5. FacetClash(FieldTarget(q[1], q[2]), facet, options) = {}
    BY <1>5, <2>1, <2>3, <2>4
  <2> QED
    BY <2>5 DEF options
<1>8. ConstraintConflicts(schemas) = {}
  BY <1>7 DEF ConstraintConflicts
<1>9. NameConflicts(schemas) = {}
  BY <1>6, <1>7 DEF NameConflicts
<1> QED
  BY <1>3, <1>4, <1>8, <1>9 DEF schemas

\* A conflict of v1 in plain documents is kept by v2, or found again.
LEMMA LoudPasses ==
    ASSUME NEW docs, \A i \in Sides : IsDocument(docs[i]) /\ IsPlain(docs[i]), MergeConflicts(docs) # {}
    PROVE  \/ {c \in MergeConflicts(docs) : ~IsSubjectConflict(c)} # {}
           \/ SubjectConflicts(SchemasOf(docs)) # {}
<1> DEFINE schemas == SchemasOf(docs)
<1>1. AreBareOf(schemas, schemas)
  <2>1. ASSUME NEW i \in Sides
        PROVE  /\ \A s \in DOMAIN schemas[i] : IsSchema(schemas[i][s])
               /\ schemas[i] = [s \in DOMAIN schemas[i] |-> BareSchema(schemas[i][s])]
    <3> DEFINE map == docs[i].schemas
    <3>1. schemas[i] = map
      BY DEF SchemasOf
    <3>2. IsMap(map) /\ \A s \in DOMAIN map : IsSchema(map[s])
      BY DEF IsDocument
    <3>3. \A s \in DOMAIN map : BareSchema(map[s]) = map[s]
      BY PlainSchemas, BareStays
    <3> HIDE DEF map, schemas
    <3> QED
      BY <3>1, <3>2, <3>3 DEF IsMap
  <2> QED
    BY <2>1 DEF AreBareOf
<1>2. SUFFICES ASSUME SubjectConflicts(schemas) = {}
               PROVE  {c \in MergeConflicts(docs) : ~IsSubjectConflict(c)} # {}
  OBVIOUS
<1>3. PICK c : c \in MergeConflicts(docs)
  OBVIOUS
<1>4. \A d \in SchemaConflicts(schemas) : ~IsSubjectConflict(d)
  BY <1>1, <1>2, NoHiddenSubjects
<1>5. ~IsSubjectConflict(c)
  <2>1. \/ c \in SchemaConflicts(schemas)
        \/ c \in TitleConflicts(docs) \union EntityConflicts(EntitiesOf(docs))
    BY <1>3 DEF MergeConflicts
  <2> QED
    BY <1>4, <2>1, OtherConflictsAreNoSubjects
<1> QED
  BY <1>3, <1>5

\* Of plain documents v2 makes what v1 makes of them.
LEMMA PlainMerges ==
    ASSUME NEW docs, \A i \in Sides : IsDocument(docs[i]) /\ IsPlain(docs[i]),
           \A i \in Sides : docs[i].definitions = docs[Base].definitions
    PROVE  IF MergeConflicts(docs) = {}
           THEN /\ Merge(docs) = Merged(MergedDocument(docs), Unmaterialized(EntitiesOf(docs)))
                /\ MergeV2(docs) = Merge(docs)
           ELSE Merge(docs).status = "conflicted" /\ MergeV2(docs).status = "conflicted"
<1> DEFINE stripped == [i \in Sides |-> Stripped(docs[i])]
           schemas == SchemasOf(docs)
           quiet == /\ {c \in MergeConflicts(stripped) : ~IsSubjectConflict(c)} = {}
                    /\ SubjectConflicts(schemas) = {} /\ ConstraintConflicts(schemas) = {}
                    /\ NameConflicts(schemas) = {} /\ OrderConflicts(schemas) = {}
<1>1. Merge(docs) = IF MergeConflicts(docs) # {}
                    THEN Conflicted(Canonical(SetToSeq(MergeConflicts(docs))))
                    ELSE Merged(MergedDocument(docs), Unmaterialized(EntitiesOf(docs)))
  BY MergeOfAdmitted DEF IsPlain
<1>2. \A i \in Sides : stripped[i] = docs[i]
  BY PlainStays
<1>3. /\ TitleConflicts(stripped) = TitleConflicts(docs)
      /\ SchemasOf(stripped) = schemas /\ EntitiesOf(stripped) = EntitiesOf(docs)
      /\ MergedDocument(stripped) = MergedDocument(docs)
  BY <1>2, SidesAre DEF TitleConflicts, SchemasOf, EntitiesOf, MergedDocument
<1>4. MergeConflicts(stripped) = MergeConflicts(docs)
  BY <1>3 DEF MergeConflicts
<1>5. Merge(stripped) = Merge(docs)
  <2> HIDE DEF stripped
  <2>1. \A i \in Sides :
          /\ ~HasFormats(stripped[i]) /\ ~HasOrders(stripped[i])
          /\ ~HasNames(stripped[i]) /\ ~HasConstraints(stripped[i])
          /\ stripped[i].definitions = stripped[Base].definitions
    BY <1>2, SidesAre DEF IsPlain
  <2>2. Merge(stripped) = IF MergeConflicts(stripped) # {}
                          THEN Conflicted(Canonical(SetToSeq(MergeConflicts(stripped))))
                          ELSE Merged(MergedDocument(stripped), Unmaterialized(EntitiesOf(stripped)))
    BY <2>1, MergeOfAdmitted
  <2> QED
    BY <1>1, <1>3, <1>4, <2>2
<1>6. /\ quiet => MergeV2(docs) = Merged(Restored(Merge(stripped).document, schemas), Merge(stripped).unmaterialized)
      /\ ~quiet => MergeV2(docs).status = "conflicted"
  BY MergeV2OfAdmitted DEF IsPlain
<1>7. CASE MergeConflicts(docs) = {}
  <2>1. quiet
    <3>1. {c \in MergeConflicts(stripped) : ~IsSubjectConflict(c)} = {}
      BY <1>4, <1>7
    <3> QED
      BY <1>7, <3>1, QuietPasses
  <2> HIDE DEF quiet, stripped
  <2>2. /\ Merge(stripped).document = MergedDocument(docs)
        /\ Merge(stripped).unmaterialized = Unmaterialized(EntitiesOf(docs))
    BY <1>1, <1>5, <1>7, Statuses
  <2>3. Restored(MergedDocument(docs), schemas) = MergedDocument(docs)
    BY <1>7, NothingIsRestored
  <2> QED
    BY <1>1, <1>6, <1>7, <2>1, <2>2, <2>3
<1>8. CASE MergeConflicts(docs) # {}
  <2>1. ~quiet
    <3> HIDE DEF stripped
    <3> QED
      BY <1>4, <1>8, LoudPasses
  <2> HIDE DEF quiet, stripped
  <2> QED
    BY <1>1, <1>6, <1>8, <2>1, Statuses
<1> QED
  BY <1>7, <1>8

-----------------------------------------------------------------------------
\* So v2 agrees with v1 wherever v1 applies.

\* Where v1 applies, v2 comes to the same: the same document, or a conflict as
\* well, or a refusal as well.
V2KeepsV1 ==
    \A o \in outcome : o.contract = "v1" =>
        LET v1 == o.result
            v2 == MergeDocumentsV2(Docs)
        IN /\ v1.status = "merged" => v2 = v1
           /\ v1.status = "conflicted" => v2.status = "conflicted"
           /\ v1.status = "refused" /\ v1.reason \notin {"field_order", "display_name", "constraint"} =>
                v2.status = "refused"

\* The same of sound documents.
LEMMA SoundMerges ==
    ASSUME NEW docs, \A i \in Sides : IsDocument(docs[i]),
           \A i \in Sides : Valid(docs[i]) /\ DefinitionsBound(docs[i]) /\ docs[i].id = docs[Base].id
    PROVE  LET v1 == MergeDocuments(docs)
               v2 == MergeDocumentsV2(docs)
           IN \/ v2 = v1
              \/ v1.status = "conflicted" /\ v2.status = "conflicted"
              \/ v1.status = "refused" /\ v2.status = "refused"
              \/ v1.status = "refused" /\ v1.reason \in {"field_order", "display_name", "constraint"}
<1> DEFINE sound(d) == DefinitionsBound(d) /\ Valid(d)
           different == ~SameDocument(docs)
           formats == \E i \in Sides : HasFormats(docs[i])
           orders == \E i \in Sides : HasOrders(docs[i])
           names == \E i \in Sides : HasNames(docs[i])
           constraints == \E i \in Sides : HasConstraints(docs[i])
           definitions == \E i \in Sides : docs[i].definitions # docs[Base].definitions
           invalid == \E i \in Sides : ~sound(docs[i])
           plain == ~formats /\ ~orders /\ ~names /\ ~constraints /\ ~definitions
           finalized == Finalized(MergeV2(docs), sound)
           other == IF MergeConflicts(docs) # {}
                    THEN Conflicted(Canonical(SetToSeq(MergeConflicts(docs))))
                    ELSE Merged(MergedDocument(docs), Unmaterialized(EntitiesOf(docs)))
<1>1. MergeDocuments(docs) = Finalized(Merge(docs), Valid)
  BY Zenon DEF MergeDocuments, SameDocument
<1>2. ~different /\ ~invalid
  BY DEF SameDocument
<1>3. MergeDocumentsV2(docs) = CASE different -> Refused("different_document")
                                 [] definitions -> Refused("definitions")
                                 [] invalid -> Refused("invalid_input")
                                 [] OTHER -> finalized
  BY DEF MergeDocumentsV2
<1>4. /\ definitions => MergeDocumentsV2(docs) = Refused("definitions")
      /\ ~definitions => MergeDocumentsV2(docs) = finalized
  <2> HIDE DEF different, definitions, invalid, finalized
  <2> QED
    BY <1>2, <1>3
<1>5. ASSUME NEW merge, merge.status # "merged"
      PROVE  Finalized(merge, Valid) = merge /\ Finalized(merge, sound) = merge
  BY <1>5 DEF Finalized
<1>6. CASE plain
  <2>1. IF MergeConflicts(docs) = {}
        THEN /\ Merge(docs) = Merged(MergedDocument(docs), Unmaterialized(EntitiesOf(docs)))
             /\ MergeV2(docs) = Merge(docs)
        ELSE Merge(docs).status = "conflicted" /\ MergeV2(docs).status = "conflicted"
    BY <1>6, PlainMerges DEF IsPlain
  <2>2. CASE MergeConflicts(docs) = {}
    <3>1. DefinitionsBound(MergedDocument(docs))
      BY <1>6, <2>2, MergeKeepsBound
    <3>2. Merge(docs).status = "merged" /\ Merge(docs).document = MergedDocument(docs)
      BY <2>1, <2>2, Statuses
    <3>3. finalized = Finalized(Merge(docs), Valid)
      BY <2>1, <2>2, <3>1, <3>2 DEF Finalized
    <3> QED
      BY <1>1, <1>4, <1>6, <3>3
  <2>3. CASE MergeConflicts(docs) # {}
    BY <1>1, <1>4, <1>5, <1>6, <2>1, <2>3
  <2> QED
    BY <2>2, <2>3
<1>7. CASE ~plain
  <2>1. Merge(docs) = CASE formats -> Refused("number_format")
                        [] orders -> Refused("field_order")
                        [] names -> Refused("display_name")
                        [] constraints -> Refused("constraint")
                        [] definitions -> Refused("definitions")
                        [] OTHER -> other
    BY DEF Merge, MergedDocument
  <2>2. \A reason : Refused(reason).status = "refused" /\ Refused(reason).reason = reason
    BY DEF Refused
  <2>3. CASE definitions
    <3>1. MergeDocumentsV2(docs).status = "refused"
      BY <1>4, <2>2, <2>3
    <3>2. Merge(docs).status = "refused"
      <4> HIDE DEF other, formats, orders, names, constraints, definitions
      <4> QED
        BY <2>1, <2>2, <2>3
    <3>3. MergeDocuments(docs) = Merge(docs)
      BY <1>1, <1>5, <3>2
    <3> QED
      BY <3>1, <3>2, <3>3
  <2>4. CASE ~definitions /\ formats
    <3>1. MergeV2(docs) = Refused("number_format")
      BY <2>4, FormatsAreRefused
    <3>2. MergeDocumentsV2(docs).status = "refused"
      BY <1>4, <1>5, <2>2, <2>4, <3>1, ZenonT(30)
    <3>3. Merge(docs).status = "refused"
      <4> HIDE DEF other, formats, orders, names, constraints, definitions
      <4> QED
        BY <2>1, <2>2, <2>4
    <3>4. MergeDocuments(docs) = Merge(docs)
      BY <1>1, <1>5, <3>3
    <3> QED
      BY <3>2, <3>3, <3>4
  <2>5. CASE ~definitions /\ ~formats
    <3>1. \/ Merge(docs) = Refused("field_order") \/ Merge(docs) = Refused("display_name")
          \/ Merge(docs) = Refused("constraint")
      <4> HIDE DEF other, formats, orders, names, constraints, definitions
      <4> QED
        BY <1>7, <2>1, <2>5
    <3>2. Merge(docs).status = "refused" /\ Merge(docs).reason \in {"field_order", "display_name", "constraint"}
      BY <2>2, <3>1
    <3>3. MergeDocuments(docs) = Merge(docs)
      BY <1>1, <1>5, <3>2
    <3> QED
      BY <3>2, <3>3
  <2> QED
    BY <2>3, <2>4, <2>5
<1> QED
  BY <1>6, <1>7

\* v2 agrees with v1 wherever v1 applies, whatever the documents and the edits
\* (merge_v2 on top of the frozen merge).
THEOREM V2Agrees == Spec => []V2KeepsV1
<1>1. OutcomeIsOfDocs /\ DocsAreDocuments /\ DocsAreSound => V2KeepsV1
  <2> SUFFICES ASSUME OutcomeIsOfDocs, DocsAreDocuments, DocsAreSound, NEW o \in outcome, o.contract = "v1"
               PROVE  LET v2 == MergeDocumentsV2(Docs)
                      IN /\ o.result.status = "merged" => v2 = o.result
                         /\ o.result.status = "conflicted" => v2.status = "conflicted"
                         /\ (/\ o.result.status = "refused"
                             /\ o.result.reason \notin {"field_order", "display_name", "constraint"}) =>
                              v2.status = "refused"
    BY DEF V2KeepsV1
  <2>1. o.result = MergeDocuments(Docs)
    BY DEF OutcomeIsOfDocs
  <2>2. \A i \in Sides : /\ IsDocument(Docs[i]) /\ Valid(Docs[i]) /\ DefinitionsBound(Docs[i])
                         /\ Docs[i].id = Docs[Base].id
    BY DocsAre DEF DocsAreDocuments, DocsAreSound
  <2>3. \/ MergeDocumentsV2(Docs) = o.result
        \/ o.result.status = "conflicted" /\ MergeDocumentsV2(Docs).status = "conflicted"
        \/ o.result.status = "refused" /\ MergeDocumentsV2(Docs).status = "refused"
        \/ o.result.status = "refused" /\ o.result.reason \in {"field_order", "display_name", "constraint"}
    BY <2>1, <2>2, SoundMerges
  <2> QED
    BY <2>3
<1> QED
  BY <1>1, OutcomeOfDocs, DocsStayDocuments, DocsStaySound, PTL
=============================================================================

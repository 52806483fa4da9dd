--------------------------- MODULE SemanticDocument ---------------------------
(***************************************************************************)
(* A document with its schemas, fields, entities and stored values, and    *)
(* the validation that merge inputs and merge results pass: Document in    *)
(* semantic-core/src/model.rs, semantic-core/src/validation.rs and the     *)
(* complete calculation of formula-engine.                                 *)
(*                                                                         *)
(* Something that may be missing is an option: a set of at most one value. *)
(* Ids are natural numbers, in the order of the code's strings.  A formula *)
(* copies the one cell it reads.                                           *)
(***************************************************************************)
EXTENDS Naturals, Sequences, FiniteSets, SequencesExt, Functions

The(option) == CHOOSE x \in option : TRUE

\* What a map holds under a key, as an option.
Entry(m, key) == {m[k] : k \in {key} \intersect DOMAIN m}

\* A document is a record of
\*   id, title
\*   schemas     : schema id -> [key, name, order, fields]
\*   entities    : entity id -> [key, schema, fields]
\*   definitions : the saved grouped-sum definition as the <<schema, field>>
\*                 it sums, an option (GroupedSums has the whole record)
\* where a schema's fields map field ids to
\*   [key, name, type, required, constraint, format]
\* and an entity's fields map field ids to values.  name, order, constraint
\* and format are options; a constraint is the set of values it admits.
IsRecord(x, facets) == x = [facet \in facets |-> x[facet]]
IsMap(m) == m = [k \in DOMAIN m |-> m[k]]

IsField(f) == IsRecord(f, {"key", "name", "type", "required", "constraint", "format"})
IsSchema(s) ==
    /\ IsRecord(s, {"key", "name", "order", "fields"})
    /\ \A order \in s.order : s.order = {order}
    /\ IsMap(s.fields) /\ IsFiniteSet(DOMAIN s.fields)
    /\ \A f \in DOMAIN s.fields : IsField(s.fields[f])
IsEntity(e) == IsRecord(e, {"key", "schema", "fields"}) /\ IsMap(e.fields)
IsDocument(d) ==
    /\ IsRecord(d, {"id", "title", "schemas", "entities", "definitions"})
    /\ IsMap(d.schemas) /\ \A s \in DOMAIN d.schemas : IsSchema(d.schemas[s])
    /\ IsMap(d.entities) /\ \A e \in DOMAIN d.entities : IsEntity(d.entities[e])

NumberType == <<"number">>
TextType == <<"text">>
DateType == <<"date">>
ReferenceType(s) == <<"reference", s>>

NumberValue(n) == <<"number", n>>
TextValue(t) == <<"text", t>>
DateValue(n) == <<"date", n>>
ReferenceValue(e) == <<"reference", e>>
FormulaValue(cell) == <<"formula", cell>>
Kind(x) == x[1]

FieldsOf(d) == UNION {{s.fields[f] : f \in DOMAIN s.fields} : s \in Range(d.schemas)}
Cells(d) == UNION {{e} \X DOMAIN d.entities[e].fields : e \in DOMAIN d.entities}
Stored(d, cell) == d.entities[cell[1]].fields[cell[2]]

\* The definition of the field a cell is in, whether the cell is blank or not.
Declaration(d, cell) ==
    UNION {UNION {Entry(s.fields, cell[2]) : s \in Entry(d.schemas, e.schema)} :
           e \in Entry(d.entities, cell[1])}

-----------------------------------------------------------------------------
EffectiveName(x) == IF x.name = {} THEN x.key ELSE The(x.name)

\* No two keys alike, and no two effective names.
DistinctNames(m) ==
    /\ IsInjective([k \in DOMAIN m |-> m[k].key])
    /\ IsInjective([k \in DOMAIN m |-> EffectiveName(m[k])])

\* validate_field_order
OrderFits(s) ==
    \A order \in s.order :
        /\ order \in Seq(DOMAIN s.fields)
        /\ Len(order) = Cardinality(DOMAIN s.fields) /\ ToSet(order) = DOMAIN s.fields

\* validate_field_constraint, and the target of a reference
FieldFits(d, f) ==
    /\ f.format # {} => f.type = NumberType
    /\ \A admitted \in f.constraint :
         admitted # {} /\ \A v \in admitted : <<Kind(v)>> = f.type
    /\ f.type[1] = "reference" => f.type[2] \in DOMAIN d.schemas

\* validate_value
ValueFits(d, f, v) ==
    /\ CASE Kind(v) = "formula" -> f.type = NumberType
         [] Kind(v) = "reference" ->
              \E e \in Entry(d.entities, v[2]) : f.type = ReferenceType(e.schema)
         [] OTHER -> f.type = <<Kind(v)>>
    /\ Kind(v) = "formula" \/ \A admitted \in f.constraint : v \in admitted

\* validate_entities
EntityFits(d, e) ==
    \E s \in Entry(d.schemas, e.schema) :
        /\ \A f \in DOMAIN s.fields : s.fields[f].required => f \in DOMAIN e.fields
        /\ \A f \in DOMAIN e.fields :
             f \in DOMAIN s.fields /\ ValueFits(d, s.fields[f], e.fields[f])

\* validate_document_core
StructureFits(d) ==
    /\ DistinctNames(d.schemas)
    /\ \A s \in Range(d.schemas) :
         /\ OrderFits(s)
         /\ DistinctNames(s.fields)
         /\ \A f \in Range(s.fields) : FieldFits(d, f)
    /\ IsInjective([e \in DOMAIN d.entities |-> d.entities[e].key])
    /\ \A e \in Range(d.entities) : EntityFits(d, e)

\* The cells that come to a number, with it.  A blank that may be blank reads
\* as zero.
Calculated(d) ==
    LET formulas == {cell \in Cells(d) : Kind(Stored(d, cell)) = "formula"}
        numbers == {cell \in Cells(d) : Kind(Stored(d, cell)) = "number"}
        blank(cell) == /\ cell \notin Cells(d)
                       /\ \E f \in Declaration(d, cell) : f.type = NumberType /\ ~f.required
        read(known, cell) ==
            IF blank(cell) THEN {NumberValue(0)} ELSE Entry(known, cell)
        known[k \in Nat] ==
            IF k = 0 THEN [cell \in numbers |-> Stored(d, cell)]
            ELSE [cell \in {c \in formulas : read(known[k - 1], Stored(d, c)[2]) # {}} |->
                     The(read(known[k - 1], Stored(d, cell)[2]))] @@ known[k - 1]
    IN known[Cardinality(formulas)]

\* require_validated_calculation_for: a complete calculation, within the
\* constraints (validate_complete_formula_constraints).
Valid(d) ==
    /\ StructureFits(d)
    /\ LET calculated == Calculated(d)
       IN \A cell \in Cells(d) :
            Kind(Stored(d, cell)) = "formula" =>
                \E n \in Entry(calculated, cell) :
                    \A f \in Declaration(d, cell) : \A admitted \in f.constraint : n \in admitted

\* validate_keyed_grouped_sum_definitions
DefinitionsBound(d) ==
    \A column \in d.definitions :
        \E s \in Entry(d.schemas, column[1]) :
            \E f \in Entry(s.fields, column[2]) : f.type = NumberType

-----------------------------------------------------------------------------
\* The elements of seq that are in ids, and ids in ascending order.  (A proof
\* cannot look into SelectSeq and SortSeq.)
Within(seq, ids) ==
    LET kept[n \in 0 .. Len(seq)] ==
            IF n = 0 THEN <<>>
            ELSE IF seq[n] \in ids THEN Append(kept[n - 1], seq[n])
            ELSE kept[n - 1]
    IN kept[Len(seq)]
ById(ids) ==
    [k \in 1 .. Cardinality(ids) |-> CHOOSE i \in ids : Cardinality({j \in ids : j <= i}) = k]

\* ordered_fields, as field ids
ShownOrder(s) ==
    LET listed == IF s.order = {} THEN <<>> ELSE The(s.order)
    IN Within(listed, DOMAIN s.fields) \o ById(DOMAIN s.fields \ ToSet(listed))

\* normalize_field_order, of an order that is to cover fields
NormalizedOrder(order, fields) ==
    {LET kept == Within(o, fields) IN kept \o ById(fields \ ToSet(kept)) : o \in order}

HasNames(d) == \E x \in Range(d.schemas) \union FieldsOf(d) : x.name # {}
HasOrders(d) == \E s \in Range(d.schemas) : s.order # {}
HasConstraints(d) == \E f \in FieldsOf(d) : f.constraint # {}
HasFormats(d) == \E f \in FieldsOf(d) : f.format # {}
=============================================================================

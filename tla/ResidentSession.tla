---------------------------- MODULE ResidentSession ----------------------------
(***************************************************************************)
(* The derived state a resident session keeps beside its document          *)
(* (ResidentDerivedState in workspace-engine/src/resident_session.rs): the *)
(* calculation and the index of human addresses, carried from revision to  *)
(* revision, and what each publication tells a client to read again.       *)
(*                                                                         *)
(* Who may publish and when is PatchLifecycle's; here any candidate comes. *)
(* Diagnostics are computed anew from the document and the calculation at  *)
(* every publication and are left out.                                     *)
(***************************************************************************)
EXTENDS FormulaCalculation

CONSTANTS
    Bases,           \* documents a session can open with
    ValidOnly,       \* candidates pass validation, as a patch lifecycle's do
    Candidates(_),   \* the documents a publication may bring after one
    MaxGeneration    \* publications in a session, by the id of its document

ASSUME BasesAssumption == \A d \in Bases : IsInMemory(d)

VARIABLES
    document,
    calculation,   \* the retained calculation: [values, failures, graph]
    addresses,     \* the address index, an option: none while keys collide
    notice,        \* the last publication's invalidation: [fields, calculations]
    generation,
    covered        \* every publication so far had roots that cover its change

vars == <<document, calculation, addresses, notice, generation, covered>>

-----------------------------------------------------------------------------
\* AddressIndex::build
Keys(m) == [k \in DOMAIN m |-> m[k].key]
ByKey(m) == {<<m[k].key, k>> : k \in DOMAIN m}
AddressIndex(d) ==
    LET distinct == /\ IsInjective(Keys(d.schemas)) /\ IsInjective(Keys(d.entities))
                    /\ \A s \in Range(d.schemas) : IsInjective(Keys(s.fields))
        index == [schemas |-> ByKey(d.schemas), entities |-> ByKey(d.entities),
                  fields |-> {<<s, ByKey(d.schemas[s].fields)>> : s \in DOMAIN d.schemas}]
    IN IF distinct THEN {index} ELSE {}

\* Two maps' entries under the keys where they differ.
Changed(before, after) ==
    {k \in DOMAIN before \union DOMAIN after : Entry(before, k) # Entry(after, k)}

\* What the rows' change asks for: collect_entity_projection_changes
RowFields(before, after, e) ==
    UNION {DOMAIN x.fields : x \in Entry(before.entities, e) \union Entry(after.entities, e)}
\* A row that came, went, or moved to another table.
Resettled(before, after) ==
    {e \in Changed(before.entities, after.entities) :
        {x.schema : x \in Entry(before.entities, e)} # {x.schema : x \in Entry(after.entities, e)}}
Readdressed(before, after) ==
    Resettled(before, after)
    \union {e \in DOMAIN before.entities \intersect DOMAIN after.entities :
               before.entities[e].key # after.entities[e].key}
StoredChanges(before, after) ==
    {c \in Cells(before) \union Cells(after) :
        {Stored(before, c) : x \in {c} \intersect Cells(before)}
          # {Stored(after, c) : x \in {c} \intersect Cells(after)}}
RowsFields(before, after, rows) == UNION {{e} \X RowFields(before, after, e) : e \in rows}

\* What a definition's change asks for: collect_schema_projection_changes
DefinitionsOf(d, column) == UNION {Entry(s.fields, column[2]) : s \in Entry(d.schemas, column[1])}
Columns(d) == UNION {{s} \X DOMAIN d.schemas[s].fields : s \in DOMAIN d.schemas}
Redefined(before, after) ==
    {c \in Columns(before) \union Columns(after) : DefinitionsOf(before, c) # DefinitionsOf(after, c)}
Retyped(before, after) ==
    {c \in Redefined(before, after) :
        {<<f.type, f.required>> : f \in DefinitionsOf(before, c)}
          # {<<f.type, f.required>> : f \in DefinitionsOf(after, c)}}
StoredIn(before, after, columns) ==
    UNION {ColumnCells(before, c) \union ColumnCells(after, c) : c \in columns}

ChangedFields(before, after) ==
    RowsFields(before, after, Readdressed(before, after))
    \union StoredChanges(before, after)
    \union StoredIn(before, after, Redefined(before, after))
CalculationRoots(before, after) ==
    RowsFields(before, after, Resettled(before, after))
    \union StoredChanges(before, after)
    \union StoredIn(before, after, Retyped(before, after))
\* AddressesChanged, mutated: a field's key is taken for presentation only.
RowsReaddressed(before, after) ==
    Readdressed(before, after) # {} \/ Keys(before.schemas) # Keys(after.schemas)

AddressesChanged(before, after) ==
    \/ Readdressed(before, after) # {}
    \/ Keys(before.schemas) # Keys(after.schemas)
    \/ \E c \in Redefined(before, after) :
         {f.key : f \in DefinitionsOf(before, c)} # {f.key : f \in DefinitionsOf(after, c)}

-----------------------------------------------------------------------------
\* The roots are cells with something stored on one side.  They miss a row
\* without values that comes, goes or moves, a read column without values
\* that is redefined or loses its table, and a blank cell a formula names when its declaration changes.
Covers(before, after) ==
    LET formulas == {Formula(before, c) : c \in FormulaCells(before)}
                      \union {Formula(after, c) : c \in FormulaCells(after)}
        named == (UNION {DirectReferences(x) : x \in formulas}) \ (Cells(before) \union Cells(after))
        read == UNION {x.columns : x \in formulas}
        declared(d, c) == {<<f.type, f.required>> : f \in Declaration(d, c)}
    IN /\ \A e \in Resettled(before, after) : RowFields(before, after, e) # {}
       /\ \A c \in read :
            IF c \in Retyped(before, after) THEN StoredIn(before, after, {c}) # {}
            ELSE c[1] \in DOMAIN before.schemas <=> c[1] \in DOMAIN after.schemas
       /\ \A c \in named : declared(before, c) = declared(after, c)

\* A complete calculation within the constraints.
Publishable(d) ==
    /\ StructureFits(d)
    /\ LET state == Rebuilt(d)
       IN /\ state.failures = <<>>
          /\ \A c \in FormulaCells(d) : \A f \in Declaration(d, c) : \A admitted \in f.constraint :
               state.values[c] \in admitted

Init ==
    /\ document \in Bases
    /\ calculation = Rebuilt(document)
    /\ addresses = AddressIndex(document)
    /\ notice = [fields |-> {}, calculations |-> {}]
    /\ generation = 0
    /\ covered = TRUE

\* ResidentDerivedState::update
Transition(candidate, index, roots) ==
    IF addresses # {} /\ index # {} THEN Updated(candidate, calculation, roots)
    ELSE RebuiltFrom(candidate, calculation, roots)

Install(candidate, index, transition) ==
    /\ document' = candidate
    /\ calculation' = transition.state
    /\ addresses' = index
    /\ notice' = [fields |-> ChangedFields(document, candidate), calculations |-> transition.named]
    /\ generation' = generation + 1
    /\ covered' = (covered /\ Covers(document, candidate))

\* publish_if_current past its checks, of a document in memory, with projection_invalidation.
Publish(candidate) ==
    LET index == IF AddressesChanged(document, candidate) THEN AddressIndex(candidate) ELSE addresses
    IN /\ IsInMemory(candidate)
       /\ ValidOnly => Publishable(candidate)
       /\ Install(candidate, index, Transition(candidate, index, CalculationRoots(document, candidate)))

Next ==
    /\ generation < MaxGeneration[document.id]
    /\ \E candidate \in Candidates(document) : Publish(candidate)

Spec == Init /\ [][Next]_vars

-----------------------------------------------------------------------------
\* What is kept up to date is what a calculation from nothing gives, values and
\* failures (ADR-0018: incremental recomputation is permitted only when
\* observationally equivalent to the oracle), as long as the roots cover what
\* changed.  So is the dependency graph, wherever rows moved between two columns
\* that are both read: every edge, every slot of every column, the column of
\* every slot and the schema of every row; and what a formula depends on is
\* exactly what extract_dependencies finds in the document.
CalculationIsRebuilt ==
    covered =>
        /\ calculation = Rebuilt(document)
        /\ Dependencies(calculation.graph) =
             [f \in FormulaCells(document) |-> ExtractDependencies(document, Formula(document, f))]

\* The address index is built again whenever a key, a row's table or the set of
\* subjects changed, and only then: it is never behind the document.
AddressesAreCurrent == addresses = AddressIndex(document)

\* Everything the session keeps beside its document (publish_if_current).
DerivedStateIsRebuilt == CalculationIsRebuilt /\ AddressesAreCurrent

\* What a client sees of a field: query_fields
Projection(d, state, c) ==
    [address |-> {<<d.entities[c[1]].key, f.key>> : f \in Declaration(d, c)},
     stored |-> Stored(d, c),
     calculated |-> NodeProjection(state, c)]

\* A field that a client sees differently after a publication is named by its
\* invalidation: a client that reads again only what is named shows nothing old.
EveryChangeIsNamed ==
    [][\A c \in Cells(document) \intersect Cells(document') :
         c \notin notice'.fields \union notice'.calculations =>
             LET before == Projection(document, calculation, c)
                 after == Projection(document', calculation', c)
             IN IF c \in FormulaCells(document) THEN before = after
                ELSE before.address = after.address /\ before.stored = after.stored]_vars

\* CalculationIsRebuilt with nothing excepted, of documents that pass
\* validation: what ADR-0018 promises of incremental recomputation.
PublishedValuesAreRecomputed == calculation.values = Rebuilt(document).values
=============================================================================

-------------------------- MODULE FormulaCalculation --------------------------
(***************************************************************************)
(* The calculation of a document's formulas, whole (calculate_complete) and *)
(* kept up to date from one revision to the next (RetainedCalculationState): *)
(* formula-engine/src/lib.rs and evaluation.rs.                            *)
(*                                                                         *)
(* A formula is a record [op, test, cells, columns]:                       *)
(*   sum        the sum of cells                                           *)
(*   ratio      a cell divided by itself                                   *)
(*   if_blank   IF(ISBLANK(test), 0, cell)                                 *)
(*   total      SUM of whole columns                                       *)
(*   maximum    MAX of whole columns                                       *)
(*   blanks     COUNTIFS(column, "") of whole columns                      *)
(* one for each way the code has of reading a cell or a column.  A cell is *)
(* <<entity, field>>, a column <<schema, field>>.                          *)
(***************************************************************************)
EXTENDS SemanticDocument, FiniteSetsExt

\* f laid over g, and what is left of a map without some keys.
Over(f, g) ==
    IF f = <<>> THEN g ELSE IF g = <<>> THEN f
    ELSE [x \in (DOMAIN f) \union DOMAIN g |-> IF x \in DOMAIN f THEN f[x] ELSE g[x]]
Leave(m, keys) == Restrict(m, DOMAIN m \ keys)

Formula(d, cell) == Stored(d, cell)[2]

\* The order of FieldRef.
CellBefore(a, b) == a[1] < b[1] \/ (a[1] = b[1] /\ a[2] < b[2])
First(cells) == CHOOSE c \in cells : \A other \in cells \ {c} : CellBefore(c, other)
InOrder(cells) ==
    [i \in 1..Cardinality(cells) |->
        CHOOSE c \in cells : Cardinality({other \in cells : CellBefore(other, c)}) = i - 1]

\* Every row of a column's schema has a slot in the column, blank or not.
Slots(d, column) ==
    {e \in DOMAIN d.entities : d.entities[e].schema = column[1]} \X {column[2]}
ColumnOf(d, slot) == <<d.entities[slot[1]].schema, slot[2]>>
ColumnCells(d, column) == Slots(d, column) \intersect Cells(d)

CalculationCells(d) == {c \in Cells(d) : Kind(Stored(d, c)) \in {"number", "formula"}}
FormulaCells(d) == {c \in Cells(d) : Kind(Stored(d, c)) = "formula"}

DirectReferences(x) == x.test \union x.cells

\* What a formula depends on: extract_dependencies
ExtractDependencies(d, x) == DirectReferences(x) \union UNION {Slots(d, c) : c \in x.columns}

\* A formula as it is parsed: of finitely many operands, and a maximum of a column.
IsParsed(x) ==
    /\ IsFiniteSet(x.cells) /\ IsFiniteSet(x.columns)
    /\ \A column \in x.columns : column = <<column[1], column[2]>>
    /\ x.op = "maximum" => x.columns # {}

\* A document in memory: finitely many rows and values, each of a kind, numbers
\* that are natural, and formulas made of their parts.
IsInMemory(d) ==
    /\ IsDocument(d) /\ DOMAIN d.entities \subseteq Nat /\ IsFiniteSet(DOMAIN d.entities)
    /\ \A f \in FieldsOf(d) : f.type[1] # "reference" => f.type = <<f.type[1]>>
    /\ IsFiniteSet(Cells(d)) /\ Cells(d) \subseteq Nat \X Nat
    /\ \A cell \in Cells(d) :
         /\ Stored(d, cell) = <<Stored(d, cell)[1], Stored(d, cell)[2]>>
         /\ Kind(Stored(d, cell)) = "number" => Stored(d, cell)[2] \in Nat
    /\ \A cell \in FormulaCells(d) : IsParsed(Formula(d, cell))

-----------------------------------------------------------------------------
\* The dependency graph: what each formula reads, the slots of every column
\* that is read, the column of each slot, and the schema of every row.  Who
\* reads a cell or a column is the inverse of the first two.

CellReaders(g, cell) == {f \in DOMAIN g.references : cell \in g.references[f]}
ColumnReaders(g, column) == {f \in DOMAIN g.columns : column \in g.columns[f]}

EnsureColumnSlots(g, d, columns) ==
    LET new == columns \ DOMAIN g.slots
        slots == UNION {Slots(d, c) : c \in new}
    IN [g EXCEPT !.slots = Over([c \in new |-> Slots(d, c)], @),
                 !.slotColumn = Over([slot \in slots |-> ColumnOf(d, slot)], @)]

InsertEdges(g, d, formulas) ==
    LET slotted == EnsureColumnSlots(g, d, UNION {Formula(d, f).columns : f \in formulas})
    IN [slotted EXCEPT !.references = Over([f \in formulas |-> DirectReferences(Formula(d, f))], @),
                       !.columns = Over([f \in formulas |-> Formula(d, f).columns], @)]

NewGraph(d) ==
    InsertEdges([references |-> <<>>, columns |-> <<>>, slots |-> <<>>, slotColumn |-> <<>>,
                 schemaOf |-> [e \in DOMAIN d.entities |-> d.entities[e].schema]],
                d, FormulaCells(d))

ClearSlots(g, columns) ==
    [g EXCEPT !.slots = Leave(@, columns),
              !.slotColumn = Leave(@, UNION {g.slots[c] : c \in columns \intersect DOMAIN g.slots})]

\* A column that loses its last reader is forgotten.
ReplaceFormula(g, d, root) ==
    LET dropped == [g EXCEPT !.references = Leave(@, {root}), !.columns = Leave(@, {root})]
        unread == {c \in UNION Entry(g.columns, root) : ColumnReaders(dropped, c) = {}}
    IN InsertEdges(ClearSlots(dropped, unread), d, {root} \intersect FormulaCells(d))

\* RefreshColumnSlots, mutated: each column is cleared and refilled in turn.
RefreshInTurn(g, d, columns) ==
    FoldSet(LAMBDA column, acc : IF ColumnReaders(acc, column) = {} THEN ClearSlots(acc, {column})
                                 ELSE EnsureColumnSlots(ClearSlots(acc, {column}), d, {column}),
            g, columns)

\* Every column is cleared before any is filled again.
RefreshColumnSlots(g, d, columns) ==
    EnsureColumnSlots(ClearSlots(g, columns), d, {c \in columns : ColumnReaders(g, c) # {}})

\* The schemas of a row on either side of an update.
SchemasOf(g, d, e) == Entry(g.schemaOf, e) \union {x.schema : x \in Entry(d.entities, e)}

DependenciesOf(g, formula) ==
    g.references[formula] \union UNION {g.slots[c] : c \in g.columns[formula] \intersect DOMAIN g.slots}
Dependencies(g) == [f \in DOMAIN g.references |-> DependenciesOf(g, f)]

DirectDependents(g, cell) ==
    CellReaders(g, cell) \union UNION {ColumnReaders(g, c) : c \in Entry(g.slotColumn, cell)}

\* Everything reached from some places, themselves included.
Reached(next, start) ==
    LET limit == Cardinality(DOMAIN next)
        reached[n \in 0 .. limit] ==
            IF n = 0 THEN start
            ELSE LET before == reached[n - 1] IN before \union UNION {next[x] : x \in before}
    IN reached[limit]

\* The formulas that depend on a root, the roots left out.
ReverseClosure(g, roots) ==
    LET dependents == [f \in (DOMAIN g.references) \ roots |-> DirectDependents(g, f) \ roots]
    IN Reached(dependents, (UNION {DirectDependents(g, c) : c \in roots}) \ roots)

-----------------------------------------------------------------------------
\* Failures found before evaluation, the earlier phase first.

StructuralReferenceFailure(d, cell, numeric) ==
    CASE Declaration(d, cell) = {} -> {"missing"}
      [] numeric /\ \E f \in Declaration(d, cell) : f.type # NumberType -> {"non_numeric"}
      [] OTHER -> {}

ReferenceFailure(d, cell) ==
    LET structural == StructuralReferenceFailure(d, cell, TRUE)
    IN CASE structural # {} -> structural
         [] cell \in Cells(d) -> {"non_numeric" : c \in {cell} \ CalculationCells(d)}
         [] OTHER -> {"missing" : f \in {f \in Declaration(d, cell) : f.required}}

ColumnFailures(d, x) ==
    LET fields(c) == UNION {Entry(s.fields, c[2]) : s \in Entry(d.schemas, c[1])}
        failure(c) ==
            CASE c[1] \notin DOMAIN d.schemas -> {"missing_schema"}
              [] fields(c) = {} -> {"missing_field"}
              [] \E f \in fields(c) : \/ x.op # "blanks" /\ f.type # NumberType
                                      \/ f.type[1] = "reference" -> {"non_numeric"}
              [] OTHER -> {}
    IN UNION {{c} \X failure(c) : c \in x.columns}

Failing(d, column) == {c \in ColumnCells(d, column) : ReferenceFailure(d, c) # {}}

\* What a branch of an IF reads is only to exist, until the branch is taken.
\* A total checks its columns' cells, a maximum leaves that to evaluation.
InvalidUses(d, x) ==
    LET checked == IF x.op = "if_blank" THEN {} ELSE x.cells
        totalled == {First(Failing(d, c)) : c \in {c \in x.columns : x.op = "total" /\ Failing(d, c) # {}}}
    IN (UNION {{c} \X StructuralReferenceFailure(d, c, FALSE) : c \in x.test})
         \union (UNION {{c} \X StructuralReferenceFailure(d, c, TRUE) : c \in x.cells})
         \union UNION {{c} \X ReferenceFailure(d, c) : c \in checked \union totalled}

InvalidTargets(d, cell) ==
    ({cell} \X ReferenceFailure(d, cell))
      \union UNION {InvalidUses(d, Formula(d, c)) : c \in {cell} \intersect FormulaCells(d)}

\* One failure at most: columns are bound before references are looked at.
PregraphFailure(d, cell) ==
    LET columns == IF cell \in FormulaCells(d) THEN ColumnFailures(d, Formula(d, cell)) ELSE {}
    IN IF columns # {} THEN {<<"invalid_column", columns>>}
       ELSE {<<"invalid_references", targets>> : targets \in {InvalidTargets(d, cell)} \ {{}}}

PregraphFailures(d, nodes) ==
    LET failing == {c \in nodes : PregraphFailure(d, c) # {}}
    IN [c \in failing |-> The(PregraphFailure(d, c))]

\* The members of each strongly connected component, among the formulas that
\* have not failed before.
CycleFailures(g, eligible) ==
    LET next == [f \in eligible |-> DependenciesOf(g, f) \intersect eligible]
        all == [f \in eligible |-> Reached(next, next[f])]
    IN [f \in {f \in eligible : f \in all[f]} |-> <<"cycle", {c \in all[f] : f \in all[c]}>>]

-----------------------------------------------------------------------------
\* Evaluation.  A state is [values, failures, graph]; a result is a value or
\* a failure.

\* A blank that may be blank reads as zero.
Readable(d, values, cell) ==
    \/ cell \in DOMAIN values
    \/ /\ cell \notin Cells(d)
       /\ \E f \in Declaration(d, cell) : f.type = NumberType /\ ~f.required
Read(values, cell) == IF cell \in DOMAIN values THEN values[cell][2] ELSE 0
SumOf(values, cells) == SumFunction([c \in cells |-> Read(values, c)])

Evaluate(d, values, failures, x) ==
    LET chosen ==
            IF \E c \in x.test : c[1] \in DOMAIN d.entities /\ c \notin Cells(d) THEN {} ELSE x.cells
        present == UNION {ColumnCells(d, c) : c \in x.columns}
        firsts(kept) == {First(ColumnCells(d, c) \intersect kept) :
                         c \in {c \in x.columns : ColumnCells(d, c) \intersect kept # {}}}
        failed == (chosen \intersect DOMAIN failures) \union firsts(DOMAIN failures)
        missing == {c \in chosen : ~Readable(d, values, c)}
                     \union (IF x.op = "blanks" THEN {} ELSE firsts(Cells(d) \ DOMAIN values))
    IN IF failed # {} THEN <<"failed_dependencies", failed>>
       ELSE IF missing # {} THEN <<"failed_dependencies", {First(missing)}>>
       ELSE IF x.op = "maximum" /\ \E c \in x.columns : ColumnCells(d, c) = {} THEN <<"empty_aggregate">>
       ELSE IF x.op = "ratio" /\ \E c \in chosen : Read(values, c) = 0 THEN <<"division_by_zero">>
       ELSE IF x.op = "ratio" THEN NumberValue(1)
       ELSE IF x.op = "maximum" THEN NumberValue(Max({Read(values, c) : c \in present}))
       ELSE IF x.op = "blanks" THEN
            NumberValue(Cardinality((UNION {Slots(d, c) : c \in x.columns}) \ Cells(d)))
       ELSE NumberValue(SumOf(values, chosen \union present))

\* Dependency-first, from the formulas no formula still to be evaluated stands
\* before.  Those that are ready together do not read one another.
Settle(d, g, s, formulas) ==
    LET left == formulas \ (DOMAIN s.values \union DOMAIN s.failures)
        ready == {f \in left : DependenciesOf(g, f) \intersect left = {}}
        result == [f \in ready |-> Evaluate(d, s.values, s.failures, Formula(d, f))]
        good == {f \in ready : Kind(result[f]) = "number"}
    IN [values |-> Over(Restrict(result, good), s.values),
        failures |-> Over(Restrict(result, ready \ good), s.failures)]

Settled(d, g, values, failures, formulas) ==
    LET step[n \in 0 .. Cardinality(formulas)] ==
            IF n = 0 THEN [values |-> values, failures |-> failures]
            ELSE Settle(d, g, step[n - 1], formulas)
        last == step[Cardinality(formulas)]
    IN [values |-> last.values, failures |-> last.failures, graph |-> g]

\* The phases, over the cells that are dirty; what is kept of the others stands.
Evaluated(d, g, kept, dirty, failures) ==
    LET formulas == dirty \intersect FormulaCells(d)
        numbers == (dirty \intersect CalculationCells(d)) \ (formulas \union DOMAIN failures)
    IN Settled(d, g, Over([c \in numbers |-> Stored(d, c)], Leave(kept.values, dirty)), failures, formulas)

AfterPregraph(d, g, kept, dirty, pregraph) ==
    Evaluated(d, g, kept, dirty,
              Over(CycleFailures(g, (dirty \intersect FormulaCells(d)) \ DOMAIN pregraph), pregraph))

Recomputed(d, g, kept, dirty) ==
    AfterPregraph(d, g, kept, dirty,
                  Over(PregraphFailures(d, dirty \intersect CalculationCells(d)), Leave(kept.failures, dirty)))

\* full_calculation_parts
Rebuilt(d) == Recomputed(d, NewGraph(d), [values |-> <<>>, failures |-> <<>>], Cells(d))

-----------------------------------------------------------------------------
\* What a client sees of one formula: nothing but failures while any cell fails.
NodeProjection(state, cell) ==
    IF state.failures # <<>> THEN Entry(state.failures, cell) ELSE Entry(state.values, cell)

TrackedColumns(g, schemas) == {c \in DOMAIN g.slots : c[1] \in schemas}

\* WithColumnTotalRoots, mutated: the readers of a changed row's columns are
\* not recomputed from scratch.
RootsAlone(d, g, roots) == roots

WithColumnTotalRoots(d, g, roots) ==
    LET schemas == UNION {SchemasOf(g, d, root[1]) : root \in roots}
    IN roots \union UNION {ColumnReaders(g, c) : c \in TrackedColumns(g, schemas)}

\* update_dependency_impact, the graph it leaves
UpdatedGraph(d, g, roots) ==
    LET schemas == UNION {SchemasOf(g, d, root[1]) : root \in roots}
        rows == {root[1] : root \in roots}
        order == InOrder(roots)
        replaced[n \in 0 .. Len(order)] ==
            IF n = 0
            THEN [g EXCEPT !.schemaOf = Over([e \in rows \intersect DOMAIN d.entities |-> d.entities[e].schema], @)]
            ELSE ReplaceFormula(replaced[n - 1], d, order[n])
        last == replaced[Len(order)]
        refreshed == RefreshColumnSlots(last, d, TrackedColumns(last, schemas))
    IN [refreshed EXCEPT !.schemaOf = Leave(@, rows \ DOMAIN d.entities)]

\* ChangedProjections, mutated: only recomputed formulas are compared.
ChangedAmongDirty(before, after, dirty) ==
    {f \in dirty \intersect (DOMAIN before.graph.references \union DOMAIN after.graph.references) :
        NodeProjection(before, f) # NodeProjection(after, f)}

\* When the calculation as a whole begins or ceases to fail, every formula shows it.
ChangedProjections(before, after, dirty) ==
    LET formulas == DOMAIN before.graph.references \union DOMAIN after.graph.references
    IN IF (before.failures = <<>>) = (after.failures = <<>>)
       THEN {f \in formulas \intersect dirty : NodeProjection(before, f) # NodeProjection(after, f)}
       ELSE formulas

\* What an update names: every dependent, before and after, and what shows otherwise.
Named(state, after, roots, dirty) ==
    [state |-> after, named |-> (dirty \ roots) \union ChangedProjections(state, after, dirty)]

UpdatedThrough(d, state, graph, roots) ==
    LET dependents == ReverseClosure(state.graph, roots) \union ReverseClosure(graph, roots)
        dirty == roots \union dependents
    IN Named(state, Recomputed(d, graph, state, dirty), roots, dirty)

\* RetainedCalculationState::update: the new state and the formulas to name.
Updated(d, state, changed) ==
    LET roots == WithColumnTotalRoots(d, state.graph, changed)
    IN IF changed = {} THEN [state |-> state, named |-> {}]
       ELSE UpdatedThrough(d, state, UpdatedGraph(d, state.graph, roots), roots)

Replaced(state, after, changed) ==
    LET formulas == DOMAIN state.graph.references \union DOMAIN after.graph.references
    IN [state |-> after,
        named |-> ReverseClosure(state.graph, changed) \union ReverseClosure(after.graph, changed)
                    \union {f \in formulas : NodeProjection(state, f) # NodeProjection(after, f)}]

\* What takes its place when nothing retained can be relied on.
RebuiltFrom(d, state, changed) == Replaced(state, Rebuilt(d), changed)
=============================================================================

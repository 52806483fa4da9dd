--------------------------- MODULE AnalysisQueries ---------------------------
(***************************************************************************)
(* Bounded analyses of one table: which rows satisfy the predicates, alone  *)
(* or in groups, and what their numbers come to, told only to who may see  *)
(* everything the answer depends on (analysis_operations.rs of             *)
(* workspace-engine).                                                      *)
(***************************************************************************)
EXTENDS QueryScopes

CONSTANTS
    MaxNarrowing,    \* MAX_ANALYSIS_NARROWING_IDS
    MaxPredicates,   \* MAX_ANALYSIS_PREDICATES
    MaxResults,      \* MAX_ANALYSIS_RESULT_REQUESTS
    MaxCollection    \* MAX_ANALYSIS_COLLECTION_RESULTS

\* Analyses.  A definition is [schema, narrowing, predicates, group, results]:
\* narrowing an option of row ids, predicates a sequence of <<field, operator,
\* operand>>, group an option of a field, results a sequence of <<kind,
\* fields>> where fields holds the metric, if there is one.

ResultKinds == <<"membership", "count", "minimum", "maximum", "observations">>

EnvelopeError(q) ==
    IF \E ids \in q.narrowing : Len(ids) > MaxNarrowing THEN {"too_many_narrowing_ids"}
    ELSE IF Len(q.predicates) > MaxPredicates THEN {"too_many_predicates"}
    ELSE IF q.results = <<>> THEN {"missing_results"}
    ELSE IF Len(q.results) > MaxResults THEN {"too_many_results"}
    ELSE {}

Normalized(q) ==
    [q EXCEPT !.narrowing = {ToSet(ids) : ids \in @}, !.predicates = ToSet(@), !.results = ToSet(@)]

CalculatedFields(q) == {p[1] : p \in q.predicates} \union UNION {r[2] : r \in q.results}
RequestedFields(q) == CalculatedFields(q) \union q.group

\* resolve_candidate_domain: the rows looked at, and those asked for in vain.
CandidateRows(d, q) ==
    {e \in DOMAIN d.entities : /\ d.entities[e].schema = q.schema
                               /\ q.schema \in DOMAIN d.schemas
                               /\ \A ids \in q.narrowing : e \in ids}
Strays(d, q) == (UNION q.narrowing) \ CandidateRows(d, q)

DomainFailure(d, q) ==
    LET first == Min(Strays(d, q))
    IN IF q.schema \notin DOMAIN d.schemas THEN {<<"unresolved_schema">>}
       ELSE IF Strays(d, q) = {} THEN {}
       ELSE IF first \in DOMAIN d.entities THEN {<<"wrong_domain", first, d.entities[first].schema>>}
       ELSE {<<"unresolved_entity", first>>}

DomainRequirements(d, q) ==
    IF q.schema \notin DOMAIN d.schemas THEN {WholeDocument}
    ELSE UNION {IF e \in DOMAIN d.entities THEN {EntityScope(d, e), SchemaScope(q.schema)}
                ELSE {WholeDocument} : e \in Strays(d, q)}

\* MembershipRequirements, mutated: the rows found are all that is told.
NoMembershipRequirements(d, q) == {}

\* That these are all the rows of the table is told by an analysis of the whole
\* table, and by one that finds no row to look at.
MembershipRequirements(d, q) ==
    IF /\ q.schema \in DOMAIN d.schemas
       /\ q.narrowing = {} \/ CandidateRows(d, q) \union Strays(d, q) = {}
    THEN {SchemaScope(q.schema)} ELSE {}

\* Everything that a formula reads, through other formulas.
Inputs(d, roots) ==
    LET reached[n \in Nat] ==
            IF n = 0 THEN {}
            ELSE UNION {ExtractDependencies(d, Formula(d, c)) :
                        c \in roots \union (reached[n - 1] \intersect FormulaCells(d))}
    IN reached[Cardinality(FormulaCells(d))]

FormulaRoots(d, q) == (CandidateRows(d, q) \X CalculatedFields(q)) \intersect FormulaCells(d)

\* A row, a cell, and the row a cell refers to.
CellRequirements(d, cells) ==
    LET referred == {v[2] : v \in {v \in UNION {StoredAt(d, c) : c \in cells} : Kind(v) = "reference"}}
    IN {FieldScope(d, c) : c \in cells}
         \union {IF e \in DOMAIN d.entities THEN EntityScope(d, e) ELSE WholeDocument : e \in referred}

\* prepare_analysis.  A calculation fails as a whole, so that one formula is
\* enough to require the document.
AnalysisRequirements(d, q) ==
    LET rows == CandidateRows(d, q)
    IN DomainRequirements(d, q)
         \union MembershipRequirements(d, q)
         \union {EntityScope(d, e) : e \in rows}
         \union CellRequirements(d, rows \X RequestedFields(q))
         \union {FieldScope(d, c) : c \in Inputs(d, FormulaRoots(d, q))}
         \union {WholeDocument : c \in FormulaRoots(d, q)}

-----------------------------------------------------------------------------
\* predicate_is_typed: numbers and dates are ordered.
PredicateFits(type, p) ==
    /\ Kind(p[3]) = type[1]
    /\ p[2] \in {"=", "#"} \/ Kind(p[3]) \in {"number", "date"}

\* validate_targets, in the order of predicates, group and requests.
TargetFailure(d, q) ==
    LET fields == d.schemas[q.schema].fields
        predicates == {p[1] : p \in {p \in q.predicates :
                          p[1] \in DOMAIN fields => ~PredicateFits(fields[p[1]].type, p)}}
        metrics == UNION {{i} \X r[2] : i \in DOMAIN ResultKinds,
                          r \in {r \in q.results : \E f \in r[2] :
                                   f \in DOMAIN fields => fields[f].type # NumberType}}
        requested == {m \in metrics : <<ResultKinds[m[1]], {m[2]}>> \in q.results}
        failure(role, f) ==
            {<<IF f \in DOMAIN fields THEN "invalid_type" ELSE "unresolved_field", role, f>>}
    IN IF predicates # {} THEN failure("predicate", Min(predicates))
       ELSE IF ~(q.group \subseteq DOMAIN fields) THEN failure("group", The(q.group))
       ELSE IF requested # {} THEN failure("metric", First(requested)[2])
       ELSE {}

\* effective_formula_number: a formula's number, or which formula is to blame.
CalculatedNumber(state, cell) == IF state.failures = <<>> THEN Entry(state.values, cell) ELSE {}
CalculationFailed(d, q, state, cell) ==
    LET requested == FormulaRoots(d, q) \intersect DOMAIN state.failures
        blamed == IF cell \notin DOMAIN state.failures /\ requested # {} THEN First(requested) ELSE cell
    IN <<"calculation_failed", blamed, Entry(state.failures, blamed)>>

\* A reference to a row of the declared table, or any other value.
ReferenceFits(d, cell, v) ==
    \A f \in Declaration(d, cell) :
        (f.type[1] = "reference" /\ Kind(v) = "reference") =>
            \E e \in Entry(d.entities, v[2]) : f.type = ReferenceType(e.schema)

Compare(op, a, b) ==
    CASE op = "=" -> a = b
      [] op = "#" -> a # b
      [] op = "<" -> a[2] < b[2]
      [] op = "<=" -> a[2] <= b[2]
      [] op = ">" -> a[2] > b[2]
      [] op = ">=" -> a[2] >= b[2]

\* A predicate of a row: it holds, it does not, or it cannot be told.
Verdict(d, q, state, e, p) ==
    LET cell == <<e, p[1]>>
        v == The(StoredAt(d, cell))
        number == IF Kind(v) = "formula" THEN CalculatedNumber(state, cell) ELSE {v}
    IN IF StoredAt(d, cell) = {} THEN <<"differs">>
       ELSE IF ~ReferenceFits(d, cell, v) THEN <<"invalid_predicate_value", cell>>
       ELSE IF number = {} THEN CalculationFailed(d, q, state, cell)
       ELSE IF Kind(The(number)) # Kind(p[3]) THEN <<"invalid_predicate_value", cell>>
       ELSE IF Compare(p[2], The(number), p[3]) THEN <<"holds">>
       ELSE <<"differs">>

\* The predicates stand in the order of their fields, and the first that does
\* not hold ends the row.
RowVerdict(d, q, state, e) ==
    LET open == {p \in q.predicates : Verdict(d, q, state, e, p) # <<"holds">>}
        first == CHOOSE p \in open : \A other \in open : p[1] <= other[1]
    IN IF open = {} THEN <<"holds">> ELSE Verdict(d, q, state, e, first)

\* validate_formula_predicates and select_entities
SelectionFailure(d, q, state) ==
    LET rows == CandidateRows(d, q)
        numeric == {c \in (rows \X {p[1] : p \in q.predicates}) \intersect FormulaCells(d) :
                      /\ d.schemas[q.schema].fields[c[2]].type = NumberType
                      /\ CalculatedNumber(state, c) = {}}
        failing == {e \in rows : RowVerdict(d, q, state, e)[1] \notin {"holds", "differs"}}
    IN IF numeric # {} THEN {CalculationFailed(d, q, state, First(numeric))}
       ELSE IF failing # {} THEN {RowVerdict(d, q, state, Min(failing))}
       ELSE {}
Selected(d, q, state) == {e \in CandidateRows(d, q) : RowVerdict(d, q, state, e) = <<"holds">>}

\* GroupProblem, mutated: a row without a value is in no group.
GroupProblemOfValues(d, cell) ==
    UNION {CASE Kind(v) = "formula" -> {<<"formula_grouping_unsupported", cell[2]>>}
             [] Kind(v) # The(Declaration(d, cell)).type[1] \/ ~ReferenceFits(d, cell, v) ->
                  {<<"invalid_group_value", cell>>}
             [] OTHER -> {} : v \in StoredAt(d, cell)}

\* group_entities
GroupProblem(d, cell) ==
    LET v == The(StoredAt(d, cell))
    IN IF StoredAt(d, cell) = {} THEN {<<"missing_group_value", cell>>}
       ELSE IF Kind(v) = "formula" THEN {<<"formula_grouping_unsupported", cell[2]>>}
       ELSE IF Kind(v) # The(Declaration(d, cell)).type[1] \/ ~ReferenceFits(d, cell, v)
            THEN {<<"invalid_group_value", cell>>}
       ELSE {}
GroupFailure(d, q, rows) ==
    LET failing == {c \in rows \X q.group : GroupProblem(d, c) # {}}
    IN UNION {GroupProblem(d, First(failing)) : c \in failing}
GroupKeys(d, q, rows) == UNION {StoredAt(d, c) : c \in rows \X q.group}
Members(d, q, rows, key) == {e \in rows : \A f \in q.group : StoredAt(d, <<e, f>>) = {key}}

\* collect_metrics, field by field.
MetricNumber(state, d, cell) ==
    UNION {CASE Kind(v) = "formula" -> CalculatedNumber(state, cell)
             [] Kind(v) = "number" -> {v}
             [] OTHER -> {} : v \in StoredAt(d, cell)}
MetricFailure(d, q, state, rows) ==
    LET metrics == UNION {r[2] : r \in q.results}
        failing == {c \in metrics \X rows : MetricNumber(state, d, <<c[2], c[1]>>) = {}}
        cell == <<First(failing)[2], First(failing)[1]>>
    IN IF failing = {} THEN {}
       ELSE IF cell \in FormulaCells(d) THEN {CalculationFailed(d, q, state, cell)}
       ELSE {<<"metric_incomplete", cell>>}

\* collection_limit_failure
LimitFailure(d, q, rows) ==
    LET large == Cardinality(rows) > MaxCollection
        kinds == {r[1] : r \in q.results}
    IN IF q.group # {} /\ Cardinality(GroupKeys(d, q, rows)) > MaxCollection THEN {<<"too_large", "groups">>}
       ELSE IF large /\ "membership" \in kinds THEN {<<"too_large", "membership">>}
       ELSE IF large /\ "observations" \in kinds THEN {<<"too_large", "observations">>}
       ELSE {}

\* build_bucket
Bucket(d, q, state, rows) ==
    LET number(e, f) == The(MetricNumber(state, d, <<e, f>>))[2]
        numbers(fs) == {number(e, f) : e \in rows, f \in fs}
        value(kind, fs) ==
            CASE kind = "membership" -> rows
              [] kind = "count" -> Cardinality(rows)
              [] kind = "minimum" -> {Min(numbers(fs)) : e \in rows}
              [] kind = "maximum" -> {Max(numbers(fs)) : e \in rows}
              [] kind = "observations" -> [e \in rows |-> number(e, The(fs))]
    IN [r \in q.results |-> value(r[1], r[2])]

\* evaluate_authorized
AnalysisOutcome(d, q, state) ==
    LET rows == Selected(d, q, state)
    IN IF TargetFailure(d, q) # {} THEN <<"failure", The(TargetFailure(d, q))>>
       ELSE IF SelectionFailure(d, q, state) # {} THEN <<"failure", The(SelectionFailure(d, q, state))>>
       ELSE IF GroupFailure(d, q, rows) # {} THEN <<"failure", The(GroupFailure(d, q, rows))>>
       ELSE IF MetricFailure(d, q, state, rows) # {} THEN <<"failure", The(MetricFailure(d, q, state, rows))>>
       ELSE IF LimitFailure(d, q, rows) # {} THEN <<"failure", The(LimitFailure(d, q, rows))>>
       ELSE IF q.group # {} THEN
            <<"groups", [key \in GroupKeys(d, q, rows) |-> Bucket(d, q, state, Members(d, q, rows, key))]>>
       ELSE <<"rows", Bucket(d, q, state, rows)>>

\* query_analysis, of a document and its calculation.
Analysis(d, state, authority, definition) ==
    LET q == Normalized(definition)
    IN IF EnvelopeError(definition) # {} THEN <<"envelope", The(EnvelopeError(definition))>>
       ELSE IF ~Permits(authority, AnalysisRequirements(d, q)) THEN <<"denied">>
       ELSE IF DomainFailure(d, q) # {} THEN <<"failure", The(DomainFailure(d, q))>>
       ELSE AnalysisOutcome(d, q, state)
=============================================================================

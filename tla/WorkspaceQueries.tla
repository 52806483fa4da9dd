--------------------------- MODULE WorkspaceQueries ---------------------------
(***************************************************************************)
(* What a client may ask of one exact snapshot of a resident session under *)
(* the scopes it holds Query Grants for: bounded analyses, saved grouped   *)
(* sums, the reasoning of a formula, number-override scenarios and the     *)
(* capabilities of a field (formula_operations.rs and                      *)
(* capability_discovery.rs of workspace-engine), beside the session that   *)
(* publishes under them.                                                   *)
(*                                                                         *)
(* An answer is a tuple that begins with its kind; <<"denied">> is the     *)
(* denial that tells nothing.  The source revision and the validator       *)
(* configuration are copied into every answer and left out.  Queries       *)
(* calculate the document from nothing: state is that calculation.         *)
(***************************************************************************)
EXTENDS ResidentSession, AnalysisQueries, GroupedSums

Comparison == INSTANCE DocumentComparison

CONSTANTS
    Authorities,     \* the sets of scopes a client may hold, by document id
    Analyses         \* the analyses asked of a document, by its id

\* Fields are asked for by their ids, one to group by at most; a membership or
\* a count is of the rows, any other result always of one field.
IsAsked(q) ==
    /\ IsRecord(q, {"schema", "narrowing", "predicates", "group", "results"})
    /\ RequestedFields(q) \subseteq Nat
    /\ \A f, g \in q.group : f = g
    /\ \A r \in q.results : IF r[1] \in {"membership", "count"} THEN r = <<r[1], {}>>
                            ELSE \E f \in r[2] : r = <<r[1], {f}>>

ASSUME AnalysesAssumption == \A asked \in Range(Analyses) : \A q \in asked : IsAsked(Normalized(q))

-----------------------------------------------------------------------------
\* Formula reasoning.

\* affected_by: everything that depends on a cell, itself too if it reaches itself.
AffectedBy(g, cell) ==
    Reached([f \in DOMAIN g.references |-> DirectDependents(g, f)], DirectDependents(g, cell))

\* The cells a failure names: calculation_evidence_subjects
Evidence(shown) ==
    UNION {CASE Kind(v) = "invalid_references" -> {x[1] : x \in v[2]}
             [] Kind(v) \in {"cycle", "failed_dependencies"} -> v[2]
             [] OTHER -> {} : v \in shown}

\* A complete validation report is part of an answer only with the document.
ReportFor(d, authority) == IF Permits(authority, {WholeDocument}) THEN {Publishable(d)} ELSE {}

\* query_formula_reasoning
FormulaReasoning(d, state, authority, target) ==
    LET stored == StoredAt(d, target)
        facts == [expression |-> stored,
                  inputs |-> DependenciesOf(state.graph, target),
                  dependents |-> DirectDependents(state.graph, target),
                  affected |-> AffectedBy(state.graph, target),
                  calculation |-> NodeProjection(state, target)]
        named == facts.inputs \union facts.dependents \union facts.affected
                   \union Evidence(facts.calculation) \union {target}
        required == IF stored = {} THEN {WholeDocument}
                    ELSE IF target \in FormulaCells(d) THEN {FieldScope(d, c) : c \in named}
                    ELSE {FieldScope(d, target)}
    IN IF ~Permits(authority, required) THEN <<"denied">>
       ELSE IF stored = {} THEN <<"unresolved", target>>
       ELSE IF target \notin FormulaCells(d) THEN <<"unsupported", Kind(The(stored))>>
       ELSE <<"formula", facts, ReportFor(d, authority)>>

-----------------------------------------------------------------------------
\* Number-override scenarios, on a candidate that is never published.  The
\* overrides map cells to numbers.

\* Overridden, mutated: of several overrides one is applied.
OverriddenFirst(d, overrides) ==
    LET cell == First(DOMAIN overrides)
    IN [d EXCEPT !.entities[cell[1]].fields[cell[2]] = NumberValue(overrides[cell])]

\* scenario_candidate
Overridden(d, overrides) ==
    LET value(e, f) ==
            IF <<e, f>> \in DOMAIN overrides THEN NumberValue(overrides[<<e, f>>]) ELSE Stored(d, <<e, f>>)
        row(e) == [d.entities[e] EXCEPT !.fields = [f \in DOMAIN @ |-> value(e, f)]]
    IN [d EXCEPT !.entities = [e \in DOMAIN @ |-> row(e)]]

\* scenario_impact: a difference is told only between documents that v1 has
\* words for, and complete calculations.
ScenarioImpact(d, after, baseline, candidate) ==
    LET affected == {f \in FormulaCells(d) : Entry(baseline.values, f) # Entry(candidate.values, f)}
        changed == {c \in Cells(d) : Stored(d, c) # Stored(after, c)} \union affected
    IN IF /\ Comparison!UnsupportedByV1(d, after) = {}
          /\ baseline.failures = <<>> /\ candidate.failures = <<>>
       THEN {[changed |-> changed, affected |-> affected]} ELSE {}

\* scenario_target_outcome: each target is denied by itself.
ScenarioTarget(d, baseline, candidate, authority, target) ==
    LET stored == StoredAt(d, target)
        facts == [expression |-> stored,
                  inputs |-> DependenciesOf(baseline.graph, target),
                  dependents |-> DirectDependents(baseline.graph, target),
                  baseline |-> NodeProjection(baseline, target),
                  candidate |-> NodeProjection(candidate, target)]
        named == facts.inputs \union facts.dependents \union {target}
                   \union Evidence(facts.baseline) \union Evidence(facts.candidate)
        required == IF stored = {} THEN {WholeDocument}
                    ELSE IF target \in FormulaCells(d) THEN {FieldScope(d, c) : c \in named}
                    ELSE {FieldScope(d, target)}
    IN IF stored # {} /\ Declaration(d, target) = {} THEN <<"denied">>
       ELSE IF ~Permits(authority, required) THEN <<"denied">>
       ELSE IF stored = {} THEN <<"unresolved">>
       ELSE IF target \notin FormulaCells(d) THEN <<"unsupported", Kind(The(stored))>>
       ELSE <<"formula", facts>>

\* require_scenario_source_query and authorize_and_classify_overrides
ScenarioAdmitted(d, authority, overrides, targets) ==
    LET source == IF targets = {} THEN {WholeDocument} ELSE {FieldScope(d, c) : c \in targets}
    IN IF overrides = <<>> THEN \E scope \in source : Permits(authority, {scope})
       ELSE Permits(authority, {FieldScope(d, c) : c \in DOMAIN overrides})
OverrideFailures(d, overrides) ==
    {<<c, {Kind(v) : v \in StoredAt(d, c)}>> :
        c \in {c \in DOMAIN overrides : {Kind(v) : v \in StoredAt(d, c)} # {"number"}}}

\* query_number_override_scenario past its envelope
Scenario(d, authority, overrides, targets) ==
    LET after == Overridden(d, overrides)
        baseline == Rebuilt(d)
        candidate == Rebuilt(after)
        impact == {i \in ScenarioImpact(d, after, baseline, candidate) :
                     Permits(authority, {FieldScope(d, c) : c \in i.changed \union i.affected})}
        outcome(t) == ScenarioTarget(d, baseline, candidate, authority, t)
    IN IF ~ScenarioAdmitted(d, authority, overrides, targets) THEN <<"denied">>
       ELSE IF OverrideFailures(d, overrides) # {} THEN <<"invalid", OverrideFailures(d, overrides)>>
       ELSE <<"evaluated", impact, [t \in targets |-> outcome(t)],
              <<ReportFor(d, authority), {Publishable(after) : report \in ReportFor(d, authority)}>>>>

-----------------------------------------------------------------------------
\* Field capabilities: {} where an operation applies, or the reason why not.

InputKinds == {"number", "text", "boolean", "date", "reference"}

\* field_value_input_rule
ValueApplicability(f, stored, kind) ==
    IF \E v \in stored : Kind(v) = "formula" THEN {"formula_edit"}
    ELSE IF kind # f.type[1] THEN {"type_mismatch"}
    ELSE {}

\* number_override_target_is_applicable, mutated: a formula has a number too.
CalculatedOverride(stored) ==
    IF stored = {} THEN {"missing_value"}
    ELSE {"unsupported" : v \in {v \in stored : Kind(v) \notin {"number", "formula"}}}

OverrideApplicability(stored) ==
    IF stored = {} THEN {"missing_value"}
    ELSE {"unsupported" : v \in {v \in stored : Kind(v) # "number"}}

ReasoningApplicability(stored) ==
    IF stored = {} THEN {"missing_value"}
    ELSE {"not_formula" : v \in {v \in stored : Kind(v) # "formula"}}

\* describe_field_capabilities, an option: none of a field that is not declared,
\* or required and blank.
CapabilitiesOf(d, target) ==
    LET stored == StoredAt(d, target)
    IN {[values |-> [kind \in InputKinds |-> ValueApplicability(f, stored, kind)],
         formula |-> IF f.type = NumberType THEN {} ELSE {"non_numeric"},
         reasoning |-> ReasoningApplicability(stored),
         override |-> OverrideApplicability(stored)] :
            f \in {f \in Declaration(d, target) : f.required => stored # {}}}

\* query_field_capabilities: of the field of the row, and of the table's field.
Capabilities(d, authority, target) ==
    LET required ==
            {FieldScope(d, target)}
              \union {SchemaFieldScope(d.entities[target[1]].schema, target[2]) : f \in Declaration(d, target)}
    IN IF ~Permits(authority, required) THEN <<"denied">>
       ELSE IF CapabilitiesOf(d, target) = {} THEN <<"unresolved", target>>
       ELSE <<"field", The(CapabilitiesOf(d, target))>>

-----------------------------------------------------------------------------
\* What a scope shows of a document: of one cell, of a row, of a column or of a table.
CellShown(d, cell) == {<<f.type, f.required, StoredAt(d, cell)>> : f \in Declaration(d, cell)}
RowShown(d, e) == {<<x.schema, x.schema \in DOMAIN d.schemas>> : x \in Entry(d.entities, e)}
ColumnShown(d, column) == {f.type : f \in DefinitionsOf(d, column)}
Columnwise(fields) == [f \in DOMAIN fields |-> fields[f].type]
TableShown(d, s) == {<<RowsOf(d, s), Columnwise(x.fields)>> : x \in Entry(d.schemas, s)}

Shown(d, scope) ==
    IF scope[2] # {} /\ scope[3] # {} THEN CellShown(d, <<The(scope[2]), The(scope[3])>>)
    ELSE IF scope[2] # {} THEN RowShown(d, The(scope[2]))
    ELSE IF scope[3] # {} THEN ColumnShown(d, <<The(scope[1]), The(scope[3])>>)
    ELSE IF scope[1] # {} THEN TableShown(d, The(scope[1]))
    ELSE {d}

Scopes(d) ==
    {WholeDocument}
      \union {SchemaScope(s) : s \in DOMAIN d.schemas}
      \union {SchemaFieldScope(c[1], c[2]) : c \in Columns(d)}
      \union {EntityScope(d, e) : e \in DOMAIN d.entities}
      \union {FieldScope(d, c) : c \in (DOMAIN d.entities) \X {c[2] : c \in Columns(d)}}
Facts(d, authority) ==
    [scope \in {scope \in Scopes(d) : Permits(authority, {scope})} |-> Shown(d, scope)]

\* An analysis is told only what its principal may see: as long as a publication
\* changes nothing under a principal's scopes, every analysis gives that
\* principal the answer it gave before, refusals and failures included
\* (prepare_analysis derives its requirements before anything is evaluated).
AnalysesKeepToScope ==
    LET id == document.id
        before == Rebuilt(document)
        after == Rebuilt(document')
    IN \A authority \in Authorities[id] :
         Facts(document, authority) = Facts(document', authority) =>
            \A q \in UNION Entry(Analyses, id) :
                Analysis(document, before, authority, q) = Analysis(document', after, authority, q)

\* A formula that is explained before and after such a publication is explained
\* alike, but for what it comes to: its inputs, its dependents and everything
\* they affect (query_formula_reasoning).
ReasoningKeepsToScope ==
    LET before == Rebuilt(document)
        after == Rebuilt(document')
        facts(answer) == [answer[2] EXCEPT !.calculation = {}]
    IN \A authority \in Authorities[document.id] :
         Facts(document, authority) = Facts(document', authority) =>
            \A target \in FormulaCells(document) :
                LET old == FormulaReasoning(document, before, authority, target)
                    new == FormulaReasoning(document', after, authority, target)
                IN old[1] = "formula" /\ new[1] = "formula" => facts(old) = facts(new)

\* The columns that formulas read without there being a row in them.
EmptyColumns(d) ==
    {k \in UNION {Formula(d, c).columns : c \in FormulaCells(d)} : Slots(d, k) = {}}

\* The exact facts a grouped sum requires beside the document's scope are all it
\* depends on, as long as the empty columns that formulas read are declared alike:
\* of such a column there is no cell to require
\* (authorize_keyed_grouped_sum_query derives "the complete disclosure footprint").
GroupedSumsKeepToFootprint ==
    \A x \in document.definitions \intersect document'.definitions :
        LET footprint == SumRequirements(document, x) \ {WholeDocument}
            empty == EmptyColumns(document) \union EmptyColumns(document')
        IN /\ StructureFits(document) /\ StructureFits(document')
           /\ Derivable(document, x) /\ Derivable(document', x)
           /\ footprint = SumRequirements(document', x) \ {WholeDocument}
           /\ \A scope \in footprint : Shown(document, scope) = Shown(document', scope)
           /\ \A k \in empty : /\ k[1] \in DOMAIN document.schemas <=> k[1] \in DOMAIN document'.schemas
                              /\ DefinitionsOf(document, k) = DefinitionsOf(document', k)
           => GroupedSum(document, Rebuilt(document), x) = GroupedSum(document', Rebuilt(document'), x)

AnswersKeepToTheirGrant == [][AnalysesKeepToScope /\ ReasoningKeepsToScope /\ GroupedSumsKeepToFootprint]_vars

\* The parts of a grouped answer are the ungrouped answer.
Parts(d, state, q) ==
    LET everything == {WholeDocument}
        answer(definition) == Analysis(d, state, everything, definition)
        grouped == answer(q)
        whole == answer([q EXCEPT !.group = {}])
        request(kind) == {r \in ToSet(q.results) : r[1] = kind}
        members == [key \in DOMAIN grouped[2] |-> grouped[2][key][<<"membership", {}>>]]
    IN grouped[1] = "groups" =>
         /\ whole[1] = "rows"
         /\ \A r \in request("membership") :
              /\ UNION Range(members) = whole[2][r]
              /\ \A a, b \in DOMAIN members : a # b => members[a] \intersect members[b] = {}
         /\ \A r \in request("count") :
              whole[2][r] = MapThenSumSet(LAMBDA key : grouped[2][key][r], DOMAIN grouped[2])
         /\ \A r \in request("maximum") :
              UNION {grouped[2][key][r] : key \in DOMAIN grouped[2]} # {} =>
                 whole[2][r] = {Max(UNION {grouped[2][key][r] : key \in DOMAIN grouped[2]})}

\* A saved grouped sum is the sum over all orders of what the retained
\* calculation has for quantity and price, each with the one product of its key.
SumsAllOrders(d, state, x) ==
    LET sum == GroupedSum(d, Rebuilt(d), x)
        numbers == [c \in CalculationCells(d) |-> state.values[c][2]]
        pairs == {pair \in RowsOf(d, x.orders) \X RowsOf(d, x.products) :
                    StoredAt(d, <<pair[1], x.lookup>>) = StoredAt(d, <<pair[2], x.key>>)}
        amount(pair) == numbers[<<pair[1], x.quantity>>] * numbers[<<pair[2], x.price>>]
    IN sum[1] = "complete" /\ state.failures = <<>> =>
         /\ Cardinality(pairs) = Cardinality(RowsOf(d, x.orders))
         /\ sum[2] = [category \in {Stored(d, <<pair[2], x.category>>) : pair \in pairs} |->
                        MapThenSumSet(amount, {pair \in pairs :
                            Stored(d, <<pair[2], x.category>>) = category})]

\* No answer leaves a row out or counts one twice (group_entities, build_bucket,
\* evaluate_keyed_grouped_sum).  kept is the retained calculation, an option.
AnswersAddUp(d, kept) ==
    /\ \A q \in UNION Entry(Analyses, d.id) : q.group # {} => Parts(d, Rebuilt(d), q)
    /\ \A state \in kept : \A x \in d.definitions : SumsAllOrders(d, state, x)

\* A publication that replaces stored numbers by numbers, as overrides.
NumbersReplaced ==
    LET cells == {c \in Cells(document) \intersect Cells(document') : Stored(document, c) # Stored(document', c)}
    IN {[c \in cells |-> Stored(document', c)[2]] :
        only \in {TRUE} \intersect
           {/\ cells # {} /\ Cells(document) = Cells(document')
            /\ DOMAIN document.entities = DOMAIN document'.entities
            /\ \A c \in cells : Kind(Stored(document, c)) = "number" /\ Kind(Stored(document', c)) = "number"
            /\ [document EXCEPT !.entities = <<>>] = [document' EXCEPT !.entities = <<>>]
            /\ \A e \in DOMAIN document.entities :
                 [document.entities[e] EXCEPT !.fields = <<>>] = [document'.entities[e] EXCEPT !.fields = <<>>]}}

\* A scenario foretells what publishing its overrides brings: what each formula
\* shows, and no field is told affected that the publication does not name
\* (query_number_override_scenario against the retained calculation).
ScenarioForetells ==
    \A overrides \in NumbersReplaced :
        LET targets == {c \in FormulaCells(document) : Declaration(document, c) # {}}
            answer == Scenario(document, {WholeDocument}, overrides, targets)
        IN covered' =>
             /\ answer[1] = "evaluated"
             /\ \A t \in targets : answer[3][t][2].candidate = NodeProjection(calculation', t)
             /\ \A impact \in answer[2] :
                  /\ impact.changed \subseteq notice'.fields \union notice'.calculations
                  /\ impact.affected \subseteq notice'.calculations
ScenariosForetellPublications == [][ScenarioForetells]_vars

\* What discovery tells of a declared field is what the operations then do with
\* it: a value of a kind it refuses never passes validation, unless a formula is
\* in its way, and a formula, a scenario and an explanation are taken where it
\* says so.
IsHonest(d, told, target) ==
    LET everything == {WholeDocument}
        f == The(Declaration(d, target))
        values == {NumberValue(0), TextValue("a"), <<"boolean", TRUE>>, DateValue(0)}
                    \union {ReferenceValue(e) : e \in DOMAIN d.entities}
        fits(v) == ValueFits(d, [f EXCEPT !.constraint = {}], v)
        explained == FormulaReasoning(d, Rebuilt(d), everything, target)
        scenario == Scenario(d, everything, [cell \in {target} |-> 0], {})
    IN /\ \A v \in values : fits(v) => told.values[Kind(v)] \in {{}, {"formula_edit"}}
       /\ \A v \in values : told.values[Kind(v)] = {} => fits(v) \/ Kind(v) = "reference"
       /\ told.formula = {} <=> ValueFits(d, f, FormulaValue([op |-> "sum"]))
       /\ told.reasoning = {} <=> explained[1] = "formula"
       /\ told.override = {} <=> scenario[1] = "evaluated"

CapabilitiesAreHonest(d) ==
    LET cells == (DOMAIN d.entities) \X {c[2] : c \in Columns(d)}
    IN \A authority \in Authorities[d.id] : \A target \in cells :
         LET answer == Capabilities(d, authority, target)
         IN answer[1] = "field" => IsHonest(d, answer[2], target)

\* No two queries disagree about one document, before a publication or after it
\* (analysis_operations.rs, keyed_grouped_sum_operations.rs, capability_discovery.rs).
QueriesAgreeOn(d, kept) == AnswersAddUp(d, kept) /\ CapabilitiesAreHonest(d)
QueriesAgree ==
    [][/\ QueriesAgreeOn(document, {calculation : only \in {covered} \intersect {TRUE}})
       /\ QueriesAgreeOn(document', {calculation' : only \in {covered'} \intersect {TRUE}})]_vars
=============================================================================

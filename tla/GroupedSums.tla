----------------------------- MODULE GroupedSums -----------------------------
(***************************************************************************)
(* The saved keyed lookup and grouped sum: every order finds the one        *)
(* product with its key, and price times quantity is summed by category     *)
(* (keyed_grouped_sum_operations.rs of workspace-engine and                 *)
(* keyed_grouped_sum.rs of semantic-core), and what its answer requires     *)
(* (patch_lifecycle.rs).                                                    *)
(*                                                                          *)
(* A definition is a record [orders, lookup, quantity, products, key,       *)
(* category, price] of schema and field ids; a document saves one at most.  *)
(* Numbers are natural, and what lies above LargestNumber is not finite.    *)
(***************************************************************************)
EXTENDS QueryScopes

CONSTANTS
    MaxGroups,       \* MAX_KEYED_GROUPED_SUM_GROUPS
    MaxAmbiguous,    \* MAX_KEYED_GROUPED_SUM_AMBIGUITY_CANDIDATES
    LargestNumber

\* validate_keyed_grouped_sum_definitions
BindingsHold(d, x) ==
    LET typed(s, f, type) ==
            \E schema \in Entry(d.schemas, s) : \E field \in Entry(schema.fields, f) : field.type = type
    IN /\ typed(x.orders, x.lookup, TextType) /\ typed(x.orders, x.quantity, NumberType)
       /\ typed(x.products, x.key, TextType) /\ typed(x.products, x.category, TextType)
       /\ typed(x.products, x.price, NumberType)

\* What is wrong with a cell that is to hold a text, or a number.
TextProblem(d, cell) ==
    IF StoredAt(d, cell) = {} THEN {<<"missing_input", cell>>}
    ELSE {<<"wrong_input_kind", cell>> : v \in {v \in StoredAt(d, cell) : Kind(v) # "text"}}
NumberProblem(d, cell) ==
    IF StoredAt(d, cell) = {} THEN {<<"missing_input", cell>>}
    ELSE {<<"wrong_input_kind", cell>> :
          v \in {v \in StoredAt(d, cell) : Kind(v) \notin {"number", "formula"}}}

\* LookupProblem, mutated: of several products with one key any will do.
LookupMissing(d, x, o, matches) ==
    IF TextProblem(d, <<o, x.lookup>>) # {} THEN TextProblem(d, <<o, x.lookup>>)
    ELSE IF matches = {} THEN {<<"missing_key", o, StoredAt(d, <<o, x.lookup>>)>>}
    ELSE {}

\* An order's key is to be found, once.
LookupProblem(d, x, o, matches) ==
    IF TextProblem(d, <<o, x.lookup>>) # {} THEN TextProblem(d, <<o, x.lookup>>)
    ELSE IF matches = {} THEN {<<"missing_key", o, StoredAt(d, <<o, x.lookup>>)>>}
    ELSE IF Cardinality(matches) = 1 THEN {}
    ELSE {<<"ambiguous_key", o, StoredAt(d, <<o, x.lookup>>),
            IF Cardinality(matches) > MaxAmbiguous THEN {} ELSE matches>>}

Matches(d, x, o) ==
    {p \in RowsOf(d, x.products) : StoredAt(d, <<p, x.key>>) = StoredAt(d, <<o, x.lookup>>)}

\* evaluate_keyed_grouped_sum: each stage is entered when the ones before it
\* found no problem, and all problems of a stage are told.
GroupedSum(d, state, x) ==
    LET products == RowsOf(d, x.products)
        orders == RowsOf(d, x.orders)
        product(o) == The(Matches(d, x, o))
        operands(o) == {<<o, x.quantity>>, <<product(o), x.price>>}
        formulas == (UNION {operands(o) : o \in orders}) \intersect FormulaCells(d)
        number(cell) == IF cell \in FormulaCells(d) THEN state.values[cell][2] ELSE Stored(d, cell)[2]
        amount(o) == number(<<o, x.quantity>>) * number(<<product(o), x.price>>)
        amountProblem(o) ==
            LET category == TextProblem(d, <<product(o), x.category>>)
                quantity == NumberProblem(d, <<o, x.quantity>>)
                price == NumberProblem(d, <<product(o), x.price>>)
            IN IF category # {} THEN category
               ELSE IF quantity # {} THEN quantity
               ELSE IF price # {} THEN price
               ELSE {<<"non_finite_number", {o}>> : overflow \in {TRUE} \intersect {amount(o) > LargestNumber}}
        keyProblems == UNION {TextProblem(d, <<p, x.key>>) : p \in products}
        lookupProblems == UNION {LookupProblem(d, x, o, Matches(d, x, o)) : o \in orders}
        amountProblems == UNION {amountProblem(o) : o \in orders}
        category(o) == Stored(d, <<product(o), x.category>>)
        amounts == [o \in orders |-> amount(o)]
        sums == [c \in {category(o) : o \in orders} |->
                    SumFunctionOnSet(amounts, {o \in orders : category(o) = c})]
        unavailable(problems) == <<"unavailable", problems>>
    IN IF x \notin d.definitions \/ ~BindingsHold(d, x) THEN unavailable({<<"invalid_definition">>})
       ELSE IF keyProblems # {} THEN unavailable(keyProblems)
       ELSE IF lookupProblems # {} THEN unavailable(lookupProblems)
       ELSE IF formulas # {} /\ state.failures # <<>> THEN unavailable({<<"formula_unavailable">>})
       ELSE IF amountProblems # {} THEN unavailable(amountProblems)
       ELSE IF Cardinality(DOMAIN sums) > MaxGroups THEN unavailable({<<"result_too_large">>})
       ELSE IF \E sum \in Range(sums) : sum > LargestNumber THEN unavailable({<<"non_finite_number", {}>>})
       ELSE <<"complete", sums>>

-----------------------------------------------------------------------------
\* What a grouped sum requires: keyed_grouped_sum_query_disclosures

\* keyed_grouped_sum_matched_products
MatchedOrders(d, x) ==
    {o \in RowsOf(d, x.orders) : /\ TextProblem(d, <<o, x.lookup>>) = {}
                                 /\ Cardinality(Matches(d, x, o)) = 1}

\* SumCells, mutated: the key is required of the matched products alone.
SumCellsOfMatches(d, x) ==
    LET matched == UNION {Matches(d, x, o) : o \in MatchedOrders(d, x)}
    IN (RowsOf(d, x.orders) \X {x.lookup, x.quantity}) \union (matched \X {x.key, x.category, x.price})

\* Every order, every product's key, the matched products and, where one of
\* their operands is a formula, every formula with the cells it reads.
SumCells(d, x) ==
    LET matched == UNION {Matches(d, x, o) : o \in MatchedOrders(d, x)}
        operands == (MatchedOrders(d, x) \X {x.quantity}) \union (matched \X {x.price})
        calculated == IF operands \intersect FormulaCells(d) = {} THEN {} ELSE FormulaCells(d)
    IN (RowsOf(d, x.orders) \X {x.lookup, x.quantity})
         \union (RowsOf(d, x.products) \X {x.key})
         \union (matched \X {x.category, x.price})
         \union calculated \union UNION {ExtractDependencies(d, Formula(d, c)) : c \in calculated}

\* validate_keyed_grouped_sum_bindings, and field_scope for every cell.
Derivable(d, x) ==
    LET declared(s, fs) == \E schema \in Entry(d.schemas, s) : fs \subseteq DOMAIN schema.fields
    IN /\ x \in d.definitions
       /\ declared(x.orders, {x.lookup, x.quantity})
       /\ declared(x.products, {x.key, x.category, x.price})
       /\ \A c \in SumCells(d, x) : Declaration(d, c) # {}

SumRequirements(d, x) ==
    {WholeDocument, SchemaScope(x.orders), SchemaScope(x.products)}
      \union {SchemaFieldScope(x.orders, f) : f \in {x.lookup, x.quantity}}
      \union {SchemaFieldScope(x.products, f) :
              f \in {x.key} \union UNION {{x.category, x.price} : o \in MatchedOrders(d, x)}}
      \union {FieldScope(d, c) : c \in SumCells(d, x)}

\* authorize_keyed_grouped_sum_query, then the evaluation.
GroupedSumAnswer(d, state, authority, x) ==
    IF ~Derivable(d, x) THEN <<"underivable">>
    ELSE IF ~Permits(authority, SumRequirements(d, x)) THEN <<"denied">>
    ELSE GroupedSum(d, state, x)
=============================================================================

-------------------------- MODULE MCResidentSession --------------------------
(* A small instance of WorkspaceQueries for TLC.  The book: two tables of   *)
(* the same columns, so that a row can move from one to the other, with     *)
(* formulas that read them across.  The shop: orders and products, with a   *)
(* saved grouped sum, of which analyses are asked.                          *)
EXTENDS WorkspaceQueries, DocumentEdits

Field(key, type, required) ==
    [key |-> key, name |-> {}, type |-> type, required |-> required, constraint |-> {}, format |-> {}]
Schema(key, fields) == [key |-> key, name |-> {}, order |-> {}, fields |-> fields]
Entity(key, schema, fields) == [key |-> key, schema |-> schema, fields |-> fields]

Plain == [op |-> "sum", test |-> {}, cells |-> {}, columns |-> {}]
Sum(cells) == FormulaValue([Plain EXCEPT !.cells = cells])
Ratio(cell) == FormulaValue([Plain EXCEPT !.op = "ratio", !.cells = {cell}])
IfBlank(test, cell) == FormulaValue([Plain EXCEPT !.op = "if_blank", !.test = {test}, !.cells = {cell}])
Total(columns) == FormulaValue([Plain EXCEPT !.op = "total", !.columns = columns])
Maximum(column) == FormulaValue([Plain EXCEPT !.op = "maximum", !.columns = {column}])
Blanks(column) == FormulaValue([Plain EXCEPT !.op = "blanks", !.columns = {column}])

Amounts == 1 :> Field("a", NumberType, FALSE) @@ 2 :> Field("b", NumberType, FALSE)

Book(rows) ==
    [id |-> "d", title |-> "t", definitions |-> {},
     schemas |-> 1 :> Schema("s", Amounts) @@ 2 :> Schema("u", Amounts),
     entities |-> rows]

\* Both tables' first columns are totaled, and a sum reads a total.
Totals ==
    Book(1 :> Entity("e", 1, 1 :> NumberValue(1) @@ 2 :> Total({<<1, 1>>, <<2, 1>>}))
         @@ 2 :> Entity("f", 2, 1 :> NumberValue(0) @@ 2 :> Sum({<<1, 1>>, <<1, 2>>})))

\* A formula may fail, a blank is tested, and a column is the maximum of formulas.
Ratios ==
    Book(1 :> Entity("e", 1, 1 :> NumberValue(1) @@ 2 :> Ratio(<<2, 1>>))
         @@ 2 :> Entity("f", 2, 1 :> NumberValue(1) @@ 2 :> Maximum(<<1, 2>>)))

Blank ==
    Book(1 :> Entity("e", 1, 1 :> NumberValue(1) @@ 2 :> Blanks(<<2, 1>>))
         @@ 2 :> Entity("f", 2, 2 :> IfBlank(<<2, 1>>, <<1, 2>>)))

\* Orders (fields 1 to 3) and products (4 to 6).
OrderFields ==
    1 :> Field("item", TextType, FALSE) @@ 2 :> Field("pieces", NumberType, FALSE)
    @@ 3 :> Field("product", ReferenceType(2), FALSE)
ProductFields ==
    4 :> Field("code", TextType, FALSE) @@ 5 :> Field("kind", TextType, FALSE)
    @@ 6 :> Field("price", NumberType, FALSE)
Definition == [orders |-> 1, lookup |-> 1, quantity |-> 2, products |-> 2, key |-> 4, category |-> 5, price |-> 6]

Product(key, code, kind, price) == Entity(key, 2, 4 :> TextValue(code) @@ 5 :> TextValue(kind) @@ 6 :> price)
Order(key, item, pieces, product) ==
    Entity(key, 1, 1 :> TextValue(item) @@ 2 :> pieces @@ 3 :> ReferenceValue(product))

Shop(rows) ==
    [id |-> "shop", title |-> "t", definitions |-> {Definition},
     schemas |-> 1 :> Schema("orders", OrderFields) @@ 2 :> Schema("products", ProductFields),
     entities |-> rows]

Priced ==
    Shop(1 :> Product("p", "a", "x", NumberValue(2)) @@ 2 :> Product("q", "b", "y", NumberValue(1))
         @@ 3 :> Order("o", "a", NumberValue(2), 1) @@ 4 :> Order("r", "b", NumberValue(1), 2))
\* A price and a quantity are formulas.
Derived ==
    Shop(1 :> Product("p", "a", "x", NumberValue(2)) @@ 2 :> Product("q", "b", "x", Sum({<<1, 6>>}))
         @@ 3 :> Order("o", "a", NumberValue(1), 1) @@ 4 :> Order("r", "b", Ratio(<<3, 2>>), 1))
Totaled ==
    Shop(1 :> Product("p", "a", "x", Total({<<1, 2>>})) @@ 2 :> Product("q", "b", "x", NumberValue(1))
         @@ 3 :> Order("o", "b", NumberValue(2), 2) @@ 4 :> Order("r", "b", NumberValue(1), 1))
\* Three categories, three orders: beyond the limits.
Many ==
    Shop(1 :> Product("p", "a", "x", NumberValue(1)) @@ 2 :> Product("q", "b", "y", NumberValue(1))
         @@ 6 :> Product("v", "c", "z", NumberValue(1))
         @@ 3 :> Order("o", "a", NumberValue(1), 1) @@ 4 :> Order("r", "b", NumberValue(1), 2)
         @@ 7 :> Order("w", "c", NumberValue(1), 6))
\* One key for two products, and soon for three.
Twins ==
    Shop(1 :> Product("p", "a", "x", NumberValue(1)) @@ 2 :> Product("q", "a", "y", NumberValue(1))
         @@ 3 :> Order("o", "a", NumberValue(1), 1) @@ 4 :> Order("r", "b", NumberValue(1), 2))

\* Orders have a date, and quantities a number format.
Dated ==
    LET placed(order, day) == [order EXCEPT !.fields = @ @@ 7 :> DateValue(day)]
        pieces == [OrderFields[2] EXCEPT !.format = {"0.00"}]
        shop == Shop(1 :> Product("p", "a", "x", NumberValue(1))
                     @@ 3 :> placed(Order("o", "a", NumberValue(2), 1), 1)
                     @@ 4 :> placed(Order("r", "a", NumberValue(1), 1), 2))
    IN [shop EXCEPT !.schemas[1].fields = 2 :> pieces @@ 7 :> Field("placed", DateType, FALSE) @@ @]

MCBases == {Totals, Ratios, Blank, Priced, Derived, Totaled, Many, Twins, Dated}
MCTitles == {"t"}
MCDefinitions == {{}}
MCSchemaFacets == [key |-> {"u"}]
MCFieldFacets == [key |-> {"b"}, type |-> {TextType}, required |-> {TRUE}]
MCEntityFacets == [key |-> {"f"}, schema |-> {1, 2}]
MCValues == {NumberValue(0), Sum({<<2, 2>>}), Total({<<1, 1>>, <<2, 1>>})}
MCNewSchemas == <<>>
MCNewFields == <<>>
MCNewEntities == 3 :> {Entity("g", 1, 1 :> NumberValue(2)),
                       Entity("g", 2, 1 :> NumberValue(2) @@ 2 :> Sum({<<1, 2>>}))}
MCBlankRows == 3 :> {Entity("g", 1, <<>>), Entity("g", 2, <<>>)}

\* The shop's edits, and a patch of two commands.
ShopValues ==
    {NumberValue(0), NumberValue(3), TextValue("a"), DateValue(3), ReferenceValue(2), Sum({<<1, 6>>})}
ShopRows == 5 :> {Product("s", "a", "x", NumberValue(2)), Order("s", "b", NumberValue(1), 1)}
ShopFacets == [key |-> {"k"}, schema |-> {1, 2}]
ShopEdits ==
    INSTANCE DocumentEdits WITH Titles <- {"t"}, Definitions <- {{}}, SchemaFacets <- MCSchemaFacets,
        FieldFacets <- MCFieldFacets, EntityFacets <- ShopFacets, Values <- ShopValues,
        NewSchemas <- <<>>, NewFields <- <<>>, NewEntities <- ShopRows
MorePieces(d) ==
    LET pieces == {c \in Cells(d) : c[2] = 2 /\ Kind(Stored(d, c)) = "number"}
    IN [d EXCEPT !.entities = [e \in DOMAIN @ |->
           IF <<e, 2>> \in pieces THEN [@[e] EXCEPT !.fields[2] = NumberValue(@[2] + 1)] ELSE @[e]]]

MCCandidates(d) ==
    IF d.id = "shop" THEN (ShopEdits!Edited(d) \union {MorePieces(d)}) \ {d} ELSE Edited(d)
MCMaxGeneration == [d |-> 3, shop |-> 1]
MCFewGenerations == [d |-> 2, shop |-> 1]

Cell(s, e, f) == <<{s}, {e}, {f}>>
Row(s, e) == <<{s}, {e}, {}>>
ShopAuthorities ==
    {{WholeDocument}, {SchemaScope(1)}, {SchemaScope(1), SchemaScope(2)}, {SchemaScope(2)},
     {Row(1, 3), Row(2, 1)}, {SchemaFieldScope(2, 6), Row(2, 1), Row(2, 2)},
     {Cell(2, 1, 6), Cell(2, 2, 6), Row(2, 1), Row(2, 2)}, {Row(1, 3), Row(1, 4), Row(2, 1), Row(2, 2)}}
MCAuthorities == [d |-> {}, shop |-> ShopAuthorities]

Asked(s, narrowing, predicates, group, results) ==
    [schema |-> s, narrowing |-> narrowing, predicates |-> predicates, group |-> group, results |-> results]
Membership == <<"membership", {}>>
Count == <<"count", {}>>
Most(f) == <<"maximum", {f}>>
ShopAnalyses ==
    {Asked(1, {}, <<>>, {}, <<Membership>>),
     Asked(1, {}, <<>>, {1}, <<Membership, Count, Most(2)>>),
     Asked(1, {}, <<<<2, ">", NumberValue(1)>>>>, {3}, <<Membership, Count>>),
     Asked(1, {<<3>>}, <<<<3, "=", ReferenceValue(1)>>, <<2, ">=", NumberValue(1)>>>>, {},
           <<Membership, <<"observations", {2}>>>>),
     Asked(1, {}, <<<<7, "<=", DateValue(2)>>>>, {7}, <<Membership, Count, Most(2)>>),
     Asked(1, {<<4, 3>>}, <<<<7, ">", DateValue(1)>>, <<2, "<", NumberValue(3)>>>>, {}, <<Membership, Count>>),
     Asked(2, {}, <<<<5, "#", TextValue("y")>>>>, {5}, <<Membership, <<"minimum", {6}>>, Most(6)>>),
     Asked(2, {<<1, 2, 1>>}, <<<<6, "<=", NumberValue(2)>>>>, {}, <<Count, Count>>),
     Asked(2, {<<1, 3>>}, <<>>, {6}, <<Membership>>),
     Asked(2, {<<>>}, <<>>, {}, <<Most(5)>>)}
MCAnalyses == [d |-> {}, shop |-> ShopAnalyses]
=============================================================================

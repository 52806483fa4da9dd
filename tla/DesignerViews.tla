---------------------------- MODULE DesignerViews ----------------------------
(***************************************************************************)
(* What a page asks of a Designer session: windows of a sorted and filtered *)
(* view, where a row is in it, the texts of a column, Find, and totals     *)
(* (query_table_window, locate_in_view, query_distinct_values,             *)
(* find_in_view, query_column_totals, query_view_totals and                *)
(* query_group_totals in packages/browser-client/runtime/src/lib.rs).      *)
(*                                                                         *)
(* A query leaves the document as it is, but it keeps the order it worked  *)
(* out, and the totals of the table, for the queries after it.             *)
(***************************************************************************)
EXTENDS DesignerSession

CONSTANTS
    Views,              \* the views a page asks for
    MaxViewEntries,     \* how many of their orders are kept (4 in the code)
    Displayed,          \* format -> number -> the text shown for it
    Folded,             \* text -> text, in lower case
    Fragments,          \* text in lower case -> the searched texts found in it
    Queries,            \* the texts a page searches for
    Rank                \* text order -> text -> its place in that order

ASSUME ViewEntriesAssumption == MaxViewEntries \in Nat \ {0}

VARIABLES
    viewIndex,          \* orders kept, last used first: [revision, view, order]
    totalsCache,        \* at most one: [revision, totals]
    answered            \* history: what the last query said of this document

viewCaches == <<viewIndex, totalsCache>>

\* A view is a record of
\*   sort    : sequence of [field, direction, textOrder]
\*   filters : set of [op, field] and what else that filter takes
\*   keep    : rows it shows whatever the filters say

QuotationMarks == "\"\""

\* view_value: a formula cell has the number it comes to.
ViewValue(cell) ==
    IF cell \in Calculated(doc) THEN {NumberValue(NumberOf(doc, cell))}
    ELSE {v \in Content(doc, cell) : Kind(v) # "formula"}

\* cell_text.  Mutated, an empty text shows as a blank cell does.
CellTextUnquoted(cell) ==
    IF ViewValue(cell) = {} THEN EmptyText
    ELSE LET value == The(ViewValue(cell))
         IN IF Kind(value) = "number" THEN Displayed[specs.columns[cell[2]].format][value[2]]
            ELSE value[2]

CellText(cell) ==
    IF ViewValue(cell) = {} THEN EmptyText
    ELSE LET value == The(ViewValue(cell))
             column == specs.columns[cell[2]]
         IN CASE Kind(value) = "number" -> Displayed[column.format][value[2]]
              [] value = TextValue(EmptyText) /\ ~column.required -> QuotationMarks
              [] OTHER -> value[2]

-----------------------------------------------------------------------------
(* The order of a view.                                                    *)

Compared(a, b) == IF a < b THEN "less" ELSE IF a = b THEN "equal" ELSE "greater"
Reversed(ordering) == CASE ordering = "less" -> "greater"
                        [] ordering = "equal" -> "equal"
                        [] ordering = "greater" -> "less"

\* compare_ordering: the orderings that pass a comparison.
Passing == [eq |-> {"equal"}, ne |-> {"less", "greater"}, lt |-> {"less"},
            lte |-> {"less", "equal"}, gt |-> {"greater"}, gte |-> {"greater", "equal"}]

\* plan_view: every key and filter names a column, of a type its value has.
FilterFits(filter) ==
    /\ filter.field \in DOMAIN specs.columns
    /\ LET type == specs.columns[filter.field].type
       IN CASE filter.op \in {"text_equals", "text_contains"} -> type = "text"
            [] filter.op = "number_compare" -> type = "number"
            [] filter.op = "in_set" -> \A v \in filter.values : Kind(v) = type
            [] OTHER -> TRUE

Planned(view) ==
    /\ \A i \in DOMAIN view.sort : view.sort[i].field \in DOMAIN specs.columns
    /\ \A filter \in view.filters : FilterFits(filter)

\* predicate_matches
TextContains(text, part) == Folded[part] \in Fragments[Folded[text]]

Alike(v, w) ==
    \/ v = w
    \/ Kind(v) = "text" /\ Kind(w) = "text" /\ Folded[v[2]] = Folded[w[2]]

Matches(filter, row) ==
    LET cell == <<row, filter.field>>
        value == ViewValue(cell)
    IN \/ filter.op = "is_blank" /\ value = {}
       \/ filter.op = "not_blank" /\ value # {}
       \/ filter.op = "text_equals" /\ \E v \in value : Folded[v[2]] = Folded[filter.text]
       \/ filter.op = "text_contains" /\ \E v \in value : TextContains(v[2], filter.text)
       \/ /\ filter.op = "number_compare"
          /\ \E v \in value : Compared(v[2], filter.number) \in Passing[filter.comparison]
       \/ filter.op = "in_set" /\ \E v \in value : \E w \in filter.values : Alike(v, w)
       \/ /\ filter.op = "display_contains"
          /\ TextContains(Trimmed[CellText(cell)], Trimmed[filter.text])
       \/ filter.op = "display_in" /\ CellText(cell) \in filter.texts

\* compare_view_rows: blanks last in either direction, then the id.
CompareAlong(key, left, right) ==
    LET v == ViewValue(<<left, key.field>>)
        w == ViewValue(<<right, key.field>>)
        place(value) == IF Kind(value) = "number" THEN value[2]
                        ELSE Rank[key.textOrder][value[2]]
        ordering == Compared(place(The(v)), place(The(w)))
    IN CASE v = {} /\ w = {} -> "equal"
         [] v = {} /\ w # {} -> "greater"
         [] v # {} /\ w = {} -> "less"
         [] OTHER -> IF key.direction = "asc" THEN ordering ELSE Reversed(ordering)

Precedes(sort, left, right) ==
    LET differing == {i \in DOMAIN sort : CompareAlong(sort[i], left, right) # "equal"}
    IN IF differing = {} THEN left < right
       ELSE CompareAlong(sort[Min(differing)], left, right) = "less"

Shown(view) ==
    {r \in specs.rows : r \in view.keep \/ (\A filter \in view.filters : Matches(filter, r))}

SortedBy(rows, before) ==
    SortSeq(IdOrder(rows), LAMBDA left, right : <<left, right>> \in before)

BuildViewOrder(view) ==
    SortedBy(Shown(view), {pair \in specs.rows \X specs.rows :
                             Precedes(view.sort, pair[1], pair[2])})

-----------------------------------------------------------------------------
(* What a query finds in the order of its view.                            *)

RowsOf(order) == {order[i] : i \in DOMAIN order}

\* The rows of query_table_window, from the start it comes down to.
Window(order, start, count) ==
    LET first == IF start < Len(order) THEN start ELSE Len(order)
        past == IF first + count < Len(order) THEN first + count ELSE Len(order)
    IN SubSeq(order, first + 1, past)

\* locate_in_view: the zero-based place of a row, if the view shows it.
Located(order, row) == {i - 1 : i \in {i \in DOMAIN order : order[i] = row}}

\* query_distinct_values: no text first, then in natural order.
DistinctValues(order, field) ==
    LET texts == {CellText(<<row, field>>) : row \in RowsOf(order)}
    IN SetToSortSeq(texts, LAMBDA s, t :
         IF EmptyText \in {s, t} THEN s = EmptyText ELSE Rank.natural[s] < Rank.natural[t])

\* find_view_matches: the matching cells as places of the grid of shown rows
\* and searched columns, in scan order.
FindViewMatches(order, fields, query) ==
    LET grid == [n \in 1 .. Len(order) * Len(fields) |->
                   <<((n - 1) \div Len(fields)) + 1, ((n - 1) % Len(fields)) + 1>>]
    IN SelectSeq(grid, LAMBDA at : TextContains(CellText(<<order[at[1]], fields[at[2]]>>), query))

\* Where a search begins that starts from no cell.
NoPlace == <<0, 0>>

Earlier(p, q) == p[1] < q[1] \/ (p[1] = q[1] /\ p[2] < q[2])

\* find_view_match, mutated: a match where the step starts is found again.
FindViewMatchHere(matches, from, direction) ==
    LET ahead == {i \in DOMAIN matches : ~Earlier(matches[i], from)}
        behind == {i \in DOMAIN matches : Earlier(matches[i], from)}
    IN IF direction = "next" THEN IF ahead = {} THEN 1 ELSE Min(ahead)
       ELSE IF behind = {} THEN Len(matches) ELSE Max(behind)

\* find_view_match: the index of the match a step from a place lands on.
FindViewMatch(matches, from, direction) ==
    LET ahead == {i \in DOMAIN matches : Earlier(from, matches[i])}
        behind == {i \in DOMAIN matches : Earlier(matches[i], from)}
    IN IF direction = "next" THEN IF ahead = {} THEN 1 ELSE Min(ahead)
       ELSE IF behind = {} THEN Len(matches) ELSE Max(behind)

SumOver(numbers) == MapThenSumSet(LAMBDA x : numbers[x], DOMAIN numbers)

\* NumberTotal: blanks are skipped, and anything else that is no number leaves
\* the column without a total.
NumberTotal(rows, column) ==
    LET cells == {cell \in rows \X {column} : Present(doc, cell)}
    IN IF \E cell \in cells : \A v \in ViewValue(cell) : Kind(v) # "number" THEN {}
       ELSE {SumOver([cell \in cells |-> The(ViewValue(cell))[2]])}

TextColumns == {c \in DOMAIN specs.columns : specs.columns[c].type = "text"}
NumberColumns == {c \in DOMAIN specs.columns : specs.columns[c].type = "number"}

\* totals_for_entities
TotalsFor(rows) == [c \in NumberColumns |-> NumberTotal(rows, c)]

\* group_key: the stored text, the empty one included, or nothing.
GroupKey(row, dimension) == Content(doc, <<row, dimension>>)

\* query_group_totals: a group for each combination of keys in the scope.
GroupTotals(dimensions, measures, scope) ==
    LET keys(row) == [d \in dimensions |-> GroupKey(row, d)]
        members(group) == {row \in scope : keys(row) = group}
    IN {[keys |-> group, rows |-> Cardinality(members(group)),
         totals |-> [m \in measures |-> NumberTotal(members(group), m)]] :
          group \in {keys(row) : row \in scope}}

-----------------------------------------------------------------------------
(* What a query keeps.                                                     *)

OfRevision(entries) ==
    LET kept[n \in 0 .. Len(entries)] ==
          CASE n = 0 -> <<>>
            [] n > 0 /\ entries[n].revision = revision -> Append(kept[n - 1], entries[n])
            [] OTHER -> kept[n - 1]
    IN kept[Len(entries)]

\* view_cache_key, mutated: the rows a view keeps are no part of its key.
ViewCacheKeyButKept(view) == <<view.sort, view.filters>>

ViewCacheKey(view) == view

Hits(view) ==
    {i \in DOMAIN OfRevision(viewIndex) :
       ViewCacheKey(OfRevision(viewIndex)[i].view) = ViewCacheKey(view)}

\* view_order: an order at hand becomes the last used, another is worked out
\* and the one used longest ago makes room.
ViewOrder(view) ==
    LET entries == OfRevision(viewIndex)
    IN IF Hits(view) # {}
       THEN LET i == Min(Hits(view)) IN <<entries[i]>> \o RemoveAt(entries, i)
       ELSE LET entry == [revision |-> revision, view |-> view,
                          order |-> BuildViewOrder(view)]
                next == <<entry>> \o entries
            IN SubSeq(next, 1, IF Len(next) > MaxViewEntries THEN MaxViewEntries ELSE Len(next))

\* window_column_totals, mutated: totals of any revision will do.
WindowColumnTotalsOnce ==
    IF totalsCache # {} THEN totalsCache
    ELSE {[revision |-> revision, totals |-> TotalsFor(specs.rows)]}

WindowColumnTotals ==
    IF \E cached \in totalsCache : cached.revision = revision THEN totalsCache
    ELSE {[revision |-> revision, totals |-> TotalsFor(specs.rows)]}

\* locate_in_view, query_distinct_values, find_in_view and query_view_totals
QueryView ==
    \E view \in Views :
        /\ Planned(view)
        /\ viewIndex' = ViewOrder(view)
        /\ answered' = {[view |-> view, order |-> Head(viewIndex').order, totals |-> {}]}
        /\ UNCHANGED <<vars, totalsCache>>

QueryTableWindow ==
    \E view \in Views :
        /\ Planned(view)
        /\ viewIndex' = ViewOrder(view)
        /\ totalsCache' = WindowColumnTotals
        /\ answered' = {[view |-> view, order |-> Head(viewIndex').order,
                         totals |-> {cached.totals : cached \in totalsCache'}]}
        /\ UNCHANGED vars

\* A view that names a column there is not, or compares it with a value of
\* another type, is refused once the orders of older revisions are dropped.
RefusedView ==
    /\ \E view \in Views : ~Planned(view)
    /\ viewIndex' = OfRevision(viewIndex)
    /\ UNCHANGED <<vars, totalsCache, answered>>

Query == QueryView \/ QueryTableWindow \/ RefusedView

ViewInit == Init /\ viewIndex = <<>> /\ totalsCache = {} /\ answered = {}

Request == Next /\ answered' = {} /\ UNCHANGED viewCaches

ViewNext == Request \/ Query

ViewSpec == ViewInit /\ [][ViewNext]_<<vars, viewCaches, answered>>

-----------------------------------------------------------------------------
\* The structure a request reads is that of the document, and so are the order
\* and the totals a query is answered with, whatever was asked and published
\* since they were worked out (publish_commands, view_order and
\* window_column_totals).
CachesAreCurrent ==
    /\ StructureIsCurrent
    /\ \A answer \in answered :
         /\ answer.order = BuildViewOrder(answer.view)
         /\ answer.totals \subseteq {TotalsFor(specs.rows)}

WithFilter(view, filter) == [view EXCEPT !.filters = @ \union {filter}]

\* A row is located where a window shows it, and nowhere if none does.
LocatedWhereShown(order) ==
    \A row \in specs.rows :
        LET places == Located(order, row)
        IN /\ Cardinality(places) = IF row \in RowsOf(order) THEN 1 ELSE 0
           /\ \A i \in places : Window(order, i, 1) = <<row>>

\* Find comes by every match once before it comes by one again, in either
\* direction, and a step back undoes a step.  What it finds is what the filter
\* for the same text shows.
FindVisitsEveryMatch(view, order, fields, query) ==
    LET matches == FindViewMatches(order, fields, query)
        step(at, direction) == matches[FindViewMatch(matches, at, direction)]
        walk[direction \in {"next", "previous"}, n \in 0 .. Len(matches)] ==
          IF n = 0 THEN NoPlace ELSE step(walk[direction, n - 1], direction)
        found == {order[matches[i][1]] : i \in DOMAIN matches}
    IN matches # <<>> =>
         /\ \A direction \in {"next", "previous"} :
              {walk[direction, n] : n \in DOMAIN matches} = ToSet(matches)
         /\ \A at \in ToSet(matches) : step(step(at, "next"), "previous") = at
         /\ found \subseteq
              UNION {Shown(WithFilter(view, [op |-> "display_contains", field |-> fields[i],
                                             text |-> query])) : i \in DOMAIN fields}

\* The texts listed for a column divide the rows of a view: the filter for
\* one of them shows some, no row is shown for two, and none is left out.
\* The rows of a Text column fall into groups along the same lines, each with
\* the totals of the rows that the filter shows.
ListedTextsDivide(view, order, field) ==
    LET texts == ToSet(DistinctValues(order, field))
        shown(text) == Shown(WithFilter(view, [op |-> "display_in", field |-> field,
                                               texts |-> {text}]))
        groups == GroupTotals({field}, NumberColumns, RowsOf(order))
    IN /\ \A text \in texts : shown(text) # {}
       /\ \A s, t \in texts : s # t => shown(s) \intersect shown(t) = {}
       /\ UNION {shown(text) : text \in texts} = RowsOf(order)
       /\ specs.columns[field].type = "text" =>
            {<<group.rows, group.totals>> : group \in groups}
              = {<<Cardinality(shown(text)), TotalsFor(shown(text))>> : text \in texts}

\* However the rows of a view are grouped, each is in one group, and where the
\* groups have totals these add up to that of the view.
GroupsAddUp(order, dimensions) ==
    LET groups == GroupTotals(dimensions, NumberColumns, RowsOf(order))
        totals(column) == {group.totals[column] : group \in groups}
    IN /\ MapThenSumSet(LAMBDA group : group.rows, groups) = Len(order)
       /\ \A column \in NumberColumns :
            IF {} \in totals(column) THEN TotalsFor(RowsOf(order))[column] = {}
            ELSE TotalsFor(RowsOf(order))[column]
                   = {MapThenSumSet(LAMBDA group : The(group.totals[column]), groups)}

SearchedFields == {<<c>> : c \in DOMAIN specs.columns}
                  \union {<<p[1], p[2]>> : p \in
                            {p \in (DOMAIN specs.columns) \X (DOMAIN specs.columns) : p[1] # p[2]}}

\* What the queries say of one view goes together, although each reads the
\* table on its own (query_table_window, locate_in_view, find_in_view,
\* query_distinct_values, query_view_totals and query_group_totals).
QueriesAgree ==
    \A view \in {v \in Views : Planned(v)} :
        LET order == BuildViewOrder(view)
        IN /\ LocatedWhereShown(order)
           /\ \A fields \in SearchedFields, query \in Queries :
                FindVisitsEveryMatch(view, order, fields, query)
           /\ view.keep = {} =>
                \A field \in DOMAIN specs.columns : ListedTextsDivide(view, order, field)
           /\ \A c1, c2 \in TextColumns : GroupsAddUp(order, {c1, c2})
=============================================================================

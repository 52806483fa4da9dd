---------------------------- MODULE MCBranchMerge ----------------------------
(* A small instance of BranchMerge for TLC: a table of two columns, one     *)
(* row, a second table to move it to, and one more of each to add.          *)
EXTENDS BranchMerge

Field(key, type) ==
    [key |-> key, name |-> {}, type |-> type, required |-> FALSE, constraint |-> {}, format |-> {}]
Schema(key, fields) == [key |-> key, name |-> {}, order |-> {}, fields |-> fields]
Entity(key, schema, fields) == [key |-> key, schema |-> schema, fields |-> fields]

Columns == 1 :> Field("a", NumberType) @@ 2 :> Field("b", NumberType)

AllColumns == Columns @@ 3 :> Field("c", NumberType) @@ 4 :> Field("d", NumberType)

Plain ==
    [id |-> "d", title |-> "t", definitions |-> {},
     schemas |-> 1 :> Schema("s", Columns) @@ 2 :> Schema("u", 1 :> Field("a", NumberType)),
     entities |-> 1 :> Entity("e", 1, 1 :> NumberValue(1))]

Ordered == [Plain EXCEPT !.schemas[1].order = {<<2, 1>>}]

MCTitles == {"t", "w"}
MCDefinitions == {{}, {<<1, 1>>}}
MCSchemaFacets == [key |-> {"s", "u", "v"}, name |-> {{}, {"n"}}]
MCFieldFacets ==
    [key |-> {"k"}, name |-> {{}, {"n"}}, type |-> {TextType}, required |-> BOOLEAN,
     constraint |-> {{}, {{NumberValue(1)}}}, format |-> {{"0.0"}}]
MCEntityFacets == [key |-> {"k"}, schema |-> {1, 2}]
MCValues == {NumberValue(1), NumberValue(2), FormulaValue(<<1, 1>>), FormulaValue(<<1, 2>>)}
MCNewSchemas == 3 :> {Schema("x", 1 :> Field("a", NumberType)), Schema("x", <<>>)}
MCNewFields ==
    1 :> {Field("a", NumberType)} @@ 3 :> {Field("c", NumberType), Field("c", TextType)}
    @@ 4 :> {Field("d", NumberType)}
MCNewEntities == 2 :> {Entity("f", 1, <<>>), Entity("f", 2, 1 :> NumberValue(1))}

(* A table with nothing but columns to add, remove and move, for longer     *)
(* edits.                                                                   *)
Table(order) ==
    [id |-> "d", title |-> "t", definitions |-> {}, entities |-> <<>>,
     schemas |-> 1 :> [Schema("s", Columns) EXCEPT !.order = order]]
MCTables == {Table({}), Table({<<2, 1>>})}
MCBases == {Plain, Ordered} \union MCTables
MCNone == <<>>
MCTitle == {"t"}
MCNoDefinition == {{}}
MCNoValues == {}
MCColumns == 3 :> {Field("c", NumberType)} @@ 4 :> {Field("d", NumberType)}

VARIABLE columnsOnly    \* which of the two this session edits
WholeEdits == 2     \* the bound of edits to whole documents

MCInit == Init /\ columnsOnly = (base \in MCTables)

\* Nothing but the columns there are, and their order, has changed, or the
\* table is gone.
OnlyColumns(d) ==
    /\ \A i \in DOMAIN d.schemas : \A f \in DOMAIN d.schemas[i].fields :
         d.schemas[i].fields[f] = AllColumns[f]
    /\ d = [Table({}) EXCEPT !.schemas =
              [i \in DOMAIN d.schemas |->
                 [Schema("s", d.schemas[i].fields) EXCEPT !.order = d.schemas[i].order]]]

WithinFamily(d) ==
    IF columnsOnly THEN OnlyColumns(d) ELSE \A s \in DOMAIN d.schemas : 4 \notin DOMAIN d.schemas[s].fields

MCEdit ==
    /\ columnsOnly \/ edits < WholeEdits
    /\ \/ EditOurs /\ WithinFamily(ours')
       \/ EditTheirs /\ WithinFamily(theirs')

MCNext ==
    /\ MCEdit \/ MergeBranches \/ PreviewMergeV2 \/ WriteMerged \/ Dismiss
    /\ UNCHANGED columnsOnly

MCSpec == MCInit /\ [][MCNext]_<<vars, columnsOnly>>
=============================================================================

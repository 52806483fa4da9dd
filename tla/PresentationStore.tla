-------------------------- MODULE PresentationStore --------------------------
(***************************************************************************)
(* The styles, table presentations, rules and cell styles kept beside a    *)
(* document (semantic-core presentation.rs): which stores belong to a      *)
(* document, and what is left of a store when the document has lost rows   *)
(* or columns.                                                             *)
(*                                                                         *)
(* Of a document only its shape matters: schemas, a function from tables   *)
(* to their fields, and rows, a set.  A style is its content: its id is a  *)
(* digest of it.  A rule reads the columns its condition names.            *)
(***************************************************************************)
EXTENDS Naturals, FiniteSets, Functions

CONSTANT TableOf        \* row -> the table it belongs to, for its whole life

Columns(d) == UNION {{s} \X d.schemas[s] : s \in DOMAIN d.schemas}

\* The types of a table's presentation and of a store.
IsTable(table) ==
    /\ table = [title |-> table.title, footer |-> table.footer, columns |-> table.columns]
    /\ table.title \in BOOLEAN
IsStore(store) ==
    /\ store = [styles |-> store.styles, tables |-> store.tables, rules |-> store.rules, cells |-> store.cells]
    /\ \A s \in DOMAIN store.tables : IsTable(store.tables[s])

NoPresentation == [styles |-> {}, tables |-> <<>>, rules |-> <<>>, cells |-> <<>>]

\* The styles that a table, a rule or a cell uses.
UsedStyles(tables, rules, cells) ==
    (UNION {Range(tables[s].columns) : s \in DOMAIN tables})
      \union {rules[r].style : r \in DOMAIN rules} \union Range(cells)

\* RuleSurvives, mutated: what the condition reads is not looked at.
RuleSurvivesItsFields(rule, d) == ({rule.schema} \X rule.fields) \subseteq Columns(d)

\* rule_survives_prune: all it paints and all it reads is there.
RuleSurvives(rule, d) ==
    /\ rule.schema \in DOMAIN d.schemas
    /\ (({rule.schema} \X rule.fields) \union rule.reads) \subseteq Columns(d)

\* prune_presentation
Prune(store, d) ==
    LET left(s) ==
            [store.tables[s] EXCEPT !.footer = @ \intersect d.schemas[s],
                                    !.columns = Restrict(@, DOMAIN @ \intersect d.schemas[s])]
        content(s) == left(s).title \/ left(s).footer # {} \/ DOMAIN left(s).columns # {}
        tables == [s \in {t \in DOMAIN store.tables \intersect DOMAIN d.schemas : content(t)} |-> left(s)]
        rules == Restrict(store.rules, {r \in DOMAIN store.rules : RuleSurvives(store.rules[r], d)})
        cells == Restrict(store.cells, {c \in DOMAIN store.cells :
                                          c[1] \in d.rows /\ <<TableOf[c[1]], c[2]>> \in Columns(d)})
    IN [styles |-> store.styles \intersect UsedStyles(tables, rules, cells),
        tables |-> tables, rules |-> rules, cells |-> cells]

\* validate_presentation, but for the limits and the spelling of a style.
Belongs(store, d) ==
    /\ \A s \in DOMAIN store.tables :
         /\ s \in DOMAIN d.schemas
         /\ store.tables[s].title \/ store.tables[s].footer # {} \/ DOMAIN store.tables[s].columns # {}
         /\ store.tables[s].footer \union DOMAIN store.tables[s].columns \subseteq d.schemas[s]
    /\ \A r \in DOMAIN store.rules :
         /\ store.rules[r].schema \in DOMAIN d.schemas
         /\ store.rules[r].fields # {}
         /\ ({store.rules[r].schema} \X store.rules[r].fields) \union store.rules[r].reads \subseteq Columns(d)
    /\ \A c \in DOMAIN store.cells : c[1] \in d.rows /\ <<TableOf[c[1]], c[2]>> \in Columns(d)
    /\ store.styles = UsedStyles(store.tables, store.rules, store.cells)

-----------------------------------------------------------------------------
\* Every store that holds some of another one's records and settings.
Some(f) == {Restrict(f, S) : S \in SUBSET DOMAIN f}
SomeOfTable(table) ==
    {[title |-> title, footer |-> footer, columns |-> columns] :
       title \in {FALSE, table.title}, footer \in SUBSET table.footer, columns \in Some(table.columns)}
SomeTables(tables) ==
    UNION {{f \in [S -> UNION {SomeOfTable(tables[s]) : s \in S}] :
              \A s \in S : f[s] \in SomeOfTable(tables[s])} :
           S \in SUBSET DOMAIN tables}
Parts(store) ==
    [styles : SUBSET store.styles, tables : SomeTables(store.tables),
     rules : Some(store.rules), cells : Some(store.cells)]

\* Whether one store has all that another one has.
Extends(f, g) == DOMAIN g \subseteq DOMAIN f /\ \A x \in DOMAIN g : f[x] = g[x]
Includes(store, part) ==
    /\ part.styles \subseteq store.styles
    /\ \A s \in DOMAIN part.tables :
         /\ s \in DOMAIN store.tables
         /\ part.tables[s].title => store.tables[s].title
         /\ part.tables[s].footer \subseteq store.tables[s].footer
         /\ Extends(store.tables[s].columns, part.tables[s].columns)
    /\ Extends(store.rules, part.rules)
    /\ Extends(store.cells, part.cells)
=============================================================================

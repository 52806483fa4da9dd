------------------------- MODULE ProjectFormatsProofs -------------------------
(***************************************************************************)
(* Proved for every set of documents, stores, shards and bounds: what a    *)
(* file is read as is what it stands for, equal digests are equal          *)
(* projects, and a save keeps the most of a presentation that still        *)
(* belongs to its document.                                                *)
(***************************************************************************)
EXTENDS ProjectFormats, FiniteSetTheorems, SequenceTheorems, TLAPS

\* Some sequence of finitely many rows is in the order of their ids: each row
\* is at the place that says how many come no later.
LEMMA OrderExists ==
    ASSUME NEW rows, rows \subseteq Nat, IsFiniteSet(rows)
    PROVE  \E records \in [1..Cardinality(rows) -> rows] :
               \A k, l \in 1..Cardinality(rows) : k < l => records[k] < records[l]
<1> DEFINE n == Cardinality(rows)
           upto(r) == {x \in rows : x <= r}
           place == [r \in rows |-> Cardinality(upto(r))]
<1>1. n \in Nat
  BY FS_CardinalityType
<1>2. ASSUME NEW r \in rows PROVE IsFiniteSet(upto(r)) /\ place[r] \in 1..n
  <2>1. upto(r) \in SUBSET rows /\ r \in upto(r)
    OBVIOUS
  <2>2. IsFiniteSet(upto(r)) /\ Cardinality(upto(r)) <= n
    BY <2>1, FS_Subset
  <2>3. Cardinality(upto(r)) \in Nat /\ Cardinality(upto(r)) # 0
    BY <2>1, <2>2, FS_CardinalityType, FS_EmptySet
  <2> QED
    BY <1>1, <2>2, <2>3
<1>3. ASSUME NEW q \in rows, NEW r \in rows, q < r PROVE place[q] < place[r]
  <2>0. \A x \in rows : x \in Nat
    OBVIOUS
  <2>1. upto(q) \in SUBSET upto(r) /\ r \in upto(r) /\ r \notin upto(q)
    <3>1. q \in Nat /\ r \in Nat
      BY <2>0
    <3>2. ASSUME NEW x \in upto(q) PROVE x \in upto(r)
      BY <1>3, <2>0, <3>1
    <3>3. r \in upto(r) /\ r \notin upto(q)
      BY <1>3, <3>1
    <3> HIDE DEF upto
    <3> QED
      BY <3>2, <3>3
  <2>2. upto(q) # upto(r)
    BY <2>1
  <2>3. Cardinality(upto(q)) <= Cardinality(upto(r)) /\ Cardinality(upto(q)) # Cardinality(upto(r))
    BY <1>2, <2>1, <2>2, FS_Subset
  <2> HIDE DEF upto
  <2> QED
    BY <1>1, <1>2, <2>3
<1> HIDE DEF place
<1>4. place \in [rows -> 1..n]
  BY <1>2 DEF place
<1>5. place \in Injection(rows, 1..n)
  BY <1>3, <1>4, <1>1 DEF Injection, IsInjective
<1>6. IsFiniteSet(1..n) /\ Cardinality(1..n) = n
  BY <1>1, FS_Interval
<1>7. place \in Surjection(rows, 1..n)
  BY <1>5, <1>6, FS_Injection
<1> DEFINE records == [k \in 1..n |-> CHOOSE r \in rows : place[r] = k]
<1>8. \A k \in 1..n : records[k] \in rows /\ place[records[k]] = k
  BY <1>7 DEF Surjection
<1> HIDE DEF records
<1>9. records \in [1..n -> rows]
  BY <1>8 DEF records
<1>10. ASSUME NEW k \in 1..n, NEW l \in 1..n, k < l PROVE records[k] < records[l]
  <2>1. records[k] \in Nat /\ records[l] \in Nat /\ place[records[k]] < place[records[l]]
    BY <1>8, <1>10
  <2>2. CASE records[l] < records[k]
    <3>1. place[records[l]] < place[records[k]]
      BY <1>3, <1>8, <2>2
    <3>2. l < k
      BY <1>8, <3>1
    <3> QED
      BY <1>1, <1>10, <3>2
  <2>3. records[k] # records[l]
    BY <1>1, <1>8, <1>10
  <2> QED
    BY <2>1, <2>2, <2>3
<1> QED
  BY <1>9, <1>10

\* The records of a shard in id order: each row once.
LEMMA InIdOrderIs ==
    ASSUME NEW rows, rows \subseteq Nat, IsFiniteSet(rows)
    PROVE  /\ InIdOrder(rows) \in Seq(rows)
           /\ Range(InIdOrder(rows)) = rows
           /\ IsInjective(InIdOrder(rows))
<1> DEFINE n == Cardinality(rows)
           records == InIdOrder(rows)
<1>1. n \in Nat
  BY FS_CardinalityType
<1>2. records \in [1..n -> rows] /\ \A k, l \in 1..n : k < l => records[k] < records[l]
  BY OrderExists DEF InIdOrder
<1> HIDE DEF records
<1>3. records \in Seq(rows)
  <2>1. \A k \in 1..n : records[k] \in rows
    BY <1>2
  <2>2. records = [k \in 1..n |-> records[k]]
    BY <1>2
  <2>3. [k \in 1..n |-> records[k]] \in Seq(rows)
    BY <1>1, <2>1, IsASeq
  <2> QED
    BY <2>2, <2>3
<1>4. IsInjective(records)
  <2> SUFFICES ASSUME NEW k \in 1..n, NEW l \in 1..n, records[k] = records[l] PROVE k = l
    BY <1>2 DEF IsInjective
  <2>1. records[k] \in Nat /\ (k < l => records[k] < records[l]) /\ (l < k => records[l] < records[k])
    BY <1>2
  <2> QED
    BY <1>1, <2>1
<1>5. IsFiniteSet(1..n) /\ Cardinality(1..n) = n
  BY <1>1, FS_Interval
<1>6. records \in Surjection(1..n, rows)
  BY <1>2, <1>4, <1>5, FS_Injection DEF Injection
<1>7. Range(records) = rows
  BY <1>2, <1>6 DEF Surjection, Range
<1> QED
  BY <1>3, <1>4, <1>7 DEF records

-----------------------------------------------------------------------------
\* What is left of a table's presentation.
Left(table, fields) ==
    [table EXCEPT !.footer = @ \intersect fields,
                  !.columns = Restrict(@, DOMAIN @ \intersect fields)]

LeftTables(store, d) ==
    [s \in {t \in DOMAIN store.tables \intersect DOMAIN d.schemas :
               LET left == Left(store.tables[t], d.schemas[t])
               IN left.title \/ left.footer # {} \/ DOMAIN left.columns # {}} |->
        Left(store.tables[s], d.schemas[s])]
LeftRules(store, d) ==
    Restrict(store.rules, {r \in DOMAIN store.rules : RuleSurvives(store.rules[r], d)})
LeftCells(store, d) ==
    Restrict(store.cells, {c \in DOMAIN store.cells :
                             c[1] \in d.rows /\ <<TableOf[c[1]], c[2]>> \in Columns(d)})

\* Prune, part by part.
LEMMA PruneIs ==
    ASSUME NEW store, NEW d
    PROVE  Prune(store, d) =
             [styles |-> store.styles \intersect
                           UsedStyles(LeftTables(store, d), LeftRules(store, d), LeftCells(store, d)),
              tables |-> LeftTables(store, d), rules |-> LeftRules(store, d), cells |-> LeftCells(store, d)]
  BY DEF Prune, LeftTables, LeftRules, LeftCells, Left

\* The settings of a table that are left.
LEMMA LeftIs ==
    ASSUME NEW table, IsTable(table), NEW fields
    PROVE  /\ IsTable(Left(table, fields))
           /\ Left(table, fields).title = table.title
           /\ Left(table, fields).footer = table.footer \intersect fields
           /\ DOMAIN Left(table, fields).columns = DOMAIN table.columns \intersect fields
           /\ \A f \in DOMAIN Left(table, fields).columns : Left(table, fields).columns[f] = table.columns[f]
<1> DEFINE columns == Restrict(table.columns, DOMAIN table.columns \intersect fields)
           footer == table.footer \intersect fields
           left == Left(table, fields)
<1>1. left = [table EXCEPT !.footer = footer, !.columns = columns]
  BY DEF Left
<1>2. /\ DOMAIN columns = DOMAIN table.columns \intersect fields
      /\ \A f \in DOMAIN columns : columns[f] = table.columns[f]
  BY DEF Restrict
<1> HIDE DEF columns, footer, left
<1>3. left = [title |-> table.title, footer |-> footer, columns |-> columns] /\ table.title \in BOOLEAN
  BY <1>1 DEF IsTable
<1>4. /\ IsTable(left) /\ left.title = table.title /\ left.footer = footer /\ left.columns = columns
  BY <1>3 DEF IsTable
<1> QED
  BY <1>2, <1>4 DEF left, footer

\* A store whose rules paint something and that has the styles it uses: what
\* is opened beside a document.
IsKept(store) ==
    /\ IsStore(store)
    /\ \A r \in DOMAIN store.rules : store.rules[r].fields # {}
    /\ UsedStyles(store.tables, store.rules, store.cells) \subseteq store.styles

\* What is left of a store uses nothing new.
LEMMA LeftUses ==
    ASSUME NEW store, IsStore(store), NEW d
    PROVE  UsedStyles(LeftTables(store, d), LeftRules(store, d), LeftCells(store, d))
             \subseteq UsedStyles(store.tables, store.rules, store.cells)
<1> DEFINE tables == LeftTables(store, d)
           rules == LeftRules(store, d)
           cells == LeftCells(store, d)
<1>1. ASSUME NEW s \in DOMAIN tables
      PROVE  s \in DOMAIN store.tables /\ Range(tables[s].columns) \subseteq Range(store.tables[s].columns)
  <2>1. s \in DOMAIN store.tables /\ tables[s] = Left(store.tables[s], d.schemas[s])
    BY DEF LeftTables
  <2> DEFINE table == store.tables[s]
             fields == d.schemas[s]
  <2>2. IsTable(table)
    BY <2>1 DEF IsStore
  <2>3. tables[s] = Left(table, fields)
    BY <2>1
  <2> HIDE DEF tables, table, fields
  <2>4. /\ DOMAIN tables[s].columns \subseteq DOMAIN table.columns
        /\ \A f \in DOMAIN tables[s].columns : tables[s].columns[f] = table.columns[f]
    BY <2>2, <2>3, LeftIs
  <2>5. Range(tables[s].columns) \subseteq Range(table.columns)
    BY <2>4 DEF Range
  <2> QED
    BY <2>1, <2>5 DEF table
<1>2. DOMAIN rules \subseteq DOMAIN store.rules /\ \A r \in DOMAIN rules : rules[r] = store.rules[r]
  BY DEF LeftRules, Restrict
<1>3. Range(cells) \subseteq Range(store.cells)
  BY DEF LeftCells, Restrict, Range
<1> HIDE DEF tables, rules, cells
<1>4. (UNION {Range(tables[s].columns) : s \in DOMAIN tables})
        \subseteq UNION {Range(store.tables[s].columns) : s \in DOMAIN store.tables}
  BY <1>1
<1>5. {rules[r].style : r \in DOMAIN rules} \subseteq {store.rules[r].style : r \in DOMAIN store.rules}
  BY <1>2
<1> QED
  BY <1>3, <1>4, <1>5 DEF UsedStyles, tables, rules, cells

\* What is left of a store belongs to the document.
LEMMA PruneBelongs ==
    ASSUME NEW store, IsKept(store), NEW d
    PROVE  Belongs(Prune(store, d), d) /\ IsStore(Prune(store, d))
<1> DEFINE pruned == Prune(store, d)
           used == UsedStyles(LeftTables(store, d), LeftRules(store, d), LeftCells(store, d))
<1>1. IsStore(store)
  BY DEF IsKept
<1>2. pruned = [styles |-> store.styles \intersect used, tables |-> LeftTables(store, d),
                rules |-> LeftRules(store, d), cells |-> LeftCells(store, d)]
  BY PruneIs
<1>3. used \subseteq store.styles
  BY <1>1, LeftUses DEF IsKept
<1> HIDE DEF pruned, used
<1>4. ASSUME NEW s \in DOMAIN pruned.tables
      PROVE  /\ s \in DOMAIN d.schemas
             /\ pruned.tables[s].title \/ pruned.tables[s].footer # {} \/ DOMAIN pruned.tables[s].columns # {}
             /\ pruned.tables[s].footer \union DOMAIN pruned.tables[s].columns \subseteq d.schemas[s]
             /\ IsTable(pruned.tables[s])
  <2> DEFINE table == store.tables[s]
             fields == d.schemas[s]
             left == Left(table, fields)
  <2>1. s \in DOMAIN LeftTables(store, d)
    BY <1>2
  <2>2. /\ s \in DOMAIN store.tables /\ s \in DOMAIN d.schemas
        /\ pruned.tables[s] = left
        /\ left.title \/ left.footer # {} \/ DOMAIN left.columns # {}
    BY <1>2, <2>1 DEF LeftTables
  <2>3. IsTable(table)
    BY <1>1, <2>2 DEF IsStore
  <2> HIDE DEF table, fields
  <2>4. IsTable(left) /\ left.footer \union DOMAIN left.columns \subseteq fields
    BY <2>3, LeftIs
  <2> HIDE DEF left
  <2> QED
    BY <2>2, <2>4 DEF fields
<1>5. ASSUME NEW r \in DOMAIN pruned.rules
      PROVE  /\ pruned.rules[r].schema \in DOMAIN d.schemas /\ pruned.rules[r].fields # {}
             /\ ({pruned.rules[r].schema} \X pruned.rules[r].fields) \union pruned.rules[r].reads \subseteq Columns(d)
  <2>1. r \in DOMAIN store.rules /\ pruned.rules[r] = store.rules[r] /\ RuleSurvives(store.rules[r], d)
    BY <1>2 DEF LeftRules, Restrict
  <2> QED
    BY <2>1 DEF RuleSurvives, IsKept
<1>6. \A c \in DOMAIN pruned.cells : c[1] \in d.rows /\ <<TableOf[c[1]], c[2]>> \in Columns(d)
  BY <1>2 DEF LeftCells, Restrict
<1>7. pruned.styles = UsedStyles(pruned.tables, pruned.rules, pruned.cells)
  BY <1>2, <1>3 DEF used
<1>8. Belongs(pruned, d)
  BY <1>4, <1>5, <1>6, <1>7 DEF Belongs
<1>9. IsStore(pruned)
  BY <1>2, <1>4 DEF IsStore
<1> QED
  BY <1>8, <1>9 DEF pruned

\* Every part of a store is included in it.
LEMMA PartsAreIncluded ==
    ASSUME NEW store, NEW part \in Parts(store)
    PROVE  Includes(store, part)
<1>1. part \in [styles : SUBSET store.styles, tables : SomeTables(store.tables),
                 rules : Some(store.rules), cells : Some(store.cells)]
  BY DEF Parts
<1>2. /\ part.styles \subseteq store.styles /\ part.tables \in SomeTables(store.tables)
      /\ part.rules \in Some(store.rules) /\ part.cells \in Some(store.cells)
  BY <1>1
<1>3. ASSUME NEW f, NEW g \in Some(f) PROVE Extends(f, g)
  BY DEF Some, Restrict, Extends
<1>4. ASSUME NEW table, NEW p \in SomeOfTable(table)
      PROVE  (p.title => table.title) /\ p.footer \subseteq table.footer /\ Extends(table.columns, p.columns)
  <2>1. PICK title \in {FALSE, table.title}, footer \in SUBSET table.footer, columns \in Some(table.columns) :
           p = [title |-> title, footer |-> footer, columns |-> columns]
    BY DEF SomeOfTable
  <2>2. p.title = title /\ p.footer = footer /\ p.columns = columns
    BY <2>1
  <2>3. Extends(table.columns, columns)
    BY <1>3
  <2>4. p.title => table.title
    BY <2>2
  <2> QED
    BY <2>2, <2>3, <2>4
<1>5. PICK S \in SUBSET DOMAIN store.tables :
         /\ part.tables \in [S -> UNION {SomeOfTable(store.tables[s]) : s \in S}]
         /\ \A s \in S : part.tables[s] \in SomeOfTable(store.tables[s])
  BY <1>2 DEF SomeTables
<1>6. ASSUME NEW s \in DOMAIN part.tables
      PROVE  /\ s \in DOMAIN store.tables
             /\ part.tables[s].title => store.tables[s].title
             /\ part.tables[s].footer \subseteq store.tables[s].footer
             /\ Extends(store.tables[s].columns, part.tables[s].columns)
  <2>1. s \in S
    BY <1>5
  <2>2. part.tables[s] \in SomeOfTable(store.tables[s])
    BY <1>5, <2>1
  <2> QED
    BY <1>4, <2>1, <2>2
<1> QED
  BY <1>2, <1>3, <1>6 DEF Includes

\* A larger store uses at least the styles of a smaller one.
LEMMA IncludedUses ==
    ASSUME NEW tables, NEW rules, NEW cells, NEW part, Extends(rules, part.rules), Extends(cells, part.cells),
           \A s \in DOMAIN part.tables : s \in DOMAIN tables /\ Extends(tables[s].columns, part.tables[s].columns)
    PROVE  UsedStyles(part.tables, part.rules, part.cells) \subseteq UsedStyles(tables, rules, cells)
<1>1. ASSUME NEW f, NEW g, Extends(f, g) PROVE Range(g) \subseteq Range(f)
  BY <1>1 DEF Extends, Range
<1>2. (UNION {Range(part.tables[s].columns) : s \in DOMAIN part.tables})
        \subseteq UNION {Range(tables[s].columns) : s \in DOMAIN tables}
  BY <1>1
<1>3. {part.rules[r].style : r \in DOMAIN part.rules} \subseteq {rules[r].style : r \in DOMAIN rules}
  BY DEF Extends
<1>4. Range(part.cells) \subseteq Range(cells)
  BY <1>1
<1> QED
  BY <1>2, <1>3, <1>4 DEF UsedStyles

\* What is left of a store is the most of it that belongs to the document.
LEMMA PruneKeeps ==
    ASSUME NEW store, IsStore(store), NEW d, NEW part, Includes(store, part), Belongs(part, d)
    PROVE  Includes(Prune(store, d), part)
<1> DEFINE pruned == Prune(store, d)
           used == UsedStyles(LeftTables(store, d), LeftRules(store, d), LeftCells(store, d))
<1>1. pruned = [styles |-> store.styles \intersect used, tables |-> LeftTables(store, d),
                rules |-> LeftRules(store, d), cells |-> LeftCells(store, d)]
  BY PruneIs
<1> HIDE DEF pruned, used
<1>2. ASSUME NEW s \in DOMAIN part.tables
      PROVE  /\ s \in DOMAIN LeftTables(store, d)
             /\ part.tables[s].title => LeftTables(store, d)[s].title
             /\ part.tables[s].footer \subseteq LeftTables(store, d)[s].footer
             /\ Extends(LeftTables(store, d)[s].columns, part.tables[s].columns)
  <2> DEFINE table == store.tables[s]
             fields == d.schemas[s]
             left == Left(table, fields)
             some == part.tables[s]
  <2>1. /\ s \in DOMAIN store.tables /\ (some.title => table.title) /\ some.footer \subseteq table.footer
        /\ Extends(table.columns, some.columns)
    BY DEF Includes
  <2>2. /\ s \in DOMAIN d.schemas
        /\ some.title \/ some.footer # {} \/ DOMAIN some.columns # {}
        /\ some.footer \union DOMAIN some.columns \subseteq fields
    BY DEF Belongs
  <2>3. IsTable(table)
    BY <2>1 DEF IsStore
  <2> HIDE DEF table, fields, some
  <2>4. /\ left.title = table.title /\ left.footer = table.footer \intersect fields
        /\ DOMAIN left.columns = DOMAIN table.columns \intersect fields
        /\ \A f \in DOMAIN left.columns : left.columns[f] = table.columns[f]
    BY <2>3, LeftIs
  <2> HIDE DEF left
  <2>5. (some.title => left.title) /\ some.footer \subseteq left.footer
    BY <2>1, <2>2, <2>4
  <2>6. Extends(left.columns, some.columns)
    BY <2>1, <2>2, <2>4 DEF Extends
  <2>7. left.title \/ left.footer # {} \/ DOMAIN left.columns # {}
    BY <2>2, <2>5, <2>6 DEF Extends
  <2>8. s \in DOMAIN LeftTables(store, d) /\ LeftTables(store, d)[s] = left
    BY <2>1, <2>2, <2>7 DEF LeftTables, left, table, fields
  <2> QED
    BY <2>5, <2>6, <2>8 DEF some
<1>3. Extends(LeftRules(store, d), part.rules)
  <2>1. \A r \in DOMAIN part.rules : r \in DOMAIN store.rules /\ store.rules[r] = part.rules[r]
    BY DEF Includes, Extends
  <2>2. \A r \in DOMAIN part.rules : RuleSurvives(part.rules[r], d)
    BY DEF Belongs, RuleSurvives
  <2> QED
    BY <2>1, <2>2 DEF LeftRules, Extends, Restrict
<1>4. Extends(LeftCells(store, d), part.cells)
  <2>1. \A c \in DOMAIN part.cells : c \in DOMAIN store.cells /\ store.cells[c] = part.cells[c]
    BY DEF Includes, Extends
  <2>2. \A c \in DOMAIN part.cells : c[1] \in d.rows /\ <<TableOf[c[1]], c[2]>> \in Columns(d)
    BY DEF Belongs
  <2> QED
    BY <2>1, <2>2 DEF LeftCells, Extends, Restrict
<1>5. part.styles \subseteq store.styles \intersect used
  <2>1. part.styles \subseteq used
    BY <1>2, <1>3, <1>4, IncludedUses DEF Belongs, used
  <2> QED
    BY <2>1 DEF Includes
<1>6. /\ part.styles \subseteq pruned.styles /\ pruned.tables = LeftTables(store, d)
      /\ pruned.rules = LeftRules(store, d) /\ pruned.cells = LeftCells(store, d)
  BY <1>1, <1>5
<1> QED
  BY <1>2, <1>3, <1>4, <1>6 DEF Includes, pruned

-----------------------------------------------------------------------------
\* A tree's records are rows, finitely many, each in some shard, and it has at
\* most one presentation, which is no empty one.
IsTree(tree) ==
    /\ tree = [features |-> tree.features, schemas |-> tree.schemas, shards |-> tree.shards,
               presentation |-> tree.presentation]
    /\ tree.shards \in [Shards -> Seq(DOMAIN ShardOf)]
    /\ IsDocument(DocumentOf(tree))

IsPresentation(presentation) ==
    \/ presentation = <<>>
    \/ /\ presentation = <<[store |-> presentation[1].store, canonical |-> presentation[1].canonical]>>
       /\ presentation[1].store # NoPresentation
       /\ IsStore(presentation[1].store)
       /\ presentation[1].canonical \in BOOLEAN

IsFile(file) ==
    /\ file = [format |-> file.format, tree |-> file.tree, root |-> file.root]
    /\ file.format \in Formats
    /\ IsTree(file.tree)
    /\ IsPresentation(file.tree.presentation)
    /\ file.format \notin {"v3", "package"} => file.tree.presentation = <<>>

\* A file stands for the document it is read as, unless a row is in it twice:
\* then for none.  Nobody but a command writes a direct document.
FileInv(file, stand) ==
    /\ IsFile(file)
    /\ stand = [docs |-> stand.docs, store |-> stand.store, untouched |-> stand.untouched]
    /\ stand.docs = IF Unique(file.tree) THEN {DocumentOf(file.tree)} ELSE {}
    /\ file.format \in {"v3", "package"} => StoreOf(file.tree) = stand.store
    /\ stand.untouched => Readable(file)
    /\ file.format = "direct" => Unique(file.tree)

FilesInv ==
    /\ files \in Seq(Range(files))
    /\ stands \in Seq(Range(stands))
    /\ Len(stands) = Len(files)
    /\ \A i \in 1..Len(files) : FileInv(files[i], stands[i])

\* A session holds documents, now and in its past, and the store it was opened with.
IsSession(s) ==
    /\ s = [document |-> s.document, store |-> s.store, past |-> s.past,
            openedFromV3 |-> s.openedFromV3, opened |-> s.opened]
    /\ IsDocument(s.document)
    /\ IsKept(s.store)
    /\ s.opened = s.store
    /\ s.past \in Seq(Range(s.past))
    /\ \A k \in 1..Len(s.past) : IsDocument(s.past[k])

SessionInv == session # <<>> => session = <<session[1]>> /\ IsSession(session[1])

Inv == FilesInv /\ SessionInv

-----------------------------------------------------------------------------
\* What sharding does with the rows of a document.
LEMMA ShardedIs ==
    ASSUME NEW rows, rows \subseteq DOMAIN ShardOf, IsFiniteSet(rows)
    PROVE  /\ Sharded(rows) \in [Shards -> Seq(DOMAIN ShardOf)]
           /\ \A s \in Shards : /\ Range(Sharded(rows)[s]) = {r \in rows : ShardOf[r] = s}
                                /\ IsInjective(Sharded(rows)[s])
<1> DEFINE in(s) == {r \in rows : ShardOf[r] = s}
<1>1. ASSUME NEW s \in Shards
      PROVE  /\ InIdOrder(in(s)) \in Seq(DOMAIN ShardOf)
             /\ Range(InIdOrder(in(s))) = in(s) /\ IsInjective(InIdOrder(in(s)))
  <2>1. in(s) \in SUBSET rows /\ in(s) \subseteq DOMAIN ShardOf
    OBVIOUS
  <2>2. IsFiniteSet(in(s))
    BY <2>1, FS_Subset
  <2> HIDE DEF in
  <2>3. in(s) \subseteq Nat
    BY <2>1, FormatsAssumption
  <2>4. InIdOrder(in(s)) \in Seq(in(s))
    BY <2>2, <2>3, InIdOrderIs
  <2>5. InIdOrder(in(s)) \in Seq(DOMAIN ShardOf)
    BY <2>1, <2>4, SeqMonotonic
  <2> QED
    BY <2>2, <2>3, <2>5, InIdOrderIs
<1>2. Sharded(rows) = [s \in Shards |-> InIdOrder(in(s))]
  BY DEF Sharded
<1> DEFINE sharded == Sharded(rows)
<1>3. \A s \in Shards : sharded[s] = InIdOrder(in(s))
  BY <1>2
<1>4. ASSUME NEW s \in Shards PROVE Range(sharded[s]) = in(s) /\ IsInjective(sharded[s])
  BY <1>1, <1>3
<1>5. sharded \in [Shards -> Seq(DOMAIN ShardOf)]
  <2> HIDE DEF in
  <2> QED
    BY <1>1, <1>2
<1> HIDE DEF sharded
<1> QED
  BY <1>4, <1>5 DEF sharded

\* The rows of a sharded document are read again.
LEMMA ShardedRecords ==
    ASSUME NEW tree, NEW rows, rows \subseteq DOMAIN ShardOf, IsFiniteSet(rows), tree.shards = Sharded(rows)
    PROVE  Records(tree) = rows /\ Unique(tree)
<1> DEFINE shards == tree.shards
<1>1. \A s \in Shards : /\ Range(shards[s]) = {r \in rows : ShardOf[r] = s}
                        /\ IsInjective(shards[s])
  BY ShardedIs
<1>2. \A r \in rows : ShardOf[r] \in Shards
  BY DEF Shards, Range
<1> HIDE DEF shards
<1>3. UNION {Range(shards[s]) : s \in Shards} = rows
  BY <1>1, <1>2
<1>4. \A s, t \in Shards : s # t => Range(shards[s]) \intersect Range(shards[t]) = {}
  BY <1>1
<1> QED
  BY <1>1, <1>3, <1>4 DEF shards, Records, Unique

\* A reader that looks at the bytes finds no row twice.
LEMMA ExactIsUnique ==
    ASSUME NEW tree, IsTree(tree), Exact(tree)
    PROVE  Unique(tree)
<1>1. Records(tree) \subseteq DOMAIN ShardOf /\ IsFiniteSet(Records(tree))
  BY DEF IsTree, IsDocument, DocumentOf
<1> QED
  BY <1>1, ShardedRecords DEF Exact

\* What no encoder refuses it holds.
LEMMA HeldOrRefused ==
    ASSUME NEW format \in Formats, NEW d, IsDocument(d), Admits(format, d)
    PROVE  d.features \intersect Held[format] = d.features
<1>1. d.features \subseteq Features
  BY DEF IsDocument
<1>2. Held[format] \subseteq Features /\ Features \ Refused(format) \subseteq Held[format]
  BY DEF Formats, Held, Refused, Features
<1>3. d.features \intersect Refused(format) = {}
  BY DEF Admits
<1> HIDE DEF Features
<1> QED
  BY <1>1, <1>2, <1>3

\* What is encoded is read again, by every reader of its format.
LEMMA EncodedIs ==
    ASSUME NEW format \in Formats, NEW d, IsDocument(d), Admits(format, d), NEW store, IsStore(store),
           Belongs(store, d)
    PROVE  LET file == Encoded(format, d, store)
               kept == store # NoPresentation /\ format \in {"v3", "package"}
           IN /\ IsFile(file) /\ file.format = format
              /\ StoreOf(file.tree) = IF kept THEN store ELSE NoPresentation
              /\ DocumentOf(file.tree) = d
              /\ Unique(file.tree) /\ Readable(file)
<1> DEFINE file == Encoded(format, d, store)
           kept == store # NoPresentation /\ format \in {"v3", "package"}
           presentation == IF kept THEN <<[store |-> store, canonical |-> TRUE]>> ELSE <<>>
           tree == [features |-> d.features \intersect Held[format], schemas |-> d.schemas,
                    shards |-> Sharded(d.rows), presentation |-> presentation]
<1>1. file = [format |-> format, tree |-> tree, root |-> IF format = "package" THEN PayloadRoot(tree) ELSE <<>>]
  BY DEF Encoded, File
<1>2. d.features \intersect Held[format] = d.features
  BY HeldOrRefused
<1>3. d = [features |-> d.features, schemas |-> d.schemas, rows |-> d.rows]
      /\ d.rows \subseteq DOMAIN ShardOf /\ IsFiniteSet(d.rows)
  BY DEF IsDocument
<1> HIDE DEF presentation
<1>4. /\ tree = [features |-> tree.features, schemas |-> tree.schemas, shards |-> tree.shards,
                 presentation |-> tree.presentation]
      /\ tree.features = d.features /\ tree.schemas = d.schemas /\ tree.shards = Sharded(d.rows)
      /\ tree.presentation = presentation
  BY <1>2
<1> HIDE DEF tree, kept
<1>5. Records(tree) = d.rows /\ Unique(tree)
  BY <1>3, <1>4, ShardedRecords
<1>6. DocumentOf(tree) = d
  BY <1>3, <1>4, <1>5 DEF DocumentOf
<1>7. StoreOf(tree) = IF kept THEN store ELSE NoPresentation
  BY <1>4 DEF StoreOf, presentation
<1>8. Exact(tree)
  <2>1. ASSUME presentation # <<>>
        PROVE  kept /\ presentation[1].canonical /\ presentation[1].store = store
    BY <2>1 DEF presentation
  <2> QED
    BY <1>4, <1>5, <1>6, <2>1 DEF Exact, kept
<1>9. IsTree(tree)
  BY <1>3, <1>4, <1>6, ShardedIs DEF IsTree
<1>10. IsPresentation(tree.presentation) /\ (format \notin {"v3", "package"} => tree.presentation = <<>>)
  <2>1. CASE kept
    <3>1. /\ presentation = <<[store |-> store, canonical |-> TRUE]>>
          /\ presentation[1].store = store /\ presentation[1].canonical = TRUE
      BY <2>1 DEF presentation
    <3>2. IsPresentation(presentation)
      BY <2>1, <3>1 DEF IsPresentation, kept
    <3> QED
      BY <1>4, <2>1, <3>2 DEF kept
  <2>2. CASE ~kept
    BY <1>4, <2>2 DEF IsPresentation, presentation
  <2> QED
    BY <2>1, <2>2
<1>11. file.format = format /\ file.tree = tree /\ (format = "package" => file.root = PayloadRoot(tree))
       /\ file = [format |-> file.format, tree |-> file.tree, root |-> file.root]
  BY <1>1
<1>12. Readable(file)
  BY <1>8, <1>11 DEF Readable, Verified, Formats
<1> HIDE DEF file
<1>13. IsFile(file)
  BY <1>9, <1>10, <1>11 DEF IsFile
<1> QED
  BY <1>5, <1>6, <1>7, <1>11, <1>12, <1>13 DEF file, kept

\* Nothing beside a document belongs to every document.
LEMMA NothingBelongs ==
    /\ IsStore(NoPresentation) /\ IsKept(NoPresentation)
    /\ \A d : Belongs(NoPresentation, d)
<1> DEFINE none == NoPresentation
<1>1. /\ none = [styles |-> none.styles, tables |-> none.tables, rules |-> none.rules, cells |-> none.cells]
      /\ none.styles = {} /\ DOMAIN none.tables = {} /\ DOMAIN none.rules = {} /\ DOMAIN none.cells = {}
  BY DEF NoPresentation
<1> HIDE DEF none
<1>2. UsedStyles(none.tables, none.rules, none.cells) = {}
  BY <1>1 DEF UsedStyles, Range
<1>3. IsStore(none) /\ IsKept(none)
  BY <1>1, <1>2 DEF IsStore, IsKept
<1>4. \A d : Belongs(none, d)
  BY <1>1, <1>2 DEF Belongs
<1> QED
  BY <1>3, <1>4 DEF none

\* What belongs to a document can be opened beside it.
LEMMA BelongingIsKept ==
    ASSUME NEW store, IsStore(store), NEW d, Belongs(store, d)
    PROVE  IsKept(store)
  BY DEF Belongs, IsKept

\* A file as it is encoded stands for what was encoded.
LEMMA EncodedFile ==
    ASSUME NEW format \in Formats, NEW d, IsDocument(d), Admits(format, d), NEW store, IsStore(store),
           Belongs(store, d), NEW beside, format \in {"v3", "package"} => beside = store
    PROVE  FileInv(Encoded(format, d, store), [docs |-> {d}, store |-> beside, untouched |-> TRUE])
<1> DEFINE file == Encoded(format, d, store)
           stand == [docs |-> {d}, store |-> beside, untouched |-> TRUE]
<1>1. /\ IsFile(file) /\ file.format = format /\ DocumentOf(file.tree) = d
      /\ Unique(file.tree) /\ Readable(file)
      /\ format \in {"v3", "package"} => StoreOf(file.tree) = store
  BY EncodedIs
<1>2. stand = [docs |-> stand.docs, store |-> stand.store, untouched |-> stand.untouched]
      /\ stand.docs = {d} /\ stand.store = beside
  OBVIOUS
<1> HIDE DEF file, stand
<1>3. FileInv(file, stand)
  BY <1>1, <1>2 DEF FileInv
<1> QED
  BY <1>3 DEF file, stand

\* What some reader admits is the document the file stands for.
LEMMA ReadIs ==
    ASSUME NEW file, NEW stand, FileInv(file, stand), Readable(file) \/ BrowserOpens(file)
    PROVE  /\ Unique(file.tree) /\ stand.docs = {DocumentOf(file.tree)}
           /\ IsDocument(DocumentOf(file.tree))
           /\ IsStore(StoreOf(file.tree)) /\ IsKept(StoreOf(file.tree))
           /\ Belongs(StoreOf(file.tree), DocumentOf(file.tree))
<1> DEFINE tree == file.tree
<1>1. IsTree(tree) /\ IsPresentation(tree.presentation) /\ file.format \in Formats
      /\ (file.format \notin {"v3", "package"} => tree.presentation = <<>>)
  BY DEF FileInv, IsFile
<1>2. CASE file.format \in {"v3", "package"}
  <2>1. Exact(tree)
    BY <1>2 DEF Readable, BrowserOpens, Verified
  <2>2. Unique(tree)
    BY <1>1, <2>1, ExactIsUnique
  <2>3. IsStore(StoreOf(tree)) /\ Belongs(StoreOf(tree), DocumentOf(tree))
    BY <1>1, <2>1, NothingBelongs DEF Exact, StoreOf, IsPresentation
  <2> QED
    BY <1>1, <2>2, <2>3, BelongingIsKept DEF FileInv, IsTree
<1>3. CASE file.format \notin {"v3", "package"}
  <2>1. StoreOf(tree) = NoPresentation
    BY <1>1, <1>3 DEF StoreOf
  <2>2. Unique(tree)
    <3>1. CASE file.format = "direct"
      BY <3>1 DEF FileInv
    <3>2. CASE file.format \in {"v1", "v2"}
      BY <1>1, <3>2, ExactIsUnique DEF Readable, BrowserOpens
    <3> QED
      BY <1>1, <1>3, <3>1, <3>2 DEF Formats
  <2> QED
    BY <1>1, <2>1, <2>2, NothingBelongs DEF FileInv, IsTree
<1> QED
  BY <1>2, <1>3

-----------------------------------------------------------------------------
\* A record taken out of a shard.
LEMMA RemoveAtIs ==
    ASSUME NEW S, NEW seq \in Seq(S), NEW k \in DOMAIN seq
    PROVE  /\ RemoveAt(seq, k) \in Seq(S)
           /\ Range(RemoveAt(seq, k)) \union {seq[k]} = Range(seq)
           /\ IsInjective(seq) => IsInjective(RemoveAt(seq, k)) /\ seq[k] \notin Range(RemoveAt(seq, k))
<1> DEFINE n == Len(seq)
           before == SubSeq(seq, 1, k - 1)
           after == SubSeq(seq, k + 1, n)
           rest == RemoveAt(seq, k)
<1>1. n \in Nat /\ DOMAIN seq = 1..n /\ k \in 1..n /\ \A i \in 1..n : seq[i] \in S
  BY LenProperties
<1>2. before \in Seq(S) /\ Len(before) = k - 1 /\ \A i \in 1..(k - 1) : before[i] = seq[i]
  <2>1. \A i \in 1..(k - 1) : seq[i] \in S
    BY <1>1
  <2> QED
    BY <1>1, <2>1, SubSeqProperties
<1>3. after \in Seq(S) /\ Len(after) = n - k /\ \A i \in 1..(n - k) : after[i] = seq[k + i]
  <2>1. \A i \in (k + 1)..n : seq[i] \in S
    BY <1>1
  <2> QED
    BY <1>1, <2>1, SubSeqProperties
<1>4. rest = before \o after
  BY DEF RemoveAt
<1> HIDE DEF before, after, rest, n
<1>5. /\ rest \in Seq(S) /\ Len(rest) = n - 1
      /\ \A i \in 1..(n - 1) : rest[i] = IF i <= k - 1 THEN before[i] ELSE after[i - (k - 1)]
  <2>1. /\ rest \in Seq(S) /\ Len(rest) = Len(before) + Len(after)
        /\ \A i \in 1..(Len(before) + Len(after)) :
             rest[i] = IF i <= Len(before) THEN before[i] ELSE after[i - Len(before)]
    BY <1>2, <1>3, <1>4, ConcatProperties, Zenon
  <2>2. Len(before) = k - 1 /\ Len(before) + Len(after) = n - 1
    BY <1>1, <1>2, <1>3
  <2> QED
    BY <2>1, <2>2
<1>6. DOMAIN rest = 1..(n - 1)
  BY <1>5, LenProperties
<1>7. \A i \in 1..(n - 1) : rest[i] = IF i < k THEN seq[i] ELSE seq[i + 1]
  <2> SUFFICES ASSUME NEW i \in 1..(n - 1) PROVE rest[i] = IF i < k THEN seq[i] ELSE seq[i + 1]
    OBVIOUS
  <2>1. CASE i < k
    BY <1>1, <1>2, <1>5, <2>1
  <2>2. CASE ~(i < k)
    <3>1. i - (k - 1) \in 1..(n - k) /\ k + (i - (k - 1)) = i + 1
      BY <1>1, <2>2
    <3>2. after[i - (k - 1)] = seq[k + (i - (k - 1))]
      BY <1>3, <3>1
    <3>3. rest[i] = after[i - (k - 1)]
      BY <1>1, <1>5, <2>2
    <3> QED
      BY <2>2, <3>1, <3>2, <3>3
  <2> QED
    BY <2>1, <2>2
<1>8. \A i \in 1..(n - 1) : \E j \in 1..n : j # k /\ rest[i] = seq[j]
  <2> SUFFICES ASSUME NEW i \in 1..(n - 1) PROVE \E j \in 1..n : j # k /\ rest[i] = seq[j]
    OBVIOUS
  <2>1. CASE i < k
    BY <1>1, <1>7, <2>1
  <2>2. CASE ~(i < k)
    BY <1>1, <1>7, <2>2
  <2> QED
    BY <2>1, <2>2
<1>9. \A j \in 1..n : j # k => \E i \in 1..(n - 1) : rest[i] = seq[j]
  <2> SUFFICES ASSUME NEW j \in 1..n, j # k PROVE \E i \in 1..(n - 1) : rest[i] = seq[j]
    OBVIOUS
  <2>1. CASE j < k
    BY <1>1, <1>7, <2>1
  <2>2. CASE k < j
    <3>1. j - 1 \in 1..(n - 1) /\ ~(j - 1 < k) /\ (j - 1) + 1 = j
      BY <1>1, <2>2
    <3> QED
      BY <1>7, <3>1
  <2> QED
    BY <1>1, <2>1, <2>2
<1>10. Range(rest) \union {seq[k]} = Range(seq)
  <2>1. Range(rest) = {rest[i] : i \in 1..(n - 1)} /\ Range(seq) = {seq[j] : j \in 1..n}
    BY <1>1, <1>6 DEF Range
  <2> QED
    BY <1>1, <1>8, <1>9, <2>1
<1>11. ASSUME IsInjective(seq) PROVE IsInjective(rest) /\ seq[k] \notin Range(rest)
  <2>0. \A i, j \in 1..n : seq[i] = seq[j] => i = j
    BY <1>1, <1>11 DEF IsInjective
  <2>1. seq[k] \notin Range(rest)
    BY <1>1, <1>6, <1>8, <2>0 DEF Range
  <2>2. ASSUME NEW i \in 1..(n - 1), NEW j \in 1..(n - 1), rest[i] = rest[j] PROVE i = j
    <3> DEFINE at(m) == IF m < k THEN m ELSE m + 1
    <3>1. at(i) \in 1..n /\ at(j) \in 1..n /\ rest[i] = seq[at(i)] /\ rest[j] = seq[at(j)]
      BY <1>1, <1>7
    <3>2. at(i) = at(j)
      BY <2>0, <2>2, <3>1
    <3> QED
      BY <1>1, <3>2
  <2> QED
    BY <1>6, <2>1, <2>2 DEF IsInjective
<1> QED
  BY <1>5, <1>10, <1>11 DEF rest

\* A record added to a shard.
LEMMA AppendIs ==
    ASSUME NEW S, NEW seq \in Seq(S), NEW x \in S
    PROVE  /\ Append(seq, x) \in Seq(S)
           /\ Range(Append(seq, x)) = Range(seq) \union {x}
           /\ x \notin Range(seq) /\ IsInjective(seq) => IsInjective(Append(seq, x))
           /\ x \in Range(seq) => ~IsInjective(Append(seq, x))
<1> DEFINE n == Len(seq)
           longer == Append(seq, x)
<1>1. n \in Nat /\ DOMAIN seq = 1..n
  BY LenProperties
<1>2. /\ longer \in Seq(S) /\ DOMAIN longer = 1..(n + 1)
      /\ longer[n + 1] = x /\ \A i \in 1..n : longer[i] = seq[i]
  BY <1>1
<1> HIDE DEF n, longer
<1>3. Range(longer) = Range(seq) \union {x}
  <2>1. Range(longer) = {longer[i] : i \in 1..(n + 1)} /\ Range(seq) = {seq[i] : i \in 1..n}
    BY <1>1, <1>2 DEF Range
  <2>2. \A i \in 1..(n + 1) : i \in 1..n \/ i = n + 1
    BY <1>1
  <2>3. \A i \in 1..n : i \in 1..(n + 1)
    BY <1>1
  <2>4. n + 1 \in 1..(n + 1)
    BY <1>1
  <2> QED
    BY <1>2, <2>1, <2>2, <2>3, <2>4
<1>4. ASSUME x \notin Range(seq), IsInjective(seq) PROVE IsInjective(longer)
  <2> SUFFICES ASSUME NEW i \in 1..(n + 1), NEW j \in 1..(n + 1), longer[i] = longer[j] PROVE i = j
    BY <1>2 DEF IsInjective
  <2>1. \A m \in 1..n : longer[m] # x
    BY <1>1, <1>2, <1>4 DEF Range
  <2>2. (i \in 1..n \/ i = n + 1) /\ (j \in 1..n \/ j = n + 1)
    BY <1>1
  <2> QED
    BY <1>1, <1>2, <1>4, <2>1, <2>2 DEF IsInjective
<1>5. ASSUME x \in Range(seq) PROVE ~IsInjective(longer)
  <2>1. PICK i \in 1..n : seq[i] = x
    BY <1>1, <1>5 DEF Range
  <2>2. i \in DOMAIN longer /\ n + 1 \in DOMAIN longer /\ i # n + 1 /\ longer[i] = longer[n + 1]
    BY <1>1, <1>2, <2>1
  <2> QED
    BY <2>2 DEF IsInjective
<1> QED
  BY <1>2, <1>3, <1>4, <1>5 DEF longer

\* A tree without one of its records, and with one more.
Drop(tree, s, k) == [tree EXCEPT !.shards[s] = RemoveAt(@, k)]
Put(tree, t, record) == [tree EXCEPT !.shards[t] = Append(@, record)]

\* Two trees that differ in their records only.
Alike(tree, other) ==
    other.features = tree.features /\ other.schemas = tree.schemas /\ other.presentation = tree.presentation

LEMMA DropIs ==
    ASSUME NEW tree, IsTree(tree), Unique(tree), NEW s \in Shards, NEW k \in DOMAIN tree.shards[s]
    PROVE  /\ IsTree(Drop(tree, s, k)) /\ Unique(Drop(tree, s, k)) /\ Alike(tree, Drop(tree, s, k))
           /\ tree.shards[s][k] \in Records(tree)
           /\ Records(Drop(tree, s, k)) = Records(tree) \ {tree.shards[s][k]}
<1> DEFINE record == tree.shards[s][k]
           seq == tree.shards[s]
           rest == RemoveAt(seq, k)
           shards == tree.shards
           fewer == [shards EXCEPT ![s] = rest]
           left == Drop(tree, s, k)
<1>1. /\ tree = [features |-> tree.features, schemas |-> tree.schemas, shards |-> shards,
                 presentation |-> tree.presentation]
      /\ shards \in [Shards -> Seq(DOMAIN ShardOf)] /\ IsDocument(DocumentOf(tree))
  BY DEF IsTree
<1>2. seq \in Seq(DOMAIN ShardOf) /\ IsInjective(seq) /\ seq = shards[s] /\ record = seq[k]
  BY <1>1 DEF Unique
<1>3. /\ rest \in Seq(DOMAIN ShardOf) /\ Range(rest) \union {record} = Range(seq)
      /\ IsInjective(rest) /\ record \notin Range(rest)
  BY <1>2, RemoveAtIs
<1>4. left = [tree EXCEPT !.shards = fewer]
  BY DEF Drop
<1> HIDE DEF seq, rest, record, shards, left
<1>5. /\ fewer \in [Shards -> Seq(DOMAIN ShardOf)] /\ fewer[s] = rest
      /\ \A u \in Shards : u # s => fewer[u] = shards[u]
  BY <1>1, <1>3
<1> HIDE DEF fewer
<1>6. /\ left = [features |-> left.features, schemas |-> left.schemas, shards |-> left.shards,
                 presentation |-> left.presentation]
      /\ left.features = tree.features /\ left.schemas = tree.schemas /\ left.shards = fewer
      /\ left.presentation = tree.presentation
  BY <1>1, <1>4
<1>7. /\ \A u \in Shards : IsInjective(shards[u])
      /\ \A u, t \in Shards : u # t => Range(shards[u]) \intersect Range(shards[t]) = {}
  BY DEF Unique, shards
<1>8. \A u \in Shards : Range(fewer[u]) = Range(shards[u]) \ {record}
  <2> SUFFICES ASSUME NEW u \in Shards PROVE Range(fewer[u]) = Range(shards[u]) \ {record}
    OBVIOUS
  <2>1. CASE u = s
    BY <1>2, <1>3, <1>5, <2>1
  <2>2. CASE u # s
    <3>1. record \in Range(shards[s]) /\ Range(shards[u]) \intersect Range(shards[s]) = {}
      BY <1>2, <1>3, <1>7, <2>2
    <3> QED
      BY <1>5, <2>2, <3>1
  <2> QED
    BY <2>1, <2>2
<1>9. Unique(left)
  <2>1. \A u \in Shards : IsInjective(fewer[u])
    BY <1>3, <1>5, <1>7
  <2>2. \A u, t \in Shards : u # t => Range(fewer[u]) \intersect Range(fewer[t]) = {}
    BY <1>7, <1>8
  <2> QED
    BY <1>6, <2>1, <2>2 DEF Unique
<1>10. Records(left) = Records(tree) \ {record} /\ record \in Records(tree)
  <2>1. Records(left) = UNION {Range(fewer[u]) : u \in Shards}
    BY <1>6 DEF Records
  <2>2. Records(tree) = UNION {Range(shards[u]) : u \in Shards}
    BY DEF Records, shards
  <2>3. record \in Range(shards[s])
    BY <1>2, <1>3
  <2> QED
    BY <1>8, <2>1, <2>2, <2>3
<1>11. IsDocument(DocumentOf(left))
  <2>1. Records(tree) \subseteq DOMAIN ShardOf /\ IsFiniteSet(Records(tree)) /\ tree.features \subseteq Features
    BY <1>1 DEF IsDocument, DocumentOf
  <2>2. IsFiniteSet(Records(tree) \ {record})
    BY <2>1, FS_Difference
  <2> QED
    BY <1>6, <1>10, <2>1, <2>2 DEF IsDocument, DocumentOf
<1>12. IsTree(left)
  BY <1>5, <1>6, <1>11 DEF IsTree
<1> QED
  BY <1>6, <1>9, <1>10, <1>12 DEF left, record, Alike

LEMMA PutIs ==
    ASSUME NEW tree, IsTree(tree), NEW t \in Shards, NEW record \in DOMAIN ShardOf
    PROVE  /\ IsTree(Put(tree, t, record)) /\ Alike(tree, Put(tree, t, record))
           /\ Records(Put(tree, t, record)) = Records(tree) \union {record}
           /\ Unique(tree) /\ record \notin Records(tree) => Unique(Put(tree, t, record))
           /\ record \in Records(tree) => ~Unique(Put(tree, t, record))
<1> DEFINE seq == tree.shards[t]
           longer == Append(seq, record)
           shards == tree.shards
           fuller == [shards EXCEPT ![t] = longer]
           more == Put(tree, t, record)
<1>1. /\ tree = [features |-> tree.features, schemas |-> tree.schemas, shards |-> shards,
                 presentation |-> tree.presentation]
      /\ shards \in [Shards -> Seq(DOMAIN ShardOf)] /\ IsDocument(DocumentOf(tree))
  BY DEF IsTree
<1>2. seq \in Seq(DOMAIN ShardOf) /\ seq = shards[t]
  BY <1>1
<1>3. /\ longer \in Seq(DOMAIN ShardOf) /\ Range(longer) = Range(seq) \union {record}
      /\ record \notin Range(seq) /\ IsInjective(seq) => IsInjective(longer)
      /\ record \in Range(seq) => ~IsInjective(longer)
  BY <1>2, AppendIs
<1>4. more = [tree EXCEPT !.shards = fuller]
  BY DEF Put
<1> HIDE DEF seq, longer, shards, more
<1>5. /\ fuller \in [Shards -> Seq(DOMAIN ShardOf)] /\ fuller[t] = longer
      /\ \A u \in Shards : u # t => fuller[u] = shards[u]
  BY <1>1, <1>3
<1> HIDE DEF fuller
<1>6. /\ more = [features |-> more.features, schemas |-> more.schemas, shards |-> more.shards,
                 presentation |-> more.presentation]
      /\ more.features = tree.features /\ more.schemas = tree.schemas /\ more.shards = fuller
      /\ more.presentation = tree.presentation
  BY <1>1, <1>4
<1>7. \A u \in Shards : Range(fuller[u]) = IF u = t THEN Range(shards[u]) \union {record} ELSE Range(shards[u])
  BY <1>2, <1>3, <1>5
<1>8. Records(tree) = UNION {Range(shards[u]) : u \in Shards}
  BY DEF Records, shards
<1>9. Records(more) = Records(tree) \union {record}
  <2>1. Records(more) = UNION {Range(fuller[u]) : u \in Shards}
    BY <1>6 DEF Records
  <2>2. record \in Range(fuller[t])
    BY <1>7
  <2>3. \A u \in Shards : /\ Range(shards[u]) \subseteq Range(fuller[u])
                          /\ Range(fuller[u]) \subseteq Range(shards[u]) \union {record}
    BY <1>7
  <2> QED
    BY <1>8, <2>1, <2>2, <2>3
<1>10. ASSUME Unique(tree), record \notin Records(tree) PROVE Unique(more)
  <2>1. /\ \A u \in Shards : IsInjective(shards[u])
        /\ \A u, v \in Shards : u # v => Range(shards[u]) \intersect Range(shards[v]) = {}
    BY <1>10 DEF Unique, shards
  <2>2. \A u \in Shards : record \notin Range(shards[u])
    BY <1>8, <1>10
  <2>3. \A u \in Shards : IsInjective(fuller[u])
    BY <1>2, <1>3, <1>5, <2>1, <2>2
  <2>4. \A u, v \in Shards : u # v => Range(fuller[u]) \intersect Range(fuller[v]) = {}
    BY <1>7, <2>1, <2>2
  <2> QED
    BY <1>6, <2>3, <2>4 DEF Unique
<1>11. ASSUME record \in Records(tree) PROVE ~Unique(more)
  <2>1. PICK u \in Shards : record \in Range(shards[u])
    BY <1>8, <1>11
  <2>2. CASE u = t
    BY <1>2, <1>3, <1>5, <1>6, <2>1, <2>2 DEF Unique
  <2>3. CASE u # t
    <3>1. record \in Range(fuller[u]) \intersect Range(fuller[t])
      BY <1>7, <2>1, <2>3
    <3> QED
      BY <1>6, <2>3, <3>1 DEF Unique
  <2> QED
    BY <2>2, <2>3
<1>12. IsDocument(DocumentOf(more))
  <2>1. Records(tree) \subseteq DOMAIN ShardOf /\ IsFiniteSet(Records(tree)) /\ tree.features \subseteq Features
    BY <1>1 DEF IsDocument, DocumentOf
  <2>2. IsFiniteSet(Records(tree) \union {record})
    BY <2>1, FS_AddElement
  <2> QED
    BY <1>6, <1>9, <2>1, <2>2 DEF IsDocument, DocumentOf
<1>13. IsTree(more)
  BY <1>5, <1>6, <1>12 DEF IsTree
<1> QED
  BY <1>6, <1>9, <1>10, <1>11, <1>13 DEF more, Alike

-----------------------------------------------------------------------------
\* Every sequence is one of its own elements.
LEMMA OwnElements ==
    ASSUME NEW S, NEW seq \in Seq(S)
    PROVE  seq \in Seq(Range(seq))
<1>1. Len(seq) \in Nat /\ DOMAIN seq = 1..Len(seq) /\ seq \in [1..Len(seq) -> S]
  BY LenProperties
<1>2. \A k \in 1..Len(seq) : seq[k] \in Range(seq)
  BY <1>1 DEF Range
<1>3. seq = [k \in 1..Len(seq) |-> seq[k]]
  BY <1>1
<1>4. [k \in 1..Len(seq) |-> seq[k]] \in Seq(Range(seq))
  BY <1>1, <1>2, IsASeq
<1> QED
  BY <1>3, <1>4

LEMMA Lengthened ==
    ASSUME NEW seq, seq \in Seq(Range(seq)), NEW x
    PROVE  LET longer == Append(seq, x)
           IN /\ longer \in Seq(Range(longer)) /\ Len(longer) = Len(seq) + 1
              /\ longer[Len(seq) + 1] = x
              /\ \A k \in 1..Len(seq) : longer[k] = seq[k]
<1> DEFINE S == Range(seq) \union {x}
<1>1. seq \in Seq(S) /\ x \in S
  BY SeqMonotonic
<1> HIDE DEF S
<1> DEFINE longer == Append(seq, x)
<1>2. /\ longer \in Seq(S) /\ Len(longer) = Len(seq) + 1 /\ longer[Len(seq) + 1] = x
      /\ \A k \in 1..Len(seq) : longer[k] = seq[k]
  BY <1>1, AppendProperties
<1> HIDE DEF longer
<1>3. longer \in Seq(Range(longer))
  BY <1>2, OwnElements
<1> QED
  BY <1>2, <1>3 DEF longer

LEMMA Replaced ==
    ASSUME NEW seq, seq \in Seq(Range(seq)), NEW i \in 1..Len(seq), NEW x
    PROVE  LET other == [seq EXCEPT ![i] = x]
           IN /\ other \in Seq(Range(other)) /\ Len(other) = Len(seq) /\ other[i] = x
              /\ \A k \in 1..Len(seq) : k # i => other[k] = seq[k]
<1> DEFINE S == Range(seq) \union {x}
<1>1. seq \in Seq(S) /\ x \in S
  BY SeqMonotonic
<1> HIDE DEF S
<1> DEFINE other == [seq EXCEPT ![i] = x]
<1>2. Len(seq) \in Nat /\ DOMAIN seq = 1..Len(seq)
  BY <1>1, LenProperties
<1>3. other \in Seq(S) /\ Len(other) = Len(seq)
  BY <1>1, ExceptSeq
<1>4. other[i] = x /\ \A k \in 1..Len(seq) : k # i => other[k] = seq[k]
  BY <1>2
<1> HIDE DEF other
<1>5. other \in Seq(Range(other))
  BY <1>3, OwnElements
<1> QED
  BY <1>3, <1>4, <1>5 DEF other

\* A new file that stands for what it holds.
LEMMA AddKeeps ==
    ASSUME FilesInv, NEW file, NEW docs, NEW store, Add(file, docs, store),
           FileInv(file, [docs |-> docs, store |-> store, untouched |-> TRUE])
    PROVE  FilesInv'
<1> DEFINE stand == [docs |-> docs, store |-> store, untouched |-> TRUE]
<1>1. /\ files \in Seq(Range(files)) /\ stands \in Seq(Range(stands)) /\ Len(stands) = Len(files)
      /\ \A i \in 1..Len(files) : FileInv(files[i], stands[i])
  BY DEF FilesInv
<1>2. files' = Append(files, file) /\ stands' = Append(stands, stand)
  BY DEF Add
<1>3. FileInv(file, stand)
  OBVIOUS
<1> HIDE DEF stand
<1>4. /\ files' \in Seq(Range(files')) /\ Len(files') = Len(files) + 1 /\ files'[Len(files) + 1] = file
      /\ \A k \in 1..Len(files) : files'[k] = files[k]
  BY <1>1, <1>2, Lengthened
<1>5. /\ stands' \in Seq(Range(stands')) /\ Len(stands') = Len(files) + 1 /\ stands'[Len(files) + 1] = stand
      /\ \A k \in 1..Len(files) : stands'[k] = stands[k]
  BY <1>1, <1>2, Lengthened
<1>6. Len(files) \in Nat
  BY <1>1, LenProperties
<1>7. ASSUME NEW i \in 1..Len(files') PROVE FileInv(files'[i], stands'[i])
  <2>1. i \in 1..Len(files) \/ i = Len(files) + 1
    BY <1>4, <1>6
  <2> QED
    BY <1>1, <1>3, <1>4, <1>5, <2>1
<1>8. /\ files' \in Seq(Range(files')) /\ stands' \in Seq(Range(stands')) /\ Len(stands') = Len(files')
  BY <1>4, <1>5
<1> QED
  BY <1>7, <1>8 DEF FilesInv

\* A file another program has edited: it stands for what its tree is read as.
LEMMA EditKeeps ==
    ASSUME FilesInv, NEW i \in 1..Len(files), NEW tree, NEW docs, NEW store, HandEdit(i, tree, docs, store),
           IsTree(tree), IsPresentation(tree.presentation),
           files[i].tree.presentation = <<>> => tree.presentation = <<>>,
           docs = IF Unique(tree) THEN {DocumentOf(tree)} ELSE {},
           files[i].format \in {"v3", "package"} => StoreOf(tree) = store
    PROVE  FilesInv'
<1> DEFINE file == [files[i] EXCEPT !.tree = tree]
           stand == [docs |-> docs, store |-> store, untouched |-> FALSE]
<1>1. /\ files \in Seq(Range(files)) /\ stands \in Seq(Range(stands)) /\ Len(stands) = Len(files)
      /\ \A k \in 1..Len(files) : FileInv(files[k], stands[k])
  BY DEF FilesInv
<1>2. files' = [files EXCEPT ![i] = file] /\ stands' = [stands EXCEPT ![i] = stand] /\ files[i].format # "direct"
  BY DEF HandEdit
<1>3. FileInv(file, stand)
  <2>1. IsFile(files[i])
    BY <1>1 DEF FileInv
  <2>2. /\ file = [format |-> file.format, tree |-> file.tree, root |-> file.root]
        /\ file.format = files[i].format /\ file.tree = tree
    BY <2>1 DEF IsFile
  <2>3. stand = [docs |-> stand.docs, store |-> stand.store, untouched |-> stand.untouched]
        /\ stand.docs = docs /\ stand.store = store /\ stand.untouched = FALSE
    OBVIOUS
  <2> HIDE DEF file, stand
  <2>4. IsFile(file)
    BY <2>1, <2>2 DEF IsFile
  <2> QED
    BY <1>2, <2>2, <2>3, <2>4 DEF FileInv
<1> HIDE DEF file, stand
<1>4. /\ files' \in Seq(Range(files')) /\ Len(files') = Len(files) /\ files'[i] = file
      /\ \A k \in 1..Len(files) : k # i => files'[k] = files[k]
  <2>1. files \in Seq(Range(files))
    BY <1>1
  <2> DEFINE other == [files EXCEPT ![i] = file]
  <2>2. /\ other \in Seq(Range(other)) /\ Len(other) = Len(files) /\ other[i] = file
        /\ \A k \in 1..Len(files) : k # i => other[k] = files[k]
    BY <2>1, Replaced
  <2>3. files' = other
    BY <1>2
  <2> HIDE DEF other
  <2> QED
    BY <2>2, <2>3
<1>5. /\ stands' \in Seq(Range(stands')) /\ Len(stands') = Len(files) /\ stands'[i] = stand
      /\ \A k \in 1..Len(files) : k # i => stands'[k] = stands[k]
  <2>1. stands \in Seq(Range(stands)) /\ Len(stands) = Len(files) /\ i \in 1..Len(stands)
    BY <1>1
  <2> DEFINE other == [stands EXCEPT ![i] = stand]
  <2>2. /\ other \in Seq(Range(other)) /\ Len(other) = Len(stands) /\ other[i] = stand
        /\ \A k \in 1..Len(stands) : k # i => other[k] = stands[k]
    BY <2>1, Replaced
  <2>3. stands' = other
    BY <1>2
  <2> HIDE DEF other
  <2> QED
    BY <2>1, <2>2, <2>3
<1>6. \A k \in 1..Len(files') : FileInv(files'[k], stands'[k])
  BY <1>1, <1>3, <1>4, <1>5
<1>7. /\ files' \in Seq(Range(files')) /\ stands' \in Seq(Range(stands')) /\ Len(stands') = Len(files')
  BY <1>4, <1>5
<1> QED
  BY <1>6, <1>7 DEF FilesInv

-----------------------------------------------------------------------------
\* A document without some rows.
LEMMA WithoutIs ==
    ASSUME NEW d, IsDocument(d), NEW rows
    PROVE  /\ IsDocument([d EXCEPT !.rows = @ \ rows])
           /\ Without({d}, rows) = {[d EXCEPT !.rows = @ \ rows]}
<1> DEFINE less == [d EXCEPT !.rows = @ \ rows]
<1>1. /\ less = [features |-> less.features, schemas |-> less.schemas, rows |-> less.rows]
      /\ less.features = d.features /\ less.rows = d.rows \ rows
  BY DEF IsDocument
<1>2. IsFiniteSet(d.rows \ rows)
  BY FS_Difference DEF IsDocument
<1>3. Without({d}, rows) = {less}
  BY DEF Without
<1> HIDE DEF less
<1>4. IsDocument(less)
  BY <1>1, <1>2 DEF IsDocument
<1> QED
  BY <1>3, <1>4 DEF less

\* The same tree under the other name keeps what it stands for.
LEMMA FiledIs ==
    ASSUME NEW tree, IsTree(tree), IsPresentation(tree.presentation), Exact(tree),
           NEW format \in {"v3", "package"}
    PROVE  FileInv(File(format, tree),
                   [docs |-> {DocumentOf(tree)}, store |-> StoreOf(tree), untouched |-> TRUE])
<1> DEFINE file == File(format, tree)
           stand == [docs |-> {DocumentOf(tree)}, store |-> StoreOf(tree), untouched |-> TRUE]
<1>1. /\ file = [format |-> file.format, tree |-> file.tree, root |-> file.root]
      /\ file.format = format /\ file.tree = tree /\ (format = "package" => file.root = PayloadRoot(tree))
  BY DEF File
<1>2. stand = [docs |-> stand.docs, store |-> stand.store, untouched |-> stand.untouched]
      /\ stand.docs = {DocumentOf(tree)} /\ stand.store = StoreOf(tree)
  OBVIOUS
<1> HIDE DEF file, stand
<1>3. IsFile(file)
  BY <1>1 DEF IsFile, Formats
<1>4. Unique(tree)
  BY ExactIsUnique
<1>5. Readable(file)
  BY <1>1 DEF Readable, Verified
<1>6. FileInv(file, stand)
  BY <1>1, <1>2, <1>3, <1>4, <1>5 DEF FileInv
<1> QED
  BY <1>6 DEF file, stand

\* Every command writes a file that stands for what the file it read stands for.
LEMMA CommandLineKeeps ==
    ASSUME FilesInv, NEW i \in DOMAIN files, CommandLine(i)
    PROVE  FilesInv'
<1> DEFINE file == files[i]
           stand == stands[i]
           d == DocumentOf(file.tree)
<1>1. i \in 1..Len(files)
  BY LenProperties DEF FilesInv
<1>2. FileInv(file, stand)
  BY <1>1 DEF FilesInv
<1>3. IsTree(file.tree) /\ IsDocument(d) /\ IsPresentation(file.tree.presentation)
  BY <1>2 DEF FileInv, IsFile, IsTree
<1>4. CASE Materialize(i)
  <2>1. /\ Readable(file) /\ Admits("v1", d)
        /\ Add(Encoded("v1", d, NoPresentation), stand.docs, StoreOf(file.tree))
    BY <1>4 DEF Materialize
  <2>2. stand.docs = {d}
    BY <1>2, <2>1, ReadIs
  <2>3. FileInv(Encoded("v1", d, NoPresentation),
                [docs |-> {d}, store |-> StoreOf(file.tree), untouched |-> TRUE])
    BY <1>3, <2>1, EncodedFile, NothingBelongs DEF Formats
  <2> QED
    BY <2>1, <2>2, <2>3, AddKeeps
<1>5. ASSUME NEW rows, Rewrite(i, rows) PROVE FilesInv'
  <2> DEFINE document == [d EXCEPT !.rows = @ \ rows]
             beside == Prune(StoreOf(file.tree), document)
  <2>1. /\ CliReads(file) /\ Admits("direct", document)
        /\ Add(Encoded("direct", document, NoPresentation), Without(stand.docs, rows), beside)
    BY <1>5 DEF Rewrite
  <2>2. stand.docs = {d}
    BY <1>2, <2>1, ReadIs DEF CliReads
  <2>3. IsDocument(document) /\ Without(stand.docs, rows) = {document}
    BY <1>3, <2>2, WithoutIs
  <2> HIDE DEF document, beside
  <2>4. FileInv(Encoded("direct", document, NoPresentation),
                [docs |-> {document}, store |-> beside, untouched |-> TRUE])
    BY <2>1, <2>3, EncodedFile, NothingBelongs DEF Formats
  <2> QED
    BY <2>1, <2>3, <2>4, AddKeeps
<1>6. CASE Canonicalize(i)
  <2>1. /\ Unique(file.tree) /\ Admits("v1", d)
        /\ Add(Encoded("v1", d, NoPresentation), stand.docs, NoPresentation)
    BY <1>6 DEF Canonicalize
  <2>2. stand.docs = {d}
    BY <1>2, <2>1 DEF FileInv
  <2>3. FileInv(Encoded("v1", d, NoPresentation),
                [docs |-> {d}, store |-> NoPresentation, untouched |-> TRUE])
    BY <1>3, <2>1, EncodedFile, NothingBelongs DEF Formats
  <2> QED
    BY <2>1, <2>2, <2>3, AddKeeps
<1>7. CASE Pack(i) \/ Unpack(i)
  <2>1. PICK format \in {"v3", "package"} : Add(File(format, file.tree), stand.docs, stand.store)
    BY <1>7 DEF Pack, Unpack
  <2>2. file.format \in {"v3", "package"} /\ Readable(file)
    BY <1>7 DEF Pack, Unpack
  <2>3. Exact(file.tree)
    BY <2>2 DEF Readable, Verified
  <2>4. stand.docs = {d} /\ stand.store = StoreOf(file.tree)
    BY <1>2, <2>2, ReadIs DEF FileInv
  <2>5. FileInv(File(format, file.tree),
                [docs |-> {d}, store |-> StoreOf(file.tree), untouched |-> TRUE])
    BY <1>3, <2>3, FiledIs
  <2> QED
    BY <2>1, <2>4, <2>5, AddKeeps
<1>8. CASE Migrate(i)
  <2>1. Readable(file) /\ Add(Encoded("v3", d, NoPresentation), stand.docs, NoPresentation)
    BY <1>8 DEF Migrate
  <2>2. stand.docs = {d}
    BY <1>2, <2>1, ReadIs
  <2>3. Admits("v3", d)
    BY DEF Admits, Refused
  <2>4. FileInv(Encoded("v3", d, NoPresentation),
                [docs |-> {d}, store |-> NoPresentation, untouched |-> TRUE])
    BY <1>3, <2>3, EncodedFile, NothingBelongs DEF Formats
  <2> QED
    BY <2>1, <2>2, <2>4, AddKeeps
<1> QED
  BY <1>4, <1>5, <1>6, <1>7, <1>8 DEF CommandLine

\* A presentation of which only the bytes are another program's.
LEMMA RewrittenIs ==
    ASSUME NEW store, NEW canonical, NEW other
    PROVE  [<<[store |-> store, canonical |-> canonical]>> EXCEPT ![1].canonical = other] =
             <<[store |-> store, canonical |-> other]>>
  OBVIOUS

\* Another presentation beside the records of a tree.
LEMMA BesideIs ==
    ASSUME NEW tree, IsTree(tree), NEW presentation, IsPresentation(presentation)
    PROVE  LET other == [tree EXCEPT !.presentation = presentation]
           IN /\ IsTree(other) /\ IsPresentation(other.presentation) /\ other.presentation = presentation
              /\ DocumentOf(other) = DocumentOf(tree) /\ Unique(other) = Unique(tree)
<1> DEFINE other == [tree EXCEPT !.presentation = presentation]
<1>1. tree = [features |-> tree.features, schemas |-> tree.schemas, shards |-> tree.shards,
              presentation |-> tree.presentation]
  BY DEF IsTree
<1>2. /\ other = [features |-> other.features, schemas |-> other.schemas, shards |-> other.shards,
                  presentation |-> other.presentation]
      /\ other.features = tree.features /\ other.schemas = tree.schemas /\ other.shards = tree.shards
      /\ other.presentation = presentation
  BY <1>1
<1> HIDE DEF other
<1>3. DocumentOf(other) = DocumentOf(tree)
  BY <1>2 DEF DocumentOf, Records
<1>4. Unique(other) = Unique(tree)
  BY <1>2 DEF Unique
<1>5. IsTree(other)
  BY <1>2, <1>3 DEF IsTree
<1> QED
  BY <1>2, <1>3, <1>4, <1>5 DEF other

\* What another program does to a tree, the history says of it.
LEMMA OtherProgramKeeps ==
    ASSUME FilesInv, NEW i \in DOMAIN files, OtherProgram(i)
    PROVE  FilesInv'
<1> DEFINE file == files[i]
           stand == stands[i]
           tree == file.tree
           d == DocumentOf(tree)
<1>1. i \in 1..Len(files)
  BY LenProperties DEF FilesInv
<1>2. FileInv(file, stand)
  BY <1>1 DEF FilesInv
<1>3. /\ IsTree(tree) /\ IsPresentation(tree.presentation) /\ IsDocument(d)
      /\ file.format \in {"v3", "package"} => StoreOf(tree) = stand.store
      /\ stand.docs = IF Unique(tree) THEN {d} ELSE {}
  BY <1>2 DEF FileInv, IsFile, IsTree
<1>4. ASSUME NEW s \in Shards, NEW t \in Shards, NEW k \in DOMAIN tree.shards[s], MoveRecord(i, s, k, t)
      PROVE  FilesInv'
  <2> DEFINE record == tree.shards[s][k]
             taken == Drop(tree, s, k)
             moved == Put(taken, t, record)
  <2>1. HandEdit(i, moved, stand.docs, stand.store)
    BY <1>4 DEF MoveRecord, Drop, Put
  <2>2. Unique(tree) /\ stand.docs = {d}
    BY <1>3, <2>1 DEF HandEdit
  <2>3. /\ IsTree(taken) /\ Unique(taken) /\ Alike(tree, taken)
        /\ record \in Records(tree) /\ Records(taken) = Records(tree) \ {record}
    BY <1>3, <2>2, DropIs
  <2> HIDE DEF taken, record
  <2>4. record \in DOMAIN ShardOf
    BY <1>3, <2>3 DEF DocumentOf, IsDocument
  <2>5. /\ IsTree(moved) /\ Unique(moved) /\ Alike(taken, moved)
        /\ Records(moved) = Records(taken) \union {record}
    BY <2>3, <2>4, PutIs
  <2> HIDE DEF moved
  <2>6. Alike(tree, moved) /\ Records(moved) = Records(tree)
    BY <2>3, <2>5 DEF Alike
  <2>7. DocumentOf(moved) = d /\ StoreOf(moved) = StoreOf(tree) /\ moved.presentation = tree.presentation
    BY <2>6 DEF DocumentOf, StoreOf, Alike
  <2>8. stand.docs = IF Unique(moved) THEN {DocumentOf(moved)} ELSE {}
    BY <2>2, <2>5, <2>7
  <2> QED
    BY <1>1, <1>3, <2>1, <2>5, <2>7, <2>8, EditKeeps
<1>5. ASSUME NEW s \in Shards, NEW t \in Shards, NEW k \in DOMAIN tree.shards[s], RepeatRecord(i, s, k, t)
      PROVE  FilesInv'
  <2> DEFINE record == tree.shards[s][k]
             more == Put(tree, t, record)
  <2>1. HandEdit(i, more, {}, stand.store)
    BY <1>5 DEF RepeatRecord, Put
  <2>2. Unique(tree)
    BY <1>3, <2>1 DEF HandEdit
  <2>3. record \in Records(tree)
    BY <1>3, <2>2, DropIs
  <2>4. record \in DOMAIN ShardOf
    BY <1>3, <2>3 DEF IsDocument, DocumentOf
  <2> HIDE DEF record
  <2>5. IsTree(more) /\ ~Unique(more) /\ Alike(tree, more)
    BY <1>3, <2>3, <2>4, PutIs
  <2> HIDE DEF more
  <2>6. StoreOf(more) = StoreOf(tree) /\ more.presentation = tree.presentation
    BY <2>5 DEF StoreOf, Alike
  <2> QED
    BY <1>1, <1>3, <2>1, <2>5, <2>6, EditKeeps
<1>6. ASSUME NEW s \in Shards, NEW k \in DOMAIN tree.shards[s], DropRecord(i, s, k)
      PROVE  FilesInv'
  <2> DEFINE record == tree.shards[s][k]
             left == Drop(tree, s, k)
             docs == Without(stand.docs, {record})
  <2>1. HandEdit(i, left, docs, stand.store)
    BY <1>6 DEF DropRecord, Drop
  <2>2. Unique(tree) /\ stand.docs = {d}
    BY <1>3, <2>1 DEF HandEdit, Without
  <2>3. /\ IsTree(left) /\ Unique(left) /\ Alike(tree, left)
        /\ Records(left) = Records(tree) \ {record}
    BY <1>3, <2>2, DropIs
  <2> HIDE DEF left, record
  <2>4. docs = {[d EXCEPT !.rows = @ \ {record}]}
    BY <1>3, <2>2 DEF Without
  <2>5. [d EXCEPT !.rows = @ \ {record}] = DocumentOf(left)
    BY <2>3 DEF DocumentOf, Alike
  <2> HIDE DEF docs
  <2>6. StoreOf(left) = StoreOf(tree) /\ left.presentation = tree.presentation
    BY <2>3 DEF StoreOf, Alike
  <2> QED
    BY <1>1, <1>3, <2>1, <2>3, <2>4, <2>5, <2>6, EditKeeps
<1>7. CASE ReorderPresentation(i)
  <2> DEFINE presentation == <<[store |-> tree.presentation[1].store, canonical |-> FALSE]>>
             other == [tree EXCEPT !.presentation = presentation]
  <2>1. tree.presentation # <<>>
    BY <1>7 DEF ReorderPresentation
  <2>2. /\ tree.presentation = <<[store |-> tree.presentation[1].store,
                                  canonical |-> tree.presentation[1].canonical]>>
        /\ tree.presentation[1].store # NoPresentation /\ IsStore(tree.presentation[1].store)
    BY <1>3, <2>1 DEF IsPresentation
  <2>3. [tree EXCEPT !.presentation[1].canonical = FALSE] = other
    <3> DEFINE store == tree.presentation[1].store
               canonical == tree.presentation[1].canonical
               no == FALSE
    <3>1. tree.presentation = <<[store |-> store, canonical |-> canonical]>>
      BY <2>2
    <3>2. presentation = <<[store |-> store, canonical |-> no]>>
      OBVIOUS
    <3> HIDE DEF store, canonical, no, presentation
    <3>3. [tree.presentation EXCEPT ![1].canonical = no] = presentation
      BY <3>1, <3>2, RewrittenIs
    <3>4. [tree EXCEPT !.presentation[1].canonical = no] = other
      BY <3>3
    <3> QED
      BY <3>4, Zenon DEF no
  <2>4. HandEdit(i, other, stand.docs, stand.store)
    BY <1>7, <2>3 DEF ReorderPresentation
  <2>5. /\ presentation # <<>> /\ presentation[1].store = tree.presentation[1].store
        /\ presentation[1].canonical = FALSE
        /\ presentation = <<[store |-> presentation[1].store, canonical |-> presentation[1].canonical]>>
    OBVIOUS
  <2> HIDE DEF presentation
  <2>6. IsPresentation(presentation)
    BY <2>2, <2>5 DEF IsPresentation
  <2>7. /\ IsTree(other) /\ other.presentation = presentation
        /\ DocumentOf(other) = d /\ Unique(other) = Unique(tree)
    BY <1>3, <2>6, BesideIs
  <2> HIDE DEF other
  <2>8. StoreOf(other) = StoreOf(tree)
    BY <2>1, <2>5, <2>7 DEF StoreOf
  <2> QED
    BY <1>1, <1>3, <2>1, <2>4, <2>6, <2>7, <2>8, EditKeeps
<1>8. CASE DropPresentation(i)
  <2> DEFINE other == [tree EXCEPT !.presentation = <<>>]
  <2>1. HandEdit(i, other, stand.docs, NoPresentation)
    BY <1>8 DEF DropPresentation
  <2>2. IsPresentation(<<>>)
    BY DEF IsPresentation
  <2>3. /\ IsTree(other) /\ other.presentation = <<>>
        /\ DocumentOf(other) = d /\ Unique(other) = Unique(tree)
    BY <1>3, <2>2, BesideIs
  <2> HIDE DEF other
  <2>4. StoreOf(other) = NoPresentation
    BY <2>3 DEF StoreOf
  <2> QED
    BY <1>1, <1>3, <2>1, <2>2, <2>3, <2>4, EditKeeps
<1> QED
  BY <1>4, <1>5, <1>6, <1>7, <1>8 DEF OtherProgram

-----------------------------------------------------------------------------
\* The session with another document and another past.
Continued(s, d, past) == [<<s>> EXCEPT ![1].document = d, ![1].past = past]

LEMMA ContinuedIs ==
    ASSUME NEW s, IsSession(s), NEW d, NEW past
    PROVE  Continued(s, d, past) = <<[document |-> d, store |-> s.store, past |-> past,
                                      openedFromV3 |-> s.openedFromV3, opened |-> s.opened]>>
<1> DEFINE document == s.document
           store == s.store
           before == s.past
           fromV3 == s.openedFromV3
           opened == s.opened
           once == [s EXCEPT !.document = d]
           twice == [once EXCEPT !.past = past]
<1>1. s = [document |-> document, store |-> store, past |-> before, openedFromV3 |-> fromV3, opened |-> opened]
  BY DEF IsSession
<1> HIDE DEF document, store, before, fromV3, opened
<1>2. [<<s>> EXCEPT ![1].document = d] = <<once>>
  OBVIOUS
<1>3. once = [document |-> d, store |-> store, past |-> before, openedFromV3 |-> fromV3, opened |-> opened]
  BY <1>1
<1> HIDE DEF once
<1>4. [<<once>> EXCEPT ![1].past = past] = <<twice>>
  OBVIOUS
<1>5. twice = [document |-> d, store |-> store, past |-> past, openedFromV3 |-> fromV3, opened |-> opened]
  BY <1>3
<1> HIDE DEF twice
<1> QED
  BY <1>2, <1>4, <1>5 DEF Continued, store, fromV3, opened

\* A session goes on with a document, from a past of documents.
LEMMA SessionGoesOn ==
    ASSUME SessionInv, session # <<>>, NEW d, IsDocument(d), NEW past, past \in Seq(Range(past)),
           \A k \in 1..Len(past) : IsDocument(past[k]),
           session' = [session EXCEPT ![1].document = d, ![1].past = past]
    PROVE  SessionInv'
<1> DEFINE s == session[1]
           next == [document |-> d, store |-> s.store, past |-> past,
                    openedFromV3 |-> s.openedFromV3, opened |-> s.opened]
<1>1. session = <<s>> /\ IsSession(s)
  BY DEF SessionInv
<1> HIDE DEF s
<1>2. session' = Continued(s, d, past)
  BY <1>1 DEF Continued
<1>3. session' = <<next>>
  BY <1>1, <1>2, ContinuedIs
<1>4. /\ next = [document |-> next.document, store |-> next.store, past |-> next.past,
                 openedFromV3 |-> next.openedFromV3, opened |-> next.opened]
      /\ next.document = d /\ next.store = s.store /\ next.past = past /\ next.opened = s.opened
  OBVIOUS
<1> HIDE DEF next
<1>5. IsSession(next)
  BY <1>1, <1>4 DEF IsSession
<1> QED
  BY <1>3, <1>5 DEF SessionInv

\* A session is opened.
LEMMA SessionOpens ==
    ASSUME NEW d, IsDocument(d), NEW store, IsKept(store), NEW fromV3,
           session' = <<[document |-> d, store |-> store, past |-> <<>>,
                         openedFromV3 |-> fromV3, opened |-> store]>>
    PROVE  SessionInv'
<1> DEFINE s == [document |-> d, store |-> store, past |-> <<>>, openedFromV3 |-> fromV3, opened |-> store]
<1>1. session' = <<s>>
  OBVIOUS
<1>2. /\ s = [document |-> s.document, store |-> s.store, past |-> s.past,
              openedFromV3 |-> s.openedFromV3, opened |-> s.opened]
      /\ s.document = d /\ s.store = store /\ s.past = <<>> /\ s.opened = store
  OBVIOUS
<1> HIDE DEF s
<1>3. IsSession(s)
  BY <1>2 DEF IsSession
<1> QED
  BY <1>1, <1>3 DEF SessionInv

\* Edits and undos: the document stays one, and so does each one of the past.
LEMMA PublishKeeps ==
    ASSUME SessionInv, session # <<>>, NEW d, IsDocument(d), Publish(d)
    PROVE  SessionInv'
<1> DEFINE s == session[1]
           past == s.past
           longer == Append(past, s.document)
<1>1. IsDocument(s.document) /\ past \in Seq(Range(past)) /\ \A k \in 1..Len(past) : IsDocument(past[k])
  BY DEF SessionInv, IsSession
<1>2. session' = [session EXCEPT ![1].document = d, ![1].past = longer]
  BY DEF Publish, SessionInv
<1> HIDE DEF s, past, longer
<1>3. /\ longer \in Seq(Range(longer)) /\ Len(longer) = Len(past) + 1 /\ longer[Len(past) + 1] = s.document
      /\ \A k \in 1..Len(past) : longer[k] = past[k]
  BY <1>1, Lengthened DEF longer
<1>4. Len(past) \in Nat
  BY <1>1, LenProperties
<1>5. \A k \in 1..Len(longer) : IsDocument(longer[k])
  <2> SUFFICES ASSUME NEW k \in 1..Len(longer) PROVE IsDocument(longer[k])
    OBVIOUS
  <2>1. k \in 1..Len(past) \/ k = Len(past) + 1
    BY <1>3, <1>4
  <2> QED
    BY <1>1, <1>3, <2>1
<1> QED
  BY <1>2, <1>3, <1>5, SessionGoesOn

LEMMA UndoKeeps ==
    ASSUME SessionInv, session # <<>>, Undo
    PROVE  SessionInv'
<1> DEFINE past == session[1].past
           earlier == Front(past)
<1>1. past \in Seq(Range(past)) /\ (\A k \in 1..Len(past) : IsDocument(past[k])) /\ past # <<>>
  BY DEF SessionInv, IsSession, Undo
<1>2. session' = [session EXCEPT ![1].document = Last(past), ![1].past = earlier]
  BY DEF Undo
<1> HIDE DEF past, earlier
<1>3. Len(past) \in Nat /\ Len(past) # 0 /\ \A k \in 1..Len(past) : past[k] \in Range(past)
  BY <1>1, LenProperties, EmptySeq DEF Range
<1>4. Last(past) = past[Len(past)] /\ IsDocument(Last(past))
  BY <1>1, <1>3 DEF Last
<1>5. /\ earlier \in Seq(Range(past)) /\ Len(earlier) = Len(past) - 1
      /\ \A k \in 1..(Len(past) - 1) : earlier[k] = past[k]
  <2> DEFINE n == Len(past) - 1
  <2>1. n \in Nat /\ n \in Int /\ 1 \in Int /\ \A k \in 1..n : past[k] \in Range(past)
    BY <1>3
  <2>2. earlier = SubSeq(past, 1, n)
    BY DEF earlier, Front
  <2> HIDE DEF n
  <2>3. /\ earlier \in Seq(Range(past)) /\ Len(earlier) = IF 1 <= n THEN n - 1 + 1 ELSE 0
        /\ \A k \in 1..(n - 1 + 1) : earlier[k] = past[1 + k - 1]
    BY <2>1, <2>2, SubSeqProperties
  <2>4. Len(earlier) = n /\ \A k \in 1..n : earlier[k] = past[k]
    BY <2>1, <2>3
  <2> QED
    BY <2>3, <2>4 DEF n
<1>6. earlier \in Seq(Range(earlier))
  BY <1>5, OwnElements
<1>7. \A k \in 1..Len(earlier) : IsDocument(earlier[k])
  BY <1>1, <1>3, <1>5
<1> QED
  BY <1>2, <1>4, <1>6, <1>7, SessionGoesOn

\* A file is opened with what it holds.
LEMMA OpenKeeps ==
    ASSUME FilesInv, NEW i \in DOMAIN files, Open(i)
    PROVE  FilesInv' /\ SessionInv'
<1> DEFINE tree == files[i].tree
           fromV3 == files[i].format \in {"v3", "package"}
<1>1. FileInv(files[i], stands[i])
  BY LenProperties DEF FilesInv
<1>2. IsDocument(DocumentOf(tree)) /\ IsKept(StoreOf(tree))
  BY <1>1, ReadIs DEF Open
<1>3. session' = <<[document |-> DocumentOf(tree), store |-> StoreOf(tree), past |-> <<>>,
                    openedFromV3 |-> fromV3, opened |-> StoreOf(tree)]>>
  BY DEF Open
<1> HIDE DEF tree, fromV3
<1>4. SessionInv'
  BY <1>2, <1>3, SessionOpens
<1>5. FilesInv'
  BY DEF Open, FilesInv
<1> QED
  BY <1>4, <1>5

LEMMA NewTableKeeps ==
    ASSUME FilesInv, NEW d \in InitialDocs, NewTable(d)
    PROVE  FilesInv' /\ SessionInv'
<1>1. session' = <<[document |-> d, store |-> NoPresentation, past |-> <<>>,
                    openedFromV3 |-> TRUE, opened |-> NoPresentation]>>
  BY DEF NewTable
<1>2. IsDocument(d)
  BY FormatsAssumption
<1>3. SessionInv'
  BY <1>1, <1>2, SessionOpens, NothingBelongs
<1>4. FilesInv'
  BY DEF NewTable, FilesInv
<1> QED
  BY <1>3, <1>4

\* What the session exports is its document and what belongs to it.
LEMMA ExportKeeps ==
    ASSUME Inv, session # <<>>, NEW format \in Formats, NEW store, IsStore(store),
           Belongs(store, session[1].document), Export(format, store)
    PROVE  Inv'
<1> DEFINE d == session[1].document
<1>1. IsDocument(d)
  BY DEF Inv, SessionInv, IsSession
<1>2. Admits(format, d) /\ Add(Encoded(format, d, store), {d}, store)
  BY DEF Export
<1> HIDE DEF d
<1>3. FileInv(Encoded(format, d, store), [docs |-> {d}, store |-> store, untouched |-> TRUE])
  BY <1>1, <1>2, EncodedFile DEF d
<1>4. FilesInv'
  BY <1>2, <1>3, AddKeeps DEF Inv
<1>5. SessionInv'
  BY DEF Inv, Export, SessionInv
<1> QED
  BY <1>4, <1>5 DEF Inv

LEMMA ExportV3Keeps ==
    ASSUME Inv, session # <<>>, NEW format \in {"v3", "package"}, ExportV3(format)
    PROVE  Inv'
<1> DEFINE pruned == Prune(session[1].store, session[1].document)
<1>1. IsKept(session[1].store)
  BY DEF Inv, SessionInv, IsSession
<1>2. IsStore(pruned) /\ Belongs(pruned, session[1].document)
  BY <1>1, PruneBelongs
<1>3. Export(format, pruned) /\ format \in Formats
  BY DEF ExportV3, Formats
<1> HIDE DEF pruned
<1> QED
  BY <1>2, <1>3, ExportKeeps

\* Whatever the browser does.
LEMMA BrowserKeeps ==
    ASSUME Inv, Browser
    PROVE  Inv'
<1> DEFINE s == session[1]
           d == s.document
<1>1. session # <<>> /\ FilesInv /\ SessionInv /\ IsDocument(d)
  BY DEF Browser, Inv, SessionInv, IsSession
<1>2. ASSUME NEW document, IsDocument(document), Publish(document) PROVE Inv'
  <2>1. SessionInv'
    BY <1>1, <1>2, PublishKeeps
  <2>2. FilesInv'
    BY <1>1, <1>2 DEF Publish, FilesInv
  <2> QED
    BY <2>1, <2>2 DEF Inv
<1>3. d = [features |-> d.features, schemas |-> d.schemas, rows |-> d.rows]
      /\ d.features \subseteq Features /\ d.rows \subseteq DOMAIN ShardOf /\ IsFiniteSet(d.rows)
  BY <1>1 DEF IsDocument
<1>4. ASSUME NEW r, RemoveRow(r) PROVE Inv'
  <2> DEFINE document == [d EXCEPT !.rows = @ \ {r}]
  <2>1. IsDocument(document)
    BY <1>1, WithoutIs
  <2>2. Publish(document)
    BY <1>4 DEF RemoveRow
  <2> HIDE DEF document
  <2> QED
    BY <1>2, <2>1, <2>2
<1>5. ASSUME NEW table, NEW f, RemoveColumn(table, f) PROVE Inv'
  <2> DEFINE schemas == [d.schemas EXCEPT ![table] = @ \ {f}]
             document == [d EXCEPT !.schemas = schemas]
  <2>1. Publish(document)
    BY <1>5 DEF RemoveColumn
  <2> HIDE DEF schemas
  <2>2. document = [features |-> d.features, schemas |-> schemas, rows |-> d.rows]
    BY <1>3
  <2>3. IsDocument(document)
    BY <1>3, <2>2 DEF IsDocument
  <2> HIDE DEF document
  <2> QED
    BY <1>2, <2>1, <2>3
<1>6. ASSUME NEW f \in Features, AddFeature(f) PROVE Inv'
  <2> DEFINE features == d.features \union {f}
             document == [d EXCEPT !.features = features]
  <2>1. Publish(document)
    BY <1>6 DEF AddFeature
  <2>2. features \subseteq Features
    BY <1>3
  <2> HIDE DEF features
  <2>3. document = [features |-> features, schemas |-> d.schemas, rows |-> d.rows]
    BY <1>3
  <2>4. IsDocument(document)
    BY <1>3, <2>2, <2>3 DEF IsDocument
  <2> HIDE DEF document
  <2> QED
    BY <1>2, <2>1, <2>4
<1>7. CASE Undo
  <2>1. SessionInv'
    BY <1>1, <1>7, UndoKeeps
  <2>2. FilesInv'
    BY <1>1, <1>7 DEF Undo, FilesInv
  <2> QED
    BY <2>1, <2>2 DEF Inv
<1>8. CASE ExportProject
  <2>1. PICK format \in {"direct", "v2", "v1"} : Export(format, NoPresentation)
    BY <1>8 DEF ExportProject
  <2>2. format \in Formats
    BY DEF Formats
  <2> QED
    BY <1>1, <2>1, <2>2, ExportKeeps, NothingBelongs
<1>9. ASSUME NEW format \in {"v3", "package"}, ExportV3(format) PROVE Inv'
  BY <1>1, <1>9, ExportV3Keeps
<1>10. CASE ExportCanonicalTree
  <2>1. ExportV3("v3") \/ Export("v1", NoPresentation)
    BY <1>10 DEF ExportCanonicalTree
  <2>2. ASSUME Export("v1", NoPresentation) PROVE Inv'
    <3>1. "v1" \in Formats
      BY DEF Formats
    <3> QED
      BY <1>1, <2>2, <3>1, ExportKeeps, NothingBelongs
  <2> QED
    BY <1>9, <2>1, <2>2
<1> QED
  BY <1>4, <1>5, <1>6, <1>7, <1>8, <1>9, <1>10 DEF Browser

-----------------------------------------------------------------------------
LEMMA InitInv == Init => Inv
<1> SUFFICES ASSUME Init PROVE Inv
  OBVIOUS
<1>1. PICK d \in InitialDocs, store \in InitialStores, format \in Formats :
         /\ Admits(format, d) /\ Belongs(store, d)
         /\ files = <<Encoded(format, d, store)>>
         /\ stands = <<[docs |-> {d}, store |-> store, untouched |-> TRUE]>>
  BY DEF Init
<1> DEFINE file == Encoded(format, d, store)
           stand == [docs |-> {d}, store |-> store, untouched |-> TRUE]
<1>2. FileInv(file, stand)
  BY <1>1, EncodedFile, FormatsAssumption
<1>3. files = <<file>> /\ stands = <<stand>>
  BY <1>1
<1> HIDE DEF file, stand
<1>4. files \in Seq({file}) /\ Len(files) = 1 /\ files[1] = file
      /\ stands \in Seq({stand}) /\ Len(stands) = 1 /\ stands[1] = stand
  BY <1>3
<1>5. files \in Seq(Range(files)) /\ stands \in Seq(Range(stands))
  BY <1>4, OwnElements
<1>6. FilesInv
  BY <1>2, <1>4, <1>5 DEF FilesInv
<1>7. SessionInv
  BY DEF Init, SessionInv
<1> QED
  BY <1>6, <1>7 DEF Inv

LEMMA NextInv == Inv /\ [Next]_vars => Inv'
<1> SUFFICES ASSUME Inv, [Next]_vars PROVE Inv'
  OBVIOUS
<1>1. ASSUME NEW i \in DOMAIN files, CommandLine(i) PROVE Inv'
  <2>1. FilesInv'
    BY <1>1, CommandLineKeeps DEF Inv
  <2>2. UNCHANGED session
    BY <1>1 DEF CommandLine, Materialize, Rewrite, Canonicalize, Pack, Unpack, Migrate
  <2> QED
    BY <2>1, <2>2 DEF Inv, SessionInv
<1>2. ASSUME NEW i \in DOMAIN files, OtherProgram(i) PROVE Inv'
  <2>1. FilesInv'
    BY <1>2, OtherProgramKeeps DEF Inv
  <2>2. UNCHANGED session
    BY <1>2 DEF OtherProgram, MoveRecord, RepeatRecord, DropRecord, ReorderPresentation, DropPresentation,
                HandEdit
  <2> QED
    BY <2>1, <2>2 DEF Inv, SessionInv
<1>3. ASSUME NEW i \in DOMAIN files, Open(i) PROVE Inv'
  BY <1>3, OpenKeeps DEF Inv
<1>4. ASSUME NEW d \in InitialDocs, NewTable(d) PROVE Inv'
  BY <1>4, NewTableKeeps DEF Inv
<1>5. CASE Browser
  BY <1>5, BrowserKeeps
<1>6. CASE UNCHANGED vars
  BY <1>6 DEF vars, Inv, FilesInv, SessionInv
<1> QED
  BY <1>1, <1>2, <1>3, <1>4, <1>5, <1>6 DEF Next

LEMMA Invariance == Spec => []Inv
  BY InitInv, NextInv, PTL DEF Spec

LEMMA InvHoldsProjects == Inv => FilesHoldTheirProjects
<1> SUFFICES ASSUME Inv, NEW i \in DOMAIN files
             PROVE  /\ stands[i].untouched => Readable(files[i])
                    /\ Readable(files[i]) \/ BrowserOpens(files[i]) =>
                         /\ stands[i].docs = {DocumentOf(files[i].tree)}
                         /\ files[i].format \in {"v3", "package"} => StoreOf(files[i].tree) = stands[i].store
  BY DEF FilesHoldTheirProjects
<1>1. FileInv(files[i], stands[i])
  BY LenProperties DEF Inv, FilesInv
<1> QED
  BY <1>1, ReadIs DEF FileInv

\* Trees whose every byte the encoder would write are alike when they hold the same.
LEMMA ExactIsDetermined ==
    ASSUME NEW t, NEW u, IsTree(t), IsTree(u), IsPresentation(t.presentation), IsPresentation(u.presentation),
           Exact(t), Exact(u), DocumentOf(t) = DocumentOf(u), StoreOf(t) = StoreOf(u)
    PROVE  t = u
<1>1. t.features = u.features /\ t.schemas = u.schemas /\ Records(t) = Records(u)
  BY DEF DocumentOf
<1>2. t.shards = u.shards
  BY <1>1 DEF Exact
<1>3. ASSUME NEW p, IsPresentation(p), p # <<>>, p[1].canonical
      PROVE  p = <<[store |-> p[1].store, canonical |-> TRUE]>> /\ p[1].store # NoPresentation
  <2>1. /\ p = <<[store |-> p[1].store, canonical |-> p[1].canonical]>>
        /\ p[1].store # NoPresentation /\ p[1].canonical \in BOOLEAN
    BY <1>3 DEF IsPresentation
  <2>2. p[1].canonical = TRUE
    BY <1>3, <2>1
  <2> QED
    BY <2>1, <2>2
<1>4. t.presentation = u.presentation
  <2>1. (t.presentation # <<>> => t.presentation[1].canonical) /\ (u.presentation # <<>> => u.presentation[1].canonical)
    BY DEF Exact
  <2>2. CASE t.presentation = <<>> \/ u.presentation = <<>>
    BY <1>3, <2>1, <2>2 DEF StoreOf
  <2>3. CASE t.presentation # <<>> /\ u.presentation # <<>>
    <3>1. t.presentation[1].store = u.presentation[1].store
      BY <2>3 DEF StoreOf
    <3> QED
      BY <1>3, <2>1, <2>3, <3>1
  <2> QED
    BY <2>2, <2>3
<1> QED
  BY <1>1, <1>2, <1>4 DEF IsTree

LEMMA InvEqualsRoots == Inv => EqualRootsEqualProjects
<1> SUFFICES ASSUME Inv, NEW i \in DOMAIN files, NEW j \in DOMAIN files,
                    files[i].format = "package", files[j].format = "v3",
                    Readable(files[i]), Readable(files[j])
             PROVE  Consistent(files[i], files[j]) <=>
                      /\ DocumentOf(files[i].tree) = DocumentOf(files[j].tree)
                      /\ StoreOf(files[i].tree) = StoreOf(files[j].tree)
  BY DEF EqualRootsEqualProjects
<1>1. FileInv(files[i], stands[i]) /\ FileInv(files[j], stands[j])
  BY LenProperties DEF Inv, FilesInv
<1> DEFINE t == files[i].tree
           u == files[j].tree
<1>2. /\ IsTree(t) /\ IsPresentation(t.presentation) /\ IsTree(u) /\ IsPresentation(u.presentation)
  BY <1>1 DEF FileInv, IsFile
<1>3. files[i].root = t /\ Exact(t) /\ Exact(u)
  BY DEF Readable, Verified, PayloadRoot
<1>4. Consistent(files[i], files[j]) <=> t = u
  BY <1>3 DEF Consistent, PayloadRoot
<1> HIDE DEF t, u
<1>5. DocumentOf(t) = DocumentOf(u) /\ StoreOf(t) = StoreOf(u) => t = u
  BY <1>2, <1>3, ExactIsDetermined
<1> QED
  BY <1>4, <1>5 DEF t, u

LEMMA InvSaves == Inv => SavesKeepWhatTheyCan
<1> SUFFICES ASSUME Inv, session # <<>>
             PROVE  LET saved == Prune(session[1].store, session[1].document) IN
                    /\ Belongs(saved, session[1].document)
                    /\ \A part \in Parts(session[1].opened) :
                         Belongs(part, session[1].document) => Includes(saved, part)
  BY DEF SavesKeepWhatTheyCan
<1> DEFINE store == session[1].store
           d == session[1].document
<1>1. IsKept(store) /\ IsStore(store) /\ session[1].opened = store
  BY DEF Inv, SessionInv, IsSession, IsKept
<1> HIDE DEF store, d
<1>2. Belongs(Prune(store, d), d)
  BY <1>1, PruneBelongs
<1>3. ASSUME NEW part \in Parts(store), Belongs(part, d) PROVE Includes(Prune(store, d), part)
  BY <1>1, <1>3, PartsAreIncluded, PruneKeeps
<1> QED
  BY <1>1, <1>2, <1>3 DEF store, d

-----------------------------------------------------------------------------
\* Whatever commands, other programs and the browser do to however many files,
\* a file that some reader admits holds the document it stands for and, where
\* its format keeps one, the presentation; a file nobody but a command wrote is
\* readable; and a file in which a row is twice no reader admits.
THEOREM FilesHold == Spec => []FilesHoldTheirProjects
  BY Invariance, InvHoldsProjects, PTL

\* A verified package and an exact tree have the same digest just when they
\* hold the same document and the same presentation.
THEOREM EqualRoots == Spec => []EqualRootsEqualProjects
  BY Invariance, InvEqualsRoots, PTL

\* What the session would save belongs to its document, after any edits and
\* undos, and every part of what was opened that belongs to it is in it.
THEOREM SavesKeep == Spec => []SavesKeepWhatTheyCan
  BY Invariance, InvSaves, PTL
=============================================================================

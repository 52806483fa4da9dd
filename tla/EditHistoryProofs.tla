--------------------------- MODULE EditHistoryProofs ---------------------------
(***************************************************************************)
(* Proved of the history of a Designer session, over every document,       *)
(* catalogue of values and depth: whatever edits are made, undone, redone  *)
(* and dropped, each entry of the two stacks is accepted when its turn     *)
(* comes, gives back the document it was recorded on and leads again to    *)
(* the one it made of it.  The session implements EditHistory.             *)
(***************************************************************************)
EXTENDS DesignerSessionProofs

\* What an edit that made e of d needs to be taken back: the batch leads to d
\* and is allowed in the vocabulary d requires.
ComesBack(d, e, inverse) ==
    /\ d \in Plan(e, inverse)
    /\ RequiresV2(d) => NeedsV2(e, inverse)

\* What is known before and after a step.
AllSound == SessionInv /\ SessionInv' /\ IsTyped(doc)

\* A step that is recorded with a batch that takes it back.
IsEdit ==
    \E forward, inverse, serial :
        RecordEditAs(forward, inverse, serial) /\ IsTyped(doc') /\ ComesBack(doc, doc', inverse)

\* A table with the columns and the order of another requires the same vocabulary.
LEMMA SameVocabulary ==
  ASSUME NEW d, NEW e, e.columns = d.columns, e.order = d.order, NEW inverse,
         d \in Plan(e, inverse)
  PROVE  ComesBack(d, e, inverse)
BY DEF ComesBack, RequiresV2, NeedsV2

\* What is recorded is put on top of the stack.
LEMMA RecordedBatches ==
  ASSUME AllSound, NEW forward, NEW inverse, NEW serial, RecordEditAs(forward, inverse, serial)
  PROVE  /\ IsBatch(forward) /\ IsBatch(inverse)
         /\ doc' \in Plan(doc, forward) /\ doc' # doc
<1> DEFINE entry == [forward |-> forward, inverse |-> inverse]
           kept == IF Len(undo) >= HistoryDepth THEN Tail(undo) ELSE undo
           S == Range(undo)
<1>1. undo \in Seq(S)
  BY DEF AllSound, SessionInv, BatchInv, KnownStack
<1>2. undo' = Append(kept, entry)
  BY DEF RecordEditAs, Record
<1>3. HistoryDepth \in Nat \ {0}
  BY BoundsAssumption
<1> HIDE DEF S
<1>4. kept \in Seq(S)
  BY <1>1, <1>3
<1> HIDE DEF kept, entry
<1>5. Len(undo') \in DOMAIN undo' /\ undo'[Len(undo')] = entry
  BY <1>2, <1>4
<1>6. entry \in Range(undo')
  BY <1>5 DEF Range
<1>7. KnownBatch(entry.forward, rowSerial', proposalSerial')
      /\ KnownBatch(entry.inverse, rowSerial', proposalSerial')
  BY <1>6 DEF AllSound, SessionInv, BatchInv, KnownStack
<1>8. IsBatch(forward) /\ IsBatch(inverse)
  BY <1>7 DEF KnownBatch, entry
<1> QED BY <1>8 DEF RecordEditAs, Publish, Accepted, Publishable

\* A batch of typed commands is published as a good table.
TypedParts(command) ==
    /\ command.op \in CellOperations \ {"unset"} => IsValue(command.value)
    /\ command.op = "append_entity" => \A c \in DOMAIN command.fields : IsValue(command.fields[c])
    /\ command.op = "append_field" =>
         /\ IsDefinition(command.definition)
         /\ \A r \in DOMAIN command.values : IsValue(command.values[r])
    /\ command.op = "order" => IsTypedOrder(command.order)

LEMMA EditIsTyped ==
  ASSUME AllSound, NEW forward, NEW inverse, NEW serial, RecordEditAs(forward, inverse, serial),
         \A i \in 1 .. Len(forward) : TypedParts(forward[i])
  PROVE  IsTyped(doc') /\ GoodTable(doc) /\ GoodTable(doc')
<1>1. IsBatch(forward) /\ doc' \in Plan(doc, forward)
  BY RecordedBatches
<1>2. \A i \in 1 .. Len(forward) : IsTypedCommand(forward[i])
  BY <1>1 DEF IsBatch, TypedParts, IsTypedCommand, IsTypedOrder
<1>3. IsTable(doc) /\ Valid(doc) /\ IsTable(doc') /\ Valid(doc') /\ IsTyped(doc)
  BY DEF AllSound, SessionInv, DocInv
<1>4. IsTyped(doc')
  BY <1>1, <1>2, <1>3, PlanKeepsTyped DEF IsBatch
<1> QED BY <1>3, <1>4 DEF GoodTable

-----------------------------------------------------------------------------
(* Cells.                                                                  *)

\* SetToSeq lists each element once.
LEMMA SetToSeqIsInjective ==
  ASSUME NEW S, IsFiniteSet(S)
  PROVE  \A i, j \in DOMAIN SetToSeq(S) : SetToSeq(S)[i] = SetToSeq(S)[j] => i = j
<1>1. \E f \in [1 .. Cardinality(S) -> S] : IsInjective(f)
  BY FS_NatBijection, FS_CardinalityType DEF ExistsBijection, IsInjective, Bijection, Injection
<1>2. IsInjective(SetToSeq(S))
  BY <1>1 DEF SetToSeq
<1> QED BY <1>2 DEF IsInjective

\* A command for each of a finite set of cells.
LEMMA ListedCells ==
  ASSUME NEW S, IsFiniteSet(S), S \subseteq Nat \X Nat,
         NEW commands, commands = [i \in DOMAIN SetToSeq(S) |-> commands[i]],
         \A i \in DOMAIN SetToSeq(S) :
           commands[i].op \in CellOperations /\ commands[i].cell = SetToSeq(S)[i]
  PROVE  /\ Cardinality(S) \in Nat /\ Len(commands) = Cardinality(S)
         /\ DOMAIN SetToSeq(S) = 1 .. Cardinality(S)
         /\ IsCellBatch(commands, Cardinality(S))
<1>1. SetToSeq(S) \in [1 .. Cardinality(S) -> S] /\ Cardinality(S) \in Nat
  BY SetToSeqLists
<1>2. DOMAIN commands = 1 .. Cardinality(S) /\ DOMAIN SetToSeq(S) = 1 .. Cardinality(S)
  BY <1>1
<1>3. Len(commands) = Cardinality(S)
  BY <1>1, <1>2
<1>4. \A i, j \in DOMAIN SetToSeq(S) : SetToSeq(S)[i] = SetToSeq(S)[j] => i = j
  BY SetToSeqIsInjective
<1> QED BY <1>1, <1>2, <1>3, <1>4 DEF IsCellBatch

\* Reversed, it is one command for each as well.
LEMMA ReversedAt ==
  ASSUME NEW n \in Nat, NEW commands, Len(commands) = n, NEW i \in 1 .. n
  PROVE  Reverse(commands)[i] = commands[(n - i) + 1]
BY DEF Reverse

LEMMA ReversedLength ==
  ASSUME NEW n \in Nat, NEW commands, Len(commands) = n
  PROVE  Len(Reverse(commands)) = n
BY DEF Reverse

LEMMA ReversedCells ==
  ASSUME NEW n \in Nat, NEW commands, Len(commands) = n, IsCellBatch(commands, n)
  PROVE  IsCellBatch(Reverse(commands), n)
<1> DEFINE back == Reverse(commands)
<1>1. \A i \in 1 .. n : back[i] = commands[(n - i) + 1] /\ (n - i) + 1 \in 1 .. n
  BY ReversedAt
<1> HIDE DEF back
<1>2. ASSUME NEW i \in 1 .. n, NEW j \in 1 .. n, back[j].cell = back[i].cell PROVE i = j
  <2>1. (n - j) + 1 = (n - i) + 1
    BY <1>1, <1>2 DEF IsCellBatch
  <2> QED BY <2>1
<1>3. IsCellBatch(back, n)
  BY <1>1, <1>2 DEF IsCellBatch
<1> QED BY <1>3 DEF back

\* A cell for cell edit is taken back in the order of its commands or in the
\* opposite one.
LEMMA ListedCellsComeBack ==
  ASSUME NEW d, GoodTable(d), NEW e, GoodTable(e), NEW S, IsFiniteSet(S),
         \A cell \in S : Declared(d, cell) /\ cell \in Nat \X Nat,
         NEW forward, forward = [i \in DOMAIN SetToSeq(S) |-> forward[i]],
         NEW back, back = [i \in DOMAIN SetToSeq(S) |-> back[i]],
         \A i \in DOMAIN SetToSeq(S) :
           /\ forward[i].op \in CellOperations /\ forward[i].cell = SetToSeq(S)[i]
           /\ back[i].op \in CellOperations /\ IsAnswer(d, forward[i], back[i]),
         e \in Plan(d, forward)
  PROVE  ComesBack(d, e, back) /\ ComesBack(d, e, Reverse(back))
<1> DEFINE n == Cardinality(S)
<1>1. S \subseteq Nat \X Nat
  OBVIOUS
<1>2. /\ n \in Nat /\ Len(forward) = n /\ DOMAIN SetToSeq(S) = 1 .. n
      /\ IsCellBatch(forward, n)
  BY <1>1, ListedCells
<1>3. \A i \in DOMAIN SetToSeq(S) : back[i].cell = SetToSeq(S)[i]
  BY DEF IsAnswer
<1>4. Len(back) = n /\ IsCellBatch(back, n)
  BY <1>1, <1>3, ListedCells
<1>5. /\ Len(Reverse(back)) = n
      /\ IsCellBatch(Reverse(back), n)
      /\ \A i \in 1 .. n : (n - i) + 1 \in 1 .. n /\ Reverse(back)[i] = back[(n - i) + 1]
      /\ \A i \in 1 .. n : (n - i) + 1 \in 1 .. n /\ Reverse(back)[(n - i) + 1] = back[i]
  <2>1. n \in Nat /\ Len(back) = n /\ IsCellBatch(back, n)
    BY <1>2, <1>4
  <2> HIDE DEF n
  <2>2. Len(Reverse(back)) = n
    BY <2>1, ReversedLength
  <2>3. IsCellBatch(Reverse(back), n)
    BY <2>1, ReversedCells
  <2>4. \A i \in 1 .. n : Reverse(back)[i] = back[(n - i) + 1]
    BY <2>1, ReversedAt
  <2>5. \A i \in 1 .. n : (n - i) + 1 \in 1 .. n /\ (n - ((n - i) + 1)) + 1 = i
    BY <2>1
  <2> QED BY <2>2, <2>3, <2>4, <2>5
<1>6. \A i \in 1 .. n : IsAnswer(d, forward[i], back[i])
  BY <1>2
<1>7. AreAnswered(d, forward, back, n)
  BY <1>6 DEF AreAnswered
<1>8. AreAnswered(d, forward, Reverse(back), n)
  BY <1>5, <1>6 DEF AreAnswered
<1>9. SetToSeq(S) \in [1 .. n -> S]
  BY SetToSeqLists
<1>10. \A i \in 1 .. n : Declared(d, forward[i].cell)
  BY <1>2, <1>9
<1> HIDE DEF n
<1>11. d \in Plan(e, back) /\ e.columns = d.columns /\ e.order = d.order
  BY <1>2, <1>4, <1>7, <1>10, CellEditsGoBack
<1>12. d \in Plan(e, Reverse(back))
  BY <1>2, <1>5, <1>8, <1>10, CellEditsGoBack
<1> QED BY <1>11, <1>12, SameVocabulary

\* What a cell of a typed table holds.
LEMMA ContentIs ==
  ASSUME NEW d, IsTyped(d), NEW cell
  PROVE  Content(d, cell) = {} \/ \E v : Content(d, cell) = {v} /\ The(Content(d, cell)) = v /\ IsValue(v)
BY DEF Content, Present, The, IsTyped

\* A value or text that a caller enters.
LEMMA EnteredIs ==
  ASSUME NEW input \in Values \union {Clear}
  PROVE  \/ Entered(input) = {}
         \/ /\ Entered(input) = {input} /\ The(Entered(input)) = input
            /\ IsValue(input) /\ Kind(input) # "formula"
BY ValuesAssumption DEF Entered, The, IsValue, Types

\* A typed cell's commands answer each other.
LEMMA CellEditAnswers ==
  ASSUME NEW d, IsTyped(d), NEW cell, NEW input \in Values \union {Clear},
         Entered(input) # Content(d, cell)
  PROVE  LET forward == CellForward(cell, Content(d, cell), Entered(input))
             inverse == CellInverse(cell, Content(d, cell), Entered(input))
         IN /\ forward.op \in CellOperations /\ forward.cell = cell /\ TypedParts(forward)
            /\ inverse.op \in CellOperations /\ IsAnswer(d, forward, inverse)
<1> DEFINE old == Content(d, cell)
           new == Entered(input)
           forward == CellForward(cell, old, new)
           inverse == CellInverse(cell, old, new)
<1>1. old = {} \/ \E v : old = {v} /\ The(old) = v /\ IsValue(v)
  BY ContentIs
<1>2. new = {} \/ (\E v : new = {v} /\ The(new) = v /\ IsValue(v) /\ Kind(v) # "formula")
  BY EnteredIs
<1>3. new # old
  OBVIOUS
<1> HIDE DEF old, new
<1>4. /\ forward.op = (IF new = {} THEN "unset" ELSE IF HoldsFormula(old) THEN "formula_inverse_restore" ELSE "set")
      /\ forward.cell = cell
      /\ new # {} => forward.value = The(new)
  BY DEF CellForward, ValueCommand, FormulaInverseRestore, SetFieldValue, UnsetField
<1>5. /\ inverse.op = (IF old = {} THEN "unset" ELSE IF HoldsFormula(old) /\ new = {} THEN "formula_restore" ELSE "set")
      /\ inverse.cell = cell
      /\ old # {} => inverse.value = The(old)
  BY DEF CellInverse, ValueCommand, FormulaRestore, SetFieldValue, UnsetField, HoldsFormula
<1> HIDE DEF forward, inverse
<1>6. NewContent(forward) = new /\ NewContent(inverse) = old
  BY <1>1, <1>2, <1>4, <1>5 DEF NewContent
<1>7. IsWayBack(inverse.op, old, new)
  BY <1>1, <1>2, <1>5 DEF IsWayBack, HoldsFormula
<1>8. TypedParts(forward)
  BY <1>2, <1>4 DEF TypedParts, CellOperations
<1>9. forward.op \in CellOperations /\ inverse.op \in CellOperations
  BY <1>4, <1>5 DEF CellOperations
<1>10. IsAnswer(d, forward, inverse)
  BY <1>3, <1>4, <1>5, <1>6, <1>7 DEF IsAnswer, old
<1> QED BY <1>4, <1>8, <1>9, <1>10 DEF forward, inverse, old, new

\* Cells of the table, as the requests see it.
LEMMA AllCellsAre ==
  ASSUME AllSound
  PROVE  /\ IsFiniteSet(AllCells)
         /\ \A cell \in AllCells : Declared(doc, cell) /\ cell \in Nat \X Nat
<1>1. DocInv
  BY DEF AllSound, SessionInv
<1> QED BY <1>1, SpecsAre DEF AllCells, Declared

\* A block of typed cells is taken back.
LEMMA EditCellsComeBack ==
  ASSUME AllSound, EditCells
  PROVE  IsEdit
<1>1. PICK range \in Ranges : \E input \in [range -> Values \union {Clear}] :
        LET old(cell) == Content(doc, cell)
            new(cell) == Entered(input[cell])
            changed == SetToSeq({cell \in range : new(cell) # old(cell)})
        IN RecordEdit(
             [i \in DOMAIN changed |-> CellForward(changed[i], old(changed[i]), new(changed[i]))],
             [i \in DOMAIN changed |-> CellInverse(changed[i], old(changed[i]), new(changed[i]))])
  BY DEF EditCells
<1>2. PICK input \in [range -> Values \union {Clear}] :
        LET old(cell) == Content(doc, cell)
            new(cell) == Entered(input[cell])
            changed == SetToSeq({cell \in range : new(cell) # old(cell)})
        IN RecordEdit(
             [i \in DOMAIN changed |-> CellForward(changed[i], old(changed[i]), new(changed[i]))],
             [i \in DOMAIN changed |-> CellInverse(changed[i], old(changed[i]), new(changed[i]))])
  BY <1>1
<1> DEFINE S == {cell \in range : Entered(input[cell]) # Content(doc, cell)}
           changed == SetToSeq(S)
           forward == [i \in DOMAIN changed |->
                         CellForward(changed[i], Content(doc, changed[i]), Entered(input[changed[i]]))]
           back == [i \in DOMAIN changed |->
                      CellInverse(changed[i], Content(doc, changed[i]), Entered(input[changed[i]]))]
           serial == proposalSerial + 1
<1>3. RecordEditAs(forward, back, serial)
  BY <1>2 DEF RecordEdit
<1>4. /\ IsFiniteSet(S)
      /\ \A cell \in S : /\ Declared(doc, cell) /\ cell \in Nat \X Nat
                         /\ input[cell] \in Values \union {Clear}
                         /\ Entered(input[cell]) # Content(doc, cell)
  BY AllCellsAre, FS_Subset DEF Ranges
<1> HIDE DEF S
<1>5. DOMAIN changed = 1 .. Len(forward) /\ changed \in [DOMAIN changed -> S]
  <2>1. changed \in [1 .. Cardinality(S) -> S] /\ Cardinality(S) \in Nat
    BY <1>4, SetToSeqLists
  <2>2. Len(forward) = Cardinality(S)
    BY <2>1
  <2> QED BY <2>1, <2>2
<1> HIDE DEF changed
<1>6. \A i \in DOMAIN changed :
        /\ forward[i].op \in CellOperations /\ forward[i].cell = changed[i]
        /\ TypedParts(forward[i])
        /\ back[i].op \in CellOperations /\ IsAnswer(doc, forward[i], back[i])
  <2> SUFFICES ASSUME NEW i \in DOMAIN changed
               PROVE  /\ forward[i].op \in CellOperations /\ forward[i].cell = changed[i]
                      /\ TypedParts(forward[i])
                      /\ back[i].op \in CellOperations /\ IsAnswer(doc, forward[i], back[i])
    OBVIOUS
  <2> DEFINE cell == changed[i]
  <2>1. cell \in S /\ input[cell] \in Values \union {Clear} /\ Entered(input[cell]) # Content(doc, cell)
        /\ IsTyped(doc)
    BY <1>4, <1>5 DEF AllSound
  <2>2. /\ forward[i] = CellForward(cell, Content(doc, cell), Entered(input[cell]))
        /\ back[i] = CellInverse(cell, Content(doc, cell), Entered(input[cell]))
    OBVIOUS
  <2> HIDE DEF cell
  <2>3. LET f == CellForward(cell, Content(doc, cell), Entered(input[cell]))
            b == CellInverse(cell, Content(doc, cell), Entered(input[cell]))
        IN /\ f.op \in CellOperations /\ f.cell = cell /\ TypedParts(f)
           /\ b.op \in CellOperations /\ IsAnswer(doc, f, b)
    BY <2>1, CellEditAnswers
  <2> HIDE DEF forward, back
  <2> QED BY <2>2, <2>3 DEF cell
<1>7. /\ forward = [i \in DOMAIN changed |-> forward[i]]
      /\ back = [i \in DOMAIN changed |-> back[i]]
  OBVIOUS
<1> HIDE DEF forward, back
<1>8. IsTyped(doc') /\ GoodTable(doc) /\ GoodTable(doc')
  BY <1>3, <1>5, <1>6, EditIsTyped
<1>9. doc' \in Plan(doc, forward)
  BY <1>3, RecordedBatches
<1>10. ComesBack(doc, doc', back)
  BY <1>4, <1>6, <1>7, <1>8, <1>9, ListedCellsComeBack DEF changed
<1> QED BY <1>3, <1>8, <1>10 DEF IsEdit

\* The list of the ids has every one of them.
LEMMA IdOrderHas ==
  ASSUME NEW ids, ids \subseteq Nat, IsFiniteSet(ids), NEW id \in ids
  PROVE  \E i \in DOMAIN IdOrder(ids) : IdOrder(ids)[i] = id
<1> DEFINE Before(x) == {other \in ids : other < x}
           i == Cardinality(Before(id)) + 1
<1>1. \A x : IsFiniteSet(Before(x)) /\ Cardinality(Before(x)) \in Nat
  BY FS_Subset, FS_CardinalityType
<1>2. ASSUME NEW a \in ids, NEW b \in ids, a < b
      PROVE  Cardinality(Before(a)) < Cardinality(Before(b))
  <2>1. a \notin Before(a) /\ Before(a) \union {a} \subseteq Before(b)
    <3>1. a \in Nat /\ b \in Nat
      OBVIOUS
    <3>2. ASSUME NEW y \in Before(a) PROVE y \in Before(b) /\ y # a
      <4>1. y \in Nat /\ y < a
        BY <3>2
      <4> QED BY <1>2, <3>1, <3>2, <4>1
    <3> QED BY <1>2, <3>2
  <2> HIDE DEF Before
  <2>2. Cardinality(Before(a) \union {a}) = Cardinality(Before(a)) + 1
    BY <1>1, <2>1, FS_AddElement
  <2>3. Cardinality(Before(a) \union {a}) <= Cardinality(Before(b))
    BY <1>1, <2>1, FS_Subset
  <2> QED BY <1>1, <2>2, <2>3
<1>3. i \in 1 .. Cardinality(ids)
  <2>1. id \notin Before(id) /\ Before(id) \union {id} \subseteq ids
    OBVIOUS
  <2> HIDE DEF Before
  <2>2. Cardinality(Before(id) \union {id}) = Cardinality(Before(id)) + 1
    BY <1>1, <2>1, FS_AddElement
  <2>3. Cardinality(Before(id) \union {id}) <= Cardinality(ids)
    BY <2>1, FS_Subset
  <2> QED BY <1>1, <2>2, <2>3, FS_CardinalityType
<1>4. ASSUME NEW x \in ids, Cardinality(Before(x)) = i - 1 PROVE x = id
  <2>1. x \in Nat /\ id \in Nat /\ Cardinality(Before(x)) = Cardinality(Before(id))
    BY <1>1, <1>4
  <2> HIDE DEF Before, i
  <2>2. ~(x < id) /\ ~(id < x)
    BY <1>1, <1>2, <2>1
  <2> QED BY <2>1, <2>2
<1>5. Cardinality(Before(id)) = i - 1
  BY <1>1
<1>6. IdOrder(ids)[i] = CHOOSE x \in ids : Cardinality({other \in ids : other < x}) = i - 1
  BY <1>3 DEF IdOrder
<1> HIDE DEF i
<1>7. IdOrder(ids)[i] = id
  BY <1>4, <1>5, <1>6
<1> QED BY <1>3, <1>7 DEF IdOrder

\* So has the shown order of the columns.
LEMMA ColumnOrderHas ==
  ASSUME NEW d, GoodTable(d)
  PROVE  /\ \A i \in DOMAIN ColumnOrder(d) : ColumnOrder(d)[i] \in DOMAIN d.columns
         /\ \A c \in DOMAIN d.columns : \E i \in DOMAIN ColumnOrder(d) : ColumnOrder(d)[i] = c
<1>1. IsFiniteSet(DOMAIN d.columns) /\ DOMAIN d.columns \subseteq Nat
      /\ IsOrderOf(d.order, DOMAIN d.columns)
  BY DEF GoodTable, IsTable, Valid
<1>2. CASE d.order.explicit
  BY <1>1, <1>2 DEF ColumnOrder, IsOrderOf, Bijection, Surjection, Injection, IsInjective
<1>3. CASE ~d.order.explicit
  <2>1. ColumnOrder(d) = IdOrder(DOMAIN d.columns)
    BY <1>3 DEF ColumnOrder
  <2>2. IdOrder(DOMAIN d.columns) \in [1 .. Cardinality(DOMAIN d.columns) -> DOMAIN d.columns]
    BY <1>1, IdOrderLists
  <2>3. \A c \in DOMAIN d.columns :
          \E i \in DOMAIN IdOrder(DOMAIN d.columns) : IdOrder(DOMAIN d.columns)[i] = c
    BY <1>1, IdOrderHas
  <2> QED BY <2>1, <2>2, <2>3
<1> QED BY <1>2, <1>3

\* A copied formula reads a cell of the table.
LEMMA RebasedIs ==
  ASSUME AllSound, GoodTable(doc), NEW read, Declared(doc, read), NEW from, NEW to,
         NEW relativeRows \in BOOLEAN, NEW relativeColumns \in BOOLEAN,
         NEW cell \in Rebased(read, from, to, relativeRows, relativeColumns)
  PROVE  cell \in Nat \X Nat
<1> DEFINE rows == IdOrder(specs.rows)
<1>1. specs.rows = DOMAIN doc.rows /\ specs.order = ColumnOrder(doc)
      /\ IsFiniteSet(DOMAIN doc.rows) /\ DOMAIN doc.rows \subseteq Nat /\ DOMAIN doc.columns \subseteq Nat
  BY DEF AllSound, SessionInv, DocInv, StructureIsCurrent, SpecsOf, IsTable
<1>2. /\ \A i \in DOMAIN rows : rows[i] \in Nat
      /\ \A i \in DOMAIN specs.order : specs.order[i] \in Nat
  <2>1. rows \in [1 .. Cardinality(DOMAIN doc.rows) -> DOMAIN doc.rows]
    BY <1>1, IdOrderLists
  <2>2. \A i \in DOMAIN ColumnOrder(doc) : ColumnOrder(doc)[i] \in DOMAIN doc.columns
    BY ColumnOrderHas
  <2> HIDE DEF rows
  <2> QED BY <1>1, <2>1, <2>2
<1>3. Place(rows, read[1]) \in DOMAIN rows /\ Place(specs.order, read[2]) \in DOMAIN specs.order
  <2>1. \E i \in DOMAIN rows : rows[i] = read[1]
    BY <1>1, IdOrderHas DEF Declared
  <2>2. \E i \in DOMAIN specs.order : specs.order[i] = read[2]
    BY <1>1, ColumnOrderHas DEF Declared
  <2> HIDE DEF rows
  <2> QED BY <2>1, <2>2 DEF Place
<1>4. /\ \A i \in Copied(rows, read[1], from[1], to[1], relativeRows) :
           i = Place(rows, read[1]) \/ i \in DOMAIN rows
      /\ \A j \in Copied(specs.order, read[2], from[2], to[2], relativeColumns) :
           j = Place(specs.order, read[2]) \/ j \in DOMAIN specs.order
  BY DEF Copied
<1>5. PICK i \in Copied(rows, read[1], from[1], to[1], relativeRows),
           j \in Copied(specs.order, read[2], from[2], to[2], relativeColumns) :
        cell = <<rows[i], specs.order[j]>>
  BY DEF Rebased
<1> HIDE DEF rows
<1> QED BY <1>2, <1>3, <1>4, <1>5

\* A formula that is copied is taken back, in the opposite order.
LEMMA CopyFormulaComesBack ==
  ASSUME AllSound, CopyFormula
  PROVE  IsEdit
<1>1. IsTyped(doc) /\ GoodTable(doc)
  BY DEF AllSound, SessionInv, DocInv, GoodTable
<1>2. PICK range, copy : /\ range \in Ranges /\ CopyTo(range, copy)
                         /\ \A cell \in range : IsValue(copy[cell]) /\ Kind(copy[cell]) = "formula"
  <2>1. PICK from \in FormulaCells(doc), range \in Ranges :
          \E fixed, relativeRows, relativeColumns \in BOOLEAN :
            LET read == ReadBy(doc, from)
                reads == [cell \in range |->
                            IF fixed THEN {read}
                            ELSE Rebased(read, from, cell, relativeRows, relativeColumns)]
            IN /\ \A cell \in range :
                    /\ doc.columns[cell[2]].type = "number"
                    /\ reads[cell] # {}
                    /\ doc.columns[The(reads[cell])[2]].type = "number"
               /\ CopyTo(range, [cell \in range |-> FormulaValue(The(reads[cell]))])
               /\ UNCHANGED rowSerial
    BY DEF CopyFormula
  <2>2. PICK fixed \in BOOLEAN, relativeRows \in BOOLEAN, relativeColumns \in BOOLEAN :
            LET read == ReadBy(doc, from)
                reads == [cell \in range |->
                            IF fixed THEN {read}
                            ELSE Rebased(read, from, cell, relativeRows, relativeColumns)]
            IN /\ \A cell \in range :
                    /\ doc.columns[cell[2]].type = "number"
                    /\ reads[cell] # {}
                    /\ doc.columns[The(reads[cell])[2]].type = "number"
               /\ CopyTo(range, [cell \in range |-> FormulaValue(The(reads[cell]))])
               /\ UNCHANGED rowSerial
    BY <2>1
  <2> DEFINE read == ReadBy(doc, from)
             reads == [cell \in range |->
                         IF fixed THEN {read}
                         ELSE Rebased(read, from, cell, relativeRows, relativeColumns)]
             copy == [cell \in range |-> FormulaValue(The(reads[cell]))]
  <2>3. Declared(doc, read) /\ read \in Nat \X Nat
    BY <1>1, SourcesAreDeclared
  <2> HIDE DEF read
  <2>4. \A cell \in range : The(reads[cell]) \in Nat \X Nat
    <3> SUFFICES ASSUME NEW cell \in range PROVE The(reads[cell]) \in Nat \X Nat
      OBVIOUS
    <3>1. reads[cell] # {} /\ The(reads[cell]) \in reads[cell]
      BY <2>2 DEF The, read
    <3>2. \A x \in Rebased(read, from, cell, relativeRows, relativeColumns) : x \in Nat \X Nat
      BY <1>1, <2>3, RebasedIs
    <3> QED BY <2>3, <3>1, <3>2
  <2>5. CopyTo(range, copy)
    BY <2>2 DEF read
  <2> HIDE DEF reads
  <2>6. \A cell \in range : IsValue(copy[cell]) /\ Kind(copy[cell]) = "formula"
    BY <2>4 DEF IsValue, FormulaValue, Source, Kind
  <2> HIDE DEF copy
  <2> QED BY <2>5, <2>6
<1> DEFINE S == {cell \in range : Content(doc, cell) # {copy[cell]}}
           changed == SetToSeq(S)
           forward == [i \in DOMAIN changed |-> CopyForward(changed[i], copy[changed[i]])]
           back == [i \in DOMAIN changed |-> CopyInverse(changed[i])]
           serial == proposalSerial + 1
<1>3. RecordEditAs(forward, Reverse(back), serial)
  BY <1>2 DEF CopyTo, RecordEdit
<1>4. /\ IsFiniteSet(S)
      /\ \A cell \in S : /\ Declared(doc, cell) /\ cell \in Nat \X Nat
                         /\ IsValue(copy[cell]) /\ Kind(copy[cell]) = "formula"
                         /\ Content(doc, cell) # {copy[cell]}
  BY <1>2, AllCellsAre, FS_Subset DEF Ranges
<1> HIDE DEF S
<1>5. DOMAIN changed = 1 .. Len(forward) /\ changed \in [DOMAIN changed -> S]
  <2>1. changed \in [1 .. Cardinality(S) -> S] /\ Cardinality(S) \in Nat
    BY <1>4, SetToSeqLists
  <2>2. Len(forward) = Cardinality(S)
    BY <2>1
  <2> QED BY <2>1, <2>2
<1> HIDE DEF changed
<1>6. \A i \in DOMAIN changed :
        /\ forward[i].op \in CellOperations /\ forward[i].cell = changed[i]
        /\ TypedParts(forward[i])
        /\ back[i].op \in CellOperations /\ IsAnswer(doc, forward[i], back[i])
  <2> SUFFICES ASSUME NEW i \in DOMAIN changed
               PROVE  /\ forward[i].op \in CellOperations /\ forward[i].cell = changed[i]
                      /\ TypedParts(forward[i])
                      /\ back[i].op \in CellOperations /\ IsAnswer(doc, forward[i], back[i])
    OBVIOUS
  <2> DEFINE cell == changed[i]
             old == Content(doc, cell)
  <2>1. /\ IsValue(copy[cell]) /\ Kind(copy[cell]) = "formula" /\ old # {copy[cell]}
    BY <1>4, <1>5
  <2>2. old = {} \/ \E v : old = {v} /\ The(old) = v /\ IsValue(v)
    BY <1>1, ContentIs
  <2>3. /\ forward[i].op \in {"set", "formula_restore"}
        /\ forward[i].cell = cell /\ forward[i].value = copy[cell]
    BY DEF CopyForward, SetFieldValue, FormulaRestore
  <2>4. /\ back[i].op = (IF old = {} THEN "unset" ELSE IF HoldsFormula(old) THEN "set"
                         ELSE "formula_inverse_restore")
        /\ back[i].cell = cell
        /\ old # {} => back[i].value = The(old)
    BY DEF CopyInverse, ValueCommand, FormulaInverseRestore, SetFieldValue, UnsetField, HoldsFormula
  <2> HIDE DEF forward, back, cell, old
  <2>5. NewContent(forward[i]) = {copy[cell]} /\ NewContent(back[i]) = old
    BY <2>2, <2>3, <2>4 DEF NewContent
  <2>6. IsWayBack(back[i].op, old, {copy[cell]})
    BY <2>1, <2>2, <2>4 DEF IsWayBack, HoldsFormula
  <2>7. IsAnswer(doc, forward[i], back[i])
    BY <2>1, <2>3, <2>4, <2>5, <2>6 DEF IsAnswer, old
  <2> QED BY <2>1, <2>3, <2>4, <2>7 DEF CellOperations, TypedParts, cell
<1>7. /\ forward = [i \in DOMAIN changed |-> forward[i]]
      /\ back = [i \in DOMAIN changed |-> back[i]]
  OBVIOUS
<1> HIDE DEF forward, back
<1>8. IsTyped(doc') /\ GoodTable(doc) /\ GoodTable(doc')
  BY <1>3, <1>5, <1>6, EditIsTyped
<1>9. doc' \in Plan(doc, forward)
  BY <1>3, RecordedBatches
<1>10. ComesBack(doc, doc', Reverse(back))
  BY <1>4, <1>6, <1>7, <1>8, <1>9, ListedCellsComeBack DEF changed
<1> QED BY <1>3, <1>8, <1>10 DEF IsEdit

\* A formula that is typed in is taken back.
LEMMA UpdateFormulaComesBack ==
  ASSUME AllSound, UpdateFormula
  PROVE  IsEdit
<1>1. PICK cell \in AllCells, source \in AllCells :
        RecordEdit(<<FormulaUpdate(cell, FormulaValue(source))>>, <<FormulaInverse(cell)>>)
  BY DEF UpdateFormula
<1> DEFINE one == FormulaUpdate(cell, FormulaValue(source))
           other == FormulaInverse(cell)
           forward == <<one>>
           back == <<other>>
           serial == proposalSerial + 1
           old == Content(doc, cell)
           new == FormulaValue(source)
<1>2. RecordEditAs(forward, back, serial)
  BY <1>1 DEF RecordEdit
<1>3. Declared(doc, cell) /\ cell \in Nat \X Nat /\ source \in Nat \X Nat
  BY AllCellsAre
<1>4. IsValue(new) /\ Kind(new) = "formula"
  BY <1>3 DEF IsValue, FormulaValue, Source, Kind
<1>5. one.op = "formula_update" /\ one.cell = cell /\ one.value = new
  BY DEF FormulaUpdate
<1> HIDE DEF one, other
<1>6. IsTyped(doc') /\ GoodTable(doc) /\ GoodTable(doc')
  <2>1. \A i \in 1 .. Len(forward) : TypedParts(forward[i])
    BY <1>4, <1>5 DEF TypedParts
  <2> QED BY <1>2, <2>1, EditIsTyped
<1>7. doc' \in Plan(doc, forward)
  BY <1>2, RecordedBatches
<1>8. old # {new}
  <2>1. Leads(doc, doc, doc', forward)
    BY <1>7, PlanLeads
  <2>2. doc' \in Step(doc, doc, one)
    BY <2>1, OneLeads
  <2>3. doc' \in StepFormulaUpdate(doc, cell, new)
    BY <1>5, <2>2 DEF Step
  <2> QED BY <2>3 DEF StepFormulaUpdate, StepSet, If, Content
<1>9. old = {} \/ \E v : old = {v} /\ The(old) = v /\ IsValue(v)
  BY <1>6, ContentIs DEF GoodTable
<1>10. /\ other.cell = cell
       /\ other.op \in CellOperations
       /\ NewContent(other) = old
       /\ IsWayBack(other.op, old, {new})
  <2>1. CASE old = {}
    <3>1. other = UnsetField(cell)
      BY <2>1 DEF other, FormulaInverse, HoldsFormula
    <3> QED BY <2>1, <3>1 DEF UnsetField, CellOperations, NewContent, IsWayBack
  <2>2. CASE HoldsFormula(old)
    <3>1. PICK v : old = {v} /\ The(old) = v /\ IsValue(v) /\ Kind(v) = "formula" /\ v = doc.rows[cell[1]][cell[2]]
          /\ Present(doc, cell)
      BY <1>9, <2>2 DEF HoldsFormula, Content
    <3>2. cell \in FormulaCells(doc)
      BY <1>3, <3>1, FormulaCellsAre DEF Present
    <3>3. sources[cell] = Source(v)
      BY <3>1, <3>2 DEF AllSound, SessionInv, DocInv, StructureIsCurrent, SourcesOf, ReadBy
    <3>4. v = FormulaValue(Source(v))
      BY <3>1 DEF IsValue, Types
    <3>5. other = FormulaUpdate(cell, v)
      BY <2>2, <3>1, <3>3, <3>4 DEF other, FormulaInverse
    <3> QED BY <3>1, <3>5 DEF FormulaUpdate, CellOperations, NewContent, IsWayBack
  <2>3. CASE old # {} /\ ~HoldsFormula(old)
    <3>1. other = FormulaInverseRestore(cell, The(old))
      BY <2>3 DEF other, FormulaInverse
    <3> QED BY <1>4, <1>9, <2>3, <3>1 DEF FormulaInverseRestore, CellOperations, NewContent, IsWayBack
  <2> QED BY <2>1, <2>2, <2>3
<1>11. IsAnswer(doc, one, other)
  BY <1>5, <1>8, <1>10 DEF IsAnswer, NewContent
<1>12. doc \in Plan(doc', back) /\ doc'.columns = doc.columns /\ doc'.order = doc.order
  <2>1. Len(forward) = 1 /\ Len(back) = 1 /\ forward[1] = one /\ back[1] = other
    OBVIOUS
  <2> HIDE DEF forward, back
  <2>2. IsCellBatch(forward, 1) /\ IsCellBatch(back, 1)
    BY <1>3, <1>5, <1>10, <2>1 DEF IsCellBatch, CellOperations
  <2>3. AreAnswered(doc, forward, back, 1)
    BY <1>11, <2>1 DEF AreAnswered
  <2>4. \A i \in 1 .. 1 : Declared(doc, forward[i].cell)
    BY <1>3, <1>5, <2>1
  <2> QED BY <1>6, <1>7, <2>1, <2>2, <2>3, <2>4, CellEditsGoBack
<1>13. ComesBack(doc, doc', back)
  BY <1>12, SameVocabulary
<1> QED BY <1>2, <1>6, <1>13 DEF IsEdit

-----------------------------------------------------------------------------
(* Columns.                                                                *)

\* A batch that ends in the order of the columns is one of the second vocabulary.
LEMMA InSecondVocabulary ==
  ASSUME NEW d, NEW e, NEW inverse, d \in Plan(e, inverse),
         NEW i \in 1 .. Len(inverse), inverse[i].op \in V2Operations
  PROVE  ComesBack(d, e, inverse)
BY DEF ComesBack, NeedsV2

\* One command that is taken back by one.
LEMMA OneComesBack ==
  ASSUME AllSound, NEW one, NEW other, RecordEdit(<<one>>, <<other>>),
         one.op \in {"name", "requiredness", "constraint", "format", "order"}, TypedParts(one),
         other.op \in V2Operations,
         GoodTable(doc) /\ GoodTable(doc') /\ doc' \in Step(doc, doc, one)
           => doc \in Step(doc', doc', other)
  PROVE  IsEdit
<1> DEFINE forward == <<one>>
           back == <<other>>
           serial == proposalSerial + 1
<1>1. RecordEditAs(forward, back, serial)
  BY DEF RecordEdit
<1>2. IsTyped(doc') /\ GoodTable(doc) /\ GoodTable(doc')
  BY <1>1, EditIsTyped
<1>3. doc' \in Plan(doc, forward)
  BY <1>1, RecordedBatches
<1>4. Leads(doc, doc, doc', forward)
  BY <1>3, PlanLeads
<1>5. doc' \in Step(doc, doc, one)
  BY <1>4, OneLeads
<1>6. Leads(doc', doc', doc, back)
  BY <1>2, <1>5, OneLeads
<1>7. doc \in Plan(doc', back)
  BY <1>6, LeadsPlan
<1>8. ComesBack(doc, doc', back)
  <2>1. 1 \in 1 .. Len(back) /\ back[1].op \in V2Operations
    OBVIOUS
  <2> QED BY <1>7, <2>1, InSecondVocabulary
<1> QED BY <1>1, <1>2, <1>8 DEF IsEdit

\* A change of a column's name, requiredness, constraint, format or place is
\* taken back.
LEMMA AttributeComesBack ==
  ASSUME AllSound,
         RenameColumn \/ ChangeRequiredness \/ ChangeConstraint \/ ChangeNumberFormat \/ MoveColumn
  PROVE  IsEdit
<1>1. CASE RenameColumn
  <2>1. PICK c, name : RecordEdit(<<SetDisplayName(c, {name})>>,
                                  <<SetDisplayName(c, doc.columns[c].name)>>)
    BY <1>1 DEF RenameColumn
  <2>2. \A n : SetDisplayName(c, n).op = "name"
    BY DEF SetDisplayName
  <2>3. TypedParts(SetDisplayName(c, {name}))
    BY <2>2 DEF TypedParts, CellOperations
  <2>4. GoodTable(doc) /\ GoodTable(doc') /\ doc' \in Step(doc, doc, SetDisplayName(c, {name}))
          => doc \in Step(doc', doc', SetDisplayName(c, doc.columns[c].name))
    BY AttributeGoesBack
  <2> QED BY <2>1, <2>2, <2>3, <2>4, OneComesBack DEF V2Operations
<1>2. CASE ChangeRequiredness
  <2>1. PICK c : RecordEdit(<<SetRequiredness(c, ~doc.columns[c].required)>>,
                            <<SetRequiredness(c, doc.columns[c].required)>>)
    BY <1>2 DEF ChangeRequiredness
  <2> DEFINE new == ~doc.columns[c].required
             old == doc.columns[c].required
  <2>2. SetRequiredness(c, new).op = "requiredness" /\ SetRequiredness(c, old).op = "requiredness"
    BY DEF SetRequiredness
  <2>3. TypedParts(SetRequiredness(c, new))
    BY <2>2 DEF TypedParts, CellOperations
  <2>4. GoodTable(doc) /\ GoodTable(doc') /\ doc' \in Step(doc, doc, SetRequiredness(c, new))
          => doc \in Step(doc', doc', SetRequiredness(c, old))
    <3> HIDE DEF new
    <3> QED BY AttributeGoesBack
  <2> QED BY <2>1, <2>2, <2>3, <2>4, OneComesBack DEF V2Operations
<1>3. CASE ChangeConstraint
  <2>1. PICK c, allowed : RecordEdit(<<SetConstraint(c, allowed)>>,
                                     <<SetConstraint(c, doc.columns[c].constraint)>>)
    BY <1>3 DEF ChangeConstraint
  <2>2. \A set : SetConstraint(c, set).op = "constraint"
    BY DEF SetConstraint
  <2>3. TypedParts(SetConstraint(c, allowed))
    BY <2>2 DEF TypedParts, CellOperations
  <2>4. GoodTable(doc) /\ GoodTable(doc') /\ doc' \in Step(doc, doc, SetConstraint(c, allowed))
          => doc \in Step(doc', doc', SetConstraint(c, doc.columns[c].constraint))
    BY AttributeGoesBack
  <2> QED BY <2>1, <2>2, <2>3, <2>4, OneComesBack DEF V2Operations
<1>4. CASE ChangeNumberFormat
  <2>1. PICK c, format : RecordEdit(<<SetNumberFormat(c, format)>>,
                                    <<SetNumberFormat(c, doc.columns[c].format)>>)
    BY <1>4 DEF ChangeNumberFormat
  <2>2. \A f : SetNumberFormat(c, f).op = "format"
    BY DEF SetNumberFormat
  <2>3. TypedParts(SetNumberFormat(c, format))
    BY <2>2 DEF TypedParts, CellOperations
  <2>4. GoodTable(doc) /\ GoodTable(doc') /\ doc' \in Step(doc, doc, SetNumberFormat(c, format))
          => doc \in Step(doc', doc', SetNumberFormat(c, doc.columns[c].format))
    BY AttributeGoesBack
  <2> QED BY <2>1, <2>2, <2>3, <2>4, OneComesBack DEF V2Operations
<1>5. CASE MoveColumn
  <2>1. PICK order, ids : /\ order = [explicit |-> TRUE, ids |-> ids]
                          /\ RecordEdit(<<SetSchemaFieldOrder(Normalize(order, DOMAIN doc.columns))>>,
                                        <<SetSchemaFieldOrder(doc.order)>>)
    BY <1>5 DEF MoveColumn
  <2> DEFINE next == Normalize(order, DOMAIN doc.columns)
  <2>2. IsTypedOrder(next)
    <3>1. IsTypedOrder(order)
      BY <2>1 DEF IsTypedOrder
    <3> QED BY <3>1, NormalizeIsTyped
  <2> HIDE DEF next
  <2>3. \A o : SetSchemaFieldOrder(o).op = "order" /\ SetSchemaFieldOrder(o).order = o
    BY DEF SetSchemaFieldOrder
  <2>4. TypedParts(SetSchemaFieldOrder(next))
    BY <2>2, <2>3 DEF TypedParts, CellOperations
  <2>5. ASSUME GoodTable(doc), GoodTable(doc'), doc' \in Step(doc, doc, SetSchemaFieldOrder(next))
        PROVE  doc \in Step(doc', doc', SetSchemaFieldOrder(doc.order))
    <3>1. IsTable(doc) /\ IsTable(doc')
      BY <2>5 DEF GoodTable
    <3>2. doc'.columns = doc.columns /\ doc'.rows = doc.rows
      BY <2>3, <2>5, <3>1 DEF Step, StepOrder, If, IsTable
    <3> QED BY <2>5, <3>1, <3>2, OrderGoesBack
  <2> QED BY <2>1, <2>3, <2>4, <2>5, OneComesBack DEF V2Operations, next
<1> QED BY <1>1, <1>2, <1>3, <1>4, <1>5

\* A column that is removed leaves a table bare of it.
LEMMA RemoveIsBare ==
  ASSUME NEW d, NEW c, NEW definition, NEW values, NEW e \in StepRemoveField(d, c, definition, values),
         IsTable(e)
  PROVE  IsBare(d, e, c)
<1>1. \E m : /\ m.columns = Restrict(d.columns, DOMAIN d.columns \ {c})
             /\ m.rows = [r \in DOMAIN d.rows |-> Restrict(d.rows[r], DOMAIN d.rows[r] \ {c})]
             /\ e = m
  BY DEF StepRemoveField, If
<1> QED BY <1>1 DEF IsBare

\* A column that is removed comes back in its place.
LEMMA RemoveColumnComesBack ==
  ASSUME AllSound, RemoveColumn
  PROVE  IsEdit
<1>1. PICK c \in DOMAIN doc.columns :
        RecordEdit(<<RemoveSchemaField(c, doc.columns[c], ValuesOf(doc, c))>>,
                   <<AppendSchemaField(c, doc.columns[c], ValuesOf(doc, c)),
                     SetSchemaFieldOrder(doc.order)>>)
  BY DEF RemoveColumn
<1> DEFINE definition == doc.columns[c]
           values == ValuesOf(doc, c)
           one == RemoveSchemaField(c, definition, values)
           append == AppendSchemaField(c, definition, values)
           order == SetSchemaFieldOrder(doc.order)
           forward == <<one>>
           back == <<append, order>>
           serial == proposalSerial + 1
<1>2. RecordEditAs(forward, back, serial)
  BY <1>1 DEF RecordEdit
<1>3. /\ one.op = "remove_field" /\ one.column = c /\ one.definition = definition /\ one.values = values
      /\ order.op = "order"
  BY DEF RemoveSchemaField, SetSchemaFieldOrder
<1> HIDE DEF one, append, order
<1>4. IsTyped(doc') /\ GoodTable(doc) /\ GoodTable(doc')
  <2>1. \A i \in 1 .. Len(forward) : TypedParts(forward[i])
    BY <1>3 DEF TypedParts, CellOperations
  <2> QED BY <1>2, <2>1, EditIsTyped
<1>5. doc' \in Plan(doc, forward)
  BY <1>2, RecordedBatches
<1>6. Leads(doc, doc, doc', forward)
  BY <1>5, PlanLeads
<1>7. doc' \in StepRemoveField(doc, c, definition, values)
  <2>1. doc' \in Step(doc, doc, one)
    BY <1>6, OneLeads
  <2> QED BY <1>3, <2>1 DEF Step
<1>8. IsBare(doc, doc', c)
  BY <1>4, <1>7, RemoveIsBare DEF GoodTable
<1>9. \A r \in DOMAIN values : Kind(values[r]) # "formula"
  <2> SUFFICES ASSUME NEW r \in DOMAIN values, Kind(values[r]) = "formula" PROVE FALSE
    OBVIOUS
  <2>1. r \in DOMAIN doc.rows /\ c \in DOMAIN doc.rows[r] /\ values[r] = doc.rows[r][c]
    BY DEF ValuesOf
  <2>2. <<r, c>> \in FormulaCells(doc)
    BY <2>1, FormulaCellsAre
  <2>3. \A cell \in FormulaCells(doc) : cell[2] # c
    BY <1>7 DEF StepRemoveField, If
  <2> QED BY <2>2, <2>3
<1>10. PICK f \in Step(doc', doc', append) : IsTable(f) /\ f.columns = doc.columns /\ f.rows = doc.rows
  BY <1>4, <1>8, <1>9, ColumnComesBack DEF append
<1>11. doc \in Step(doc', f, order)
  BY <1>4, <1>10, OrderGoesBack DEF order
<1>12. Leads(doc', doc', doc, back)
  BY <1>10, <1>11, TwoLead
<1>13. doc \in Plan(doc', back)
  BY <1>12, LeadsPlan
<1>14. ComesBack(doc, doc', back)
  <2>1. 2 \in 1 .. Len(back) /\ back[2].op \in V2Operations
    BY <1>3 DEF V2Operations
  <2> QED BY <1>13, <2>1, InSecondVocabulary
<1> QED BY <1>2, <1>4, <1>14 DEF IsEdit

\* A column that is appended makes a table wider.
LEMMA AppendIsWider ==
  ASSUME NEW base, NEW m, IsTable(m), NEW c \in Nat, NEW definition, NEW values,
         NEW e \in Step(base, m, AppendSchemaField(c, definition, values))
  PROVE  /\ IsWider(m, e, c, definition, values) /\ c \notin DOMAIN m.columns
         /\ DOMAIN values \subseteq DOMAIN m.rows
         /\ \A r \in DOMAIN values : Kind(values[r]) = definition.type
<1> DEFINE command == AppendSchemaField(c, definition, values)
<1>1. /\ command.op = "append_field" /\ command.column = c /\ command.definition = definition
      /\ command.values = values
  BY DEF AppendSchemaField
<1> HIDE DEF command
<1>2. IsTable(e)
  BY <1>1, StepKeepsTable DEF IsCommand, Operations, command
<1>3. e \in StepAppendField(m, c, definition, values)
  BY <1>1 DEF Step, command
<1> QED BY <1>2, <1>3 DEF StepAppendField, If, IsWider

\* A new column is taken away again.
LEMMA AddColumnComesBack ==
  ASSUME AllSound, AddColumn
  PROVE  IsEdit
<1> DEFINE serial == LastSerial + 1
           column == Issued(serial)
<1>1. PICK type \in Types, required \in BOOLEAN, name \in Names :
        \E values \in UNION {[rs -> {v \in Values : Kind(v) = type}] : rs \in SUBSET specs.rows} :
        LET definition == [type |-> type, required |-> required, format |-> "general",
                           name |-> {name}, constraint |-> Unrestricted]
        IN RecordEditAs(<<AppendSchemaField(column, definition, values)>>,
                        <<RemoveSchemaField(column, definition, values),
                          SetSchemaFieldOrder(doc.order)>>,
                        serial)
  BY DEF AddColumn
<1> DEFINE definition == [type |-> type, required |-> required, format |-> "general",
                          name |-> {name}, constraint |-> Unrestricted]
<1>2. PICK values \in UNION {[rs -> {v \in Values : Kind(v) = type}] : rs \in SUBSET specs.rows} :
        RecordEditAs(<<AppendSchemaField(column, definition, values)>>,
                     <<RemoveSchemaField(column, definition, values),
                       SetSchemaFieldOrder(doc.order)>>,
                     serial)
  BY <1>1
<1>3. IsDefinition(definition) /\ definition.type = type
  BY DEF IsDefinition
<1> HIDE DEF definition
<1>4. IsMap(values) /\ \A r \in DOMAIN values : IsValue(values[r])
  BY DEF IsMap, IsValue
<1>5. column \in Nat
  <2>1. serial \in Nat
    BY LastSerialIs DEF AllSound, SessionInv, BatchInv
  <2> HIDE DEF serial
  <2> QED BY <2>1, IssuedId
<1> HIDE DEF serial, column
<1> DEFINE one == AppendSchemaField(column, definition, values)
           remove == RemoveSchemaField(column, definition, values)
           order == SetSchemaFieldOrder(doc.order)
           forward == <<one>>
           back == <<remove, order>>
<1>6. RecordEditAs(forward, back, serial)
  BY <1>2
<1>7. /\ one.op = "append_field" /\ one.definition = definition /\ one.values = values
      /\ order.op = "order"
  BY DEF AppendSchemaField, SetSchemaFieldOrder
<1> HIDE DEF one, remove, order
<1>8. IsTyped(doc') /\ GoodTable(doc) /\ GoodTable(doc')
  <2>1. \A i \in 1 .. Len(forward) : TypedParts(forward[i])
    BY <1>3, <1>4, <1>7 DEF TypedParts, CellOperations
  <2> QED BY <1>6, <2>1, EditIsTyped
<1>9. doc' \in Plan(doc, forward)
  BY <1>6, RecordedBatches
<1>10. Leads(doc, doc, doc', forward)
  BY <1>9, PlanLeads
<1>11. doc' \in Step(doc, doc, one)
  BY <1>10, OneLeads
<1>12. IsTable(doc) /\ NativeShape(doc') /\ NativeShape(doc)
  BY <1>8 DEF GoodTable, Valid
<1>13. /\ IsWider(doc, doc', column, definition, values) /\ column \notin DOMAIN doc.columns
       /\ DOMAIN values \subseteq DOMAIN doc.rows
       /\ \A r \in DOMAIN values : Kind(values[r]) = type
  BY <1>3, <1>5, <1>11, <1>12, AppendIsWider DEF one
<1>14. \A r \in DOMAIN doc.rows : column \notin DOMAIN doc.rows[r]
  BY <1>12, <1>13 DEF NativeShape
<1>15. \A cell \in FormulaCells(doc) : ReadBy(doc, cell)[2] # column
  BY <1>8, <1>13, SourcesAreDeclared DEF Declared
<1>16. \A r \in DOMAIN values : Kind(values[r]) # "formula"
  BY <1>13 DEF Types
<1>17. PICK f \in Step(doc', doc', remove) : IsTable(f) /\ f.columns = doc.columns /\ f.rows = doc.rows
  BY <1>4, <1>12, <1>13, <1>14, <1>15, <1>16, ColumnGoes DEF remove
<1>18. doc \in Step(doc', f, order)
  BY <1>8, <1>17, OrderGoesBack DEF order
<1>19. Leads(doc', doc', doc, back)
  BY <1>17, <1>18, TwoLead
<1>20. doc \in Plan(doc', back)
  BY <1>19, LeadsPlan
<1>21. ComesBack(doc, doc', back)
  <2>1. 2 \in 1 .. Len(back) /\ back[2].op \in V2Operations
    BY <1>7 DEF V2Operations
  <2> QED BY <1>20, <2>1, InSecondVocabulary
<1> QED BY <1>6, <1>8, <1>21 DEF IsEdit

\* A column that was replaced by one of another type comes back as it was.
LEMMA ReplacedColumnComesBack ==
  ASSUME NEW d, GoodTable(d), NEW e, GoodTable(e), NEW c \in DOMAIN d.columns,
         NEW definition, definition.type \in Types, NEW values, IsMap(values),
         e \in Plan(d, <<RemoveSchemaField(c, d.columns[c], ValuesOf(d, c)),
                         AppendSchemaField(c, definition, values),
                         SetSchemaFieldOrder(d.order)>>)
  PROVE  d \in Plan(e, <<RemoveSchemaField(c, definition, values),
                         AppendSchemaField(c, d.columns[c], ValuesOf(d, c)),
                         SetSchemaFieldOrder(d.order)>>)
<1> DEFINE old == d.columns[c]
           oldValues == ValuesOf(d, c)
           order == SetSchemaFieldOrder(d.order)
           removeOld == RemoveSchemaField(c, old, oldValues)
           appendNew == AppendSchemaField(c, definition, values)
           removeNew == RemoveSchemaField(c, definition, values)
           appendOld == AppendSchemaField(c, old, oldValues)
           forward == <<removeOld, appendNew, order>>
           back == <<removeNew, appendOld, order>>
<1>1. /\ removeOld.op = "remove_field" /\ removeOld.column = c
      /\ removeOld.definition = old /\ removeOld.values = oldValues
      /\ order.op = "order" /\ order.order = d.order
  BY DEF RemoveSchemaField, SetSchemaFieldOrder
<1> HIDE DEF removeOld, appendNew, removeNew, appendOld, order
<1>2. e \in Plan(d, forward)
  BY DEF removeOld, appendNew, order
<1>3. Leads(d, d, e, forward)
  BY <1>2, PlanLeads
<1>4. PICK m \in Step(d, d, removeOld) : \E w \in Step(d, m, appendNew) : e \in Step(d, w, order)
  BY <1>3, ThreeLead
<1>5. PICK w \in Step(d, m, appendNew) : e \in Step(d, w, order)
  BY <1>4
<1>6. IsTable(d) /\ IsTable(e) /\ NativeShape(d) /\ NativeShape(e) /\ c \in Nat
  BY DEF GoodTable, Valid, IsTable
<1>7. IsTable(m)
  BY <1>1, <1>6, StepKeepsTable DEF IsCommand, Operations
<1>8. m \in StepRemoveField(d, c, old, oldValues)
  BY <1>1 DEF Step
<1>9. IsBare(d, m, c)
  BY <1>7, <1>8, RemoveIsBare
<1>10. \A cell \in FormulaCells(d) : cell[2] # c /\ ReadBy(d, cell)[2] # c
  BY <1>8 DEF StepRemoveField, If
<1>11. /\ IsWider(m, w, c, definition, values) /\ c \notin DOMAIN m.columns
       /\ DOMAIN values \subseteq DOMAIN m.rows
       /\ \A r \in DOMAIN values : Kind(values[r]) = definition.type
  BY <1>5, <1>6, <1>7, AppendIsWider DEF appendNew
<1>12. e.columns = w.columns /\ e.rows = w.rows
  <2>1. e \in StepOrder(w, d.order)
    BY <1>1, <1>5 DEF Step
  <2>2. IsTable(w)
    BY <1>11 DEF IsWider
  <2> QED BY <2>1, <2>2 DEF StepOrder, If, IsTable
<1>13. IsWider(m, e, c, definition, values)
  BY <1>6, <1>11, <1>12 DEF IsWider
<1>14. DOMAIN m.rows = DOMAIN d.rows
       /\ \A r \in DOMAIN d.rows : m.rows[r] = Restrict(d.rows[r], DOMAIN d.rows[r] \ {c})
  BY <1>9 DEF IsBare
<1>15. ASSUME NEW r \in DOMAIN m.rows PROVE c \notin DOMAIN m.rows[r]
  <2> DEFINE kept == DOMAIN d.rows[r] \ {c}
  <2>1. m.rows[r] = Restrict(d.rows[r], kept)
    BY <1>14
  <2>2. c \notin kept
    OBVIOUS
  <2> HIDE DEF kept
  <2>3. DOMAIN m.rows[r] = kept
    BY <2>1, RestrictIsMap
  <2> QED BY <2>2, <2>3
<1>16. \A cell \in FormulaCells(m) : ReadBy(m, cell)[2] # c
  <2> SUFFICES ASSUME NEW cell \in FormulaCells(m) PROVE ReadBy(m, cell)[2] # c
    OBVIOUS
  <2>1. PICK r, x : /\ r \in DOMAIN m.rows /\ x \in DOMAIN m.rows[r]
                    /\ cell = <<r, x>> /\ Kind(m.rows[r][x]) = "formula"
    BY FormulaCellsAre
  <2>2. r \in DOMAIN d.rows /\ x \in DOMAIN d.rows[r] /\ m.rows[r][x] = d.rows[r][x]
    BY <1>14, <2>1 DEF Restrict
  <2>3. <<r, x>> \in FormulaCells(d)
    BY <2>1, <2>2, FormulaCellsAre
  <2>4. ReadBy(m, cell) = ReadBy(d, <<r, x>>)
    BY <2>1, <2>2 DEF ReadBy
  <2> QED BY <1>10, <2>3, <2>4
<1>17. \A r \in DOMAIN values : Kind(values[r]) # "formula"
  BY <1>11 DEF Types
<1>18. PICK f \in Step(e, e, removeNew) : IsTable(f) /\ f.columns = m.columns /\ f.rows = m.rows
  BY <1>6, <1>7, <1>11, <1>13, <1>15, <1>16, <1>17, ColumnGoes DEF removeNew
<1>19. IsBare(d, f, c)
  BY <1>9, <1>18 DEF IsBare
<1>20. \A r \in DOMAIN oldValues : Kind(oldValues[r]) # "formula"
  <2> SUFFICES ASSUME NEW r \in DOMAIN oldValues, Kind(oldValues[r]) = "formula" PROVE FALSE
    OBVIOUS
  <2>1. r \in DOMAIN d.rows /\ c \in DOMAIN d.rows[r] /\ oldValues[r] = d.rows[r][c]
    BY DEF ValuesOf
  <2>2. <<r, c>> \in FormulaCells(d)
    BY <2>1, FormulaCellsAre
  <2> QED BY <1>10, <2>2
<1>21. PICK g \in Step(e, f, appendOld) : IsTable(g) /\ g.columns = d.columns /\ g.rows = d.rows
  BY <1>19, <1>20, ColumnComesBack DEF appendOld
<1>22. d \in Step(e, g, order)
  BY <1>21, OrderGoesBack DEF order
<1>23. Leads(e, e, d, back)
  BY <1>18, <1>21, <1>22, ThreeLead
<1>24. d \in Plan(e, back)
  BY <1>23, LeadsPlan
<1> QED BY <1>24 DEF removeNew, appendOld, order

\* A change of a column's type is taken back with every value it had.
LEMMA ChangeColumnTypeComesBack ==
  ASSUME AllSound, ChangeColumnType
  PROVE  IsEdit
<1>1. PICK c \in DOMAIN doc.columns :
        LET definition == doc.columns[c]
            type == CHOOSE t \in Types : t # definition.type
            values == ValuesOf(doc, c)
            blank == {r \in DOMAIN values : /\ ~definition.required
                                            /\ type = "number"
                                            /\ values[r] = TextValue(EmptyText)}
            converted == [r \in DOMAIN values \ blank |-> Converted(values[r], type)]
            changed == [definition EXCEPT
                          !.type = type,
                          !.format = IF type = "number" THEN @ ELSE "general",
                          !.constraint = Unrestricted]
            newValues == [r \in DOMAIN converted |-> The(converted[r])]
        IN /\ \A r \in DOMAIN values : Kind(values[r]) # "formula"
           /\ ~DependsOnColumn(c)
           /\ \A r \in DOMAIN converted : converted[r] # {}
           /\ RecordEdit(<<RemoveSchemaField(c, definition, values),
                           AppendSchemaField(c, changed, newValues),
                           SetSchemaFieldOrder(doc.order)>>,
                         <<RemoveSchemaField(c, changed, newValues),
                           AppendSchemaField(c, definition, values),
                           SetSchemaFieldOrder(doc.order)>>)
           /\ UNCHANGED rowSerial
  BY DEF ChangeColumnType
<1> DEFINE old == doc.columns[c]
           type == CHOOSE t \in Types : t # old.type
           oldValues == ValuesOf(doc, c)
           blank == {r \in DOMAIN oldValues : /\ ~old.required
                                              /\ type = "number"
                                              /\ oldValues[r] = TextValue(EmptyText)}
           converted == [r \in DOMAIN oldValues \ blank |-> Converted(oldValues[r], type)]
           definition == [old EXCEPT
                           !.type = type,
                           !.format = IF type = "number" THEN @ ELSE "general",
                           !.constraint = Unrestricted]
           values == [r \in DOMAIN converted |-> The(converted[r])]
<1>2. RecordEdit(<<RemoveSchemaField(c, old, oldValues), AppendSchemaField(c, definition, values),
                   SetSchemaFieldOrder(doc.order)>>,
                 <<RemoveSchemaField(c, definition, values), AppendSchemaField(c, old, oldValues),
                   SetSchemaFieldOrder(doc.order)>>)
      /\ \A r \in DOMAIN converted : converted[r] # {}
  BY <1>1
<1>3. type \in Types
  BY DEF Types
<1>4. IsDefinition(definition) /\ definition.type = type
  <2>1. IsDefinition(old)
    BY DEF AllSound, IsTyped
  <2> DEFINE format == IF type = "number" THEN old.format ELSE "general"
             parts == [type |-> type, required |-> old.required, format |-> format,
                       name |-> old.name, constraint |-> Unrestricted]
  <2>2. old = [type |-> old.type, required |-> old.required, format |-> old.format,
               name |-> old.name, constraint |-> old.constraint]
    BY <2>1 DEF IsDefinition
  <2>3. definition = [old EXCEPT !.type = type, !.format = format, !.constraint = Unrestricted]
    OBVIOUS
  <2> HIDE DEF old, type, format, definition
  <2>4. definition = parts
    BY <2>2, <2>3
  <2>5. IsDefinition(parts) /\ parts.type = type
    BY <1>3 DEF IsDefinition
  <2> QED BY <2>4, <2>5
<1>5. IsMap(values)
  BY DEF IsMap
<1>6. \A r \in DOMAIN values : IsValue(values[r])
  <2> SUFFICES ASSUME NEW r \in DOMAIN values PROVE IsValue(values[r])
    OBVIOUS
  <2>1. converted[r] = Converted(oldValues[r], type) /\ converted[r] # {}
        /\ values[r] = The(converted[r])
    BY <1>2
  <2> HIDE DEF converted, values, type, oldValues
  <2>2. The(converted[r]) \in converted[r]
    BY <2>1 DEF The
  <2>3. \A v \in Converted(oldValues[r], type) : Kind(v) \in Types
    BY DEF Converted, TextValue, NumberValue, Kind, Types
  <2> QED BY <2>1, <2>2, <2>3 DEF IsValue
<1> HIDE DEF definition, values, oldValues, type
<1> DEFINE removeOld == RemoveSchemaField(c, old, oldValues)
           appendNew == AppendSchemaField(c, definition, values)
           removeNew == RemoveSchemaField(c, definition, values)
           appendOld == AppendSchemaField(c, old, oldValues)
           order == SetSchemaFieldOrder(doc.order)
           forward == <<removeOld, appendNew, order>>
           back == <<removeNew, appendOld, order>>
           serial == proposalSerial + 1
<1>7. /\ removeOld.op = "remove_field"
      /\ appendNew.op = "append_field" /\ appendNew.definition = definition /\ appendNew.values = values
      /\ order.op = "order" /\ order.order = doc.order
  BY DEF RemoveSchemaField, AppendSchemaField, SetSchemaFieldOrder
<1>8. RecordEditAs(forward, back, serial)
  BY <1>2 DEF RecordEdit
<1> HIDE DEF removeOld, appendNew, removeNew, appendOld, order
<1>9. IsTyped(doc') /\ GoodTable(doc) /\ GoodTable(doc')
  <2>1. IsTypedOrder(doc.order)
    BY DEF AllSound, IsTyped, IsTypedOrder
  <2>2. TypedParts(removeOld) /\ TypedParts(appendNew) /\ TypedParts(order)
    BY <1>4, <1>6, <1>7, <2>1 DEF TypedParts, CellOperations
  <2>3. \A i \in 1 .. Len(forward) : TypedParts(forward[i])
    <3>1. \A i \in 1 .. 3 : forward[i] \in {removeOld, appendNew, order}
      OBVIOUS
    <3> QED BY <2>2, <3>1
  <2> QED BY <1>8, <2>3, EditIsTyped
<1>10. doc' \in Plan(doc, forward)
  BY <1>8, RecordedBatches
<1>11. doc \in Plan(doc', back)
  BY <1>3, <1>4, <1>5, <1>9, <1>10, ReplacedColumnComesBack
     DEF removeOld, appendNew, removeNew, appendOld, order, old, oldValues
<1>12. ComesBack(doc, doc', back)
  <2>1. 3 \in 1 .. Len(back) /\ back[3].op \in V2Operations
    BY <1>7 DEF V2Operations
  <2> QED BY <1>11, <2>1, InSecondVocabulary
<1> QED BY <1>8, <1>9, <1>12 DEF IsEdit

-----------------------------------------------------------------------------
(* Rows.                                                                   *)

\* Listed rows that are removed are put back in the opposite order.
LEMMA ListedRowsComeBack ==
  ASSUME NEW d, GoodTable(d), NEW n \in Nat, NEW rows, rows \in [1 .. n -> DOMAIN d.rows],
         NEW forward, forward = [i \in DOMAIN rows |-> RemoveEntity(rows[i])],
         NEW back, back = [i \in DOMAIN rows |-> AppendEntity(rows[i], d.rows[rows[i]])],
         NEW e \in Plan(d, forward)
  PROVE  ComesBack(d, e, Reverse(back))
<1> DEFINE T == Range(back)
<1>1. DOMAIN rows = 1 .. n
  OBVIOUS
<1>2. Len(forward) = n /\ \A i \in 1 .. n : forward[i] = RemoveEntity(rows[i])
  BY <1>1
<1>3. back \in [1 .. n -> T] /\ \A i \in 1 .. n : back[i] = AppendEntity(rows[i], d.rows[rows[i]])
  BY <1>1 DEF Range
<1> HIDE DEF T
<1>4. back \in Seq(T) /\ Len(back) = n
  BY <1>3, ListIsSeq
<1>5. IsTable(d) /\ KeysAreUnique(d)
  BY DEF GoodTable, Valid
<1>6. AreRemovals(d, rows, forward, back, n)
  BY <1>2, <1>3 DEF AreRemovals
<1>7. d \in Plan(e, Reverse(back)) /\ e.columns = d.columns /\ e.order = d.order
  <2>1. IsTable(d) /\ KeysAreUnique(d) /\ n \in Nat /\ e \in Plan(d, forward)
    BY <1>5
  <2>2. Len(forward) = n /\ Len(back) = n /\ AreRemovals(d, rows, forward, back, n) /\ back \in Seq(T)
    BY <1>2, <1>4, <1>6
  <2>3. e.columns = d.columns
    BY ONLY <2>1, <2>2, RemovedRowsGoBack
  <2>4. d \in Plan(e, Reverse(back))
    BY ONLY <2>1, <2>2, RemovedRowsGoBack
  <2>5. e.order = d.order
    BY ONLY <2>1, <2>2, RemovedRowsGoBack
  <2> QED BY <2>3, <2>4, <2>5
<1> QED BY <1>7, SameVocabulary

\* Rows that are removed are put back.
LEMMA RemoveTableRowsComeBack ==
  ASSUME AllSound, RemoveTableRows
  PROVE  IsEdit
<1>1. PICK removed \in SUBSET specs.rows :
        RecordEdit([i \in DOMAIN SetToSeq(removed) |-> RemoveEntity(SetToSeq(removed)[i])],
                   Reverse([i \in DOMAIN SetToSeq(removed) |->
                     AppendEntity(SetToSeq(removed)[i], doc.rows[SetToSeq(removed)[i]])]))
  BY DEF RemoveTableRows
<1> DEFINE rows == SetToSeq(removed)
           forward == [i \in DOMAIN rows |-> RemoveEntity(rows[i])]
           back == Reverse([i \in DOMAIN rows |-> AppendEntity(rows[i], doc.rows[rows[i]])])
           serial == proposalSerial + 1
           n == Cardinality(removed)
<1>2. IsFiniteSet(removed) /\ removed \subseteq DOMAIN doc.rows
  BY SpecsAre, FS_Subset DEF AllSound, SessionInv
<1>3. rows \in [1 .. n -> removed] /\ n \in Nat
  BY <1>2, SetToSeqLists
<1>4. rows \in [1 .. n -> DOMAIN doc.rows]
  BY <1>2, <1>3
<1>5. RecordEditAs(forward, back, serial)
  BY <1>1 DEF RecordEdit
<1> HIDE DEF rows, n
<1>6. \A i \in 1 .. Len(forward) : TypedParts(forward[i])
  <2>1. DOMAIN rows = 1 .. n
    BY <1>4
  <2>2. Len(forward) = n /\ \A i \in 1 .. n : forward[i] = RemoveEntity(rows[i])
    BY <1>3, <2>1
  <2> HIDE DEF forward
  <2> QED BY <2>2 DEF RemoveEntity, TypedParts, CellOperations
<1> HIDE DEF forward, back
<1>7. IsTyped(doc') /\ GoodTable(doc) /\ doc' \in Plan(doc, forward)
  BY <1>5, <1>6, EditIsTyped, RecordedBatches
<1>8. ComesBack(doc, doc', back)
  BY <1>3, <1>4, <1>7, ListedRowsComeBack DEF forward, back
<1> QED BY <1>5, <1>7, <1>8 DEF IsEdit

\* The cells of a filled row are typed.
LEMMA FilledAreTyped ==
  ASSUME NEW edited, NEW rows, NEW typed, NEW fills, \A c \in DOMAIN fills : fills[c] \in Nat,
         NEW r \in DOMAIN rows, r \in Nat, \A c \in DOMAIN rows[r] : IsValue(rows[r][c])
  PROVE  \A c \in DOMAIN Filled(edited, rows, typed, fills)[r] :
           IsValue(Filled(edited, rows, typed, fills)[r][c])
<1> DEFINE with(cells) ==
             [q \in DOMAIN rows |->
                Over([c \in {c \in DOMAIN fills : <<q, c>> \in cells} |-> FormulaValue(<<q, fills[c]>>)],
                     rows[q])]
<1>1. ASSUME NEW cells, NEW c \in DOMAIN with(cells)[r]
      PROVE  IsValue(with(cells)[r][c])
  <2> DEFINE f == [x \in {x \in DOMAIN fills : <<r, x>> \in cells} |-> FormulaValue(<<r, fills[x]>>)]
  <2>1. with(cells)[r] = Over(f, rows[r])
    OBVIOUS
  <2>2. \A x \in DOMAIN f : IsValue(f[x])
    BY DEF IsValue, FormulaValue, Source, Kind
  <2> HIDE DEF with, f
  <2> QED BY <1>1, <2>1, <2>2 DEF Over
<1>2. Filled(edited, rows, typed, fills) = rows \/ \E cells : Filled(edited, rows, typed, fills) = with(cells)
  BY DEF Filled
<1> HIDE DEF with
<1> QED BY <1>1, <1>2

\* What a new row has besides what its caller enters.
LEMMA OpenFieldsAre ==
  ASSUME AllSound
  PROVE  /\ \A c \in DOMAIN DefaultFields : IsValue(DefaultFields[c])
         /\ \A c \in DOMAIN Fills : Fills[c] \in Nat
<1>1. DOMAIN specs.columns \subseteq Nat
  BY DEF AllSound, SessionInv, DocInv, StructureIsCurrent, SpecsOf, IsTable
<1>2. ASSUME NEW c \in DOMAIN Fills PROVE Fills[c] \in Nat
  <2> DEFINE reads(s) == \A r \in specs.rows : Content(doc, <<r, c>>) = {FormulaValue(<<r, s>>)}
  <2>1. (\E s \in DOMAIN specs.columns : reads(s))
        /\ Fills[c] = CHOOSE s \in DOMAIN specs.columns : reads(s)
    BY <1>2 DEF Fills
  <2> HIDE DEF reads
  <2> QED BY <1>1, <2>1
<1>3. \A c \in DOMAIN DefaultFields : IsValue(DefaultFields[c])
  BY DEF DefaultFields, IsValue, Types, TextValue, NumberValue, Kind
<1> QED BY <1>2, <1>3

\* Values entered over typed cells.
LEMMA OverIsTyped ==
  ASSUME NEW typed, \A c \in DOMAIN typed : typed[c] \in Values,
         NEW fields, \A c \in DOMAIN fields : IsValue(fields[c])
  PROVE  \A c \in DOMAIN Over(typed, fields) : IsValue(Over(typed, fields)[c])
BY ValuesAssumption DEF Over, IsValue

\* A new row is taken away again.
LEMMA InsertRowComesBack ==
  ASSUME AllSound, InsertRow
  PROVE  IsEdit
<1> DEFINE row == Issued(NewSerials(1)[1])
           fields(typed) ==
             Filled(doc, Only(row, Over(typed, DefaultFields)), Only(row, typed), Fills)[row]
<1>1. PICK typed \in Typings(specs.columns) :
        RecordEdit(<<AppendEntity(row, fields(typed))>>, <<RemoveEntity(row)>>)
  BY DEF InsertRow
<1> DEFINE one == AppendEntity(row, fields(typed))
           forward == <<one>>
           back == <<RemoveEntity(row)>>
           serial == proposalSerial + 1
<1>2. RecordEditAs(forward, back, serial)
  BY <1>1 DEF RecordEdit
<1>3. one.op = "append_entity" /\ one.row = row /\ one.fields = fields(typed)
  BY DEF AppendEntity
<1> HIDE DEF one
<1>4. IsBatch(forward) /\ doc' \in Plan(doc, forward)
  BY <1>2, RecordedBatches
<1>5. row \in Nat
  BY <1>3, <1>4 DEF IsBatch, IsCommand, RowOf
<1> HIDE DEF row
<1>6. \A c \in DOMAIN fields(typed) : IsValue(fields(typed)[c])
  <2> DEFINE over == Over(typed, DefaultFields)
             rows == Only(row, over)
  <2>1. \A c \in DOMAIN typed : typed[c] \in Values
    BY DEF Typings
  <2>2. \A c \in DOMAIN over : IsValue(over[c])
    BY <2>1, OpenFieldsAre, OverIsTyped
  <2> HIDE DEF over
  <2>3. DOMAIN rows = {row} /\ rows[row] = over
    BY DEF Only
  <2>4. \A r \in DOMAIN rows : \A c \in DOMAIN rows[r] : IsValue(rows[r][c])
    BY <2>2, <2>3
  <2> HIDE DEF rows
  <2>5. \A c \in DOMAIN Filled(doc, rows, Only(row, typed), Fills)[row] :
          IsValue(Filled(doc, rows, Only(row, typed), Fills)[row][c])
    BY <1>5, <2>3, <2>4, OpenFieldsAre, FilledAreTyped
  <2> QED BY <2>5 DEF rows, over
<1> HIDE DEF fields
<1>7. IsTyped(doc') /\ GoodTable(doc) /\ GoodTable(doc')
  <2>1. TypedParts(one)
    BY <1>3, <1>6 DEF TypedParts, CellOperations
  <2>2. \A i \in 1 .. Len(forward) : TypedParts(forward[i])
    BY <2>1
  <2> QED BY <1>2, <2>2, EditIsTyped
<1>8. ComesBack(doc, doc', back)
  <2> DEFINE S == Range(back)
  <2>1. Len(forward) = 1 /\ \A i \in 1 .. 1 : forward[i].op = "append_entity" /\ forward[i].row = row
    BY <1>3
  <2>2. back \in Seq(S) /\ Len(back) = 1 /\ back[1] = RemoveEntity(row)
    BY DEF Range
  <2>3. Reverse(back) = back
    BY DEF Reverse
  <2>4. \A i \in 1 .. 1 : back[i] = RemoveEntity(forward[i].row)
    BY <2>1, <2>2
  <2> HIDE DEF forward, back, S
  <2>5. Leads(doc, doc, doc', forward) /\ IsTable(doc) /\ 1 \in Nat
    BY <1>4, <1>7, <2>1, PlanLeads DEF GoodTable
  <2>6. Leads(doc', doc', doc, Reverse(back))
    BY <1>4, <2>1, <2>2, <2>4, <2>5, AppendedRowsGoBack
  <2>7. doc \in Plan(doc', back)
    BY <2>2, <2>3, <2>6, LeadsPlan
  <2>8. IsLonger(doc, doc')
    BY <1>4, <2>1, <2>5, AppendedRowsKeep
  <2> QED BY <2>7, <2>8, SameVocabulary DEF IsLonger
<1> QED BY <1>2, <1>7, <1>8 DEF IsEdit

\* A list after another, the opposite way.
LEMMA ReversedIs ==
  ASSUME NEW T, NEW a \in Seq(T)
  PROVE  /\ Reverse(a) \in Seq(T) /\ Len(Reverse(a)) = Len(a)
         /\ \A i \in 1 .. Len(a) : Reverse(a)[i] = a[(Len(a) - i) + 1]
<1> DEFINE n == Len(a)
           r == Reverse(a)
<1>1. n \in Nat /\ a \in [1 .. n -> T] /\ \A i \in 1 .. n : (n - i) + 1 \in 1 .. n
  OBVIOUS
<1>2. r = [i \in 1 .. n |-> a[(n - i) + 1]]
  BY DEF Reverse
<1> HIDE DEF n, r
<1>3. r \in [1 .. n -> T] /\ \A i \in 1 .. n : r[i] = a[(n - i) + 1]
  BY <1>1, <1>2
<1>4. r \in Seq(T) /\ Len(r) = n
  BY <1>1, <1>3, ListIsSeq
<1> QED BY <1>3, <1>4 DEF n, r

LEMMA ReversedJoin ==
  ASSUME NEW T, NEW a \in Seq(T), NEW b \in Seq(T)
  PROVE  Reverse(a \o b) = Reverse(b) \o Reverse(a)
<1> DEFINE m == Len(a)
           n == Len(b)
           whole == a \o b
           l == Reverse(whole)
           x == Reverse(b)
           y == Reverse(a)
           r == x \o y
<1>1. m \in Nat /\ n \in Nat /\ whole \in Seq(T) /\ Len(whole) = m + n
  OBVIOUS
<1>2. /\ \A i \in 1 .. m : whole[i] = a[i]
      /\ \A i \in 1 .. n : whole[m + i] = b[i]
  BY ConcatPlaces
<1> HIDE DEF whole
<1>3. l \in Seq(T) /\ Len(l) = m + n /\ \A i \in 1 .. Len(whole) : l[i] = whole[(Len(whole) - i) + 1]
  BY <1>1, ReversedIs
<1>4. /\ x \in Seq(T) /\ Len(x) = n /\ \A i \in 1 .. n : x[i] = b[(n - i) + 1]
      /\ y \in Seq(T) /\ Len(y) = m /\ \A i \in 1 .. m : y[i] = a[(m - i) + 1]
  BY <1>1, ReversedIs
<1> HIDE DEF l, x, y, m, n
<1>5. r \in Seq(T) /\ Len(r) = m + n
  <2>1. x \in Seq(T) /\ y \in Seq(T) /\ Len(x) = n /\ Len(y) = m
    BY <1>4
  <2>2. \A f, g : f \in Seq(T) /\ g \in Seq(T) => f \o g \in Seq(T) /\ Len(f \o g) = Len(f) + Len(g)
    OBVIOUS
  <2>3. Len(r) = n + m /\ r \in Seq(T)
    BY ONLY <2>1, <2>2
  <2> QED BY <1>1, <2>3
<1>6. /\ \A i \in 1 .. n : r[i] = x[i]
      /\ \A i \in 1 .. m : r[n + i] = y[i]
  BY <1>4, ConcatPlaces, SMTT(30)
<1> HIDE DEF r
<1>7. ASSUME NEW i \in 1 .. m + n PROVE l[i] = r[i]
  <2>1. l[i] = whole[((m + n) - i) + 1]
    BY <1>1, <1>3
  <2>2. CASE i <= n
    <3> DEFINE k == (n - i) + 1
    <3>1. k \in 1 .. n /\ ((m + n) - i) + 1 = m + k /\ i \in 1 .. n
      BY <1>1, <2>2
    <3>2. x[i] = b[k] /\ r[i] = x[i]
      BY <1>4, <1>6, <3>1
    <3> HIDE DEF k
    <3>3. whole[m + k] = b[k]
      BY <1>2, <3>1
    <3> QED BY <2>1, <3>1, <3>2, <3>3
  <2>3. CASE ~(i <= n)
    <3> DEFINE k == i - n
               h == (m - k) + 1
    <3>1. k \in 1 .. m /\ h \in 1 .. m /\ ((m + n) - i) + 1 = h /\ i = n + k
      BY <1>1, <2>3
    <3>2. y[k] = a[h]
      BY <1>4, <3>1
    <3> HIDE DEF k, h
    <3>3. r[n + k] = y[k] /\ whole[h] = a[h]
      BY <1>2, <1>6, <3>1
    <3> QED BY <2>1, <3>1, <3>2, <3>3
  <2> QED BY <2>2, <2>3
<1>8. l = r
  BY <1>1, <1>3, <1>5, <1>7
<1> QED BY <1>8 DEF l, r, x, y, whole

\* Cells that are edited and then rows that are appended.
LEMMA CellsAndRowsComeBack ==
  ASSUME NEW d, GoodTable(d), NEW e, GoodTable(e), NEW T, NEW m \in Nat, NEW n \in Nat,
         NEW cells \in Seq(T), Len(cells) = m, IsCellBatch(cells, m),
         NEW cellsBack \in Seq(T), Len(cellsBack) = m, IsCellBatch(cellsBack, m),
         \A i \in 1 .. m : Declared(d, cells[i].cell) /\ IsAnswer(d, cells[i], cellsBack[i]),
         NEW rows \in Seq(T), Len(rows) = n, \A i \in 1 .. n : rows[i].op = "append_entity",
         NEW rowsBack \in Seq(T), Len(rowsBack) = n,
         \A i \in 1 .. n : rowsBack[i] = RemoveEntity(rows[i].row),
         IsBatch(rows), e \in Plan(d, cells \o rows)
  PROVE  ComesBack(d, e, Reverse(cellsBack \o rowsBack))
<1> DEFINE back == Reverse(cellsBack)
<1>1. Leads(d, d, e, cells \o rows)
  BY PlanLeads
<1>2. PICK middle : Leads(d, d, middle, cells) /\ Leads(d, middle, e, rows)
  BY <1>1, JoinLeads
<1>3. Laid(d, middle, cells, m) /\ IsTable(d) /\ IsTable(middle)
  <2>1. PICK path : IsPath(path, d, d, middle, cells)
    BY <1>2 DEF Leads
  <2>2. path[0] = d /\ path[m] = middle
        /\ \A k \in 1 .. m : path[k] \in Step(d, path[k - 1], cells[k])
    BY <2>1 DEF IsPath
  <2>3. IsTable(d)
    BY DEF GoodTable
  <2>4. Laid(d, middle, cells, m)
    BY <2>2, <2>3, CellPath
  <2> QED BY <2>3, <2>4 DEF Laid, SameShape
<1>4. IsLonger(middle, e)
  BY <1>2, <1>3, AppendedRowsKeep
<1>5. Leads(e, e, middle, Reverse(rowsBack))
  BY <1>2, <1>3, AppendedRowsGoBack
<1>6. /\ e.columns = d.columns /\ e.order = d.order /\ DOMAIN d.rows \subseteq DOMAIN e.rows
      /\ NativeShape(e)
  BY <1>3, <1>4 DEF Laid, SameShape, IsLonger, GoodTable, Valid
<1>7. \A i \in 1 .. m : Declared(d, cells[i].cell)
  OBVIOUS
<1>8. \A i \in 1 .. m : Content(e, cells[i].cell) = NewContent(cells[i])
  <2> SUFFICES ASSUME NEW i \in 1 .. m PROVE Content(e, cells[i].cell) = NewContent(cells[i])
    OBVIOUS
  <2> DEFINE cell == cells[i].cell
  <2>1. Content(middle, cell) = NewContent(cells[i]) /\ cell[1] \in DOMAIN middle.rows
    BY <1>3, <1>7 DEF Laid, SameShape, Declared
  <2>2. cell[1] \in DOMAIN e.rows /\ e.rows[cell[1]] = middle.rows[cell[1]]
    BY <1>4, <2>1 DEF IsLonger
  <2> QED BY <2>1, <2>2 DEF Content, Present
<1>9. Len(back) = m /\ IsCellBatch(back, m)
  BY ReversedLength, ReversedCells
<1>10. AreAnswered(d, cells, back, m)
  <2>1. \A i \in 1 .. m : back[i] = cellsBack[(m - i) + 1]
    BY ReversedAt
  <2>2. \A i \in 1 .. m : (m - i) + 1 \in 1 .. m /\ (m - ((m - i) + 1)) + 1 = i
    OBVIOUS
  <2> HIDE DEF back
  <2>3. \A i \in 1 .. m : back[(m - i) + 1] = cellsBack[i]
    BY <2>1, <2>2
  <2> QED BY <2>1, <2>2, <2>3 DEF AreAnswered
<1>11. Leads(e, middle, d, back)
  BY <1>3, <1>6, <1>7, <1>8, <1>9, <1>10, CellsGoBack
<1>12. Reverse(rowsBack) \in Seq(T) /\ back \in Seq(T)
  BY ReversedIs
<1>13. Leads(e, e, d, Reverse(rowsBack) \o back)
  BY <1>5, <1>11, <1>12, JoinLeads
<1>14. Reverse(cellsBack \o rowsBack) = Reverse(rowsBack) \o back
  BY ReversedJoin
<1>15. Len(Reverse(rowsBack) \o back) \in Nat
  BY <1>12
<1>16. d \in Plan(e, Reverse(cellsBack \o rowsBack))
  BY <1>13, <1>14, <1>15, LeadsPlan
<1> QED BY <1>6, <1>16, SameVocabulary

\* The shown order lists the columns.
LEMMA ShownColumns ==
  ASSUME AllSound, NEW k \in Int, k >= 1, k <= Len(specs.order)
  PROVE  specs.order[k] \in DOMAIN doc.columns
<1> DEFINE ids == DOMAIN doc.columns
           n == Cardinality(ids)
           order == ColumnOrder(doc)
<1>1. IsFiniteSet(ids) /\ ids \subseteq Nat /\ IsOrderOf(doc.order, ids) /\ specs.order = order
  BY DEF AllSound, SessionInv, DocInv, StructureIsCurrent, SpecsOf, IsTable, Valid
<1>2. order \in [1 .. n -> ids] /\ n \in Nat
  <2>1. n \in Nat
    BY <1>1, FS_CardinalityType
  <2>2. CASE doc.order.explicit
    BY <1>1, <2>1, <2>2 DEF ColumnOrder, IsOrderOf, Bijection, Injection
  <2>3. CASE ~doc.order.explicit
    <3>1. IdOrder(ids) \in [1 .. n -> ids]
      BY <1>1, IdOrderLists
    <3> QED BY <2>1, <2>3, <3>1 DEF ColumnOrder
  <2> QED BY <2>2, <2>3
<1> HIDE DEF ids, n, order
<1>3. Len(order) = n
  BY <1>2
<1>4. order[k] \in ids
  BY <1>1, <1>2, <1>3
<1> QED BY <1>1, <1>4 DEF ids

\* What is pasted over a row of the table, cell by cell.
IsPastedOver(row, columns) ==
    /\ row.id \in DOMAIN doc.rows
    /\ \A c \in row.changed :
         /\ c \in columns
         /\ row.forward[c].op \in CellOperations /\ row.forward[c].cell = <<row.id, c>>
         /\ TypedParts(row.forward[c])
         /\ row.inverse[c].op \in CellOperations
         /\ IsAnswer(doc, row.forward[c], row.inverse[c])

LEMMA PastedCells ==
  ASSUME IsTyped(doc), NEW id \in DOMAIN doc.rows, NEW columns,
         NEW cells \in [columns -> Values \union {Clear}]
  PROVE  IsPastedOver(PastedRow(id, FALSE, cells), columns)
<1> DEFINE before == doc.rows[id]
           old(x) == {before[k] : k \in {x} \intersect DOMAIN before}
           row == PastedRow(id, FALSE, cells)
<1>1. /\ row.id = id
      /\ row.changed = {x \in DOMAIN cells : Entered(cells[x]) # old(x)}
      /\ row.forward = [x \in DOMAIN cells |-> CellForward(<<id, x>>, old(x), Entered(cells[x]))]
      /\ row.inverse = [x \in DOMAIN cells |-> CellInverse(<<id, x>>, old(x), Entered(cells[x]))]
  BY DEF PastedRow
<1>2. \A c : old(c) = Content(doc, <<id, c>>)
  BY DEF Content, Present
<1> HIDE DEF row
<1>3. ASSUME NEW c \in row.changed
      PROVE  /\ c \in columns
             /\ row.forward[c].op \in CellOperations /\ row.forward[c].cell = <<id, c>>
             /\ TypedParts(row.forward[c])
             /\ row.inverse[c].op \in CellOperations
             /\ IsAnswer(doc, row.forward[c], row.inverse[c])
  <2> DEFINE cell == <<id, c>>
  <2>1. c \in columns /\ cells[c] \in Values \union {Clear} /\ Entered(cells[c]) # Content(doc, cell)
    BY <1>1, <1>2, <1>3
  <2>2. /\ row.forward[c] = CellForward(cell, Content(doc, cell), Entered(cells[c]))
        /\ row.inverse[c] = CellInverse(cell, Content(doc, cell), Entered(cells[c]))
    BY <1>1, <1>2, <2>1
  <2> HIDE DEF cell, old
  <2>3. LET f == CellForward(cell, Content(doc, cell), Entered(cells[c]))
            b == CellInverse(cell, Content(doc, cell), Entered(cells[c]))
        IN /\ f.op \in CellOperations /\ f.cell = cell /\ TypedParts(f)
           /\ b.op \in CellOperations /\ IsAnswer(doc, f, b)
    BY <2>1, CellEditAnswers
  <2> QED BY <2>1, <2>2, <2>3 DEF cell
<1>4. IsPastedOver(row, columns)
  BY <1>1, <1>3 DEF IsPastedOver
<1> QED BY <1>4 DEF row

\* What is pasted below the rows.
LEMMA PastedFields ==
  ASSUME AllSound, NEW id, NEW columns, NEW cells \in [columns -> Values \union {Clear}]
  PROVE  \A c \in DOMAIN PastedRow(id, TRUE, cells).fields : IsValue(PastedRow(id, TRUE, cells).fields[c])
<1> DEFINE typed == Restrict(cells, {c \in DOMAIN cells : Entered(cells[c]) # {}})
           rest == Restrict(DefaultFields, DOMAIN DefaultFields \ DOMAIN cells)
<1>1. PastedRow(id, TRUE, cells).fields = Over(typed, rest)
  BY DEF PastedRow
<1>2. \A c \in DOMAIN typed : typed[c] \in Values
  BY DEF Restrict, Entered
<1>3. \A c \in DOMAIN rest : IsValue(rest[c])
  BY OpenFieldsAre DEF Restrict
<1> HIDE DEF typed, rest
<1> QED BY <1>1, <1>2, <1>3, OverIsTyped

\* The list of the ids has each of them once.
LEMMA IdOrderIsInjective ==
  ASSUME NEW ids, ids \subseteq Nat, IsFiniteSet(ids),
         NEW i \in 1 .. Cardinality(ids), NEW j \in 1 .. Cardinality(ids), IdOrder(ids)[i] = IdOrder(ids)[j]
  PROVE  i = j
<1> DEFINE rank(id) == Cardinality({other \in ids : other < id})
           n == Cardinality(ids)
<1>1. n \in Nat
  BY FS_CardinalityType
<1>2. \A k \in 1 .. n : \E id \in ids : rank(id) = k - 1
  BY RankExists
<1>3. \A k \in 1 .. n : IdOrder(ids)[k] = CHOOSE id \in ids : rank(id) = k - 1
  BY DEF IdOrder
<1> HIDE DEF rank
<1>4. \A k \in 1 .. n : rank(IdOrder(ids)[k]) = k - 1
  BY <1>2, <1>3
<1> QED BY <1>1, <1>4

\* A paste is taken back: its new rows first, then its cells.
LEMMA PasteComesBack ==
  ASSUME AllSound, Paste
  PROVE  IsEdit
<1>1. PICK height, start, columns, block :
        /\ height \in 1 .. MaxRange /\ start \in 1 .. Cardinality(specs.rows) + 1
        /\ PasteAt(start, height, columns, block)
        /\ IsFiniteSet(columns)
        /\ \A c \in columns : \E k \in Int : k >= 1 /\ k <= Len(specs.order) /\ c = specs.order[k]
        /\ block \in [1 .. height -> [columns -> Values \union {Clear}]]
  BY PasteIsAt
<1> DEFINE shown == IdOrder(specs.rows)
           below == start + height - 1 - Len(shown)
           count == IF below > 0 THEN below ELSE 0
           handed == NewSerials(count)
           targets == shown \o [k \in DOMAIN handed \ {0} |-> Issued(handed[k])]
           row == [i \in 1 .. height |->
                     PastedRow(targets[start + i - 1], start + i - 1 > Len(shown), block[i])]
           edits == {row[i] : i \in {i \in 1 .. height : start + i - 1 <= Len(shown)}}
           news == {row[i] : i \in 1 .. height} \ edits
           fills == Restrict(Fills, DOMAIN Fills \ UNION {edit.changed : edit \in edits})
           edited == [doc EXCEPT !.rows = Over(RowFunction(edits, LAMBDA r : r.fields), @)]
           appended == Filled(edited, RowFunction(news, LAMBDA r : r.fields),
                              RowFunction(news, LAMBDA r : r.typed), fills)
           changes == UNION {{<<edit, c>> : c \in edit.changed} : edit \in edits}
           cellEdits == SetToSeq(changes)
           rows == SetToSeq(news)
           cellAhead == [k \in DOMAIN cellEdits |-> cellEdits[k][1].forward[cellEdits[k][2]]]
           rowAhead == [k \in DOMAIN rows |-> AppendEntity(rows[k].id, appended[rows[k].id])]
           cellBack == [k \in DOMAIN cellEdits |-> cellEdits[k][1].inverse[cellEdits[k][2]]]
           rowBack == [k \in DOMAIN rows |-> RemoveEntity(rows[k].id)]
           forward == cellAhead \o rowAhead
           back == Reverse(cellBack \o rowBack)
           serial == proposalSerial + 1
           N == Cardinality(specs.rows)
<1>2. RecordEditAs(forward, back, serial)
  BY <1>1 DEF PasteAt, RecordEdit
<1>3. IsTyped(doc) /\ GoodTable(doc) /\ specs.rows = DOMAIN doc.rows /\ DOMAIN doc.rows \subseteq Nat
      /\ IsFiniteSet(DOMAIN doc.rows) /\ DocInv /\ BatchInv
  BY DEF AllSound, SessionInv, DocInv, GoodTable, StructureIsCurrent, SpecsOf, IsTable
<1>4. /\ N \in Nat /\ Len(shown) = N /\ shown \in [1 .. N -> DOMAIN doc.rows]
      /\ \A j \in 1 .. N : targets[j] = shown[j]
      /\ height \in Nat \ {0} /\ start \in 1 .. N + 1
  <2>1. N \in Nat /\ shown \in [1 .. N -> DOMAIN doc.rows]
    BY <1>3, IdOrderLists, FS_CardinalityType
  <2>2. Len(shown) = N
    BY <2>1
  <2>3. height \in Nat \ {0} /\ start \in 1 .. N + 1
    BY <1>1, <2>1, BoundsAssumption
  <2>4. count \in Nat
    BY <2>1, <2>2, <2>3
  <2> DEFINE new == [k \in DOMAIN handed \ {0} |-> Issued(handed[k])]
             S == Nat \union DOMAIN doc.rows
  <2>5. handed \in [0 .. count -> Nat]
    BY <1>3, <2>4, NewSerialsAre
  <2> HIDE DEF handed, count
  <2>6. new \in [1 .. count -> S] /\ shown \in [1 .. N -> S]
    <3>1. DOMAIN handed \ {0} = 1 .. count
      BY <2>4, <2>5
    <3>2. ASSUME NEW k \in 1 .. count PROVE Issued(handed[k]) \in Nat
      <4>1. handed[k] \in Nat
        BY <2>4, <2>5
      <4> QED BY <4>1, IssuedId
    <3> QED BY <2>1, <3>1, <3>2
  <2> HIDE DEF S, new, shown
  <2>7. new \in Seq(S) /\ shown \in Seq(S)
    BY <2>1, <2>4, <2>6, ListIsSeq
  <2>8. \A j \in 1 .. N : (shown \o new)[j] = shown[j]
    BY <2>2, <2>7, ConcatPlaces
  <2> QED BY <2>1, <2>2, <2>3, <2>8 DEF new, handed, count, shown
<1> HIDE DEF targets, shown, N
<1>5. ASSUME NEW i \in 1 .. height
      PROVE  /\ start + i - 1 <= N =>
                  start + i - 1 \in 1 .. N /\ row[i] = PastedRow(shown[start + i - 1], FALSE, block[i])
             /\ ~(start + i - 1 <= N) => \E id : row[i] = PastedRow(id, TRUE, block[i])
  <2> DEFINE isNew == start + i - 1 > Len(shown)
             id == targets[start + i - 1]
  <2>1. row[i] = PastedRow(id, isNew, block[i])
    OBVIOUS
  <2>2. start + i - 1 <= N => start + i - 1 \in 1 .. N /\ isNew = FALSE
    BY <1>4
  <2>3. ~(start + i - 1 <= N) => isNew = TRUE
    BY <1>4
  <2>4. start + i - 1 <= N => id = shown[start + i - 1]
    BY <1>4, <2>2
  <2> HIDE DEF row, isNew, id
  <2> QED BY <2>1, <2>2, <2>3, <2>4
<1>6. \A i \in 1 .. height : block[i] \in [columns -> Values \union {Clear}]
  BY <1>1
<1>7. edits = {row[i] : i \in {i \in 1 .. height : start + i - 1 <= N}}
      /\ news = {row[i] : i \in 1 .. height} \ edits
  BY <1>4
<1>8. IsFiniteSet(edits) /\ IsFiniteSet(news)
  <2> DEFINE f == [i \in 1 .. height |-> row[i]]
  <2>1. /\ DOMAIN f = 1 .. height /\ edits \subseteq {f[i] : i \in 1 .. height}
        /\ news \subseteq {f[i] : i \in 1 .. height}
    OBVIOUS
  <2>2. IsFiniteSet(1 .. height)
    <3>1. \A a, b \in Int : IsFiniteSet(a .. b)
      BY FS_Interval
    <3> QED BY <1>4, <3>1
  <2> HIDE DEF f, edits, news
  <2>3. IsFiniteSet({f[i] : i \in 1 .. height})
    BY <2>1, <2>2, ImageIsFinite
  <2> QED BY <2>1, <2>3, FS_Subset
<1> HIDE DEF row, edits, news, changes, cellEdits, rows, cellAhead, cellBack, rowAhead, rowBack,
             fills, edited, appended, forward, back, serial
<1>9. \A edit \in edits :
        \E id \in DOMAIN doc.rows : \E cells \in [columns -> Values \union {Clear}] :
          edit = PastedRow(id, FALSE, cells)
  <2> SUFFICES ASSUME NEW i \in 1 .. height, start + i - 1 <= N
               PROVE  \E id \in DOMAIN doc.rows : \E cells \in [columns -> Values \union {Clear}] :
                        row[i] = PastedRow(id, FALSE, cells)
    BY <1>7
  <2>1. row[i] = PastedRow(shown[start + i - 1], FALSE, block[i]) /\ shown[start + i - 1] \in DOMAIN doc.rows
    BY <1>4, <1>5
  <2> QED BY <1>6, <2>1
<1>10. \A n \in news : \E id : \E cells \in [columns -> Values \union {Clear}] :
         n = PastedRow(id, TRUE, cells)
  <2> SUFFICES ASSUME NEW i \in 1 .. height, ~(start + i - 1 <= N)
               PROVE  \E id : \E cells \in [columns -> Values \union {Clear}] :
                        row[i] = PastedRow(id, TRUE, cells)
    BY <1>7
  <2> QED BY <1>5, <1>6
<1>11. \A edit, other \in edits : edit.id = other.id => edit = other
  <2> SUFFICES ASSUME NEW i \in 1 .. height, start + i - 1 <= N, NEW j \in 1 .. height, start + j - 1 <= N,
                      row[i].id = row[j].id
               PROVE  i = j
    BY <1>7
  <2> DEFINE a == start + i - 1
             b == start + j - 1
  <2>1. /\ a \in 1 .. N /\ row[i] = PastedRow(shown[a], FALSE, block[i])
        /\ b \in 1 .. N /\ row[j] = PastedRow(shown[b], FALSE, block[j])
    BY <1>5
  <2> HIDE DEF a, b
  <2>0. \A id, cells : PastedRow(id, FALSE, cells).id = id
    BY DEF PastedRow
  <2>2. row[i].id = shown[a] /\ row[j].id = shown[b]
    BY ONLY <2>0, <2>1
  <2>3. a = b
    BY <1>3, <2>1, <2>2, IdOrderIsInjective DEF shown, N
  <2> QED BY <1>4, <2>3 DEF a, b
<1>12. columns \subseteq DOMAIN doc.columns
  BY <1>1, ShownColumns
<1>13. ASSUME NEW edit \in edits PROVE IsPastedOver(edit, columns)
  <2>1. PICK id \in DOMAIN doc.rows : \E cells \in [columns -> Values \union {Clear}] :
          edit = PastedRow(id, FALSE, cells)
    BY <1>9
  <2>2. PICK cells \in [columns -> Values \union {Clear}] : edit = PastedRow(id, FALSE, cells)
    BY <2>1
  <2>3. IsPastedOver(PastedRow(id, FALSE, cells), columns)
    BY <1>3, PastedCells
  <2> QED BY ONLY <2>2, <2>3
<1> DEFINE m == Cardinality(changes)
           n == Cardinality(news)
<1>14. /\ cellEdits \in [1 .. m -> changes] /\ m \in Nat
       /\ \A j, k \in 1 .. m : cellEdits[j] = cellEdits[k] => j = k
       /\ \A change \in changes : /\ change[1] \in edits /\ change[2] \in change[1].changed
                                  /\ change = <<change[1], change[2]>>
  <2>1. \A change \in changes : /\ change[1] \in edits /\ change[2] \in change[1].changed
                                /\ change = <<change[1], change[2]>>
    BY DEF changes
  <2>2. IsFiniteSet(changes)
    <3>1. changes \subseteq edits \X columns
      BY <1>13, <2>1 DEF IsPastedOver
    <3>2. IsFiniteSet(edits \X columns)
      BY <1>1, <1>8, FS_Product
    <3> QED BY <3>1, <3>2, FS_Subset
  <2>3. cellEdits \in [1 .. m -> changes] /\ m \in Nat
    BY <2>2, SetToSeqLists DEF cellEdits
  <2>4. \A j, k \in 1 .. m : cellEdits[j] = cellEdits[k] => j = k
    <3>1. \A j, k \in DOMAIN cellEdits : cellEdits[j] = cellEdits[k] => j = k
      BY <2>2, SetToSeqIsInjective DEF cellEdits
    <3> QED BY <2>3, <3>1
  <2> QED BY <2>1, <2>3, <2>4
<1>15. rows \in [1 .. n -> news] /\ n \in Nat
  BY <1>8, SetToSeqLists DEF rows
<1> HIDE DEF m, n
<1>16. /\ DOMAIN cellAhead = 1 .. m /\ DOMAIN cellBack = 1 .. m
       /\ \A k \in 1 .. m : \E edit \in edits : \E c \in edit.changed :
            /\ cellEdits[k] = <<edit, c>>
            /\ cellAhead[k] = edit.forward[c] /\ cellBack[k] = edit.inverse[c]
  BY <1>14 DEF cellAhead, cellBack
<1>17. /\ DOMAIN rowAhead = 1 .. n /\ DOMAIN rowBack = 1 .. n
       /\ \A k \in 1 .. n : /\ rows[k] \in news
                            /\ rowAhead[k] = AppendEntity(rows[k].id, appended[rows[k].id])
                            /\ rowBack[k] = RemoveEntity(rows[k].id)
  BY <1>15 DEF rowAhead, rowBack
<1> DEFINE T == (Range(cellAhead) \union Range(cellBack)) \union (Range(rowAhead) \union Range(rowBack))
<1>18. /\ cellAhead \in [1 .. m -> T] /\ cellBack \in [1 .. m -> T]
       /\ rowAhead \in [1 .. n -> T] /\ rowBack \in [1 .. n -> T]
  <2>1. /\ cellAhead = [k \in DOMAIN cellAhead |-> cellAhead[k]]
        /\ cellBack = [k \in DOMAIN cellBack |-> cellBack[k]]
        /\ rowAhead = [k \in DOMAIN rowAhead |-> rowAhead[k]]
        /\ rowBack = [k \in DOMAIN rowBack |-> rowBack[k]]
    BY DEF cellAhead, cellBack, rowAhead, rowBack
  <2> QED BY <1>16, <1>17, <2>1 DEF Range
<1> HIDE DEF T
<1>19. /\ cellAhead \in Seq(T) /\ Len(cellAhead) = m /\ cellBack \in Seq(T) /\ Len(cellBack) = m
       /\ rowAhead \in Seq(T) /\ Len(rowAhead) = n /\ rowBack \in Seq(T) /\ Len(rowBack) = n
  BY <1>14, <1>15, <1>18, ListIsSeq
<1>20. \A k \in 1 .. m :
         /\ cellAhead[k].op \in CellOperations /\ cellBack[k].op \in CellOperations
         /\ cellAhead[k].cell \in Nat \X Nat /\ cellBack[k].cell = cellAhead[k].cell
         /\ TypedParts(cellAhead[k])
         /\ Declared(doc, cellAhead[k].cell) /\ IsAnswer(doc, cellAhead[k], cellBack[k])
  <2> SUFFICES ASSUME NEW k \in 1 .. m
               PROVE  /\ cellAhead[k].op \in CellOperations /\ cellBack[k].op \in CellOperations
                      /\ cellAhead[k].cell \in Nat \X Nat /\ cellBack[k].cell = cellAhead[k].cell
                      /\ TypedParts(cellAhead[k])
                      /\ Declared(doc, cellAhead[k].cell) /\ IsAnswer(doc, cellAhead[k], cellBack[k])
    OBVIOUS
  <2>0. PICK edit \in edits : \E c \in edit.changed :
          cellAhead[k] = edit.forward[c] /\ cellBack[k] = edit.inverse[c]
    BY <1>16
  <2>1. PICK c \in edit.changed : cellAhead[k] = edit.forward[c] /\ cellBack[k] = edit.inverse[c]
    BY <2>0
  <2>2. /\ edit.id \in DOMAIN doc.rows /\ c \in columns
        /\ cellAhead[k].op \in CellOperations /\ cellAhead[k].cell = <<edit.id, c>>
        /\ TypedParts(cellAhead[k])
        /\ cellBack[k].op \in CellOperations /\ IsAnswer(doc, cellAhead[k], cellBack[k])
    BY <1>13, <2>1 DEF IsPastedOver
  <2>3. edit.id \in Nat /\ c \in Nat /\ c \in DOMAIN doc.columns
    BY <1>3, <1>12, <2>2 DEF GoodTable, IsTable
  <2>4. Declared(doc, cellAhead[k].cell) /\ cellAhead[k].cell \in Nat \X Nat
    BY <2>2, <2>3 DEF Declared
  <2> QED BY <2>2, <2>4 DEF IsAnswer
<1>21. ASSUME NEW j \in 1 .. m, NEW k \in 1 .. m, cellAhead[j].cell = cellAhead[k].cell
       PROVE  j = k
  <2>a. PICK edit \in edits : \E c \in edit.changed :
          cellEdits[j] = <<edit, c>> /\ cellAhead[j] = edit.forward[c]
    BY <1>16
  <2>1. PICK c \in edit.changed : cellEdits[j] = <<edit, c>> /\ cellAhead[j] = edit.forward[c]
    BY <2>a
  <2>b. PICK other \in edits : \E y \in other.changed :
          cellEdits[k] = <<other, y>> /\ cellAhead[k] = other.forward[y]
    BY <1>16
  <2>2. PICK x \in other.changed : cellEdits[k] = <<other, x>> /\ cellAhead[k] = other.forward[x]
    BY <2>b
  <2>3. cellAhead[j].cell = <<edit.id, c>> /\ cellAhead[k].cell = <<other.id, x>>
    BY <1>13, <2>1, <2>2 DEF IsPastedOver
  <2>c. <<edit.id, c>> = <<other.id, x>>
    BY <1>21, <2>3
  <2>d. edit.id = other.id /\ c = x
    BY ONLY <2>c
  <2>4. edit = other /\ c = x
    BY <1>11, <2>d
  <2> QED BY <1>14, <2>1, <2>2, <2>4
<1>22. IsCellBatch(cellAhead, m) /\ IsCellBatch(cellBack, m)
  BY <1>20, <1>21 DEF IsCellBatch
<1>23. IsBatch(forward) /\ doc' \in Plan(doc, forward)
  BY <1>2, RecordedBatches
<1>24. /\ Len(forward) = m + n
       /\ \A k \in 1 .. n : forward[m + k] = rowAhead[k]
       /\ \A i \in 1 .. Len(forward) : \/ \E k \in 1 .. m : forward[i] = cellAhead[k]
                                       \/ \E k \in 1 .. n : forward[i] = rowAhead[k]
  <2>1. Len(forward) = Len(cellAhead) + Len(rowAhead)
    BY ONLY <1>19 DEF forward
  <2>2. \A k \in 1 .. Len(rowAhead) : forward[Len(cellAhead) + k] = rowAhead[k]
    BY <1>19, ConcatPlaces DEF forward
  <2>3. \A i \in 1 .. Len(cellAhead) : forward[i] = cellAhead[i]
    BY <1>19, ConcatPlaces DEF forward
  <2>4. ASSUME NEW i \in 1 .. m + n
        PROVE  \/ \E k \in 1 .. m : forward[i] = cellAhead[k]
               \/ \E k \in 1 .. n : forward[i] = rowAhead[k]
    <3>1. CASE i <= m
      <4>1. i \in 1 .. m /\ i \in 1 .. Len(cellAhead)
        BY <1>14, <1>15, <1>19, <3>1
      <4>2. forward[i] = cellAhead[i]
        BY ONLY <2>3, <4>1
      <4> QED BY ONLY <4>1, <4>2
    <3>2. CASE ~(i <= m)
      <4> DEFINE k == i - m
      <4>1. k \in 1 .. n /\ i = m + k
        BY <1>14, <1>15, <3>2
      <4> HIDE DEF k
      <4> QED BY <1>19, <2>2, <4>1
    <3> QED BY <3>1, <3>2
  <2> QED BY <1>19, <2>1, <2>2, <2>4
<1>25. \A k \in 1 .. n : /\ rowAhead[k].op = "append_entity" /\ rowAhead[k].row = rows[k].id
                         /\ rowAhead[k].fields = appended[rows[k].id]
                         /\ rowBack[k] = RemoveEntity(rowAhead[k].row)
                         /\ IsCommand(rowAhead[k]) /\ rows[k].id \in Nat
  <2> SUFFICES ASSUME NEW k \in 1 .. n
               PROVE  /\ rowAhead[k].op = "append_entity" /\ rowAhead[k].row = rows[k].id
                      /\ rowAhead[k].fields = appended[rows[k].id]
                      /\ rowBack[k] = RemoveEntity(rowAhead[k].row)
                      /\ IsCommand(rowAhead[k]) /\ rows[k].id \in Nat
    OBVIOUS
  <2>1. /\ rowAhead[k].op = "append_entity" /\ rowAhead[k].row = rows[k].id
        /\ rowAhead[k].fields = appended[rows[k].id]
        /\ rowBack[k] = RemoveEntity(rowAhead[k].row)
    BY <1>17 DEF AppendEntity
  <2>2. m + k \in 1 .. Len(forward) /\ forward[m + k] = rowAhead[k]
    BY <1>14, <1>15, <1>24
  <2>3. IsCommand(rowAhead[k])
    BY <1>23, <2>2 DEF IsBatch
  <2> QED BY <2>1, <2>3 DEF IsCommand
<1>26. \A k \in 1 .. n : \A c \in DOMAIN appended[rows[k].id] : IsValue(appended[rows[k].id][c])
  <2> SUFFICES ASSUME NEW k \in 1 .. n
               PROVE  \A c \in DOMAIN appended[rows[k].id] : IsValue(appended[rows[k].id][c])
    OBVIOUS
  <2> DEFINE given == RowFunction(news, LAMBDA r : r.fields)
             entered == RowFunction(news, LAMBDA r : r.typed)
             id == rows[k].id
  <2>1. rows[k] \in news /\ id \in Nat
    BY <1>17, <1>25
  <2>2. id \in DOMAIN given /\ given[id] = (CHOOSE q \in news : q.id = id).fields
    BY <2>1 DEF RowFunction
  <2>3. PICK q \in news : given[id] = q.fields
    BY <2>1, <2>2
  <2>a. PICK x : \E cells \in [columns -> Values \union {Clear}] : q = PastedRow(x, TRUE, cells)
    BY <1>10
  <2>4. PICK cells \in [columns -> Values \union {Clear}] : q = PastedRow(x, TRUE, cells)
    BY <2>a
  <2>5. \A c \in DOMAIN q.fields : IsValue(q.fields[c])
    BY <2>4, PastedFields
  <2>6. \A c \in DOMAIN fills : fills[c] \in Nat
    BY OpenFieldsAre DEF fills, Restrict
  <2> HIDE DEF given, entered, id
  <2>7. \A c \in DOMAIN given[id] : IsValue(given[id][c])
    BY <2>3, <2>5
  <2>8. \A c \in DOMAIN Filled(edited, given, entered, fills)[id] :
          IsValue(Filled(edited, given, entered, fills)[id][c])
    BY <2>1, <2>2, <2>6, <2>7, FilledAreTyped
  <2> QED BY <2>8 DEF appended, given, entered, id
<1>27. \A k \in 1 .. n : TypedParts(rowAhead[k])
  BY <1>25, <1>26 DEF TypedParts, CellOperations
<1>28. \A i \in 1 .. Len(forward) : TypedParts(forward[i])
  BY <1>20, <1>24, <1>27
<1>29. IsTyped(doc') /\ GoodTable(doc')
  BY <1>2, <1>28, EditIsTyped
<1>30. IsBatch(rowAhead)
  BY <1>15, <1>17, <1>19, <1>25 DEF IsBatch
<1>31. ComesBack(doc, doc', back)
  <2>1. doc' \in Plan(doc, cellAhead \o rowAhead)
    BY <1>23 DEF forward
  <2>2. /\ \A k \in 1 .. m : Declared(doc, cellAhead[k].cell) /\ IsAnswer(doc, cellAhead[k], cellBack[k])
        /\ \A k \in 1 .. n : rowAhead[k].op = "append_entity"
        /\ \A k \in 1 .. n : rowBack[k] = RemoveEntity(rowAhead[k].row)
    BY <1>20, <1>25
  <2>3. ComesBack(doc, doc', Reverse(cellBack \o rowBack))
    BY ONLY <1>3, <1>14, <1>15, <1>19, <1>22, <1>29, <1>30, <2>1, <2>2, CellsAndRowsComeBack
  <2> QED BY <2>3 DEF back
<1> QED BY <1>2, <1>29, <1>31 DEF IsEdit

-----------------------------------------------------------------------------
(* Cleanups.                                                               *)

\* What a cleanup made of the document can be taken back.
GoesBack(commands, e) == IsTyped(e) /\ ComesBack(doc, e, CleanupInverse(commands))

\* Values that are set can be set back.
LEMMA SetAllGoesBack ==
  ASSUME DocInv, IsTyped(doc), NEW newValue, DOMAIN newValue \subseteq AllCells,
         \A cell \in DOMAIN newValue : Kind(newValue[cell]) \in Types,
         NEW e \in Plan(doc, SetAll(newValue)), Valid(e)
  PROVE  GoesBack(SetAll(newValue), e)
<1> DEFINE S == {cell \in DOMAIN newValue : {newValue[cell]} # Content(doc, cell)}
           changed == SetToSeq(S)
           forward == [i \in DOMAIN changed |-> SetFieldValue(changed[i], newValue[changed[i]])]
           inverse(command) ==
             IF command.op = "remove_entity" THEN AppendEntity(command.row, doc.rows[command.row])
             ELSE ValueCommand(command.cell, Content(doc, command.cell))
           back == [i \in DOMAIN forward |-> inverse(forward[i])]
<1>1. SetAll(newValue) = forward /\ CleanupInverse(forward) = Reverse(back)
  BY DEF SetAll, CleanupInverse
<1>2. /\ IsFiniteSet(S)
      /\ \A cell \in S : /\ Declared(doc, cell) /\ cell \in Nat \X Nat
                         /\ Kind(newValue[cell]) \in Types
                         /\ {newValue[cell]} # Content(doc, cell)
  BY SpecsAre, FS_Subset DEF AllCells, Declared
<1> HIDE DEF S
<1>3. changed \in [1 .. Cardinality(S) -> S] /\ Cardinality(S) \in Nat
  BY <1>2, SetToSeqLists
<1>4. DOMAIN changed = 1 .. Len(forward) /\ changed \in [DOMAIN changed -> S] /\ Len(forward) \in Nat
  <2>1. Len(forward) = Cardinality(S)
    BY <1>3
  <2> QED BY <1>3, <2>1
<1> HIDE DEF changed
<1>5. ASSUME NEW i \in DOMAIN changed
      PROVE  /\ forward[i].op \in CellOperations /\ forward[i].cell = changed[i]
             /\ IsTypedCommand(forward[i])
             /\ back[i].op \in CellOperations /\ IsAnswer(doc, forward[i], back[i])
  <2> DEFINE cell == changed[i]
             old == Content(doc, cell)
             value == newValue[cell]
  <2>1. cell \in S /\ Kind(value) \in Types /\ {value} # old
    BY <1>2, <1>4, <1>5
  <2>2. old = {} \/ \E v : old = {v} /\ The(old) = v /\ IsValue(v)
    BY ContentIs
  <2>3. forward[i] = SetFieldValue(cell, value)
    BY <1>5
  <2>4. forward[i].op = "set" /\ forward[i].cell = cell /\ forward[i].value = value
    BY <2>3 DEF SetFieldValue
  <2>5. back[i] = ValueCommand(cell, old)
    BY <1>5, <2>4
  <2> HIDE DEF forward, back, cell, old, value
  <2>6. /\ back[i].op = (IF old = {} THEN "unset" ELSE "set")
        /\ back[i].cell = cell /\ (old # {} => back[i].value = The(old))
    BY <2>5 DEF ValueCommand, SetFieldValue, UnsetField
  <2>7. NewContent(forward[i]) = {value} /\ NewContent(back[i]) = old
    BY <2>2, <2>4, <2>6 DEF NewContent
  <2>8. IsWayBack(back[i].op, old, {value})
    BY <2>1, <2>6 DEF IsWayBack, Types
  <2>9. IsAnswer(doc, forward[i], back[i])
    BY <2>1, <2>4, <2>6, <2>7, <2>8 DEF IsAnswer, old
  <2>10. IsTypedCommand(forward[i])
    BY <2>1, <2>4 DEF IsTypedCommand, IsCommand, Operations, IsValue, CellOperations
  <2> QED BY <2>4, <2>6, <2>9, <2>10 DEF cell, CellOperations
<1>6. /\ forward = [i \in DOMAIN changed |-> forward[i]]
      /\ back = [i \in DOMAIN changed |-> back[i]]
  OBVIOUS
<1>7. IsTable(doc) /\ GoodTable(doc) /\ IsBatch(forward)
  <2>1. \A i \in 1 .. Len(forward) : IsCommand(forward[i])
    BY <1>4, <1>5 DEF IsTypedCommand
  <2>2. DOMAIN forward = 1 .. Len(forward)
    BY <1>4
  <2> HIDE DEF forward
  <2> QED BY <1>4, <2>1, <2>2 DEF DocInv, GoodTable, IsBatch
<1> HIDE DEF forward, back
<1>8. e \in Plan(doc, forward)
  BY <1>1
<1>9. IsTable(e)
  BY <1>7, <1>8, PlanKeepsTable
<1>10. IsTyped(e)
  BY <1>4, <1>5, <1>7, <1>8, PlanKeepsTyped
<1>11. ComesBack(doc, e, Reverse(back))
  BY <1>2, <1>5, <1>6, <1>7, <1>8, <1>9, <1>10, ListedCellsComeBack DEF GoodTable, changed
<1> QED BY <1>1, <1>10, <1>11 DEF GoesBack

\* Rows that are removed can be put back.
LEMMA RemovalGoesBack ==
  ASSUME DocInv, IsTyped(doc), NEW gone, gone \subseteq DOMAIN doc.rows, NEW commands,
         commands = [i \in DOMAIN IdOrder(gone) |-> RemoveEntity(IdOrder(gone)[i])],
         NEW e \in Plan(doc, commands), Valid(e)
  PROVE  GoesBack(commands, e)
<1> DEFINE rows == IdOrder(gone)
           n == Cardinality(gone)
           back == [i \in DOMAIN rows |-> AppendEntity(rows[i], doc.rows[rows[i]])]
           inverse(command) ==
             IF command.op = "remove_entity" THEN AppendEntity(command.row, doc.rows[command.row])
             ELSE ValueCommand(command.cell, Content(doc, command.cell))
<1>1. IsFiniteSet(gone) /\ gone \subseteq Nat
  BY SpecsAre, FS_Subset
<1>2. rows \in [1 .. n -> gone] /\ n \in Nat
  BY <1>1, IdOrderLists, FS_CardinalityType
<1>3. rows \in [1 .. n -> DOMAIN doc.rows] /\ DOMAIN rows = 1 .. n
  BY <1>2
<1>4. commands = [i \in DOMAIN rows |-> RemoveEntity(rows[i])]
  OBVIOUS
<1> HIDE DEF rows, n
<1>5. DOMAIN commands = 1 .. n /\ Len(commands) = n
  BY <1>2, <1>3, <1>4
<1>6. \A i \in 1 .. n :
        /\ commands[i] = RemoveEntity(rows[i]) /\ commands[i].op = "remove_entity"
        /\ commands[i].row = rows[i]
  BY <1>3, <1>4 DEF RemoveEntity
<1>7. CleanupInverse(commands) = Reverse(back)
  <2>1. [i \in DOMAIN commands |-> inverse(commands[i])] = back
    BY <1>3, <1>5, <1>6
  <2>2. CleanupInverse(commands) = Reverse([i \in DOMAIN commands |-> inverse(commands[i])])
    BY DEF CleanupInverse
  <2> QED BY <2>1, <2>2
<1>8. GoodTable(doc) /\ IsTable(doc)
  BY DEF DocInv, GoodTable
<1>9. IsTyped(e)
  <2>1. \A i \in 1 .. n : IsTypedCommand(commands[i])
    BY <1>6 DEF IsTypedCommand, IsCommand, Operations, CellOperations
  <2> QED BY <1>2, <1>5, <1>8, <2>1, PlanKeepsTyped
<1>10. ComesBack(doc, e, Reverse(back))
  BY <1>2, <1>3, <1>4, <1>8, ListedRowsComeBack
<1> QED BY <1>7, <1>9, <1>10 DEF GoesBack

\* So can whatever a cleanup comes to.
LEMMA CleanupGoesBack ==
  ASSUME DocInv, IsTyped(doc), NEW commands \in Cleanups, NEW e \in Plan(doc, commands), Valid(e)
  PROVE  GoesBack(commands, e)
<1>1. \A range \in Ranges : range \subseteq AllCells
  BY DEF Ranges
<1>2. CASE \E cells \in Ranges : commands = Trim(cells)
  <2>1. PICK cells \in Ranges : commands = Trim(cells)
    BY <1>2
  <2> DEFINE newValue ==
               [cell \in cells |-> TextValue(Trimmed[doc.rows[cell[1]][cell[2]][2]])]
  <2>2. commands = SetAll(newValue) /\ DOMAIN newValue = cells
    BY <2>1 DEF Trim
  <2>3. \A cell \in DOMAIN newValue : Kind(newValue[cell]) \in Types
    BY DEF TextValue, Kind, Types
  <2> HIDE DEF newValue
  <2> QED BY <1>1, <2>1, <2>2, <2>3, SetAllGoesBack
<1>3. CASE \E value \in Values : \E cells \in Ranges : commands = FillBlanks(cells, value)
  <2>1. PICK value \in Values : \E cells \in Ranges : commands = FillBlanks(cells, value)
    BY <1>3
  <2>2. PICK cells \in Ranges : commands = FillBlanks(cells, value)
    BY <2>1
  <2> DEFINE newValue == [cell \in {c \in cells : ~Present(doc, c)} |-> value]
  <2>3. commands = SetAll(newValue) /\ DOMAIN newValue \subseteq cells
    BY <2>2 DEF FillBlanks
  <2>4. \A cell \in DOMAIN newValue : Kind(newValue[cell]) \in Types
    BY <2>1, ValuesAssumption
  <2> HIDE DEF newValue
  <2> QED BY <1>1, <2>2, <2>3, <2>4, SetAllGoesBack
<1>4. CASE \E rows \in SUBSET DOMAIN doc.rows : \E keys : commands = Deduplicate(rows, keys)
  <2>1. PICK rows \in SUBSET DOMAIN doc.rows : \E keys : commands = Deduplicate(rows, keys)
    BY <1>4
  <2>2. PICK keys : commands = Deduplicate(rows, keys)
    BY <2>1
  <2> DEFINE gone == {r \in rows : \E s \in rows :
                        s < r /\ \A c \in keys : Content(doc, <<r, c>>) = Content(doc, <<s, c>>)}
  <2>3. commands = [i \in DOMAIN IdOrder(gone) |-> RemoveEntity(IdOrder(gone)[i])]
    BY <2>2 DEF Deduplicate
  <2>4. gone \subseteq DOMAIN doc.rows
    OBVIOUS
  <2> HIDE DEF gone
  <2> QED BY <2>3, <2>4, RemovalGoesBack
<1> QED BY <1>2, <1>3, <1>4 DEF Cleanups

\* While its revision lasts, what a preview holds can be published and taken back.
PendingBack ==
    pending # NoCleanup /\ pending.revision = revision =>
      IsTyped(pending.candidate) /\ ComesBack(doc, pending.candidate, pending.inverse)

\* A new preview is one of the document as it is.
LEMMA PreviewIsBack ==
  ASSUME DocInv, IsTyped(doc), PreviewCleanup
  PROVE  PendingBack'
<1>1. PICK commands \in Cleanups :
        /\ \E candidate \in Publishable(doc, commands) :
             pending' = [id |-> proposalSerial + 1, revision |-> revision,
                         commands |-> commands, inverse |-> CleanupInverse(commands),
                         candidate |-> candidate]
        /\ doc' = doc
  BY DEF PreviewCleanup
<1>2. PICK candidate \in Publishable(doc, commands) :
        pending' = [id |-> proposalSerial + 1, revision |-> revision,
                    commands |-> commands, inverse |-> CleanupInverse(commands),
                    candidate |-> candidate]
  BY <1>1
<1>3. pending'.candidate = candidate /\ pending'.inverse = CleanupInverse(commands)
  BY <1>2
<1>4. candidate \in Plan(doc, commands) /\ Valid(candidate)
  BY DEF Publishable
<1>5. GoesBack(commands, candidate)
  BY <1>4, CleanupGoesBack
<1>6. IsTyped(candidate) /\ ComesBack(doc, candidate, CleanupInverse(commands))
  BY <1>5 DEF GoesBack
<1> QED BY <1>1, <1>3, <1>6 DEF PendingBack

\* A preview that is committed is taken back like any edit.
LEMMA CommitComesBack ==
  ASSUME AllSound, PendingBack, CommitCleanup
  PROVE  IsEdit
<1>1. /\ pending # NoCleanup /\ pending.revision = revision
      /\ RecordEditAs(pending.commands, pending.inverse, proposalSerial + 1)
  BY DEF CommitCleanup
<1>2. IsBatch(pending.commands) /\ doc' \in Plan(doc, pending.commands)
  BY <1>1, RecordedBatches
<1>3. pending.candidate \in Plan(doc, pending.commands) /\ IsTable(doc)
  BY <1>1 DEF AllSound, SessionInv, PendingInv, DocInv
<1>4. doc' = Applied(doc, pending.commands) /\ pending.candidate = Applied(doc, pending.commands)
  BY <1>2, <1>3, PlannedIsApplied
<1>5. IsTyped(doc') /\ ComesBack(doc, doc', pending.inverse)
  BY <1>1, <1>4 DEF PendingBack
<1> QED BY <1>1, <1>5 DEF IsEdit

\* Every request that changes the document is recorded with what takes it back.
LEMMA EveryEditComesBack ==
  ASSUME AllSound, PendingBack, CellRequest \/ RowRequest \/ ColumnRequest \/ CommitCleanup
  PROVE  IsEdit
<1>1. CASE CellRequest
  BY <1>1, EditCellsComeBack, UpdateFormulaComesBack, CopyFormulaComesBack DEF CellRequest
<1>2. CASE RowRequest
  BY <1>2, InsertRowComesBack, RemoveTableRowsComeBack, PasteComesBack DEF RowRequest
<1>3. CASE ColumnRequest
  BY <1>3, AddColumnComesBack, RemoveColumnComesBack, ChangeColumnTypeComesBack, AttributeComesBack
     DEF ColumnRequest
<1> QED BY <1>1, <1>2, <1>3, CommitComesBack

-----------------------------------------------------------------------------
(* The line of documents.                                                  *)

\* An entry of a stack stands between two documents: it leads from one to the
\* other, and to no other, both ways.
Between(d, entry, e) == Accepted(d, entry.forward) = {e} /\ Accepted(e, entry.inverse) = {d}

\* The documents of a line, oldest first, and the entries that stand between
\* them: those of the past, and those of the future in the opposite order.
IsLine(line, past, future) ==
    /\ line = [i \in 1 .. Len(past) + 1 + Len(future) |-> line[i]]
    /\ \A i \in 1 .. Len(past) + 1 + Len(future) : IsTyped(line[i])
    /\ \A i \in 1 .. Len(past) : Between(line[i], past[i], line[i + 1])
    /\ \A i \in 1 .. Len(future) :
         Between(line[Len(past) + Len(future) + 1 - i], future[i],
                 line[Len(past) + Len(future) + 2 - i])

\* The document is at its place of such a line.
LineInv == \E line : IsLine(line, undo, redo) /\ line[Len(undo) + 1] = doc

\* A session stays opened as it was, and accepts what it accepted.
LEMMA AcceptedStays ==
  ASSUME opened' = opened, NEW d, NEW commands
  PROVE  Accepted(d, commands)' = Accepted(d, commands)
BY DEF Accepted, ProfileAdmits, MaxRows

LEMMA LineStays ==
  ASSUME opened' = opened, NEW line, NEW past, NEW future, IsLine(line, past, future)
  PROVE  IsLine(line, past, future)'
<1>1. \A d, entry, e : Between(d, entry, e) => Between(d, entry, e)'
  BY AcceptedStays DEF Between
<1> QED BY <1>1 DEF IsLine

\* An edit stands between the document it was made on and the one it made.
LEMMA EditIsBetween ==
  ASSUME AllSound, NEW forward, NEW inverse, NEW serial, RecordEditAs(forward, inverse, serial),
         ComesBack(doc, doc', inverse)
  PROVE  Accepted(doc, forward) = {doc'} /\ Accepted(doc', inverse) = {doc}
<1>1. IsBatch(forward) /\ IsBatch(inverse) /\ doc' # doc
  BY RecordedBatches
<1>2. doc' \in Accepted(doc, forward) /\ opened' = opened
  BY DEF RecordEditAs, Publish
<1>3. /\ IsTable(doc) /\ Valid(doc) /\ ProfileAdmits(doc) /\ IsTable(doc') /\ Valid(doc')
  BY DEF AllSound, SessionInv, DocInv
<1>4. \A e \in Accepted(doc, forward) : e = Applied(doc, forward)
  BY <1>1, <1>3, PlannedIsApplied DEF Accepted, Publishable
<1>5. Accepted(doc, forward) = {doc'}
  BY <1>2, <1>4
<1>6. \A e \in Plan(doc', inverse) : e = Applied(doc', inverse)
  BY <1>1, <1>3, PlannedIsApplied
<1>7. \A e \in Accepted(doc', inverse) : e = Applied(doc', inverse)
  BY <1>6 DEF Accepted, Publishable
<1>8. doc \in Plan(doc', inverse) /\ (RequiresV2(doc) => NeedsV2(doc', inverse))
  BY DEF ComesBack
<1>9. doc = Applied(doc', inverse)
  BY <1>6, <1>8
<1>10. doc \in Accepted(doc', inverse)
  <2>1. doc \in Publishable(doc', inverse)
    BY <1>1, <1>3, <1>8 DEF Publishable
  <2>2. ProfileAdmits(Applied(doc', inverse))
    BY <1>3, <1>9
  <2> QED BY <1>8, <2>1, <2>2 DEF Accepted
<1> QED BY <1>5, <1>7, <1>9, <1>10

\* The n elements of a list after the first cut ones.
IsRest(rest, list, cut, n) == Len(rest) = n /\ \A i \in 1 .. n : rest[i] = list[i + cut]

\* A line of n documents after the first cut ones of another, and of one more.
IsGrown(new, line, cut, n, e) ==
    /\ new = [i \in 1 .. n + 1 |-> new[i]]
    /\ \A i \in 1 .. n : new[i] = line[i + cut]
    /\ new[n + 1] = e

\* What is recorded is put at the end of the line, and what lay ahead is cut off.
LEMMA EditedLine ==
  ASSUME NEW T, NEW past \in Seq(T), NEW future \in Seq(T), NEW line, IsLine(line, past, future),
         NEW entry \in T, NEW e, IsTyped(e), Between(line[Len(past) + 1], entry, e),
         NEW cut \in {0, 1}, NEW n \in Nat, n + cut = Len(past),
         NEW kept \in Seq(T), IsRest(kept, past, cut, n),
         NEW new, IsGrown(new, line, cut, n + 1, e)
  PROVE  IsLine(new, Append(kept, entry), <<>>)
<1> DEFINE after == Append(kept, entry)
           L == Len(past) + 1 + Len(future)
<1>1. n \in Nat /\ n + cut = Len(past) /\ Len(future) \in Nat /\ cut \in Int /\ cut >= 0 /\ L \in Nat
      /\ n + 1 + cut <= L
  OBVIOUS
<1>2. Len(after) = n + 1 /\ after[n + 1] = entry /\ \A i \in 1 .. n : after[i] = past[i + cut]
  BY DEF IsRest
<1>3. /\ \A i \in 1 .. L : IsTyped(line[i])
      /\ \A i \in 1 .. n + cut : Between(line[i], past[i], line[i + 1])
      /\ Between(line[n + 1 + cut], entry, e)
  <2>1. n + cut + 1 = n + 1 + cut
    BY <1>1
  <2>2. Between(line[n + 1 + cut], entry, e)
    BY <1>1, <2>1
  <2> QED BY <1>1, <2>2 DEF IsLine
<1> HIDE DEF after, L
<1>4. \A i \in 1 .. n + 1 : new[i] = line[i + cut]
  BY DEF IsGrown
<1>5. (n + 1) + 1 = n + 2
  OBVIOUS
<1>6. new[n + 2] = e /\ new = [i \in 1 .. n + 2 |-> new[i]]
  BY <1>5 DEF IsGrown
<1>7. \A i \in 1 .. n + 2 : IsTyped(new[i])
  <2> SUFFICES ASSUME NEW i \in 1 .. n + 2 PROVE IsTyped(new[i])
    OBVIOUS
  <2>1. CASE i = n + 2
    BY <1>6, <2>1
  <2>2. CASE i # n + 2
    <3>1. i \in 1 .. n + 1 /\ i + cut \in 1 .. L
      BY <1>1, <2>2
    <3> QED BY <1>3, <1>4, <3>1
  <2> QED BY <2>1, <2>2
<1>8. \A i \in 1 .. n + 1 : Between(new[i], after[i], new[i + 1])
  <2> SUFFICES ASSUME NEW i \in 1 .. n + 1 PROVE Between(new[i], after[i], new[i + 1])
    OBVIOUS
  <2>1. CASE i = n + 1
    <3>1. i + 1 = n + 2 /\ new[i] = line[n + 1 + cut]
      BY <1>1, <1>4, <2>1
    <3> QED BY <1>2, <1>3, <1>6, <2>1, <3>1
  <2>2. CASE i # n + 1
    <3>1. i \in 1 .. n /\ i + 1 \in 1 .. n + 1 /\ i + cut \in 1 .. n + cut /\ (i + 1) + cut = (i + cut) + 1
      BY <1>1, <2>2
    <3>2. new[i] = line[i + cut]
      BY <1>4
    <3>3. new[i + 1] = line[(i + 1) + cut]
      BY <1>4, <3>1
    <3>4. after[i] = past[i + cut]
      BY <1>2, <3>1
    <3> QED BY <1>3, <3>1, <3>2, <3>3, <3>4
  <2> QED BY <2>1, <2>2
<1>9. Len(after) + 1 + Len(<<>>) = n + 2 /\ Len(<<>>) = 0
  BY <1>1, <1>2
<1>10. IsLine(new, after, <<>>)
  <2>1. new = [i \in 1 .. Len(after) + 1 + Len(<<>>) |-> new[i]]
    BY ONLY <1>6, <1>9
  <2>2. \A i \in 1 .. Len(after) + 1 + Len(<<>>) : IsTyped(new[i])
    BY ONLY <1>7, <1>9
  <2>3. \A i \in 1 .. Len(after) : Between(new[i], after[i], new[i + 1])
    BY ONLY <1>2, <1>8
  <2>4. ASSUME NEW i \in 1 .. Len(<<>>)
        PROVE  Between(new[Len(after) + Len(<<>>) + 1 - i], <<>>[i], new[Len(after) + Len(<<>>) + 2 - i])
    BY ONLY <1>9
  <2> QED BY ONLY <2>1, <2>2, <2>3, <2>4 DEF IsLine
<1> QED BY <1>10 DEF after

\* Undo and Redo move one entry from one stack to the other, and leave the line.
LEMMA UndoneLine ==
  ASSUME NEW T, NEW past \in Seq(T), NEW future \in Seq(T), NEW line, IsLine(line, past, future),
         NEW entry \in T, NEW before \in Seq(T), past = Append(before, entry)
  PROVE  /\ IsLine(line, before, Append(future, entry))
         /\ Between(line[Len(past)], entry, line[Len(past) + 1])
<1> DEFINE n == Len(before)
           m == Len(future)
           ahead == Append(future, entry)
<1>1. n \in Nat /\ m \in Nat /\ Len(past) = n + 1 /\ Len(ahead) = m + 1
  OBVIOUS
<1>2. /\ \A i \in 1 .. n : past[i] = before[i]
      /\ past[n + 1] = entry
      /\ \A i \in 1 .. m : ahead[i] = future[i]
      /\ ahead[m + 1] = entry
  OBVIOUS
<1> HIDE DEF n, m, ahead
<1>3. (n + 1) + 1 + m = n + 1 + (m + 1)
  BY <1>1
<1>4. /\ line = [i \in 1 .. n + 1 + (m + 1) |-> line[i]]
      /\ \A i \in 1 .. n + 1 + (m + 1) : IsTyped(line[i])
      /\ \A i \in 1 .. n + 1 : Between(line[i], past[i], line[i + 1])
      /\ \A i \in 1 .. m : Between(line[(n + 1) + m + 1 - i], future[i], line[(n + 1) + m + 2 - i])
  BY <1>1, <1>3 DEF IsLine, m
<1>5. Between(line[n + 1], entry, line[n + 2])
  <2>1. n + 1 \in 1 .. n + 1 /\ (n + 1) + 1 = n + 2
    BY <1>1
  <2> QED BY <1>2, <1>4, <2>1
<1>6. \A i \in 1 .. m + 1 : Between(line[n + (m + 1) + 1 - i], ahead[i], line[n + (m + 1) + 2 - i])
  <2> SUFFICES ASSUME NEW i \in 1 .. m + 1
               PROVE  Between(line[n + (m + 1) + 1 - i], ahead[i], line[n + (m + 1) + 2 - i])
    OBVIOUS
  <2>1. CASE i = m + 1
    <3>1. n + (m + 1) + 1 - i = n + 1 /\ n + (m + 1) + 2 - i = n + 2
      BY <1>1, <2>1
    <3> QED BY <1>2, <1>5, <2>1, <3>1
  <2>2. CASE i # m + 1
    <3>1. /\ i \in 1 .. m /\ n + (m + 1) + 1 - i = (n + 1) + m + 1 - i
          /\ n + (m + 1) + 2 - i = (n + 1) + m + 2 - i
      BY <1>1, <2>2
    <3> QED BY <1>2, <1>4, <3>1
  <2> QED BY <2>1, <2>2
<1>7. \A i \in 1 .. n : Between(line[i], before[i], line[i + 1])
  <2>1. \A i \in 1 .. n : i \in 1 .. n + 1
    BY <1>1
  <2>2. \A i \in 1 .. n : Between(line[i], past[i], line[i + 1])
    BY <1>4, <2>1
  <2> QED BY <1>2, <2>2
<1>8. IsLine(line, before, ahead)
  BY <1>1, <1>4, <1>6, <1>7 DEF IsLine, n
<1>9. Between(line[Len(past)], entry, line[Len(past) + 1])
  <2>1. (n + 1) + 1 = n + 2
    BY <1>1
  <2> QED BY <1>1, <1>5, <2>1
<1> QED BY <1>8, <1>9 DEF ahead

LEMMA RedoneLine ==
  ASSUME NEW T, NEW past \in Seq(T), NEW future \in Seq(T), NEW line, IsLine(line, past, future),
         NEW entry \in T, NEW after \in Seq(T), future = Append(after, entry)
  PROVE  /\ IsLine(line, Append(past, entry), after)
         /\ Between(line[Len(past) + 1], entry, line[Len(past) + 2])
<1> DEFINE n == Len(past)
           m == Len(after)
           behind == Append(past, entry)
<1>1. n \in Nat /\ m \in Nat /\ Len(future) = m + 1 /\ Len(behind) = n + 1
  OBVIOUS
<1>2. /\ \A i \in 1 .. n : behind[i] = past[i]
      /\ behind[n + 1] = entry
      /\ \A i \in 1 .. m : future[i] = after[i]
      /\ future[m + 1] = entry
  OBVIOUS
<1> HIDE DEF n, m, behind
<1>3. n + 1 + (m + 1) = (n + 1) + 1 + m
  BY <1>1
<1>4. /\ line = [i \in 1 .. (n + 1) + 1 + m |-> line[i]]
      /\ \A i \in 1 .. (n + 1) + 1 + m : IsTyped(line[i])
      /\ \A i \in 1 .. n : Between(line[i], past[i], line[i + 1])
      /\ \A i \in 1 .. m + 1 : Between(line[n + (m + 1) + 1 - i], future[i], line[n + (m + 1) + 2 - i])
  BY <1>1, <1>3 DEF IsLine, n
<1>5. Between(line[n + 1], entry, line[n + 2])
  <2>1. /\ m + 1 \in 1 .. m + 1 /\ n + (m + 1) + 1 - (m + 1) = n + 1
        /\ n + (m + 1) + 2 - (m + 1) = n + 2
    BY <1>1
  <2> QED BY <1>2, <1>4, <2>1
<1>6. \A i \in 1 .. n + 1 : Between(line[i], behind[i], line[i + 1])
  <2> SUFFICES ASSUME NEW i \in 1 .. n + 1 PROVE Between(line[i], behind[i], line[i + 1])
    OBVIOUS
  <2>1. CASE i = n + 1
    <3>1. i + 1 = n + 2
      BY <1>1, <2>1
    <3> QED BY <1>2, <1>5, <2>1, <3>1
  <2>2. CASE i # n + 1
    <3>1. i \in 1 .. n
      BY <1>1, <2>2
    <3> QED BY <1>2, <1>4, <3>1
  <2> QED BY <2>1, <2>2
<1>7. \A i \in 1 .. m : Between(line[(n + 1) + m + 1 - i], after[i], line[(n + 1) + m + 2 - i])
  <2> SUFFICES ASSUME NEW i \in 1 .. m
               PROVE  Between(line[(n + 1) + m + 1 - i], after[i], line[(n + 1) + m + 2 - i])
    OBVIOUS
  <2>1. /\ i \in 1 .. m + 1 /\ n + (m + 1) + 1 - i = (n + 1) + m + 1 - i
        /\ n + (m + 1) + 2 - i = (n + 1) + m + 2 - i
    BY <1>1
  <2> QED BY <1>2, <1>4, <2>1
<1>8. IsLine(line, behind, after)
  BY <1>1, <1>4, <1>6, <1>7 DEF IsLine, m
<1> QED BY <1>5, <1>8 DEF behind, n

\* What a batch makes of each of some documents.
After(ds, commands) == UNION {Accepted(e, commands) : e \in ds}

LEMMA AfterOne ==
  ASSUME NEW d, NEW commands
  PROVE  After({d}, commands) = Accepted(d, commands)
BY DEF After

\* Where every batch leads from one place of a line to the next, a run of
\* batches goes from place to place.
GoesThrough(run, place, batches, n) ==
    /\ run[0] = {place[0]}
    /\ \A k \in 1 .. n : run[k] = After(run[k - 1], batches[k])
    /\ \A k \in 1 .. n : Accepted(place[k - 1], batches[k]) = {place[k]}

LEMMA RunFollowsLine ==
  ASSUME NEW n \in Nat, NEW place, NEW batches, NEW run, GoesThrough(run, place, batches, n)
  PROVE  \A k \in 0 .. n : run[k] = {place[k]}
<1> DEFINE S == {k \in 0 .. n : run[k] = {place[k]}}
<1>1. 0 \in S
  BY DEF GoesThrough
<1>2. ASSUME NEW k \in 1 .. n, k - 1 \in S PROVE k \in S
  <2>1. run[k - 1] = {place[k - 1]} /\ k \in 0 .. n
    BY <1>2
  <2>2. run[k] = Accepted(place[k - 1], batches[k])
    BY <2>1, AfterOne DEF GoesThrough
  <2> QED BY <2>1, <2>2 DEF GoesThrough
<1> HIDE DEF S
<1>3. 0 .. n \subseteq S
  BY <1>1, <1>2, SegmentInduction
<1> QED BY <1>3 DEF S

IsWayBackwards(run, d, past) ==
    run = [k \in 0 .. Len(past) |->
             IF k = 0 THEN {d}
             ELSE After(run[k - 1], past[Len(past) - k + 1].inverse)]

IsWayOn(run, d, future) ==
    run = [k \in 0 .. Len(future) |->
             IF k = 0 THEN {d}
             ELSE After(run[k - 1], future[Len(future) - k + 1].forward)]

\* So Undo publishes the documents before the current one, one by one, and Redo those after it.
LEMMA UndoFollowsLine ==
  ASSUME NEW T, NEW past \in Seq(T), NEW future, NEW line, IsLine(line, past, future),
         Len(future) \in Nat
  PROVE  LET back == CHOOSE run : IsWayBackwards(run, line[Len(past) + 1], past)
         IN \A i \in 1 .. Len(past) : back[Len(past) - i + 1] = {line[i]}
<1> DEFINE n == Len(past)
           d == line[n + 1]
           back == CHOOSE run : IsWayBackwards(run, d, past)
           place == [k \in 0 .. n |-> line[(n + 1) - k]]
           found == [k \in 0 .. n |-> {place[k]}]
           batches == [k \in 1 .. n |-> past[n - k + 1].inverse]
<1>1. n \in Nat
  OBVIOUS
<1>2. \A i \in 1 .. n : Accepted(line[i + 1], past[i].inverse) = {line[i]}
  BY DEF IsLine, Between
<1> HIDE DEF n
<1>3. /\ \A k \in 0 .. n : place[k] = line[(n + 1) - k] /\ found[k] = {place[k]}
      /\ \A k \in 1 .. n : batches[k] = past[n - k + 1].inverse
      /\ place[0] = d
  BY <1>1
<1>4. \A k \in 1 .. n : /\ k - 1 \in 0 .. n /\ k \in 0 .. n /\ n - k + 1 \in 1 .. n
                        /\ (n + 1) - (k - 1) = (n - k + 1) + 1 /\ (n + 1) - k = n - k + 1
  BY <1>1
<1> HIDE DEF place, batches, d
<1>5. \A k \in 1 .. n : Accepted(place[k - 1], past[n - k + 1].inverse) = {place[k]}
  <2> SUFFICES ASSUME NEW k \in 1 .. n
               PROVE  Accepted(place[k - 1], past[n - k + 1].inverse) = {place[k]}
    OBVIOUS
  <2>1. Accepted(line[(n - k + 1) + 1], past[n - k + 1].inverse) = {line[n - k + 1]}
    BY <1>2, <1>4
  <2>2. place[k - 1] = line[(n - k + 1) + 1] /\ place[k] = line[n - k + 1]
    BY <1>3, <1>4
  <2> QED BY <2>1, <2>2
<1>6. IsWayBackwards(found, d, past)
  <2>1. \A k \in 0 .. n : found[k] = IF k = 0 THEN {d}
          ELSE After(found[k - 1], past[n - k + 1].inverse)
    <3> SUFFICES ASSUME NEW k \in 0 .. n
                 PROVE  found[k] = IF k = 0 THEN {d}
                          ELSE After(found[k - 1], past[n - k + 1].inverse)
      OBVIOUS
    <3>1. k # 0 => k \in 1 .. n
      BY <1>1
    <3>2. k # 0 => found[k - 1] = {place[k - 1]} /\ found[k] = {place[k]}
      BY <1>3, <1>4, <3>1
    <3>3. k = 0 => found[k] = {d}
      BY <1>3
    <3> HIDE DEF found
    <3>4. k # 0 => After({place[k - 1]}, past[n - k + 1].inverse) = {place[k]}
      BY <1>5, <3>1, AfterOne
    <3> QED BY <3>2, <3>3, <3>4
  <2>2. found = [k \in 0 .. n |-> found[k]]
    OBVIOUS
  <2> HIDE DEF found
  <2> QED BY <2>1, <2>2 DEF IsWayBackwards, n
<1>7. IsWayBackwards(back, d, past)
  BY <1>6
<1> HIDE DEF back, found
<1>8. /\ back[0] = {place[0]}
      /\ \A k \in 1 .. n : back[k] = After(back[k - 1], batches[k])
  <2>1. \A k \in 0 .. n : back[k] = IF k = 0 THEN {d} ELSE After(back[k - 1], past[n - k + 1].inverse)
    BY <1>7 DEF IsWayBackwards, n
  <2>2. 0 \in 0 .. n /\ \A k \in 1 .. n : k \in 0 .. n /\ k # 0
    BY <1>1
  <2>3. back[0] = {d}
    BY <2>1, <2>2
  <2>4. \A k \in 1 .. n : back[k] = After(back[k - 1], past[n - k + 1].inverse)
    BY <2>1, <2>2
  <2> QED BY <1>3, <2>3, <2>4
<1>9. \A k \in 1 .. n : Accepted(place[k - 1], batches[k]) = {place[k]}
  BY <1>3, <1>5
<1>10. \A k \in 0 .. n : back[k] = {place[k]}
  <2>1. GoesThrough(back, place, batches, n)
    BY <1>8, <1>9 DEF GoesThrough
  <2> QED BY <1>1, <2>1, RunFollowsLine
<1>11. \A i \in 1 .. n : back[n - i + 1] = {line[i]}
  <2>1. \A i \in 1 .. n : n - i + 1 \in 0 .. n /\ (n + 1) - (n - i + 1) = i
    BY <1>1
  <2> QED BY <1>3, <1>10, <2>1
<1> QED BY <1>11 DEF back, d, n

LEMMA RedoFollowsLine ==
  ASSUME NEW T, NEW past, NEW future \in Seq(T), NEW line, IsLine(line, past, future),
         Len(past) \in Nat
  PROVE  LET on == CHOOSE run : IsWayOn(run, line[Len(past) + 1], future)
         IN \A k \in 0 .. Len(future) : on[k] = {line[Len(past) + 1 + k]}
<1> DEFINE n == Len(past)
           m == Len(future)
           d == line[n + 1]
           on == CHOOSE run : IsWayOn(run, d, future)
           place == [k \in 0 .. m |-> line[n + 1 + k]]
           found == [k \in 0 .. m |-> {place[k]}]
           batches == [k \in 1 .. m |-> future[m - k + 1].forward]
<1>1. n \in Nat /\ m \in Nat
  OBVIOUS
<1>2. \A i \in 1 .. m : Accepted(line[n + m + 1 - i], future[i].forward) = {line[n + m + 2 - i]}
  BY DEF IsLine, Between
<1> HIDE DEF n, m
<1>3. /\ \A k \in 0 .. m : place[k] = line[n + 1 + k] /\ found[k] = {place[k]}
      /\ \A k \in 1 .. m : batches[k] = future[m - k + 1].forward
      /\ place[0] = d
  BY <1>1
<1>4. \A k \in 1 .. m : /\ k - 1 \in 0 .. m /\ k \in 0 .. m /\ m - k + 1 \in 1 .. m
                        /\ n + m + 1 - (m - k + 1) = n + 1 + (k - 1)
                        /\ n + m + 2 - (m - k + 1) = n + 1 + k
  BY <1>1
<1> HIDE DEF place, batches, d
<1>5. \A k \in 1 .. m : Accepted(place[k - 1], future[m - k + 1].forward) = {place[k]}
  <2> SUFFICES ASSUME NEW k \in 1 .. m
               PROVE  Accepted(place[k - 1], future[m - k + 1].forward) = {place[k]}
    OBVIOUS
  <2>1. Accepted(line[n + 1 + (k - 1)], future[m - k + 1].forward) = {line[n + 1 + k]}
    BY <1>2, <1>4
  <2>2. place[k - 1] = line[n + 1 + (k - 1)] /\ place[k] = line[n + 1 + k]
    BY <1>3, <1>4
  <2> QED BY <2>1, <2>2
<1>6. IsWayOn(found, d, future)
  <2>1. \A k \in 0 .. m : found[k] = IF k = 0 THEN {d}
          ELSE After(found[k - 1], future[m - k + 1].forward)
    <3> SUFFICES ASSUME NEW k \in 0 .. m
                 PROVE  found[k] = IF k = 0 THEN {d}
                          ELSE After(found[k - 1], future[m - k + 1].forward)
      OBVIOUS
    <3>1. k # 0 => k \in 1 .. m
      BY <1>1
    <3>2. k # 0 => found[k - 1] = {place[k - 1]} /\ found[k] = {place[k]}
      BY <1>3, <1>4, <3>1
    <3>3. k = 0 => found[k] = {d}
      BY <1>3
    <3> HIDE DEF found
    <3>4. k # 0 => After({place[k - 1]}, future[m - k + 1].forward) = {place[k]}
      BY <1>5, <3>1, AfterOne
    <3> QED BY <3>2, <3>3, <3>4
  <2>2. found = [k \in 0 .. m |-> found[k]]
    OBVIOUS
  <2> HIDE DEF found
  <2> QED BY <2>1, <2>2 DEF IsWayOn, m
<1>7. IsWayOn(on, d, future)
  BY <1>6
<1> HIDE DEF on, found
<1>8. /\ on[0] = {place[0]}
      /\ \A k \in 1 .. m : on[k] = After(on[k - 1], batches[k])
  <2>1. \A k \in 0 .. m : on[k] = IF k = 0 THEN {d} ELSE After(on[k - 1], future[m - k + 1].forward)
    BY <1>7 DEF IsWayOn, m
  <2>2. 0 \in 0 .. m /\ \A k \in 1 .. m : k \in 0 .. m /\ k # 0
    BY <1>1
  <2>3. on[0] = {d}
    BY <2>1, <2>2
  <2>4. \A k \in 1 .. m : on[k] = After(on[k - 1], future[m - k + 1].forward)
    BY <2>1, <2>2
  <2> QED BY <1>3, <2>3, <2>4
<1>9. \A k \in 1 .. m : Accepted(place[k - 1], batches[k]) = {place[k]}
  BY <1>3, <1>5
<1>10. \A k \in 0 .. m : on[k] = {place[k]}
  <2>1. GoesThrough(on, place, batches, m)
    BY <1>8, <1>9 DEF GoesThrough
  <2> QED BY <1>1, <2>1, RunFollowsLine
<1>11. \A k \in 0 .. m : on[k] = {line[n + 1 + k]}
  BY <1>3, <1>10
<1> QED BY <1>11 DEF on, d, m, n

\* The timeline of a session is its line.
ShowsLine(timeline, line, n) == timeline = [i \in 1 .. n |-> {line[i]}]

TimelinesAreLines ==
    \A T, past, future, line :
        past \in Seq(T) /\ future \in Seq(T) /\ IsLine(line, past, future) =>
          ShowsLine(Timeline(line[Len(past) + 1], past, future), line, Len(past) + 1 + Len(future))

LEMMA TimelineIsLine == TimelinesAreLines
<1> SUFFICES ASSUME NEW T, NEW past \in Seq(T), NEW future \in Seq(T), NEW line,
                    IsLine(line, past, future)
             PROVE  ShowsLine(Timeline(line[Len(past) + 1], past, future), line,
                              Len(past) + 1 + Len(future))
  BY DEF TimelinesAreLines
<1> DEFINE n == Len(past)
           m == Len(future)
           d == line[n + 1]
           back == CHOOSE run : IsWayBackwards(run, d, past)
           on == CHOOSE run : IsWayOn(run, d, future)
<1>1. n \in Nat /\ m \in Nat
  OBVIOUS
<1>2. \A i \in 1 .. n : back[n - i + 1] = {line[i]}
  BY <1>1, UndoFollowsLine
<1>3. \A k \in 0 .. m : on[k] = {line[n + 1 + k]}
  BY <1>1, RedoFollowsLine
<1>4. Timeline(d, past, future) =
        [i \in 1 .. n + 1 + m |-> IF i <= n THEN back[n - i + 1] ELSE on[i - n - 1]]
  BY DEF Timeline, IsWayBackwards, IsWayOn, After
<1> HIDE DEF back, on, n, m, d
<1>5. ASSUME NEW i \in 1 .. n + 1 + m
      PROVE  (IF i <= n THEN back[n - i + 1] ELSE on[i - n - 1]) = {line[i]}
  <2>1. CASE i <= n
    <3>1. i \in 1 .. n
      BY <1>1, <2>1
    <3> QED BY <1>2, <2>1, <3>1
  <2>2. CASE ~(i <= n)
    <3>1. i - n - 1 \in 0 .. m /\ n + 1 + (i - n - 1) = i
      BY <1>1, <2>2
    <3> QED BY <1>3, <2>2, <3>1
  <2> QED BY <2>1, <2>2
<1>6. Timeline(d, past, future) = [i \in 1 .. n + 1 + m |-> {line[i]}]
  BY <1>4, <1>5
<1> QED BY <1>6 DEF ShowsLine, d, n, m

LEMMA NextTimelineIsLine == TimelinesAreLines'
BY TimelineIsLine, PTL

-----------------------------------------------------------------------------
(* Steps along the line.                                                   *)

\* The stacks as sequences of entries.
LEMMA StackIsSeq ==
  ASSUME NEW stack, stack \in Seq(Range(stack)), NEW T, Range(stack) \subseteq T
  PROVE  stack \in Seq(T)
<1>1. stack \in [1 .. Len(stack) -> T] /\ Len(stack) \in Nat
  BY DEF Range
<1> QED BY <1>1, ListIsSeq

LEMMA StacksAre ==
  ASSUME BatchInv, NEW past, past = undo, NEW future, future = redo, NEW T,
         Range(past) \subseteq T, Range(future) \subseteq T
  PROVE  past \in Seq(T) /\ future \in Seq(T)
BY StackIsSeq DEF BatchInv, KnownStack

LEMMA StackHasTop ==
  ASSUME NEW T, NEW stack \in Seq(T), stack # <<>>
  PROVE  /\ Front(stack) \in Seq(T) /\ Top(stack) \in T
         /\ stack = Append(Front(stack), Top(stack)) /\ Len(Front(stack)) + 1 = Len(stack)
<1>1. PICK n \in Nat : n + 1 = Len(stack)
  OBVIOUS
<1>2. PICK front : front = SubSeq(stack, 1, n)
  OBVIOUS
<1>3. front \in Seq(T) /\ Len(front) = n /\ \A i \in 1 .. n : front[i] = stack[i]
  BY <1>1, <1>2
<1>4. Top(stack) = stack[n + 1] /\ stack[n + 1] \in T
  BY <1>1 DEF Top
<1>5. Front(stack) = front
  <2>1. Len(stack) - 1 = n
    BY <1>1
  <2> QED BY <1>2, <2>1 DEF Front
<1>6. stack = [i \in 1 .. n + 1 |-> stack[i]]
  BY <1>1
<1>7. PICK again : again = Append(front, stack[n + 1])
  OBVIOUS
<1>8. /\ again = [i \in 1 .. n + 1 |-> again[i]] /\ again[n + 1] = stack[n + 1]
      /\ \A i \in 1 .. n : again[i] = front[i]
  BY <1>3, <1>4, <1>7
<1>9. \A i \in 1 .. n + 1 : again[i] = stack[i]
  <2>1. \A i \in 1 .. n + 1 : i = n + 1 \/ i \in 1 .. n
    OBVIOUS
  <2> QED BY <1>3, <1>8, <2>1
<1>10. again = stack
  BY <1>6, <1>8, <1>9
<1> QED BY <1>1, <1>3, <1>4, <1>5, <1>7, <1>10

\* What the user can move to, before a step and after it.
LEMMA TimelineNow ==
  ASSUME BatchInv, NEW line, IsLine(line, undo, redo), line[Len(undo) + 1] = doc
  PROVE  Timeline(doc, undo, redo) = [i \in 1 .. Len(undo) + 1 + Len(redo) |-> {line[i]}]
<1>1. PICK past, future : past = undo /\ future = redo
  OBVIOUS
<1> DEFINE T == Range(past) \union Range(future)
<1>2. past \in Seq(T) /\ future \in Seq(T)
  BY <1>1, StacksAre
<1> HIDE DEF T
<1>3. IsLine(line, past, future) /\ line[Len(past) + 1] = doc
  BY <1>1
<1>4. ShowsLine(Timeline(line[Len(past) + 1], past, future), line, Len(past) + 1 + Len(future))
  BY <1>2, <1>3, TimelineIsLine DEF TimelinesAreLines
<1> QED BY <1>1, <1>3, <1>4 DEF ShowsLine

LEMMA TimelineNext ==
  ASSUME BatchInv', NEW line, IsLine(line, undo, redo)', line[Len(undo') + 1] = doc'
  PROVE  Timeline(doc, undo, redo)' = [i \in 1 .. Len(undo') + 1 + Len(redo') |-> {line[i]}]
<1>1. PICK past, future, d : past = undo' /\ future = redo' /\ d = doc'
  OBVIOUS
<1> DEFINE T == Range(past) \union Range(future)
<1>2. past \in Seq(T) /\ future \in Seq(T)
  <2>1. past \in Seq(Range(past)) /\ future \in Seq(Range(future))
    BY <1>1 DEF BatchInv, KnownStack
  <2> QED BY <2>1, StackIsSeq
<1> HIDE DEF T
<1>3. IsLine(line, past, future)' /\ line[Len(past) + 1] = d
  BY <1>1
<1>4. ShowsLine(Timeline(line[Len(past) + 1], past, future), line, Len(past) + 1 + Len(future))'
  BY <1>2, <1>3, NextTimelineIsLine DEF TimelinesAreLines
<1>5. Timeline(d, past, future)' = [i \in 1 .. Len(past) + 1 + Len(future) |-> {line[i]}]
  BY <1>3, <1>4 DEF ShowsLine
<1>6. Timeline(doc, undo, redo)' = Timeline(d, past, future)'
  BY <1>1
<1> QED BY <1>1, <1>5, <1>6

\* What is kept of a line when an edit cuts it.
LEMMA PastIsKept ==
  ASSUME NEW X, NEW all \in Seq(X), NEW n \in Nat, n + 1 <= Len(all),
         NEW depth \in Nat \ {0}, NEW cut, cut = IF n >= depth THEN 1 ELSE 0,
         NEW past, past = SubSeq(all, 1, n + 1),
         NEW kept, kept = IF Len(past) > depth THEN Tail(past) ELSE past,
         NEW m, m = (n + 1) - cut
  PROVE  kept \in Seq(X) /\ IsRest(kept, all, cut, m)
<1>1. past \in Seq(X) /\ Len(past) = n + 1 /\ \A i \in 1 .. n + 1 : past[i] = all[i]
  OBVIOUS
<1>2. CASE n >= depth
  <2>1. cut = 1 /\ Len(past) > depth /\ past # <<>>
    BY <1>1, <1>2
  <2>2. /\ Tail(past) \in Seq(X) /\ Len(Tail(past)) = n
        /\ \A i \in 1 .. n : Tail(past)[i] = past[i + 1]
    BY <1>1, <2>1
  <2>3. \A i \in 1 .. n : i + 1 \in 1 .. n + 1
    OBVIOUS
  <2> QED BY <1>1, <2>1, <2>2, <2>3 DEF IsRest
<1>3. CASE ~(n >= depth)
  <2>1. cut = 0 /\ ~(Len(past) > depth)
    BY <1>1, <1>3
  <2> QED BY <1>1, <2>1 DEF IsRest
<1> QED BY <1>2, <1>3

\* A recorded edit is an edit of the line.
LEMMA EditMovesOn ==
  ASSUME AllSound, LineInv, IsEdit
  PROVE  LineInv' /\ History!Edit
<1>1. PICK forward, inverse, serial :
        RecordEditAs(forward, inverse, serial) /\ IsTyped(doc') /\ ComesBack(doc, doc', inverse)
  BY DEF IsEdit
<1>2. PICK line : IsLine(line, undo, redo) /\ line[Len(undo) + 1] = doc
  BY DEF LineInv
<1>3. PICK past, future, d, e : past = undo /\ future = redo /\ d = doc /\ e = doc'
  OBVIOUS
<1> DEFINE entry == [forward |-> forward, inverse |-> inverse]
           T == Range(past) \union Range(future) \union {entry}
           cut == IF Len(past) >= HistoryDepth THEN 1 ELSE 0
           kept == IF Len(past) >= HistoryDepth THEN Tail(past) ELSE past
           n == Len(kept)
           after == Append(kept, entry)
           new == [i \in 1 .. n + 2 |-> IF i <= n + 1 THEN line[i + cut] ELSE e]
           L == Len(past) + 1 + Len(future)
<1>4. past \in Seq(T) /\ future \in Seq(T)
  BY <1>3, StacksAre DEF AllSound, SessionInv
<1>5. /\ undo' = after /\ redo' = <<>> /\ opened' = opened /\ revision' = revision + 1
  BY <1>1, <1>3 DEF RecordEditAs, Record, Publish
<1>6. entry \in T /\ entry.forward = forward /\ entry.inverse = inverse
  OBVIOUS
<1> HIDE DEF T, entry
<1>7. /\ cut \in {0, 1} /\ kept \in Seq(T) /\ n \in Nat /\ n + cut = Len(past) /\ Len(past) \in Nat
      /\ \A i \in 1 .. n : kept[i] = past[i + cut]
  <2>1. CASE Len(past) >= HistoryDepth
    <3>1. past # <<>> /\ Len(past) \in Nat
      BY <1>4, <2>1, BoundsAssumption
    <3> QED BY <1>4, <2>1, <3>1
  <2>2. CASE ~(Len(past) >= HistoryDepth)
    BY <1>4, <2>2
  <2> QED BY <2>1, <2>2
<1>8. Len(after) = n + 1
  BY <1>6, <1>7
<1>9. IsLine(line, past, future) /\ line[Len(past) + 1] = d
  BY <1>2, <1>3
<1>10. Between(line[Len(past) + 1], entry, e) /\ d # e
  <2>1. Accepted(doc, forward) = {doc'} /\ Accepted(doc', inverse) = {doc}
    BY <1>1, EditIsBetween
  <2>2. doc' # doc
    BY <1>1, RecordedBatches
  <2> QED BY <1>3, <1>6, <1>9, <2>1, <2>2 DEF Between
<1>11. /\ new[n + 2] = e /\ \A i \in 1 .. n + 1 : new[i] = line[i + cut]
       /\ new = [i \in 1 .. n + 2 |-> new[i]]
  BY <1>7
<1> HIDE DEF cut, kept, new
<1>12. IsLine(new, after, <<>>)
  <2>1. IsTyped(e)
    BY <1>1, <1>3
  <2>2. IsGrown(new, line, cut, n + 1, e)
    <3>1. (n + 1) + 1 = n + 2
      BY <1>7
    <3> QED BY <1>11, <3>1 DEF IsGrown
  <2>3. IsRest(kept, past, cut, n)
    BY <1>7 DEF IsRest
  <2> HIDE DEF n
  <2> QED BY <1>4, <1>6, <1>7, <1>9, <1>10, <2>1, <2>2, <2>3, EditedLine
<1> HIDE DEF after
<1>13. IsLine(new, undo, redo)' /\ new[Len(undo') + 1] = doc'
  <2>1. PICK ahead, none : ahead = undo' /\ none = redo'
    OBVIOUS
  <2>2. IsLine(new, ahead, none)
    BY <1>5, <1>12, <2>1
  <2>3. IsLine(new, ahead, none)'
    BY <1>5, <2>2, LineStays
  <2>4. IsLine(new, undo, redo)'
    BY <2>1, <2>3
  <2>5. Len(undo') + 1 = n + 2
    BY <1>5, <1>7, <1>8
  <2> QED BY <1>3, <1>11, <2>4, <2>5
<1>14. LineInv'
  BY <1>13 DEF LineInv
<1> DEFINE now == Timeline(doc, undo, redo)
           next == Timeline(doc, undo, redo)'
           pastNow == SubSeq(now, 1, Len(undo) + 1)
           keptNow == IF Len(pastNow) > HistoryDepth THEN Tail(pastNow) ELSE pastNow
<1>15. now = [i \in 1 .. L |-> {line[i]}]
  BY <1>2, <1>3, TimelineNow DEF AllSound, SessionInv
<1>16. next = [i \in 1 .. n + 2 |-> {new[i]}]
  <2>1. next = [i \in 1 .. Len(undo') + 1 + Len(redo') |-> {new[i]}]
    BY <1>13, TimelineNext DEF AllSound, SessionInv
  <2>2. Len(undo') + 1 + Len(redo') = n + 2
    BY <1>5, <1>7, <1>8
  <2> QED BY <2>1, <2>2
<1> HIDE DEF now, next
<1> DEFINE X == {{line[i]} : i \in 1 .. L} \union {{e}}
<1>17. /\ L \in Nat /\ Len(past) + 1 <= L
       /\ now \in Seq(X) /\ Len(now) = L
  <2>1. L \in Nat /\ Len(past) + 1 <= L
    BY <1>4
  <2> HIDE DEF L
  <2>2. now \in [1 .. L -> X]
    BY <1>15
  <2> HIDE DEF X
  <2> QED BY <2>1, <2>2, ListIsSeq
<1> HIDE DEF X
<1>18. /\ keptNow \in Seq(X) /\ Len(keptNow) = n + 1
       /\ \A i \in 1 .. n + 1 : keptNow[i] = {line[i + cut]}
  <2>1. (Len(past) + 1) - cut = n + 1 /\ Len(past) = Len(undo)
    BY <1>3, <1>7
  <2>2. keptNow \in Seq(X) /\ IsRest(keptNow, now, cut, n + 1)
    <3>1. /\ now \in Seq(X) /\ Len(past) \in Nat /\ Len(past) + 1 <= Len(now)
          /\ HistoryDepth \in Nat \ {0} /\ cut = IF Len(past) >= HistoryDepth THEN 1 ELSE 0
      BY <1>7, <1>17, BoundsAssumption DEF cut
    <3>2. pastNow = SubSeq(now, 1, Len(past) + 1)
      BY <2>1
    <3>3. keptNow = IF Len(pastNow) > HistoryDepth THEN Tail(pastNow) ELSE pastNow
      OBVIOUS
    <3> HIDE DEF pastNow, keptNow, L, n
    <3>4. PICK m : m = n + 1
      OBVIOUS
    <3>5. m = (Len(past) + 1) - cut
      BY <2>1, <3>4
    <3>6. keptNow \in Seq(X) /\ IsRest(keptNow, now, cut, m)
      BY <3>1, <3>2, <3>3, <3>5, PastIsKept
    <3> QED BY <3>4, <3>6
  <2>3. \A i \in 1 .. n + 1 : i + cut \in 1 .. L
    BY <1>7, <1>17
  <2>4. \A i \in 1 .. n + 1 : now[i + cut] = {line[i + cut]}
    BY <1>15, <2>3
  <2> HIDE DEF n, keptNow
  <2> QED BY <2>2, <2>4 DEF IsRest
<1> HIDE DEF pastNow, keptNow
<1>19. Len(undo') + 1 = n + 2
  BY <1>5, <1>7, <1>8
<1>20. next[n + 2] = {e} /\ keptNow[n + 1] = {d}
  <2>1. n + 2 \in 1 .. n + 2 /\ n + 1 \in 1 .. n + 1 /\ n + 1 + cut = Len(past) + 1
    BY <1>7
  <2> QED BY <1>9, <1>11, <1>16, <1>18, <2>1
<1>21. next = Append(keptNow, next[n + 2])
  <2> DEFINE grown == Append(keptNow, {e})
  <2>1. {e} \in X
    BY DEF X
  <2>2. /\ grown = [i \in 1 .. n + 2 |-> grown[i]]
        /\ grown[n + 2] = {e}
        /\ \A i \in 1 .. n + 1 : grown[i] = keptNow[i]
    BY <1>7, <1>18, <2>1
  <2> HIDE DEF grown
  <2>3. \A i \in 1 .. n + 2 : grown[i] = {new[i]}
    <3> SUFFICES ASSUME NEW i \in 1 .. n + 2 PROVE grown[i] = {new[i]}
      OBVIOUS
    <3>1. i = n + 2 \/ i \in 1 .. n + 1
      BY <1>7
    <3> QED BY <1>11, <1>18, <2>2, <3>1
  <2>4. grown = next
    BY <1>16, <2>2, <2>3
  <2> QED BY <1>20, <2>4 DEF grown
<1>22. History!Edit
  <2>1. History!Kept = keptNow
    BY DEF History!Kept, keptNow, pastNow, now
  <2>2. Len(undo') + 1 = Len(keptNow) + 1
    BY <1>18, <1>19
  <2>3. next[Len(undo') + 1] # keptNow[Len(keptNow)]
    BY <1>10, <1>18, <1>19, <1>20
  <2>4. next = Append(keptNow, next[Len(undo') + 1])
    BY <1>19, <1>21
  <2> QED BY <1>5, <2>1, <2>2, <2>3, <2>4 DEF History!Edit, next
<1> QED BY <1>14, <1>22

\* Undo and Redo publish the document next to the current one, and the line stays.
LEMMA HistoryMovesAlong ==
  ASSUME SessionInv, SessionInv', LineInv, Undo \/ Redo
  PROVE  /\ IsTyped(doc') /\ LineInv'
         /\ Undo => History!Undo
         /\ Redo => History!Redo
<1>1. PICK line : IsLine(line, undo, redo) /\ line[Len(undo) + 1] = doc
  BY DEF LineInv
<1>2. PICK past, future, d : past = undo /\ future = redo /\ d = doc
  OBVIOUS
<1>3. PICK past2, future2, e : past2 = undo' /\ future2 = redo' /\ e = doc'
  OBVIOUS
<1> DEFINE T == Range(past) \union Range(future)
           L == Len(past) + 1 + Len(future)
<1>4. past \in Seq(T) /\ future \in Seq(T)
  BY <1>2, StacksAre DEF SessionInv
<1> HIDE DEF T
<1>5. IsLine(line, past, future) /\ opened' = opened /\ revision' = revision + 1
  BY <1>1, <1>2 DEF Undo, Redo, HistoryEdit, Publish
<1>6. ASSUME Undo
      PROVE  /\ IsLine(line, past2, future2) /\ line[Len(past2) + 1] = e
             /\ Len(past2) + 1 = Len(past) /\ Len(future2) = Len(future) + 1
  <2>1. past # <<>> /\ past2 = Front(past) /\ future2 = Append(future, Top(past))
    BY <1>2, <1>3, <1>6 DEF Undo
  <2>2. e \in Accepted(doc, Top(past).inverse)
    BY <1>2, <1>3, <1>6 DEF Undo, HistoryEdit, Publish
  <2>3. /\ past2 \in Seq(T) /\ Top(past) \in T /\ past = Append(past2, Top(past))
        /\ Len(past2) + 1 = Len(past)
    BY <1>4, <2>1, StackHasTop
  <2>4. /\ IsLine(line, past2, future2)
        /\ Between(line[Len(past)], Top(past), line[Len(past) + 1])
    BY <1>4, <1>5, <2>1, <2>3, UndoneLine
  <2>5. Accepted(doc, Top(past).inverse) = {line[Len(past)]}
    BY <1>1, <1>2, <2>4 DEF Between
  <2>6. Len(future2) = Len(future) + 1
    BY <1>4, <2>1, <2>3
  <2> QED BY <2>2, <2>3, <2>4, <2>5, <2>6
<1>7. ASSUME Redo
      PROVE  /\ IsLine(line, past2, future2) /\ line[Len(past2) + 1] = e
             /\ Len(past2) = Len(past) + 1 /\ Len(future2) + 1 = Len(future)
  <2>1. future # <<>> /\ future2 = Front(future) /\ past2 = Append(past, Top(future))
    BY <1>2, <1>3, <1>7 DEF Redo
  <2>2. e \in Accepted(doc, Top(future).forward)
    BY <1>2, <1>3, <1>7 DEF Redo, HistoryEdit, Publish
  <2>3. /\ future2 \in Seq(T) /\ Top(future) \in T /\ future = Append(future2, Top(future))
        /\ Len(future2) + 1 = Len(future)
    BY <1>4, <2>1, StackHasTop
  <2>4. /\ IsLine(line, past2, future2)
        /\ Between(line[Len(past) + 1], Top(future), line[Len(past) + 2])
    BY <1>4, <1>5, <2>1, <2>3, RedoneLine
  <2>5. Accepted(doc, Top(future).forward) = {line[Len(past) + 2]}
    BY <1>1, <1>2, <2>4 DEF Between
  <2>6. Len(past2) = Len(past) + 1 /\ (Len(past) + 1) + 1 = Len(past) + 2
    BY <1>4, <2>1, <2>3
  <2> QED BY <2>2, <2>3, <2>4, <2>5, <2>6
<1>8. IsLine(line, past2, future2) /\ line[Len(past2) + 1] = e
  BY <1>6, <1>7
<1>9. /\ Len(past) \in Nat /\ Len(future) \in Nat /\ Len(past2) \in Nat /\ Len(future2) \in Nat
      /\ Len(past2) + 1 + Len(future2) = L
  <2>1. Len(past) \in Nat /\ Len(future) \in Nat
    BY <1>4
  <2>2. Len(past2) \in Nat /\ Len(future2) \in Nat
    BY <1>3 DEF SessionInv, BatchInv, KnownStack
  <2> QED BY <1>6, <1>7, <2>1, <2>2
<1>10. IsLine(line, undo, redo)' /\ line[Len(undo') + 1] = doc'
  <2>1. IsLine(line, past2, future2)'
    BY <1>5, <1>8, LineStays
  <2> QED BY <1>3, <1>8, <2>1
<1>11. LineInv'
  BY <1>10 DEF LineInv
<1>12. IsTyped(doc')
  <2>1. Len(past2) + 1 \in 1 .. Len(past2) + 1 + Len(future2)
    BY <1>9
  <2>2. IsTyped(line[Len(past2) + 1])
    BY <1>8, <2>1 DEF IsLine
  <2> QED BY <1>3, <1>8, <2>2
<1> DEFINE now == Timeline(doc, undo, redo)
           next == Timeline(doc, undo, redo)'
<1>13. now = [i \in 1 .. L |-> {line[i]}]
  BY <1>1, <1>2, TimelineNow DEF SessionInv
<1>14. next = [i \in 1 .. L |-> {line[i]}]
  <2>1. next = [i \in 1 .. Len(undo') + 1 + Len(redo') |-> {line[i]}]
    BY <1>10, TimelineNext DEF SessionInv
  <2> QED BY <1>3, <1>9, <2>1
<1> HIDE DEF now, next, L
<1>15. next = now
  BY <1>13, <1>14
<1>16. Undo => History!Undo
  <2> SUFFICES ASSUME Undo PROVE History!Undo
    OBVIOUS
  <2>1. Len(undo) + 1 > 1 /\ Len(undo') + 1 = (Len(undo) + 1) - 1
    BY <1>2, <1>3, <1>6, <1>9
  <2> QED BY <1>5, <1>15, <2>1 DEF History!Undo, now, next
<1>17. Redo => History!Redo
  <2> SUFFICES ASSUME Redo PROVE History!Redo
    OBVIOUS
  <2>1. Len(undo) + 1 < L /\ Len(undo') + 1 = (Len(undo) + 1) + 1
    BY <1>2, <1>3, <1>7, <1>9 DEF L
  <2>2. Len(now) = L
    BY <1>9, <1>13 DEF L
  <2> QED BY <1>5, <1>15, <2>1, <2>2 DEF History!Redo, now, next
<1> QED BY <1>11, <1>12, <1>16, <1>17

\* Nothing moves while the document and the stacks stay.
LEMMA LineStaysPut ==
  ASSUME SessionInv, SessionInv', LineInv, UNCHANGED <<doc, undo, redo, opened>>
  PROVE  LineInv' /\ Timeline(doc, undo, redo)' = Timeline(doc, undo, redo)
<1>1. PICK line : IsLine(line, undo, redo) /\ line[Len(undo) + 1] = doc
  BY DEF LineInv
<1>2. PICK past, future : past = undo /\ future = redo
  OBVIOUS
<1>3. IsLine(line, undo, redo)' /\ line[Len(undo') + 1] = doc'
  <2>1. IsLine(line, past, future)'
    BY <1>1, <1>2, LineStays
  <2> QED BY <1>1, <1>2, <2>1
<1>4. LineInv'
  BY <1>3 DEF LineInv
<1>5. Timeline(doc, undo, redo) = [i \in 1 .. Len(undo) + 1 + Len(redo) |-> {line[i]}]
  BY <1>1, TimelineNow DEF SessionInv
<1>6. Timeline(doc, undo, redo)' = [i \in 1 .. Len(undo') + 1 + Len(redo') |-> {line[i]}]
  BY <1>3, TimelineNext DEF SessionInv
<1> QED BY <1>4, <1>5, <1>6

-----------------------------------------------------------------------------
(* The refinement.                                                         *)

HistoryInv == SessionInv /\ IsTyped(doc) /\ PendingBack /\ LineInv

LEMMA InitStartsLine ==
  ASSUME Init
  PROVE  HistoryInv /\ History!Init
<1>1. SessionInv
  BY InitEstablishesInvariant
<1>2. IsTyped(doc) /\ undo = <<>> /\ redo = <<>> /\ pending = NoCleanup /\ revision = 0
  BY InitialDocsAssumption DEF Init
<1>3. PendingBack
  BY <1>2 DEF PendingBack
<1> DEFINE line == [i \in 1 .. 1 |-> doc]
<1>4. Len(<<>>) + 1 + Len(<<>>) = 1 /\ Len(<<>>) + 1 = 1 /\ Len(<<>>) = 0
  OBVIOUS
<1>5. IsLine(line, <<>>, <<>>)
  BY <1>2, <1>4 DEF IsLine
<1>6. IsLine(line, undo, redo) /\ line[Len(undo) + 1] = doc
  BY <1>2, <1>4, <1>5
<1>7. LineInv
  BY <1>6 DEF LineInv
<1>8. PICK one : IsLine(one, undo, redo) /\ one[Len(undo) + 1] = doc
  BY <1>7 DEF LineInv
<1>9. Timeline(doc, undo, redo) = [i \in 1 .. Len(undo) + 1 + Len(redo) |-> {one[i]}]
  BY <1>1, <1>8, TimelineNow DEF SessionInv
<1>10. Len(Timeline(doc, undo, redo)) = 1
  BY <1>2, <1>4, <1>9
<1>11. History!Init
  BY <1>2, <1>4, <1>10 DEF History!Init
<1> QED BY <1>1, <1>2, <1>3, <1>7, <1>11 DEF HistoryInv

HistoryNow == <<Timeline(doc, undo, redo), Len(undo) + 1, revision>>

LEMMA NextMovesOnLine ==
  ASSUME HistoryInv, [Next]_vars
  PROVE  HistoryInv' /\ [History!Next]_HistoryNow
<1>1. SessionInv /\ SessionInv' /\ IsTyped(doc) /\ PendingBack /\ LineInv /\ AllSound
  BY NextKeepsInvariant DEF HistoryInv, AllSound
<1>2. ASSUME revision' = revision + 1, pending' \in {pending, NoCleanup} PROVE PendingBack'
  <2>1. pending # NoCleanup => pending.revision \in Nat /\ pending.revision <= revision
    BY <1>1 DEF SessionInv, PendingInv
  <2>2. revision \in Nat
    BY <1>1 DEF SessionInv, BatchInv
  <2>3. pending' # NoCleanup => pending' = pending /\ pending'.revision # revision'
    BY <1>2, <2>1, <2>2
  <2> QED BY <2>3 DEF PendingBack
<1>3. CASE CellRequest \/ RowRequest \/ ColumnRequest \/ CommitCleanup
  <2>1. IsEdit
    BY <1>1, <1>3, EveryEditComesBack
  <2>2. LineInv' /\ History!Edit /\ IsTyped(doc')
    BY <1>1, <2>1, EditMovesOn DEF IsEdit
  <2>3. revision' = revision + 1
    BY <2>1 DEF IsEdit, RecordEditAs, Publish
  <2>4. pending' \in {pending, NoCleanup}
    BY <1>1, <1>3, RequestIsEdit DEF EditAs
  <2> QED BY <1>1, <1>2, <2>2, <2>3, <2>4 DEF HistoryInv, History!Next
<1>4. CASE PreviewCleanup
  <2>1. UNCHANGED <<doc, undo, redo, opened>> /\ revision' = revision
    BY <1>4 DEF PreviewCleanup
  <2>2. PendingBack'
    BY <1>1, <1>4, PreviewIsBack DEF SessionInv
  <2>3. LineInv' /\ Timeline(doc, undo, redo)' = Timeline(doc, undo, redo)
    BY <1>1, <2>1, LineStaysPut
  <2> QED BY <1>1, <2>1, <2>2, <2>3 DEF HistoryInv, HistoryNow
<1>5. CASE HistoryRequest
  <2>1. Undo \/ Redo
    BY <1>5 DEF HistoryRequest
  <2>2. IsTyped(doc') /\ LineInv' /\ (History!Undo \/ History!Redo)
    BY <1>1, <2>1, HistoryMovesAlong
  <2>3. revision' = revision + 1 /\ pending' = pending
    BY <2>1 DEF Undo, Redo, HistoryEdit, Publish
  <2> QED BY <1>1, <1>2, <2>2, <2>3 DEF HistoryInv, History!Next
<1>6. CASE RefusedRequest \/ UNCHANGED vars
  <2>1. UNCHANGED <<doc, undo, redo, opened>> /\ revision' = revision /\ pending' = pending
    BY <1>6 DEF RefusedRequest, vars
  <2>2. PendingBack'
    BY <1>1, <2>1 DEF PendingBack, ComesBack
  <2>3. LineInv' /\ Timeline(doc, undo, redo)' = Timeline(doc, undo, redo)
    BY <1>1, <2>1, LineStaysPut
  <2> QED BY <1>1, <2>1, <2>2, <2>3 DEF HistoryInv, HistoryNow
<1> QED BY <1>3, <1>4, <1>5, <1>6 DEF Next, CleanupRequest

\* Undo and Redo move along one line of documents: whatever is edited, undone,
\* redone, cleaned up and dropped for want of room, every entry of the two
\* stacks is accepted when its turn comes, gives back the document it was
\* recorded on and leads again to the one it made of it (history_edit and the
\* inverses that the requests of the session record).
THEOREM UndoFollowsOneLine == Spec => ImplementsEditHistory
<1>1. Init => HistoryInv /\ History!Init
  BY InitStartsLine
<1>2. HistoryInv /\ [Next]_vars => HistoryInv' /\ [History!Next]_HistoryNow
  BY NextMovesOnLine
<1> QED BY <1>1, <1>2, PTL DEF Spec, ImplementsEditHistory, History!Spec, History!vars, HistoryNow
=============================================================================

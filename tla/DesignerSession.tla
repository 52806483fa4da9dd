--------------------------- MODULE DesignerSession ---------------------------
(***************************************************************************)
(* One Designer session over one native table: DesignerRuntime in          *)
(* packages/browser-client/runtime/src/lib.rs and the cleanup previews of  *)
(* interop_document.rs.  A request computes a batch of commands and the    *)
(* batch that takes it back, has the engine publish the first and keeps    *)
(* the pair for Undo.  The session also caches the structure of the        *)
(* document and refreshes it only when a batch can have changed it.        *)
(*                                                                         *)
(* Requests are handled one at a time.  Each names the revision its caller *)
(* saw; one with another revision is refused and changes nothing, so only  *)
(* those with the current one are actions.                                 *)
(***************************************************************************)
EXTENDS TableDocument

CONSTANTS
    InitialDocs,        \* the documents a session may open
    Values,             \* the numbers and texts a caller can enter
    Trimmed,            \* text -> text, what trimming leaves of it
    Parsed,             \* text -> number, for the texts that read as one
    Printed,            \* number -> text
    Names,              \* the names a caller can give a column
    Allowed,            \* the sets of values a caller can restrict a column to
    MaxTableRows,       \* capacity limits of an ordinary session
    MaxTableFields,
    MinCapacityRows,    \* rows of a table in the text-capacity profile
    MaxCapacityRows,
    HistoryDepth,       \* how many edits Undo keeps (64 in the code)
    MaxRange,           \* bounds of an instance: cells in one request,
    MaxRevision,        \* publications
    MaxSerial           \* and proposals in one session

ASSUME BoundsAssumption ==
    /\ MaxTableRows \in Nat /\ MaxTableFields \in Nat \ {0}
    /\ MinCapacityRows \in Nat /\ MaxCapacityRows \in Nat
    /\ HistoryDepth \in Nat \ {0}
    /\ MaxRange \in Nat /\ MaxRevision \in Nat /\ MaxSerial \in Nat

ASSUME ValuesAssumption ==
    \A v \in Values :
        /\ Kind(v) \in Types
        /\ Kind(v) = "number" /\ v[2] # 0 => Dividend % v[2] = 0

\* Nothing in an opened document has an id of this session's own namespace.
ASSUME InitialDocsAssumption ==
    \A d \in InitialDocs :
        /\ IsTable(d) /\ IsTyped(d) /\ Valid(d)
        /\ \A id \in (DOMAIN d.columns) \union DOMAIN d.rows : id % 2 = 0

VARIABLES
    doc,                \* the resident document
    revision,           \* its generation
    specs,              \* cached shape: columns, their shown order, the rows
    sources,            \* cached formula sources: formula cell -> cell it reads
    usage,              \* cached counts, for the capacity display
    opened,             \* what the session was opened as: [profile, registry]
    undo, redo,         \* stacks of [forward, inverse], last on top
    proposalSerial,     \* last proposal id handed out
    rowSerial,          \* last row serial handed out
    pending,            \* the cleanup preview that may be committed
    issued,             \* history: every row and column id there has been
    reissued            \* history: those that a new edit brought in again

caches == <<specs, sources, usage>>

vars == <<doc, revision, caches, opened, undo, redo, proposalSerial, rowSerial,
          pending, issued, reissued>>

NoCleanup == [id |-> 0]
Clear == <<"clear">>
EmptyText == ""
Formats == {"general", "percent"}     \* "general": none declared
Unrestricted == {}

SpecsOf(d) == [columns |-> d.columns, order |-> ColumnOrder(d), rows |-> DOMAIN d.rows]
SourcesOf(d) == [cell \in FormulaCells(d) |-> ReadBy(d, cell)]

\* CapacityUsage::measure
Measure(d) ==
    [rows |-> Cardinality(DOMAIN d.rows), fields |-> Cardinality(DOMAIN d.columns),
     cells |-> Cardinality(Cells(d)), formulas |-> Cardinality(FormulaCells(d))]

\* is_text_capacity_eligible_document: a large table of stored values only, or
\* one of three Text columns.
TextCapacityEligible(d) ==
    /\ Cardinality(DOMAIN d.rows) <= MaxCapacityRows
    /\ FormulaCells(d) = {}
    /\ \A c \in DOMAIN d.columns : d.columns[c].constraint = Unrestricted
    /\ \/ Cardinality(DOMAIN d.rows) >= MinCapacityRows
       \/ /\ Cardinality(DOMAIN d.columns) = 3
          /\ \A c \in DOMAIN d.columns : d.columns[c].type = "text"

OrdinaryFits(d) ==
    /\ Cardinality(DOMAIN d.rows) <= MaxTableRows
    /\ Cardinality(DOMAIN d.columns) <= MaxTableFields

\* document_requires_v2_evidence: what the first evidence vocabulary of a
\* proposal cannot express.
RequiresV2(d) ==
    \/ d.order.explicit
    \/ \E c \in DOMAIN d.columns :
         \/ d.columns[c].name # {}
         \/ d.columns[c].constraint # Unrestricted
         \/ d.columns[c].format # "general"

\* from_document: the ordinary profile wherever it admits the document.
OpenedAs(d) ==
    [profile |-> IF TextCapacityEligible(d) /\ ~OrdinaryFits(d) THEN "text_capacity"
                 ELSE "ordinary",
     registry |-> IF RequiresV2(d) THEN "v2" ELSE "v1"]

MaxRows == IF opened.profile = "text_capacity" THEN MaxCapacityRows ELSE MaxTableRows

\* ensure_document_profile
ProfileAdmits(d) ==
    /\ Cardinality(DOMAIN d.rows) <= MaxRows
    /\ Cardinality(DOMAIN d.columns) <= MaxTableFields
    /\ opened.profile = "text_capacity" => TextCapacityEligible(d)

Ids(d) == ({"row"} \X (DOMAIN d.rows)) \union ({"column"} \X (DOMAIN d.columns))

Init ==
    /\ doc \in InitialDocs
    /\ revision = 0
    /\ specs = SpecsOf(doc)
    /\ sources = SourcesOf(doc)
    /\ usage = Measure(doc)
    /\ opened = OpenedAs(doc)
    /\ ProfileAdmits(doc)
    /\ undo = <<>> /\ redo = <<>>
    /\ proposalSerial = 0
    /\ rowSerial = 0
    /\ pending = NoCleanup
    /\ issued = Ids(doc)
    /\ reissued = {}

-----------------------------------------------------------------------------
(* Publishing a batch and remembering it.                                  *)

\* ValueOnly, mutated: any value command counts, one that brings back a formula too.
ValueOnlyOfAnyKind(d, commands) == \A i \in 1 .. Len(commands) : commands[i].op = "set"

\* value_only: every command replaces a stored number or text with another of
\* its kind, which leaves the structure as it was.
ValueOnly(d, commands) ==
    \A i \in 1 .. Len(commands) :
        /\ commands[i].op = "set"
        /\ \E old \in Content(d, commands[i].cell) :
             Kind(old) \in {"number", "text"} /\ Kind(old) = Kind(commands[i].value)

\* capacity_text_edit: texts entered and cells cleared, in a large table.
CapacityTextEdit(commands) ==
    /\ opened.profile = "text_capacity"
    /\ \A i \in 1 .. Len(commands) :
         \/ commands[i].op = "unset"
         \/ commands[i].op = "set" /\ Kind(commands[i].value) = "text"

\* What publish_commands makes of the document by itself, without a check, to
\* measure and preflight it: first of a cell, then of any command.  Mutated, a
\* cleared cell stays in this candidate.
ApplyToCellKeepingCleared(d, command) ==
    IF command.op = "unset" THEN d ELSE Put(d, command.cell, command.value)

ApplyToCell(d, command) ==
    IF command.op = "unset" THEN Drop(d, command.cell)
    ELSE Put(d, command.cell, command.value)

ApplyOne(d, command) ==
    CASE command.op \in {"set", "unset", "formula_update", "formula_inverse_restore",
                          "formula_restore"} -> ApplyToCell(d, command)
      [] command.op = "append_entity" ->
           [d EXCEPT !.rows = Over(Only(command.row, command.fields), @)]
      [] command.op = "remove_entity" ->
           [d EXCEPT !.rows = Restrict(@, DOMAIN @ \ {command.row})]
      [] command.op = "append_field" ->
           [columns |-> Over(Only(command.column, command.definition), d.columns),
            order |-> Normalize(d.order, DOMAIN d.columns \union {command.column}),
            rows |-> [r \in DOMAIN d.rows |->
                        IF r \in DOMAIN command.values
                        THEN Over(Only(command.column, command.values[r]), d.rows[r])
                        ELSE d.rows[r]]]
      [] command.op = "remove_field" ->
           [columns |-> Restrict(d.columns, DOMAIN d.columns \ {command.column}),
            order |-> Normalize(d.order, DOMAIN d.columns \ {command.column}),
            rows |-> [r \in DOMAIN d.rows |->
                        IF r \in DOMAIN command.values
                        THEN Restrict(d.rows[r], DOMAIN d.rows[r] \ {command.column})
                        ELSE d.rows[r]]]
      [] command.op = "order" ->
           [d EXCEPT !.order = Normalize(command.order, DOMAIN d.columns)]
      [] command.op = "requiredness" ->
           [d EXCEPT !.columns[command.column].required = command.required]
      [] command.op = "format" -> [d EXCEPT !.columns[command.column].format = command.format]
      [] command.op = "name" -> [d EXCEPT !.columns[command.column].name = command.name]
      [] command.op = "constraint" ->
           [d EXCEPT !.columns[command.column].constraint = command.constraint]

Applied(base, commands) ==
    LET after[k \in 0 .. Len(commands)] ==
          IF k = 0 THEN {base} ELSE {ApplyOne(d, commands[k]) : d \in after[k - 1]}
    IN CHOOSE d \in after[Len(commands)] : TRUE

\* v2_evidence_transition: a batch needs the second vocabulary for what there
\* is already or for what its commands can bring in.  Mutated, putting the
\* order of the columns back does not count.
V2OperationsButOrder == {"name", "requiredness", "constraint", "format", "unset"}
V2Operations == {"name", "requiredness", "constraint", "format", "order", "unset"}

NeedsV2(d, commands) ==
    \/ RequiresV2(d)
    \/ \E i \in 1 .. Len(commands) :
         \/ commands[i].op \in V2Operations
         \/ /\ commands[i].op = "append_field"
            /\ commands[i].definition.name # {} \/ commands[i].definition.format # "general"

\* The documents a batch can be published as: in the registry of this request,
\* which is the session's own unless it needs a second-vocabulary one.
Accepted(d, commands) ==
    {e \in Publishable(d, commands) :
       /\ ProfileAdmits(Applied(d, commands))
       /\ NeedsV2(d, commands) \/ opened.registry = "v2" \/ ~RequiresV2(e)}

\* publish_commands, and publish_formula_update for a formula command: the
\* batch takes a proposal id and is published whole or refused.
Publish(commands, serial) ==
    /\ revision < MaxRevision /\ serial <= MaxSerial
    /\ doc' \in Accepted(doc, commands)
    /\ revision' = revision + 1
    /\ proposalSerial' = serial
    /\ UNCHANGED opened
    /\ IF ValueOnly(doc, commands) \/ CapacityTextEdit(commands)
       THEN usage' = Measure(Applied(doc, commands)) /\ UNCHANGED <<specs, sources>>
       ELSE /\ specs' = SpecsOf(doc')
            /\ sources' = SourcesOf(doc')
            /\ usage' = Measure(doc')

\* record_history_entry
Record(forward, inverse) ==
    /\ undo' = Append(IF Len(undo) >= HistoryDepth THEN Tail(undo) ELSE undo,
                      [forward |-> forward, inverse |-> inverse])
    /\ redo' = <<>>

NoteNewIds ==
    /\ issued' = issued \union Ids(doc')
    /\ reissued' = reissued \union ((Ids(doc') \ Ids(doc)) \intersect issued)

\* record_edit.  RecordEditAs names the proposal serial the edit takes.
RecordEditAs(forward, inverse, serial) ==
    /\ forward # <<>>
    /\ Publish(forward, serial)
    /\ Record(forward, inverse)
    /\ NoteNewIds

RecordEdit(forward, inverse) ==
    /\ RecordEditAs(forward, inverse, proposalSerial + 1)
    /\ UNCHANGED pending

Top(stack) == stack[Len(stack)]

\* history_edit: the entry changes stacks only once its batch is published.
HistoryEdit(commands) ==
    /\ Publish(commands, proposalSerial + 1)
    /\ UNCHANGED <<rowSerial, pending, issued, reissued>>

Undo ==
    /\ undo # <<>>
    /\ HistoryEdit(Top(undo).inverse)
    /\ undo' = Front(undo)
    /\ redo' = Append(redo, Top(undo))

Redo ==
    /\ redo # <<>>
    /\ HistoryEdit(Top(redo).forward)
    /\ redo' = Front(redo)
    /\ undo' = Append(undo, Top(redo))

LastColumnSerial == LET serials == {Serial(c) : c \in DOMAIN doc.columns}
                    IN CHOOSE n \in serials : \A m \in serials : m <= n

\* LastSerial, mutated: only the columns still there count.
LastSerialInSight == LastColumnSerial

LastSerial == IF proposalSerial > LastColumnSerial THEN proposalSerial ELSE LastColumnSerial

\* A request refused late has taken a proposal id, or raised the serial for
\* the column it meant to add, and changes nothing else.
RefusedRequest ==
    /\ proposalSerial' \in {proposalSerial + 1, LastSerial} \intersect (0 .. MaxSerial)
    /\ UNCHANGED <<doc, revision, caches, opened, undo, redo, rowSerial, pending,
                   issued, reissued>>

-----------------------------------------------------------------------------
(* Cells.                                                                  *)

The(content) == CHOOSE v \in content : TRUE

AllCells == specs.rows \X (DOMAIN specs.columns)
Ranges == {cells \in SUBSET AllCells : Cardinality(cells) \in 1 .. MaxRange}

ValueCommand(cell, content) ==
    IF content = {} THEN UnsetField(cell) ELSE SetFieldValue(cell, The(content))

\* cell_edit_value: which inputs a cell with this content takes.
Accepts(column, old, input) ==
    IF input = Clear THEN ~column.required
    ELSE IF old = {} THEN ~column.required /\ Kind(input) = column.type
    ELSE Kind(input) = IF Kind(The(old)) = "formula" THEN "number" ELSE Kind(The(old))

Entered(input) == IF input = Clear THEN {} ELSE {input}

HoldsFormula(content) == content # {} /\ Kind(The(content)) = "formula"

\* cell_edit_commands: what publishes one cell edit and what takes it back.
\* The ordinary value commands neither replace nor bring in a formula.
CellForward(cell, old, new) ==
    IF HoldsFormula(old) /\ new # {} THEN FormulaInverseRestore(cell, The(new))
    ELSE ValueCommand(cell, new)

\* CellInverse, mutated: a cleared formula is put back like a value.
CellInverseByValue(cell, old, new) == ValueCommand(cell, old)

CellInverse(cell, old, new) ==
    IF HoldsFormula(old) /\ new = {} THEN FormulaRestore(cell, The(old))
    ELSE ValueCommand(cell, old)

\* edit_cells: every cell of the range, in one batch.
EditCells ==
    \E range \in Ranges : \E input \in [range -> Values \union {Clear}] :
        LET old(cell) == Content(doc, cell)
            new(cell) == Entered(input[cell])
            changed == SetToSeq({cell \in range : new(cell) # old(cell)})
        IN /\ \A cell \in range : Accepts(specs.columns[cell[2]], old(cell), input[cell])
           /\ RecordEdit(
                [i \in DOMAIN changed |->
                    CellForward(changed[i], old(changed[i]), new(changed[i]))],
                [i \in DOMAIN changed |->
                    CellInverse(changed[i], old(changed[i]), new(changed[i]))])
           /\ UNCHANGED rowSerial

\* formula_inverse_action: a text cell has none.
FormulaInverse(cell) ==
    LET old == Content(doc, cell)
    IN CASE old = {} -> UnsetField(cell)
         [] HoldsFormula(old) -> FormulaUpdate(cell, FormulaValue(sources[cell]))
         [] OTHER -> FormulaInverseRestore(cell, The(old))

\* update_formula
UpdateFormula ==
    \E cell, source \in AllCells :
        /\ doc.columns[cell[2]].type = "number"
        /\ RecordEdit(<<FormulaUpdate(cell, FormulaValue(source))>>, <<FormulaInverse(cell)>>)
        /\ UNCHANGED rowSerial

\* Where the row or column read of a formula stands in the list once it is
\* copied from one to another, as a set: none outside the table.  It moves along
\* only when it is relative (copy_index).
Place(list, x) == CHOOSE i \in DOMAIN list : list[i] = x

Copied(list, read, from, to, relative) ==
    LET i == Place(list, read)
        source == Place(list, from)
        target == Place(list, to)
    IN CASE ~relative -> {i}
         [] relative /\ i + target > source -> {i + target - source} \intersect DOMAIN list
         [] OTHER -> {}

\* The cell that a formula of the cell from reads once it is copied to the cell
\* to, as a set (copy_position).
Rebased(read, from, to, relativeRows, relativeColumns) ==
    LET rows == IdOrder(specs.rows)
        columns == specs.order
    IN {<<rows[i], columns[j]>> : i \in Copied(rows, read[1], from[1], to[1], relativeRows),
                                  j \in Copied(columns, read[2], from[2], to[2], relativeColumns)}

\* What publishes a copied formula in one cell and what takes it back: the
\* inverse depends on what the copy replaces.
CopyForward(cell, copy) ==
    IF Present(doc, cell) THEN SetFieldValue(cell, copy) ELSE FormulaRestore(cell, copy)

CopyInverse(cell) ==
    LET old == Content(doc, cell)
    IN IF old # {} /\ ~HoldsFormula(old) THEN FormulaInverseRestore(cell, The(old))
       ELSE ValueCommand(cell, old)

\* Copies to those of the cells that do not hold theirs already.
CopyTo(cells, copy) ==
    LET changed == SetToSeq({cell \in cells : Content(doc, cell) # {copy[cell]}})
    IN RecordEdit([i \in DOMAIN changed |-> CopyForward(changed[i], copy[changed[i]])],
                  Reverse([i \in DOMAIN changed |-> CopyInverse(changed[i])]))

\* copy_formula: a formula to every cell of a range, the cell it reads fixed or
\* moved along.
CopyFormula ==
    \E from \in FormulaCells(doc), range \in Ranges :
    \E fixed, relativeRows, relativeColumns \in BOOLEAN :
        LET read == ReadBy(doc, from)
            reads == [cell \in range |->
                        IF fixed THEN {read}
                        ELSE Rebased(read, from, cell, relativeRows, relativeColumns)]
        IN /\ \A cell \in range :
                /\ doc.columns[cell[2]].type = "number"
                /\ reads[cell] # {}
                /\ doc.columns[The(reads[cell])[2]].type = "number"
           /\ CopyTo(range, [cell \in range |-> FormulaValue(The(reads[cell]))])
           /\ UNCHANGED rowSerial

-----------------------------------------------------------------------------
(* Rows.                                                                   *)

\* RowIds.generate in native_table_row: the next serial whose key is free.
NextSerial(serial) ==
    CHOOSE n \in serial + 1 .. serial + 1 + Cardinality(DOMAIN doc.rows) :
        /\ \A r \in DOMAIN doc.rows : Serial(r) # n
        /\ \A m \in serial + 1 .. n - 1 : \E r \in DOMAIN doc.rows : Serial(r) = m

\* NewSerials, mutated: the first free serials, whatever was handed out.
FirstFreeSerials(count) ==
    LET serial[k \in 0 .. count] == IF k = 0 THEN 0 ELSE NextSerial(serial[k - 1])
    IN serial

\* The serials of the next count rows, after the last one handed out.
NewSerials(count) ==
    LET serial[k \in 0 .. count] ==
          IF k = 0 THEN rowSerial ELSE NextSerial(serial[k - 1])
    IN serial

Required == {c \in DOMAIN specs.columns : specs.columns[c].required}

\* native_table_row: a new row has a value in its required columns only.
DefaultFields ==
    [c \in Required |->
        IF specs.columns[c].type = "text" THEN TextValue(EmptyText) ELSE NumberValue(0)]

\* column_fill_formulas: the columns in which every row has a formula that
\* reads the same column of that row, and that column.
Fills ==
    LET reads(c, s) ==
          \A r \in specs.rows : Content(doc, <<r, c>>) = {FormulaValue(<<r, s>>)}
        filled == {c \in DOMAIN specs.columns :
                     specs.rows # {} /\ \E s \in DOMAIN specs.columns : reads(c, s)}
    IN [c \in filled |-> CHOOSE s \in DOMAIN specs.columns : reads(c, s)]

\* fill_new_rows: the new rows with every fill their caller left open, without
\* the fills that fail, or without any.
Filled(edited, rows, typed, fills) ==
    LET open == {cell \in (DOMAIN rows) \X (DOMAIN fills) : cell[2] \notin DOMAIN typed[cell[1]]}
        with(cells) ==
            [r \in DOMAIN rows |->
                Over([c \in {c \in DOMAIN fills : <<r, c>> \in cells} |->
                         FormulaValue(<<r, fills[c]>>)], rows[r])]
        candidate(cells) == [edited EXCEPT !.rows = Over(with(cells), @)]
        sound == open \intersect Calculated(candidate(open))
    IN CASE Valid(candidate(open)) -> with(open)
         [] ~Valid(candidate(open)) /\ Valid(candidate(sound)) -> with(sound)
         [] OTHER -> rows

\* Values typed into a row: each of its column's type.
Typings(columns) ==
    UNION {{typed \in [cs -> Values] : \A c \in cs : Kind(typed[c]) = columns[c].type} :
           cs \in SUBSET DOMAIN columns}

\* insert_row
InsertRow ==
    \E typed \in Typings(specs.columns) :
        LET serial == NewSerials(1)[1]
            row == Issued(serial)
            fields == Filled(doc, Only(row, Over(typed, DefaultFields)), Only(row, typed), Fills)[row]
        IN /\ Cardinality(specs.rows) + 1 <= MaxRows
           /\ Required \subseteq DOMAIN typed \union DOMAIN Fills
           /\ RecordEdit(<<AppendEntity(row, fields)>>, <<RemoveEntity(row)>>)
           /\ rowSerial' = serial

\* remove_table_rows: no formula that stays may read a row that goes.
RemoveTableRows ==
    \E removed \in (SUBSET specs.rows) \ {{}} :
        LET rows == SetToSeq(removed)
        IN /\ \A cell \in FormulaCells(doc) :
                cell[1] \in removed \/ ReadBy(doc, cell)[1] \notin removed
           /\ RecordEdit([i \in DOMAIN rows |-> RemoveEntity(rows[i])],
                         Reverse([i \in DOMAIN rows |-> AppendEntity(rows[i], doc.rows[rows[i]])]))
           /\ UNCHANGED rowSerial

\* What a paste makes of one row: cells gives the input of each pasted column.
PastedRow(id, isNew, cells) ==
    LET before == IF isNew THEN DefaultFields ELSE doc.rows[id]
        old(c) == {before[k] : k \in {c} \intersect DOMAIN before}
        new(c) == Entered(cells[c])
        typed == Restrict(cells, {c \in DOMAIN cells : new(c) # {}})
    IN [id |-> id,
        accepted |-> \A c \in DOMAIN cells : Accepts(specs.columns[c], old(c), cells[c]),
        typed |-> typed,
        fields |-> Over(typed, Restrict(before, DOMAIN before \ DOMAIN cells)),
        changed |-> {c \in DOMAIN cells : new(c) # old(c)},
        forward |-> [c \in DOMAIN cells |-> CellForward(<<id, c>>, old(c), new(c))],
        inverse |-> [c \in DOMAIN cells |-> CellInverse(<<id, c>>, old(c), new(c))]]

RowFunction(rows, Of(_)) ==
    [r \in {row.id : row \in rows} |-> Of(CHOOSE row \in rows : row.id = r)]

\* paste_cell_inputs: a block of inputs, from a shown row (or below the last)
\* and a shown column on.  Rows there already are edited, the others are new.
PasteAt(start, height, columns, block) ==
    LET shown == IdOrder(specs.rows)
        below == start + height - 1 - Len(shown)
        serial == NewSerials(IF below > 0 THEN below ELSE 0)
        targets == shown \o [k \in DOMAIN serial \ {0} |-> Issued(serial[k])]
        row == [i \in 1 .. height |->
                  PastedRow(targets[start + i - 1], start + i - 1 > Len(shown), block[i])]
        edits == {row[i] : i \in {i \in 1 .. height : start + i - 1 <= Len(shown)}}
        news == {row[i] : i \in 1 .. height} \ edits
        fills == Restrict(Fills, DOMAIN Fills \ UNION {edit.changed : edit \in edits})
        edited == [doc EXCEPT !.rows = Over(RowFunction(edits, LAMBDA r : r.fields), @)]
        appended == Filled(edited, RowFunction(news, LAMBDA r : r.fields),
                           RowFunction(news, LAMBDA r : r.typed), fills)
        cellEdits == SetToSeq(UNION {{<<edit, c>> : c \in edit.changed} : edit \in edits})
        rows == SetToSeq(news)
    IN /\ news # {} => Required \subseteq columns \union DOMAIN fills
       /\ \A i \in 1 .. height : row[i].accepted
       /\ RecordEdit([k \in DOMAIN cellEdits |-> cellEdits[k][1].forward[cellEdits[k][2]]]
                       \o [k \in DOMAIN rows |-> AppendEntity(rows[k].id, appended[rows[k].id])],
                     Reverse([k \in DOMAIN cellEdits |-> cellEdits[k][1].inverse[cellEdits[k][2]]]
                       \o [k \in DOMAIN rows |-> RemoveEntity(rows[k].id)]))
       /\ rowSerial' = serial[Cardinality(news)]

Paste ==
    \E height, width \in 1 .. MaxRange :
    \E start \in 1 .. Cardinality(specs.rows) + 1, left \in 1 .. Len(specs.order) - width + 1 :
        LET columns == {specs.order[k] : k \in left .. left + width - 1}
        IN /\ height * width <= MaxRange
           /\ Cardinality(specs.rows) <= MaxRows
           /\ start + height - 1 <= MaxRows
           /\ \E block \in [1 .. height -> [columns -> Values \union {Clear}]] :
                PasteAt(start, height, columns, block)

-----------------------------------------------------------------------------
(* Columns.  Each inverse ends by putting the explicit order back.         *)

DependsOnColumn(c) ==
    \E cell \in FormulaCells(doc) : cell[2] # c /\ ReadBy(doc, cell)[2] = c

\* add_column_with_requiredness: the column and the edit share a serial above
\* every one in sight, so the new column is shown last.
AddColumn ==
    \E type \in Types, required \in BOOLEAN, name \in Names :
    \E values \in UNION {[rs -> {v \in Values : Kind(v) = type}] : rs \in SUBSET specs.rows} :
        LET serial == LastSerial + 1
            column == Issued(serial)
            definition == [type |-> type, required |-> required, format |-> "general",
                           name |-> {name}, constraint |-> Unrestricted]
        IN /\ \A c \in DOMAIN doc.columns : EffectiveName(doc, c) # name
           /\ Cardinality(DOMAIN doc.columns) + 1 <= MaxTableFields
           /\ required => DOMAIN values = specs.rows
           /\ RecordEditAs(<<AppendSchemaField(column, definition, values)>>,
                           <<RemoveSchemaField(column, definition, values),
                             SetSchemaFieldOrder(doc.order)>>,
                           serial)
           /\ UNCHANGED <<rowSerial, pending>>

\* RemoveColumn, mutated: the column comes back last in an explicit order.
RemoveColumnForgettingOrder ==
    \E c \in DOMAIN doc.columns :
        /\ Cardinality(DOMAIN doc.columns) > 1
        /\ ~DependsOnColumn(c)
        /\ RecordEdit(<<RemoveSchemaField(c, doc.columns[c], ValuesOf(doc, c))>>,
                      <<AppendSchemaField(c, doc.columns[c], ValuesOf(doc, c))>>)
        /\ UNCHANGED rowSerial

\* remove_column
RemoveColumn ==
    \E c \in DOMAIN doc.columns :
        /\ Cardinality(DOMAIN doc.columns) > 1
        /\ ~DependsOnColumn(c)
        /\ RecordEdit(<<RemoveSchemaField(c, doc.columns[c], ValuesOf(doc, c))>>,
                      <<AppendSchemaField(c, doc.columns[c], ValuesOf(doc, c)),
                        SetSchemaFieldOrder(doc.order)>>)
        /\ UNCHANGED rowSerial

\* convert_value: empty when the value has no counterpart of that type.
Converted(value, type) ==
    IF type = "text" THEN {TextValue(Printed[value[2]])}
    ELSE IF value[2] \in DOMAIN Parsed THEN {NumberValue(Parsed[value[2]])} ELSE {}

\* change_column_type: the column goes and comes back with every value
\* converted, empty text as a blank where the column allows one.
ChangeColumnType ==
    \E c \in DOMAIN doc.columns :
        LET definition == doc.columns[c]
            type == CHOOSE t \in Types : t # definition.type
            values == ValuesOf(doc, c)
            blank == {r \in DOMAIN values : /\ ~definition.required
                                            /\ type = "number"
                                            /\ values[r] = TextValue(EmptyText)}
            converted == [r \in DOMAIN values \ blank |-> Converted(values[r], type)]
            changed == [definition EXCEPT
                          !.type = type,
                          !.format = IF type = "number" THEN @ ELSE "general",
                          !.constraint = Unrestricted]
            newValues == [r \in DOMAIN converted |-> The(converted[r])]
        IN /\ \A r \in DOMAIN values : Kind(values[r]) # "formula"
           /\ ~DependsOnColumn(c)
           /\ \A r \in DOMAIN converted : converted[r] # {}
           /\ RecordEdit(<<RemoveSchemaField(c, definition, values),
                           AppendSchemaField(c, changed, newValues),
                           SetSchemaFieldOrder(doc.order)>>,
                         <<RemoveSchemaField(c, changed, newValues),
                           AppendSchemaField(c, definition, values),
                           SetSchemaFieldOrder(doc.order)>>)
           /\ UNCHANGED rowSerial

\* move_column: the shown order becomes the explicit one.
MoveColumn ==
    \E from, to \in 1 .. Len(specs.order) :
        LET moved == InsertAt(RemoveAt(specs.order, from), to, specs.order[from])
            next == Normalize([explicit |-> TRUE, ids |-> moved], DOMAIN doc.columns)
        IN /\ moved # specs.order
           /\ next # doc.order
           /\ RecordEdit(<<SetSchemaFieldOrder(next)>>, <<SetSchemaFieldOrder(doc.order)>>)
           /\ UNCHANGED rowSerial

\* set_column_requiredness
ChangeRequiredness ==
    \E c \in DOMAIN doc.columns :
        LET old == doc.columns[c].required
        IN /\ ~old => \A r \in DOMAIN doc.rows : Present(doc, <<r, c>>)
           /\ RecordEdit(<<SetRequiredness(c, ~old)>>, <<SetRequiredness(c, old)>>)
           /\ UNCHANGED rowSerial

\* set_column_number_format
ChangeNumberFormat ==
    \E c \in DOMAIN doc.columns, format \in Formats :
        /\ doc.columns[c].type = "number"
        /\ format # doc.columns[c].format
        /\ RecordEdit(<<SetNumberFormat(c, format)>>,
                      <<SetNumberFormat(c, doc.columns[c].format)>>)
        /\ UNCHANGED rowSerial

\* rename_column: a name another column goes by is left to the validation.
RenameColumn ==
    \E c \in DOMAIN doc.columns, name \in Names :
        /\ RecordEdit(<<SetDisplayName(c, {name})>>, <<SetDisplayName(c, doc.columns[c].name)>>)
        /\ UNCHANGED rowSerial

\* set_column_constraint
ChangeConstraint ==
    \E c \in DOMAIN doc.columns, allowed \in Allowed \union {Unrestricted} :
        LET old == doc.columns[c].constraint
        IN /\ \A v \in allowed : Kind(v) = doc.columns[c].type
           /\ allowed # old
           /\ RecordEdit(<<SetConstraint(c, allowed)>>, <<SetConstraint(c, old)>>)
           /\ UNCHANGED rowSerial

-----------------------------------------------------------------------------
(* Cleanups: previewed at one revision, committed at the same one or not.  *)

\* append_value_command for every cell of DOMAIN newValue: no command for a
\* cell that already holds its value.
SetAll(newValue) ==
    LET changed == SetToSeq({cell \in DOMAIN newValue : {newValue[cell]} # Content(doc, cell)})
    IN [i \in DOMAIN changed |-> SetFieldValue(changed[i], newValue[changed[i]])]

TextCells == CellsOfKind(doc, "text")

Trim(cells) ==
    SetAll([cell \in cells |-> TextValue(Trimmed[doc.rows[cell[1]][cell[2]][2]])])

FillBlanks(cells, value) ==
    SetAll([cell \in {c \in cells : ~Present(doc, c)} |-> value])

\* deduplicate: of the rows alike in the keys, the first stays.
Deduplicate(rows, keys) ==
    LET alike(r, s) == \A c \in keys : Content(doc, <<r, c>>) = Content(doc, <<s, c>>)
        gone == IdOrder({r \in rows : \E s \in rows : s < r /\ alike(r, s)})
    IN [i \in DOMAIN gone |-> RemoveEntity(gone[i])]

\* cleanup_commands: the batches a cleanup request can come to.
Cleanups ==
    {Trim(cells) : cells \in {range \in Ranges : range \subseteq TextCells}}
    \union (UNION {{FillBlanks(cells, value) :
                      cells \in {range \in Ranges : \A cell \in range :
                        Present(doc, cell) \/ Kind(value) = doc.columns[cell[2]].type}} :
                  value \in Values})
    \union {Deduplicate(rows, keys) :
              rows \in SUBSET DOMAIN doc.rows, keys \in (SUBSET DOMAIN doc.columns) \ {{}}}

\* cleanup_inverse
CleanupInverse(commands) ==
    LET inverse(command) ==
          IF command.op = "remove_entity"
          THEN AppendEntity(command.row, doc.rows[command.row])
          ELSE ValueCommand(command.cell, Content(doc, command.cell))
    IN Reverse([i \in DOMAIN commands |-> inverse(commands[i])])

\* preview_cleanup: shows what the cleanup would make of the document and
\* replaces the preview before it.
PreviewCleanup ==
    \E commands \in Cleanups :
        /\ commands # <<>>
        /\ proposalSerial < MaxSerial
        /\ \E candidate \in Publishable(doc, commands) :
             pending' = [id |-> proposalSerial + 1, revision |-> revision,
                         commands |-> commands, inverse |-> CleanupInverse(commands),
                         candidate |-> candidate]
        /\ proposalSerial' = proposalSerial + 1
        /\ UNCHANGED <<doc, revision, caches, opened, undo, redo, rowSerial, issued, reissued>>

\* CommitCleanup, mutated: a preview may be committed at any later revision.
CommitAtAnyRevision ==
    /\ pending # NoCleanup
    /\ RecordEditAs(pending.commands, pending.inverse, proposalSerial + 1)
    /\ pending' = NoCleanup
    /\ UNCHANGED rowSerial

\* commit_cleanup
CommitCleanup ==
    /\ pending # NoCleanup
    /\ pending.revision = revision
    /\ RecordEditAs(pending.commands, pending.inverse, proposalSerial + 1)
    /\ pending' = NoCleanup
    /\ UNCHANGED rowSerial

-----------------------------------------------------------------------------
CellRequest == EditCells \/ UpdateFormula \/ CopyFormula
RowRequest == InsertRow \/ RemoveTableRows \/ Paste
ColumnRequest ==
    \/ AddColumn \/ RemoveColumn \/ ChangeColumnType \/ MoveColumn
    \/ RenameColumn \/ ChangeRequiredness \/ ChangeConstraint \/ ChangeNumberFormat
CleanupRequest == PreviewCleanup \/ CommitCleanup
HistoryRequest == Undo \/ Redo

Next == CellRequest \/ RowRequest \/ ColumnRequest \/ CleanupRequest \/ HistoryRequest
        \/ RefusedRequest

Spec == Init /\ [][Next]_vars

-----------------------------------------------------------------------------
\* The structure a request reads is that of the document it changes, although
\* it is refreshed after some publications only (publish_commands).
StructureIsCurrent ==
    /\ specs = SpecsOf(doc)
    /\ sources = SourcesOf(doc)
    /\ usage = Measure(doc)

\* A new row or column never takes the id of one there has been: Undo of its
\* removal, a stored style and whoever compares two snapshots by id would take
\* it for the old one (native_table_row, and the comment in
\* add_column_with_requiredness: snapshot diffs key columns by id).
FreshIds ==
    (({"row"} \X specs.rows) \union ({"column"} \X DOMAIN specs.columns)) \intersect reissued = {}

\* Committing a cleanup gives the document its preview showed, whatever
\* happened in between.
CommitPublishesPreview ==
    [][pending # NoCleanup /\ pending' = NoCleanup => doc' = pending.candidate]_vars

\* Undo and Redo move along one line of documents: every entry of the two
\* stacks is accepted when its turn comes, takes the document back to what it
\* was, and forward to what it became.  The line is what the stacks would
\* publish from here: a set of one document at each place, and none where an
\* entry is refused.
Timeline(d, past, future) ==
    LET after(ds, commands) == UNION {Accepted(e, commands) : e \in ds}
        back[k \in 0 .. Len(past)] ==
          IF k = 0 THEN {d} ELSE after(back[k - 1], past[Len(past) - k + 1].inverse)
        on[k \in 0 .. Len(future)] ==
          IF k = 0 THEN {d} ELSE after(on[k - 1], future[Len(future) - k + 1].forward)
    IN [i \in 1 .. Len(past) + 1 + Len(future) |->
          IF i <= Len(past) THEN back[Len(past) - i + 1] ELSE on[i - Len(past) - 1]]

History == INSTANCE EditHistory WITH
    Depth <- HistoryDepth,
    timeline <- Timeline(doc, undo, redo),
    cursor <- Len(undo) + 1,
    revision <- revision

ImplementsEditHistory == History!Spec
=============================================================================

-------------------------- MODULE SpreadsheetInterop --------------------------
(***************************************************************************)
(* A worksheet read into a table, the table edited, and written again:     *)
(* interop_adapter.rs (which rows and formulas of a file are read) and     *)
(* interop_document.rs (what they become, and what is written).            *)
(*                                                                         *)
(* A worksheet is a sequence of rows of cells [value, format, bold]; a     *)
(* table has numbered rows and columns, ids in the order of generation.  A *)
(* formula is one term, or the MIN of two, [terms, guards]: a guard is an  *)
(* ISBLANK of that term that gives the other one.  A term is               *)
(* [read, plus], "plus" for (read+0).  What is read is in a worksheet      *)
(* <<"at", row, column, fixed>> or <<"range", name, column, from, to>>, in *)
(* a table <<"cell", row, column>>, <<"same", column>> (of the formula's   *)
(* own row) or <<"aggregate", name, column>>.                              *)
(*                                                                         *)
(* External to the code is the spreadsheet program, whose twin of the      *)
(* table is given the same values and recalculates by its own rules.       *)
(***************************************************************************)
EXTENDS Integers, SequencesExt, TLC

CONSTANTS
    Files,          \* worksheets other programs have saved
    HeaderRows,     \* the header_rows option: a row, or 0 to detect it
    Amounts,        \* numbers a user types
    Authored,       \* formulas a user types, over rows and columns of a table
    MaxChanges      \* bound: edits, undos and exports after an import

VARIABLES
    file,           \* the worksheet that was imported
    sheet,          \* and what was read of it
    doc,            \* the table, NoTable before an import
    metadata,       \* the source's columns, rows, names and styles, by identity
    twin,           \* a spreadsheet with the table's content, or NoTwin
    past,           \* what Undo returns to, the newest last
    serial,         \* the last id given to a row or a column
    changes
vars == <<file, sheet, doc, metadata, twin, past, serial, changes>>

Blank == <<>>
NumberValue(n) == <<"number", n>>
TextValue(t) == <<"text", t>>
FormulaValue(f) == <<"formula", f>>
Kind(value) == IF value = Blank THEN "blank" ELSE value[1]

NoFormat == ""
Plain == [format |-> NoFormat, bold |-> FALSE]
NoTable == [rows |-> {}, columns |-> <<>>, order |-> <<>>, cells |-> <<>>]
NoTwin == [grid |-> <<>>, rows |-> <<>>, columns |-> <<>>]

-----------------------------------------------------------------------------
(* Calculation, of a worksheet or of a table.  Its content is a function   *)
(* from cells to values whose formulas read <<"cells", name, set>>: a      *)
(* direct reference has the name "one" and reads a single cell.            *)

IsDirect(term) == ~term.plus /\ term.read[1] \in {"at", "cell", "same"}

FormulaCells(content) == {c \in DOMAIN content : Kind(content[c]) = "formula"}
ReadBy(formula) == UNION {formula.terms[i].read[3] : i \in DOMAIN formula.terms}

\* The value of a cell that has a number, <<>> for a blank or a text.
TermValue(term, known) ==
    LET present == {c \in term.read[3] : known[c] # <<>>}
    IN IF term.read[2] = "COUNT" THEN Cardinality(present)
       ELSE FoldSet(LAMBDA c, sum : known[c][1] + sum, 0, present)

IsBlank(term, known) == term.read[2] = "one" /\ \A c \in term.read[3] : known[c] = <<>>

Least(numbers) == IF numbers = {} THEN 0 ELSE Min(numbers)

\* A direct reference to a blank is 0 to Tachiko, and no argument of MIN to Excel.
FormulaResult(f, known, minSkipsBlanks) ==
    LET value(i) == TermValue(f.terms[i], known)
        guarded == {i \in f.guards : IsBlank(f.terms[i], known)}
        skipped == {i \in DOMAIN f.terms :
                        minSkipsBlanks /\ ~f.terms[i].plus /\ IsBlank(f.terms[i], known)}
    IN IF guarded # {} THEN value(3 - Min(guarded))
       ELSE IF Len(f.terms) = 1 THEN value(1)
       ELSE Least({value(i) : i \in DOMAIN f.terms \ skipped})

Recalculated(content, known, minSkipsBlanks) ==
    [c \in DOMAIN content |->
        IF Kind(content[c]) = "formula" THEN <<FormulaResult(content[c][2], known, minSkipsBlanks)>>
        ELSE known[c]]

\* Formulas in the order of what they read: once each for as many as there are.
Calculated(content, minSkipsBlanks) ==
    FoldSet(LAMBDA i, known : Recalculated(content, known, minSkipsBlanks),
            [c \in DOMAIN content |-> IF Kind(content[c]) = "number" THEN <<content[c][2]>> ELSE <<>>],
            1 .. Cardinality(FormulaCells(content)))

\* The formulas that wait for no other one, nor for one that waits forever.
Orderable(content, formulas) ==
    FoldSet(LAMBDA i, ready : {c \in formulas : ReadBy(content[c][2]) \intersect formulas \subseteq ready},
            {}, 1 .. Cardinality(formulas))

\* import_formula_order and the validation of a candidate refuse a cycle.
HasNoCycle(content) == Orderable(content, FormulaCells(content)) = FormulaCells(content)

\* A value of a worksheet or a table, with what its formula reads looked up.
Resolved(value, CellsOf(_)) ==
    IF Kind(value) # "formula" THEN value
    ELSE FormulaValue([value[2] EXCEPT !.terms =
            [i \in DOMAIN @ |-> [@[i] EXCEPT !.read = <<"cells",
                IF @[1] \in {"range", "aggregate"} THEN @[2] ELSE "one", CellsOf(@)>>]]])

Width(grid) == Len(grid[1])
Positions(grid) == (1 .. Len(grid)) \X (1 .. Width(grid))

\* EXTERNAL: what a spreadsheet program calculates.
GridContent(grid) ==
    [p \in Positions(grid) |->
        Resolved(grid[p[1]][p[2]].value,
                 LAMBDA read : IF read[1] = "at" THEN {<<read[2], read[3]>>}
                               ELSE (read[4] .. read[5]) \X {read[3]})]
SpreadsheetValues(grid) == Calculated(GridContent(grid), TRUE)

TableContent(d) ==
    [c \in d.rows \X (DOMAIN d.columns) |->
        Resolved(IF c \in DOMAIN d.cells THEN d.cells[c] ELSE Blank,
                 LAMBDA read : CASE read[1] = "cell" -> {<<read[2], read[3]>>}
                                 [] read[1] = "same" -> {<<c[1], read[2]>>}
                                 [] read[1] = "aggregate" -> d.rows \X {read[3]})]
TableValues(d) == Calculated(TableContent(d), FALSE)

-----------------------------------------------------------------------------
(* Which rows of a worksheet are header, data and summary.                 *)

IsPresent(cell) == cell.value # Blank
IsText(cell) == Kind(cell.value) = "text"
HasPresent(row) == \E c \in DOMAIN row : IsPresent(row[c])

TitleOrBlank(row) == \A c \in DOMAIN row : IsPresent(row[c]) => c = 1 /\ IsText(row[c])

\* Titles are skipped only if a blank row ends them and a complete header follows.
RowsAboveHeader(grid) ==
    LET lead == CHOOSE n \in 0 .. Len(grid) :
                    /\ \A i \in 1 .. n : TitleOrBlank(grid[i])
                    /\ n < Len(grid) => ~TitleOrBlank(grid[n + 1])
    IN IF /\ Width(grid) >= 2 /\ lead \in 1 .. Len(grid) - 1
          /\ ~HasPresent(grid[lead])
          /\ \A c \in DOMAIN grid[lead + 1] : IsText(grid[lead + 1][c])
       THEN lead ELSE 0

NumericColumn(rows, column) == \A i \in DOMAIN rows : ~IsText(rows[i][column])

SummaryLabels == {"Total"}

\* The aggregate of a whole column above it that a summary's cell may hold.
IsColumnAggregate(formula, column, header, lastData) ==
    /\ Len(formula.terms) = 1
    /\ LET term == formula.terms[1]
       IN /\ term.read[1] = "range" /\ ~term.plus
          /\ term.read[3] = column /\ term.read[4] \in {header, header + 1} /\ term.read[5] = lastData

\* A labelled last row that aggregates the columns above it is no data.
IsSummary(rows, header) ==
    LET last == rows[Len(rows)]
        above == Front(rows)
    IN /\ \E i \in DOMAIN above : HasPresent(above[i])
       /\ \A c \in DOMAIN last :
            CASE Kind(last[c].value) = "formula" ->
                    /\ IsColumnAggregate(last[c].value[2], c, header, header + Len(above))
                    /\ NumericColumn(above, c)
              [] IsText(last[c]) -> last[c].value[2] \in SummaryLabels
              [] OTHER -> ~IsPresent(last[c])
       /\ \E c \in DOMAIN last : Kind(last[c].value) = "formula"
       /\ \E c \in DOMAIN last : IsText(last[c])

\* What is read of a worksheet: the rows above its header, the header, the
\* data rows, and the aggregate of each column the summary row names.
Layout(grid, headerRow, keepSummary) ==
    LET above == IF headerRow = 0 THEN RowsAboveHeader(grid) ELSE headerRow - 1
        rows == SubSeq(grid, above + 2, Len(grid))
        summary == ~keepSummary /\ rows # <<>> /\ IsSummary(rows, above + 1)
    IN [above |-> above,
        header |-> grid[above + 1],
        rows |-> IF summary THEN Front(rows) ELSE rows,
        summary |-> IF summary
                    THEN [c \in {c \in DOMAIN Last(rows) : Kind(Last(rows)[c].value) = "formula"} |->
                            Last(rows)[c].value[2].terms[1].read[2]]
                    ELSE <<>>]

\* A blocking finding of the header refuses the import.
AdmitsHeader(s) ==
    /\ \A c \in DOMAIN s.header : IsText(s.header[c])
    /\ \A c, e \in DOMAIN s.header : s.header[c].value = s.header[e].value => c = e

IsWholeColumn(read, s) ==
    /\ s.rows # <<>> /\ read[3] \in DOMAIN s.header
    /\ read[4] \in {s.above + 1, s.above + 2} /\ read[5] = s.above + 1 + Len(s.rows)
    /\ NumericColumn(s.rows, read[3])

IsForeign(value, s) ==
    /\ Kind(value) = "formula"
    /\ \E i \in DOMAIN value[2].terms :
        value[2].terms[i].read[1] = "range" /\ ~IsWholeColumn(value[2].terms[i].read, s)

\* A formula that is not calculated keeps the value the file has for it.
RefuseForeignAggregates(s, calculated) ==
    [s EXCEPT !.rows = [i \in DOMAIN @ |-> [c \in DOMAIN @[i] |->
        IF IsForeign(@[i][c].value, s)
        THEN [@[i][c] EXCEPT !.value = NumberValue(calculated[<<s.above + 1 + i, c>>][1])]
        ELSE @[i][c]]]]

ImportXlsx(grid, headerRow, keepSummary) ==
    RefuseForeignAggregates(Layout(grid, headerRow, keepSummary), SpreadsheetValues(grid))

\* A column's numbers that all have one format give it to the column.
InferColumnNumberFormat(rows, column) ==
    LET numeric == {i \in DOMAIN rows : Kind(rows[i][column].value) \in {"number", "formula"}}
        formats == {rows[i][column].format : i \in numeric}
    IN IF NumericColumn(rows, column) /\ Cardinality(formats) = 1 THEN CHOOSE f \in formats : TRUE
       ELSE NoFormat

-----------------------------------------------------------------------------
(* Import: what was read becomes a table and the metadata of its source.   *)

\* An A1 reference: the aggregate of a summary's cell, or a cell of a data row.
ImportedRead(read, owner, s) ==
    LET row == read[2] - s.above - 1
    IN IF read[1] = "range" THEN <<"aggregate", read[2], read[3]>>
       ELSE IF s.summary # <<>> /\ row = Len(s.rows) + 1 THEN <<"aggregate", s.summary[read[3]], read[3]>>
       ELSE IF row = owner /\ ~read[4] THEN <<"same", read[3]>>
       ELSE <<"cell", row, read[3]>>

\* Header and title cells, cells outside the data and the other cells of a
\* summary row are refused; so is a column that is not selected as Number.
Binds(read, s, types) ==
    /\ read[1] = "at" => IF s.summary # <<>> /\ read[2] = s.above + 2 + Len(s.rows)
                         THEN read[3] \in DOMAIN s.summary
                         ELSE read[2] - s.above - 1 \in DOMAIN s.rows /\ read[3] \in DOMAIN s.header
    /\ types[read[3]] = "Number"

\* excel_extremum, mutated: only the left argument is guarded.
GuardedLeft(f) ==
    IF Len(f.terms) = 1 \/ ~IsDirect(f.terms[1]) THEN f ELSE [f EXCEPT !.guards = @ \union {1}]

\* Excel skips a blank argument of MIN: every direct reference gets its ISBLANK.
ExcelExtremum(f) ==
    IF Len(f.terms) = 1 THEN f ELSE [f EXCEPT !.guards = @ \union {i \in 1 .. 2 : IsDirect(f.terms[i])}]

BindImportFormula(f, owner, s) ==
    ExcelExtremum([f EXCEPT !.terms =
        [i \in DOMAIN @ |-> [@[i] EXCEPT !.read = ImportedRead(@, owner, s)]]])

\* The texts of a file are no numbers.
ConvertValue(value, type) ==
    IF Kind(value) = "number" /\ type = "Text" THEN TextValue(ToString(value[2])) ELSE value

\* A formula needs a Number column, and a text a Text column.
ValidSelection(s, types) ==
    \A i \in DOMAIN s.rows, c \in DOMAIN s.header :
        LET value == s.rows[i][c].value
        IN CASE Kind(value) = "text" -> types[c] = "Text"
             [] Kind(value) = "formula" ->
                    /\ types[c] = "Number"
                    /\ \A t \in DOMAIN value[2].terms : Binds(value[2].terms[t].read, s, types)
             [] OTHER -> TRUE

Slots(s) == (DOMAIN s.rows) \X (DOMAIN s.header)

BuildImportSheet(s, types) ==
    [rows |-> DOMAIN s.rows,
     columns |-> [c \in DOMAIN s.header |->
                    [type |-> types[c],
                     format |-> IF types[c] = "Number" THEN InferColumnNumberFormat(s.rows, c) ELSE NoFormat]],
     order |-> <<>>,
     cells |-> [p \in {p \in Slots(s) : IsPresent(s.rows[p[1]][p[2]])} |->
                    LET value == s.rows[p[1]][p[2]].value
                    IN IF Kind(value) = "formula" THEN FormulaValue(BindImportFormula(value[2], p[1], s))
                       ELSE ConvertValue(value, types[p[2]])]]

\* A format that went to the column leaves its numbers and blanks.
ImportedStyle(s, p) ==
    LET cell == s.rows[p[1]][p[2]]
    IN [format |-> IF InferColumnNumberFormat(s.rows, p[2]) # NoFormat /\ ~IsText(cell)
                   THEN NoFormat ELSE cell.format,
        bold |-> cell.bold]

SourceMetadata(s) ==
    [columns |-> [c \in DOMAIN s.header |-> c],
     rows |-> [i \in DOMAIN s.rows |-> i],
     names |-> [c \in DOMAIN s.header |-> s.header[c].value],
     styles |-> [p \in Slots(s) |-> ImportedStyle(s, p)]]

-----------------------------------------------------------------------------
(* Export: the table is written by identity, source rows and columns first.*)

PositionOf(ids, id) == SelectInSeq(ids, LAMBDA other : other = id)

ByIds(ids) == SetToSortSeq(ids, LAMBDA a, b : a < b)

\* Survivors in source order, what was added in order of its ids after them.
Surviving(source, ids) == SelectSeq(source, LAMBDA id : id \in ids) \o ByIds(ids \ Range(source))

ExportRows(d, m) == Surviving(m.rows, d.rows)

\* An explicit order of the columns outranks the source's.
ExportColumns(d, m) == IF d.order # <<>> THEN d.order ELSE Surviving(m.columns, DOMAIN d.columns)

Header(m, f) == IF f \in DOMAIN m.names THEN m.names[f] ELSE TextValue("Column " \o ToString(f))

\* The style of a source cell, mutated: by the position its column has now.
StyleByPosition(d, m, r, f) ==
    LET position == PositionOf(ExportColumns(d, m), f)
    IN IF <<r, position>> \in DOMAIN m.styles THEN m.styles[<<r, position>>] ELSE Plain

\* Source cells keep their style, others have none.
StyleOf(d, m, r, f) == IF <<r, f>> \in DOMAIN m.styles THEN m.styles[<<r, f>>] ELSE Plain

OutputStyle(d, m, r, f) ==
    LET style == StyleOf(d, m, r, f)
    IN IF d.columns[f].format # NoFormat THEN [style EXCEPT !.format = d.columns[f].format] ELSE style

\* The address of what is read: the own row relative, another one absolute, a
\* whole column as all the rows that are written.
ExportedRead(read, owner, rows, columns) ==
    CASE read[1] = "same" -> <<"at", PositionOf(rows, owner) + 1, PositionOf(columns, read[2]), FALSE>>
      [] read[1] = "cell" -> <<"at", PositionOf(rows, read[2]) + 1, PositionOf(columns, read[3]), TRUE>>
      [] read[1] = "aggregate" -> <<"range", read[2], PositionOf(columns, read[3]), 2, Len(rows) + 1>>

\* export_extremum_argument, mutated: a direct reference is written as it is.
ExtremumAsIs(f, i) == f.terms[i].plus

\* In MIN a direct reference that no guard proves present is written (read+0).
ExtremumArgument(f, i) ==
    f.terms[i].plus \/ (Len(f.terms) = 2 /\ IsDirect(f.terms[i]) /\ i \notin f.guards)

ExportExpression(f, owner, rows, columns) ==
    [f EXCEPT !.terms = [i \in DOMAIN @ |-> [read |-> ExportedRead(@[i].read, owner, rows, columns),
                                             plus |-> ExtremumArgument(f, i)]]]

ExportCell(d, m, r, f, rows, columns) ==
    [value |-> IF <<r, f>> \notin DOMAIN d.cells THEN Blank
               ELSE IF Kind(d.cells[<<r, f>>]) # "formula" THEN d.cells[<<r, f>>]
               ELSE FormulaValue(ExportExpression(d.cells[<<r, f>>][2], r, rows, columns))]
    @@ OutputStyle(d, m, r, f)

ExportAs(d, m, rows, columns) ==
    <<[i \in DOMAIN columns |-> [value |-> Header(m, columns[i])] @@ Plain]>>
    \o [k \in DOMAIN rows |-> [i \in DOMAIN columns |-> ExportCell(d, m, rows[k], columns[i], rows, columns)]]

ExportWorkbook(d, m) == ExportAs(d, m, ExportRows(d, m), ExportColumns(d, m))

FormulasOf(d) == {d.cells[c][2] : c \in {c \in DOMAIN d.cells : Kind(d.cells[c]) = "formula"}}
ReadsOf(f) == {f.terms[i].read : i \in DOMAIN f.terms}

\* The aggregate of a table without rows has no range to be written as.
CanExport(d) == d.rows # {} \/ \A f \in FormulasOf(d) : \A read \in ReadsOf(f) : read[1] # "aggregate"

-----------------------------------------------------------------------------
(* The table in the session.                                               *)

NumberColumns(d) == {f \in DOMAIN d.columns : d.columns[f].type = "Number"}

\* What the validation of a candidate asks of its formulas.
IsValid(d) ==
    /\ \A c \in DOMAIN d.cells : Kind(d.cells[c]) = "formula" =>
        /\ c[2] \in NumberColumns(d)
        /\ \A read \in ReadsOf(d.cells[c][2]) :
            /\ Last(read) \in NumberColumns(d)
            /\ read[1] = "cell" => read[2] \in d.rows
    /\ HasNoCycle(TableContent(d))

\* The workbook is installed when its formulas bind, calculate and export.
ImportCandidate(s, types) == BuildImportSheet(s, types)

Accepts(s, types) ==
    /\ AdmitsHeader(s) /\ ValidSelection(s, types)
    /\ IsValid(ImportCandidate(s, types)) /\ CanExport(ImportCandidate(s, types))

\* EXTERNAL: the file in a spreadsheet, what lost its formula as the value it was left with.
OpenedTwin(grid, s) ==
    [grid |-> [i \in DOMAIN grid |->
        IF i - s.above - 1 \in DOMAIN s.rows THEN s.rows[i - s.above - 1] ELSE grid[i]],
     rows |-> [i \in DOMAIN s.rows |-> s.above + 1 + i],
     columns |-> [c \in DOMAIN s.header |-> c]]

\* EXTERNAL: an exported file in a spreadsheet.
ExportedTwin(d, m) ==
    [grid |-> ExportWorkbook(d, m),
     rows |-> [r \in d.rows |-> PositionOf(ExportRows(d, m), r) + 1],
     columns |-> [f \in DOMAIN d.columns |-> PositionOf(ExportColumns(d, m), f)]]

Init ==
    /\ file = <<>> /\ sheet = <<>>
    /\ doc = NoTable /\ metadata = <<>> /\ twin = NoTwin /\ past = <<>>
    /\ serial = 0 /\ changes = 0

Import ==
    /\ doc = NoTable
    /\ \E grid \in Files, headerRow \in HeaderRows, keepSummary \in BOOLEAN :
        /\ headerRow <= Len(grid)
        /\ LET s == ImportXlsx(grid, headerRow, keepSummary)
           IN \E types \in [DOMAIN s.header -> {"Number", "Text"}] :
                /\ Accepts(s, types)
                /\ file' = grid /\ sheet' = s
                /\ doc' = ImportCandidate(s, types)
                /\ metadata' = SourceMetadata(s)
                /\ twin' = OpenedTwin(grid, s)
                /\ serial' = Len(s.rows) + Len(s.header)
    /\ UNCHANGED <<past, changes>>

\* A published candidate is recorded for Undo.
Publish(candidate) ==
    /\ doc # NoTable /\ changes < MaxChanges
    /\ candidate # doc /\ IsValid(candidate)
    /\ doc' = candidate
    /\ past' = Append(past, [doc |-> doc, twin |-> twin])
    /\ changes' = changes + 1
    /\ UNCHANGED <<file, sheet, metadata>>

CellsButFormulas(d) ==
    {c \in d.rows \X NumberColumns(d) : c \in DOMAIN d.cells => Kind(d.cells[c]) # "formula"}

\* The same value is entered in the twin.
TwinWith(cell, value) ==
    IF twin = NoTwin THEN NoTwin
    ELSE [twin EXCEPT !.grid[twin.rows[cell[1]]][twin.columns[cell[2]]].value = value]

EditCell ==
    \E cell \in CellsButFormulas(doc) :
        \/ /\ \E n \in Amounts :
                /\ Publish([doc EXCEPT !.cells = (cell :> NumberValue(n)) @@ @])
                /\ twin' = TwinWith(cell, NumberValue(n))
           /\ UNCHANGED serial
        \/ /\ Publish([doc EXCEPT !.cells = Restrict(@, DOMAIN @ \ {cell})])
           /\ twin' = TwinWith(cell, Blank)
           /\ UNCHANGED serial

UpdateFormula ==
    /\ \E cell \in doc.rows \X NumberColumns(doc), f \in Authored :
        Publish([doc EXCEPT !.cells = (cell :> FormulaValue(f)) @@ @])
    /\ twin' = NoTwin
    /\ UNCHANGED serial

\* A read of the own row's cell, whichever way it is written.
RowRelative(read, row) == IF read[1] = "cell" /\ read[2] = row THEN <<"same", read[3]>> ELSE read
RowRelativeFormula(f, row) ==
    [f EXCEPT !.terms = [i \in DOMAIN @ |-> [@[i] EXCEPT !.read = RowRelative(@, row)]]]

\* The formulas of a column, when every row has one, none reads another row
\* and they are all the same.
ColumnFormulas(d, f) == {RowRelativeFormula(d.cells[<<r, f>>][2], r) :
                            r \in {r \in d.rows : <<r, f>> \in DOMAIN d.cells /\ Kind(d.cells[<<r, f>>]) = "formula"}}

ColumnFillFormulas(d) ==
    {f \in NumberColumns(d) :
        /\ d.rows # {}
        /\ \A r \in d.rows : <<r, f>> \in DOMAIN d.cells /\ Kind(d.cells[<<r, f>>]) = "formula"
        /\ Cardinality(ColumnFormulas(d, f)) = 1
        /\ \A x \in ColumnFormulas(d, f) : \A read \in ReadsOf(x) : read[1] # "cell"}

\* A value may be given to a column of the row, which then is not filled.
InsertRow ==
    /\ \E given \in {{}} \union {{f} : f \in NumberColumns(doc)}, n \in Amounts :
        LET row == serial + 1
            typed == [c \in {row} \X given |-> NumberValue(n)]
            filled == [c \in {row} \X (ColumnFillFormulas(doc) \ given) |->
                        FormulaValue(CHOOSE x \in ColumnFormulas(doc, c[2]) : TRUE)]
        IN Publish([doc EXCEPT !.rows = @ \union {row}, !.cells = typed @@ filled @@ @])
    /\ serial' = serial + 1
    /\ twin' = NoTwin

RemoveRow ==
    /\ \E row \in doc.rows :
        Publish([doc EXCEPT !.rows = @ \ {row},
                            !.cells = Restrict(@, {c \in DOMAIN @ : c[1] # row})])
    /\ twin' = NoTwin
    /\ UNCHANGED serial

AddColumn ==
    /\ Publish([doc EXCEPT !.columns = (serial + 1 :> [type |-> "Number", format |-> NoFormat]) @@ @,
                           !.order = IF @ = <<>> THEN <<>> ELSE Append(@, serial + 1)])
    /\ serial' = serial + 1
    /\ twin' = NoTwin

RemoveColumn ==
    /\ \E f \in DOMAIN doc.columns :
        /\ DOMAIN doc.columns # {f}
        /\ Publish([doc EXCEPT !.columns = Restrict(@, DOMAIN @ \ {f}),
                               !.order = SelectSeq(@, LAMBDA g : g # f),
                               !.cells = Restrict(@, {c \in DOMAIN @ : c[2] # f})])
    /\ twin' = NoTwin
    /\ UNCHANGED serial

ShownColumns(d) == IF d.order # <<>> THEN d.order ELSE ByIds(DOMAIN d.columns)

MoveColumn ==
    /\ \E f \in DOMAIN doc.columns, i \in 1 .. Cardinality(DOMAIN doc.columns) :
        Publish([doc EXCEPT !.order =
                    InsertAt(SelectSeq(ShownColumns(doc), LAMBDA g : g # f), i, f)])
    /\ twin' = NoTwin
    /\ UNCHANGED serial

Undo ==
    /\ past # <<>> /\ changes < MaxChanges
    /\ doc' = Last(past).doc
    /\ twin' = Last(past).twin
    /\ past' = Front(past)
    /\ changes' = changes + 1
    /\ UNCHANGED <<file, sheet, metadata, serial>>

\* The exported file is opened in a spreadsheet.
ExportXlsx ==
    /\ doc # NoTable /\ changes < MaxChanges
    /\ CanExport(doc)
    /\ twin' = ExportedTwin(doc, metadata)
    /\ changes' = changes + 1
    /\ UNCHANGED <<file, sheet, doc, metadata, past, serial>>

Next ==
    \/ Import \/ EditCell \/ UpdateFormula
    \/ InsertRow \/ RemoveRow \/ AddColumn \/ RemoveColumn \/ MoveColumn
    \/ Undo \/ ExportXlsx

Spec == Init /\ [][Next]_vars

-----------------------------------------------------------------------------
(* Safety.                                                                 *)

\* A spreadsheet that holds what the table was imported from, or was exported
\* as, and is given the same values shows in every formula's cell what the
\* table shows: an import or an export never changes what a formula means,
\* whichever cells are blank and whichever layout the file had.
SpreadsheetsAgree ==
    twin # NoTwin =>
        LET shown == SpreadsheetValues(twin.grid)
            calculated == TableValues(doc)
        IN \A c \in FormulaCells(TableContent(doc)) :
            shown[<<twin.rows[c[1]], twin.columns[c[2]]>>] = calculated[c]

\* Alike but for the formats of blank cells.
SameSheets(a, b) ==
    /\ DOMAIN a = DOMAIN b
    /\ \A i \in DOMAIN a : DOMAIN a[i] = DOMAIN b[i]
    /\ \A i \in DOMAIN a : \A c \in DOMAIN a[i] :
        /\ a[i][c].value = b[i][c].value /\ a[i][c].bold = b[i][c].bold
        /\ IsPresent(a[i][c]) => a[i][c].format = b[i][c].format

ReimportedTypes(d, m) == [i \in DOMAIN ExportColumns(d, m) |-> d.columns[ExportColumns(d, m)[i]].type]

ImportsBack(grid, s, types) ==
    /\ Accepts(s, types)
    /\ SameSheets(ExportWorkbook(ImportCandidate(s, types), SourceMetadata(s)), grid)

\* What is exported can be imported again: no row is taken for a title or a
\* summary, no formula is refused or loses its meaning to its last value, and
\* exporting the result writes the same worksheet.
ExportsImportBack ==
    doc # NoTable /\ CanExport(doc) =>
        ImportsBack(ExportWorkbook(doc, metadata),
                    ImportXlsx(ExportWorkbook(doc, metadata), 0, FALSE),
                    ReimportedTypes(doc, metadata))

\* Where a source cell is in the exported worksheet.
Exported(d, m, p) ==
    ExportWorkbook(d, m)[PositionOf(ExportRows(d, m), p[1]) + 1][PositionOf(ExportColumns(d, m), p[2])]

\* Wherever edits move a source cell, or Undo brings it back, it is exported
\* with the look it had in the file, unless its column became Text.
SurvivorsKeepTheirLook ==
    doc # NoTable =>
        \A p \in {p \in DOMAIN metadata.styles : p[1] \in doc.rows /\ p[2] \in DOMAIN doc.columns} :
            LET before == sheet.rows[p[1]][p[2]]
                now == Exported(doc, metadata, p)
            IN /\ now.bold = before.bold
               /\ IsPresent(before) /\ (doc.columns[p[2]].type = "Number" \/ IsText(before))
                        => now.format = before.format
=============================================================================

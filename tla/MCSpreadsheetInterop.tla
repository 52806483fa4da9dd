-------------------------- MODULE MCSpreadsheetInterop --------------------------
(* Small instances of SpreadsheetInterop for TLC: each worksheet has one of *)
(* the layouts and formulas the import tells apart.                        *)
EXTENDS SpreadsheetInterop

Cell(value, format, bold) == [value |-> value, format |-> format, bold |-> bold]
Empty == Cell(Blank, NoFormat, FALSE)
Words(t) == Cell(TextValue(t), NoFormat, FALSE)
Amount(n) == Cell(NumberValue(n), NoFormat, FALSE)
Calculation(f) == Cell(FormulaValue(f), NoFormat, FALSE)

Read(read) == [read |-> read, plus |-> FALSE]
One(read) == [terms |-> <<Read(read)>>, guards |-> {}]
Minimum(a, b) == [terms |-> <<Read(a), Read(b)>>, guards |-> {}]
At(row, column) == <<"at", row, column, FALSE>>
Fixed(row, column) == <<"at", row, column, TRUE>>
Sum(column, from, to) == <<"range", "SUM", column, from, to>>
Count(column, from, to) == <<"range", "COUNT", column, from, to>>

\* A title and a blank row above the header, and a summary row at the end: a
\* formula takes the least of its own row and of a fixed cell that is blank,
\* and another reads a cell of the summary.
Titled == <<
    <<Words("Orders"), Empty, Empty>>,
    <<Empty, Empty, Empty>>,
    <<Words("Item"), Words("Price"), Words("Least")>>,
    <<Words("a"), Amount(3), Calculation(Minimum(At(4, 2), Fixed(5, 2)))>>,
    <<Words("b"), Empty, Calculation(One(At(6, 2)))>>,
    <<Words("Total"), Calculation(One(Sum(2, 4, 5))), Calculation(One(Sum(3, 3, 5)))>> >>

\* A column of one format and one of two, bold cells, a range that is not a
\* whole column and one that begins at the header.
Formatted == <<
    <<Words("Price"), Words("Tax")>>,
    <<Cell(NumberValue(2), "0.00", TRUE), Cell(FormulaValue(One(Sum(1, 2, 2))), "0%", FALSE)>>,
    <<Cell(Blank, NoFormat, TRUE), Cell(FormulaValue(One(Count(1, 1, 4))), "0.00", TRUE)>>,
    <<Cell(NumberValue(1), "0.00", FALSE), Cell(NumberValue(2), "0.00", FALSE)>> >>

\* The same formula in every row, so that new rows are filled.
Filled == <<
    <<Words("A"), Words("B"), Words("Least")>>,
    <<Amount(1), Empty, Calculation(Minimum(At(2, 1), At(2, 2)))>>,
    <<Empty, Empty, Calculation(Minimum(At(3, 1), At(3, 2)))>> >>

\* A title straight above the header, which only the option finds, and a last
\* row without a label that totals the column above it, which stays data.
Unlabelled == <<
    <<Words("Prices"), Empty>>,
    <<Words("Year"), Words("Price")>>,
    <<Cell(NumberValue(1), "0", FALSE), Amount(2)>>,
    <<Empty, Calculation(One(Sum(2, 3, 3)))>> >>

\* What a spreadsheet was given to keep: one argument guarded, one written (read+0).
Kept == <<
    <<Words("A"), Words("B")>>,
    <<Empty, Calculation([terms |-> <<Read(At(2, 1)), Read(Fixed(3, 1))>>, guards |-> {1}])>>,
    <<Amount(1), Calculation([terms |-> <<[read |-> At(2, 2), plus |-> TRUE], Read(At(3, 1))>>,
                              guards |-> {}])>> >>

Worksheets == {Titled, Formatted, Filled, Unlabelled, Kept}

\* Formulas over the rows and columns of an imported table.
Typed == {Minimum(<<"same", 1>>, <<"cell", 1, 2>>), One(<<"aggregate", "SUM", 2>>)}
=============================================================================

-------------------------- MODULE MCDesignerSession --------------------------
(* Small instances of DesignerSession for TLC: each session makes one family of *)
(* requests, with the history and the refusals that go with every family.  *)
EXTENDS DesignerViews

Unordered == [explicit |-> FALSE, ids |-> <<>>]
Column(type, required) ==
    [type |-> type, required |-> required, format |-> "general",
     name |-> {}, constraint |-> Unrestricted]

\* An opened table of a text and a number column, in which the second row is
\* blank in the number column and alike in the text once it is trimmed.
OpenedColumns == 2 :> Column("text", FALSE) @@ 4 :> Column("number", FALSE)

TwoRows ==
    [columns |-> OpenedColumns,
     order |-> Unordered,
     rows |-> 2 :> (2 :> TextValue(" a") @@ 4 :> NumberValue(1))
              @@ 4 :> (2 :> TextValue("a"))]

\* One row whose column 2 reads column 4, so that new rows are filled, and whose
\* text converts to a number.
OneFormula ==
    [columns |-> 0 :> Column("text", TRUE) @@ 4 :> Column("number", FALSE)
                 @@ 2 :> Column("number", FALSE),
     order |-> Unordered,
     rows |-> 2 :> (0 :> TextValue("7") @@ 4 :> NumberValue(1) @@ 2 :> FormulaValue(<<2, 4>>))]

\* A large table: more rows than an ordinary session takes, in the text-capacity
\* profile.
LargeTable ==
    [columns |-> OpenedColumns,
     order |-> Unordered,
     rows |-> 2 :> (2 :> TextValue("a") @@ 4 :> NumberValue(1))
              @@ 4 :> (2 :> TextValue("a"))
              @@ 6 :> (4 :> NumberValue(5))
              @@ 8 :> (2 :> TextValue("7") @@ 4 :> NumberValue(7))]

\* One row, whose number column another one divides by.
SmallTable ==
    [columns |-> OpenedColumns,
     order |-> Unordered,
     rows |-> 2 :> (2 :> TextValue("7") @@ 4 :> NumberValue(5))]

\* A table to look at: blank, empty and numbered texts, a calculated number.
ViewedTable ==
    [columns |-> OpenedColumns @@ 6 :> Column("text", FALSE),
     order |-> Unordered,
     rows |-> 2 :> (2 :> TextValue("A7") @@ 4 :> NumberValue(1) @@ 6 :> TextValue(""))
              @@ 4 :> (2 :> TextValue("a10") @@ 4 :> FormulaValue(<<2, 4>>))
              @@ 6 :> (4 :> NumberValue(5) @@ 6 :> TextValue(" a"))]

Opened == {TwoRows, OneFormula, LargeTable, SmallTable, ViewedTable}

\* A new name, and the key of a column that has no name of its own.
NewNames == {<<"name", "total">>, Key(4)}

AllowedSets == {{TextValue("a"), TextValue("7")}, {NumberValue(1), NumberValue(5)}}

OneOfEach == {TextValue("a"), NumberValue(5)}

TrimmedTexts == "a" :> "a" @@ " a" :> "a" @@ "7" :> "7" @@ "1" :> "1" @@ "5" :> "5"
                @@ "0" :> "0" @@ "" :> "" @@ "A7" :> "A7" @@ "a10" :> "a10" @@ "35" :> "35"
                @@ "500%" :> "500%" @@ "100%" :> "100%" @@ "3,500%" :> "3,500%"
                @@ "700%" :> "700%" @@ QuotationMarks :> QuotationMarks
ParsedTexts == "0" :> 0 @@ "1" :> 1 @@ "5" :> 5 @@ "7" :> 7
FoldedTexts == "A7" :> "a7" @@ [text \in DOMAIN TrimmedTexts \ {"A7"} |-> text]
DisplayedNumbers ==
    [general |-> 1 :> "1" @@ 5 :> "5" @@ 7 :> "7" @@ 35 :> "35",
     percent |-> 1 :> "100%" @@ 5 :> "500%" @@ 7 :> "700%" @@ 35 :> "3,500%"]

\* "a" and "0", in lower case, in each of the texts.
SearchedTexts == {"a", "0"}
TextFragments ==
    [text \in {FoldedTexts[t] : t \in DOMAIN TrimmedTexts} |->
       (IF text \in {"a", " a", "a7", "a10"} THEN {"a"} ELSE {})
       \union (IF text \in {"0", "a10", "100%", "500%", "700%", "3,500%"} THEN {"0"} ELSE {})]

\* By their bytes an upper case letter comes first and "a10" before "a7"; in
\* natural order case decides last and a number counts as one.
PlacesOf(texts) == [text \in ToSet(texts) |-> CHOOSE i \in DOMAIN texts : texts[i] = text]
TextRanks ==
    [bytes |-> PlacesOf(<<"", " a", QuotationMarks, "1", "100%", "3,500%", "35", "5", "500%",
                          "7", "700%", "A7", "a", "a10">>),
     natural |-> PlacesOf(<<"", " a", QuotationMarks, "1", "3,500%", "5", "7", "35", "100%",
                            "500%", "700%", "a", "A7", "a10">>)]

SortBy(field, direction, textOrder) ==
    [field |-> field, direction |-> direction, textOrder |-> textOrder]
NotBlank(field) == [op |-> "not_blank", field |-> field]

PageViews ==
    {[sort |-> <<SortBy(2, "asc", "natural")>>, filters |-> {}, keep |-> {}],
     [sort |-> <<SortBy(4, "desc", "bytes"), SortBy(2, "asc", "bytes")>>,
      filters |-> {NotBlank(2)}, keep |-> {}],
     [sort |-> <<SortBy(4, "desc", "bytes"), SortBy(2, "asc", "bytes")>>,
      filters |-> {NotBlank(2)}, keep |-> {6}],
     [sort |-> <<>>,
      filters |-> {[op |-> "number_compare", field |-> 4, comparison |-> "gt", number |-> 1],
                   [op |-> "display_contains", field |-> 6, text |-> "a"]},
      keep |-> {}]}

PrintedNumbers == 0 :> "0" @@ 1 :> "1" @@ 5 :> "5" @@ 7 :> "7"

\* Publish has this guard too: here it spares TLC the enumeration of requests
\* that the bounds rule out.
Room(serials) == revision < MaxRevision /\ proposalSerial < serials

VARIABLE family         \* which requests this session makes

MCInit ==
    /\ ViewInit
    /\ family = CASE doc = TwoRows -> "cells"
                  [] doc = OneFormula -> "table"
                  [] doc = LargeTable -> "large"
                  [] doc = SmallTable -> "columns"
                  [] doc = ViewedTable -> "views"

\* Edits between the queries of a page: of one cell, of a column or of the rows.
EditBetweenQueries ==
    /\ revision = 0
    /\ CellRequest \/ RemoveTableRows \/ RemoveColumn \/ ChangeNumberFormat
         \/ ChangeRequiredness \/ ChangeColumnType
    /\ Len(undo'[1].forward) = 1 \/ undo'[1].forward[1].op = "remove_field"

MCRequest ==
    /\ answered' = {} /\ UNCHANGED viewCaches
    /\ \/ family = "cells" /\ Room(MaxSerial - 1) /\ (CellRequest \/ CleanupRequest)
       \/ family = "table" /\ revision < 2 /\ (RowRequest \/ UpdateFormula \/ ColumnRequest)
       \/ family = "large" /\ revision < 2 /\ (EditCells \/ RemoveTableRows \/ InsertRow)
       \/ family = "columns" /\ Room(MaxSerial) /\ (ColumnRequest \/ UpdateFormula \/ InsertRow)
       \/ family = "cells" /\ proposalSerial < MaxSerial - 1 /\ RefusedRequest
       \/ family \in {"table", "columns"} /\ revision = 0 /\ proposalSerial = 0 /\ RefusedRequest
       \/ family = "views" /\ EditBetweenQueries
       \/ HistoryRequest

MCNext ==
    /\ UNCHANGED family
    /\ MCRequest \/ (family = "views" /\ Query)

\* What queries say depends on the document alone, and a session of the views
\* family can come to each of its documents before it asks anything.
PageQueriesAgree == family = "views" /\ viewIndex = <<>> => QueriesAgree

MCSpec == MCInit /\ [][MCNext]_<<vars, viewCaches, answered, family>>
=============================================================================

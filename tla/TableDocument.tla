---------------------------- MODULE TableDocument ----------------------------
(***************************************************************************)
(* One native table of a document, the semantic commands that change it    *)
(* and the planner that admits them, as the Designer uses them:            *)
(* plan_commands and its helpers in workspace-engine/src/patch_lifecycle.rs *)
(* and the single-field rules in workspace-engine/src/lib.rs.              *)
(*                                                                         *)
(* Columns are Text or Number.  A formula divides a constant by the one    *)
(* cell it reads: what the planner and the validation ask of an expression *)
(* is which cells it depends on and the number it comes to, if any, and a  *)
(* blank cell of a Number column reads as zero.  A row or column id is a   *)
(* natural number, in the order of the code's strings: the serial printed  *)
(* in it, twice, plus one when this session allocated it.                  *)
(***************************************************************************)
EXTENDS Naturals, Sequences, FiniteSets, SequencesExt, Functions

CONSTANT Dividend       \* what a formula divides

ASSUME DividendAssumption == Dividend \in Nat \ {0}

NumberValue(n) == <<"number", n>>
TextValue(s) == <<"text", s>>
FormulaValue(cell) == <<"formula", cell>>
Kind(value) == value[1]
Source(formula) == formula[2]

\* The map of one entry, and f laid over g.
Only(x, value) == [y \in {x} |-> value]
Over(f, g) == [x \in (DOMAIN f) \union DOMAIN g |-> IF x \in DOMAIN f THEN f[x] ELSE g[x]]

\* A document is a record of
\*   columns : column id -> [type, required, format, name, constraint], with
\*             at most one name and with the values allowed, if restricted
\*   order   : [explicit, ids], the explicit order of the columns, if any
\*   rows    : row id -> (column id -> value), blank cells left out
\* and a cell is a pair of a row id and a column id.
IsMap(f) == f = [x \in DOMAIN f |-> f[x]]

IsTable(d) ==
    /\ d = [columns |-> d.columns, order |-> d.order, rows |-> d.rows]
    /\ IsMap(d.columns) /\ IsFiniteSet(DOMAIN d.columns) /\ DOMAIN d.columns \subseteq Nat
    /\ IsMap(d.rows) /\ IsFiniteSet(DOMAIN d.rows) /\ DOMAIN d.rows \subseteq Nat
    /\ \A r \in DOMAIN d.rows : IsMap(d.rows[r])

\* A column is defined by its five parts; what holds a formula is one.
Types == {"text", "number"}
IsDefinition(column) ==
    /\ column = [type |-> column.type, required |-> column.required, format |-> column.format,
                 name |-> column.name, constraint |-> column.constraint]
    /\ column.type \in Types
IsValue(value) ==
    \/ Kind(value) \in Types
    \/ value = FormulaValue(Source(value)) /\ Source(value) \in Nat \X Nat

IsTyped(d) ==
    /\ d.order = [explicit |-> d.order.explicit, ids |-> d.order.ids]
    /\ \A c \in DOMAIN d.columns : IsDefinition(d.columns[c])
    /\ \A r \in DOMAIN d.rows : \A c \in DOMAIN d.rows[r] : IsValue(d.rows[r][c])

Present(d, cell) == cell[1] \in DOMAIN d.rows /\ cell[2] \in DOMAIN d.rows[cell[1]]

\* A cell's content as a set: empty when it is blank.
Content(d, cell) == IF Present(d, cell) THEN {d.rows[cell[1]][cell[2]]} ELSE {}

Put(d, cell, value) == [d EXCEPT !.rows[cell[1]] = Over(Only(cell[2], value), @)]
Drop(d, cell) == [d EXCEPT !.rows[cell[1]] = Restrict(@, DOMAIN @ \ {cell[2]})]

Cells(d) == UNION {{r} \X (DOMAIN d.rows[r]) : r \in DOMAIN d.rows}
CellsOfKind(d, kind) == {cell \in Cells(d) : Kind(d.rows[cell[1]][cell[2]]) = kind}
FormulaCells(d) == CellsOfKind(d, "formula")
ReadBy(d, cell) == Source(d.rows[cell[1]][cell[2]])

\* The namespace in an id sets those that this session allocates apart from
\* the opened ones.  A row's key is "row_" and its serial alone.
Issued(serial) == 2 * serial + 1
Serial(id) == id \div 2

\* The ids in ascending order.
IdOrder(ids) ==
    [i \in 1 .. Cardinality(ids) |->
        CHOOSE id \in ids : Cardinality({other \in ids : other < id}) = i - 1]

\* Those of a list that are in a set, in the order of the list.
Among(list, ids) ==
    LET kept[k \in 0 .. Len(list)] ==
          CASE k = 0 -> <<>>
            [] k > 0 /\ list[k] \in ids -> Append(kept[k - 1], list[k])
            [] OTHER -> kept[k - 1]
    IN kept[Len(list)]

\* normalize_field_order: an explicit order loses the ids that are gone and
\* gains the missing ones in id order; an implicit one stays implicit.
Normalize(order, ids) ==
    LET kept == Among(order.ids, ids)
    IN IF order.explicit
       THEN [order EXCEPT !.ids = kept \o IdOrder(ids \ ToSet(kept))]
       ELSE order

\* validate_field_order: an explicit order names every column exactly once.
IsOrderOf(order, ids) == order.explicit => order.ids \in Bijection(1 .. Cardinality(ids), ids)

\* ordered_fields
ColumnOrder(d) == IF d.order.explicit THEN d.order.ids ELSE IdOrder(DOMAIN d.columns)

Fits(value, column) ==
    \/ Kind(value) = column.type
    \/ Kind(value) = "formula" /\ column.type = "number"

\* has_native_scalar_shape: every cell is declared and of its column's type,
\* and no required cell is blank.
NativeShape(d) ==
    /\ DOMAIN d.columns # {}
    /\ \A r \in DOMAIN d.rows :
         /\ DOMAIN d.rows[r] \subseteq DOMAIN d.columns
         /\ \A c \in DOMAIN d.columns :
              IF c \in DOMAIN d.rows[r] THEN Fits(d.rows[r][c], d.columns[c])
              ELSE ~d.columns[c].required

\* The number a formula that reads the cell divides by, and zero when there is
\* none: a stored number, or that of a formula that leads to one without a
\* cycle, a blank, a zero or a text on the way.
NumberOf(d, cell) ==
    LET last == Cardinality(FormulaCells(d)) + 1
        number[depth \in 0 .. last] ==
          [c \in Nat \X Nat |->
             IF ~Present(d, c) \/ depth = 0 THEN 0
             ELSE CASE Kind(d.rows[c[1]][c[2]]) = "number" -> d.rows[c[1]][c[2]][2]
                    [] Kind(d.rows[c[1]][c[2]]) = "text" -> 0
                    [] OTHER -> LET divisor == number[depth - 1][ReadBy(d, c)]
                                IN IF divisor = 0 THEN 0 ELSE Dividend \div divisor]
    IN number[last][cell]

\* The formulas that come to a number.
Calculated(d) == {cell \in FormulaCells(d) : NumberOf(d, cell) # 0}

\* effective_name: a column without a display name goes by its key.
Key(c) == <<"key", c>>
EffectiveName(d, c) == IF d.columns[c].name = {} THEN Key(c)
                       ELSE CHOOSE name \in d.columns[c].name : TRUE

\* validate_names
NamesAreUnique(d) ==
    \A c1, c2 \in DOMAIN d.columns : EffectiveName(d, c1) = EffectiveName(d, c2) => c1 = c2

\* validate_keys: what names a row names no other.
KeysAreUnique(d) == \A r1, r2 \in DOMAIN d.rows : Serial(r1) = Serial(r2) => r1 = r2

\* The constraint is one for the column's type, and every stored value and
\* every number a formula comes to is among the values it allows.
ConstraintsHold(d) ==
    \A c \in {c \in DOMAIN d.columns : d.columns[c].constraint # {}} :
        /\ \A v \in d.columns[c].constraint : Kind(v) = d.columns[c].type
        /\ \A r \in {r \in DOMAIN d.rows : Present(d, <<r, c>>)} :
             (IF Kind(d.rows[r][c]) = "formula" THEN NumberValue(NumberOf(d, <<r, c>>))
              ELSE d.rows[r][c]) \in d.columns[c].constraint

\* validation_report and the complete calculation that publication requires.
Valid(d) ==
    /\ NativeShape(d) /\ IsOrderOf(d.order, DOMAIN d.columns)
    /\ NamesAreUnique(d) /\ KeysAreUnique(d)
    /\ FormulaCells(d) = Calculated(d)
    /\ ConstraintsHold(d)

-----------------------------------------------------------------------------
(* Commands and their admission, one at a time, on the candidate that the  *)
(* earlier commands of the batch left.  A step is the set of documents it  *)
(* can lead to: empty when the command is refused.                         *)

SetFieldValue(cell, value) == [op |-> "set", cell |-> cell, value |-> value]
UnsetField(cell) == [op |-> "unset", cell |-> cell]
FormulaUpdate(cell, value) == [op |-> "formula_update", cell |-> cell, value |-> value]
FormulaInverseRestore(cell, value) ==
    [op |-> "formula_inverse_restore", cell |-> cell, value |-> value]
FormulaRestore(cell, value) == [op |-> "formula_restore", cell |-> cell, value |-> value]
AppendEntity(row, fields) == [op |-> "append_entity", row |-> row, fields |-> fields]
RemoveEntity(row) == [op |-> "remove_entity", row |-> row]
AppendSchemaField(c, definition, values) ==
    [op |-> "append_field", column |-> c, definition |-> definition, values |-> values]
RemoveSchemaField(c, definition, values) ==
    [op |-> "remove_field", column |-> c, definition |-> definition, values |-> values]
SetSchemaFieldOrder(order) == [op |-> "order", order |-> order]
SetRequiredness(c, required) == [op |-> "requiredness", column |-> c, required |-> required]
SetNumberFormat(c, format) == [op |-> "format", column |-> c, format |-> format]
SetDisplayName(c, name) == [op |-> "name", column |-> c, name |-> name]
SetConstraint(c, constraint) ==
    [op |-> "constraint", column |-> c, constraint |-> constraint]

Declared(d, cell) == cell[1] \in DOMAIN d.rows /\ cell[2] \in DOMAIN d.columns

If(condition, d) == IF condition THEN {d} ELSE {}

\* check_field_value_candidate_with_planning and field_value_input_rule
StepSet(d, cell, value) ==
    LET column == d.columns[cell[2]]
        old == Content(d, cell)
    IN If(/\ Declared(d, cell)
          /\ value \notin old
          /\ old = {} => ~column.required /\ Kind(value) # "formula"
          /\ (\E v \in old : Kind(v) = "formula") => Kind(value) = "formula"
          /\ Fits(value, column)
          /\ Kind(value) = "formula" => Declared(d, Source(value)),
          Put(d, cell, value))

\* unset_field_candidate_in_place: a blank cell stays blank.
StepUnset(d, cell) ==
    If(Declared(d, cell) /\ ~d.columns[cell[2]].required,
       IF Present(d, cell) THEN Drop(d, cell) ELSE d)

\* formula_restore_candidate_in_place
StepFormulaRestore(d, cell, value) ==
    If(/\ Declared(d, cell)
       /\ d.columns[cell[2]].type = "number"
       /\ ~d.columns[cell[2]].required
       /\ ~Present(d, cell),
       Put(d, cell, value))

\* formula_update_candidate_in_place
StepFormulaUpdate(d, cell, value) ==
    IF Present(d, cell) THEN StepSet(d, cell, value)
    ELSE StepFormulaRestore(d, cell, value)

\* formula_inverse_restore_candidate_in_place
StepFormulaInverseRestore(d, cell, value) ==
    If(cell \in FormulaCells(d) /\ d.columns[cell[2]].type = "number",
       Put(d, cell, value))

\* plan_append_entity: a free key, and an id fresh in the base and in the candidate.
StepAppendEntity(base, d, row, fields) ==
    If(/\ row \notin DOMAIN base.rows \union DOMAIN d.rows
       /\ \A r \in DOMAIN d.rows : Serial(r) # Serial(row),
       [d EXCEPT !.rows = Over(Only(row, fields), @)])

StepRemoveEntity(d, row) ==
    If(row \in DOMAIN d.rows,
       [d EXCEPT !.rows = Restrict(@, DOMAIN @ \ {row})])

\* plan_append_schema_field
StepAppendField(d, c, definition, values) ==
    LET appended ==
          [columns |-> Over(Only(c, definition), d.columns),
           order |-> Normalize(d.order, DOMAIN d.columns \union {c}),
           rows |-> [r \in DOMAIN d.rows |->
                       IF r \in DOMAIN values THEN Over(Only(c, values[r]), d.rows[r])
                       ELSE d.rows[r]]]
    IN If(/\ c \notin DOMAIN d.columns
          /\ DOMAIN values \subseteq DOMAIN d.rows
          /\ definition.required => DOMAIN values = DOMAIN d.rows
          /\ \A r \in DOMAIN values : Kind(values[r]) = definition.type
          /\ ~definition.required => NativeShape(appended),
          appended)

ValuesOf(d, c) ==
    [r \in {r \in DOMAIN d.rows : c \in DOMAIN d.rows[r]} |-> d.rows[r][c]]

\* plan_remove_schema_field: the exact definition and values, none of them a
\* formula, and no formula left that reads the column.
StepRemoveField(d, c, definition, values) ==
    If(/\ c \in DOMAIN d.columns
       /\ d.columns[c] = definition
       /\ ~definition.required => NativeShape(d)
       /\ ValuesOf(d, c) = values
       /\ \A cell \in FormulaCells(d) : cell[2] # c /\ ReadBy(d, cell)[2] # c,
       [columns |-> Restrict(d.columns, DOMAIN d.columns \ {c}),
        order |-> Normalize(d.order, DOMAIN d.columns \ {c}),
        rows |-> [r \in DOMAIN d.rows |->
                    Restrict(d.rows[r], DOMAIN d.rows[r] \ {c})]])

StepOrder(d, order) ==
    If(IsOrderOf(order, DOMAIN d.columns),
       [d EXCEPT !.order = Normalize(order, DOMAIN d.columns)])

StepRequiredness(d, c, required) ==
    If(/\ c \in DOMAIN d.columns
       /\ NativeShape(d)
       /\ required => \A r \in DOMAIN d.rows : c \in DOMAIN d.rows[r],
       [d EXCEPT !.columns[c].required = required])

StepNumberFormat(d, c, format) ==
    If(c \in DOMAIN d.columns /\ d.columns[c].type = "number",
       [d EXCEPT !.columns[c].format = format])

StepDisplayName(d, c, name) == If(c \in DOMAIN d.columns, [d EXCEPT !.columns[c].name = name])

StepConstraint(d, c, constraint) ==
    If(c \in DOMAIN d.columns, [d EXCEPT !.columns[c].constraint = constraint])

Step(base, d, command) ==
    CASE command.op = "set" -> StepSet(d, command.cell, command.value)
      [] command.op = "unset" -> StepUnset(d, command.cell)
      [] command.op = "formula_update" -> StepFormulaUpdate(d, command.cell, command.value)
      [] command.op = "formula_inverse_restore" ->
           StepFormulaInverseRestore(d, command.cell, command.value)
      [] command.op = "formula_restore" -> StepFormulaRestore(d, command.cell, command.value)
      [] command.op = "append_entity" -> StepAppendEntity(base, d, command.row, command.fields)
      [] command.op = "remove_entity" -> StepRemoveEntity(d, command.row)
      [] command.op = "append_field" ->
           StepAppendField(d, command.column, command.definition, command.values)
      [] command.op = "remove_field" ->
           StepRemoveField(d, command.column, command.definition, command.values)
      [] command.op = "order" -> StepOrder(d, command.order)
      [] command.op = "requiredness" -> StepRequiredness(d, command.column, command.required)
      [] command.op = "format" -> StepNumberFormat(d, command.column, command.format)
      [] command.op = "name" -> StepDisplayName(d, command.column, command.name)
      [] command.op = "constraint" -> StepConstraint(d, command.column, command.constraint)

\* plan_commands: the batch as a whole, or nothing.
Plan(base, commands) ==
    LET after[k \in 0 .. Len(commands)] ==
          IF k = 0 THEN {base}
          ELSE UNION {Step(base, d, commands[k]) : d \in after[k - 1]}
    IN after[Len(commands)]

\* What a proposal of these commands publishes: a valid document other than
\* the current one.
Publishable(base, commands) == {d \in Plan(base, commands) : d # base /\ Valid(d)}
=============================================================================

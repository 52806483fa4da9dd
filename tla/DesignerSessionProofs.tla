------------------------- MODULE DesignerSessionProofs -------------------------
(***************************************************************************)
(* Proved of one table and its planner, for every document and every       *)
(* batch: the planner leads to at most one document, which is a table and  *)
(* the document that publish_commands makes of the batch by itself; it has *)
(* the rows and columns there were and those the batch appends.            *)
(*                                                                         *)
(* Proved of a Designer session over every document, catalogue of values   *)
(* and history: a cleanup publishes what its preview showed, the cached    *)
(* structure stays that of the document, no new row or column takes an id  *)
(* there has been, and a query is answered from the order and the totals   *)
(* of the document as it is.                                               *)
(*                                                                         *)
(* What a recursive function computes is shown along its runs: the places  *)
(* at which a claim fails are natural numbers, and have a least one.       *)
(***************************************************************************)
EXTENDS DesignerViews, FiniteSetTheorems, WellFoundedInduction, SequenceTheorems, TLAPS

-----------------------------------------------------------------------------
(* One table and its planner.                                              *)

\* Every nonempty set of natural numbers has a least element.
LEMMA LeastNat ==
  ASSUME NEW T \in SUBSET Nat, T # {}
  PROVE  \E n \in T : \A m \in T : n <= m
<1> DEFINE Below == OpToRel(<, Nat)
<1>1. IsWellFoundedOn(Below, Nat)
  BY NatLessThanWellFounded
<1>2. \A m, n \in Nat : m < n => <<m, n>> \in Below
  BY DEF OpToRel
<1> HIDE DEF Below
<1>3. PICK n \in T : \A m \in T : ~(<<m, n>> \in Below)
  BY <1>1, WFMin
<1>4. \A m \in T : ~(m < n)
  BY <1>2, <1>3
<1>5. \A m \in T : n <= m
  BY <1>4
<1> QED BY <1>5

\* Induction over an initial segment of the natural numbers, for a set of them.
LEMMA SegmentInduction ==
  ASSUME NEW N \in Nat, NEW S,
         0 \in S, \A k \in 1 .. N : k - 1 \in S => k \in S
  PROVE  0 .. N \subseteq S
<1> DEFINE T == {k \in 0 .. N : k \notin S}
<1> SUFFICES ASSUME T # {} PROVE FALSE
  OBVIOUS
<1>1. T \in SUBSET Nat
  OBVIOUS
<1>2. PICK n \in T : \A m \in T : n <= m
  BY <1>1, LeastNat
<1>3. n # 0 /\ n \in 1 .. N
  BY <1>2
<1>4. n - 1 \in 0 .. N /\ ~(n <= n - 1)
  BY <1>3
<1>5. n - 1 \in S
  BY <1>2, <1>4
<1> QED BY <1>2, <1>3, <1>5

\* A function by recursion over an initial segment, when its values are in a set.
IsRecursion(f, n, start, next) ==
    f[0] = start /\ \A k \in 1 .. n : f[k] = next[<<k, f[k - 1]>>]

\* A recursion over a segment of the natural numbers has a function that obeys it.
LEMMA RecursionExists ==
  ASSUME NEW N \in Nat, NEW Universe, NEW start \in Universe,
         NEW next \in [(1 .. N) \X Universe -> Universe]
  PROVE  \E f \in [0 .. N -> Universe] : IsRecursion(f, N, start, next)
<1> DEFINE IsPart(f, n) == IsRecursion(f, n, start, next)
           S == {n \in 0 .. N : \E f \in [0 .. n -> Universe] : IsPart(f, n)}
<1>1. 0 \in S
  <2> DEFINE first == [k \in 0 .. 0 |-> start]
  <2>1. first \in [0 .. 0 -> Universe] /\ IsPart(first, 0)
    BY DEF IsRecursion
  <2> HIDE DEF first, IsPart
  <2> QED BY <2>1
<1>2. ASSUME NEW n \in 1 .. N, n - 1 \in S PROVE n \in S
  <2>1. PICK f \in [0 .. n - 1 -> Universe] : IsPart(f, n - 1)
    BY <1>2
  <2> DEFINE longer == [k \in 0 .. n |-> IF k = n THEN next[<<n, f[n - 1]>>] ELSE f[k]]
  <2>2. longer \in [0 .. n -> Universe]
    OBVIOUS
  <2>3. longer[0] = start
    BY <2>1 DEF IsRecursion
  <2>4. ASSUME NEW k \in 1 .. n PROVE longer[k] = next[<<k, longer[k - 1]>>]
    <3>1. longer[k - 1] = f[k - 1]
      OBVIOUS
    <3>2. k # n => k \in 1 .. n - 1 /\ longer[k] = f[k]
      OBVIOUS
    <3>3. k = n => longer[k] = next[<<n, f[n - 1]>>]
      OBVIOUS
    <3> HIDE DEF longer
    <3> QED BY <2>1, <3>1, <3>2, <3>3 DEF IsRecursion
  <2>5. IsPart(longer, n)
    BY <2>3, <2>4 DEF IsRecursion
  <2> HIDE DEF longer, IsPart
  <2> QED BY <2>2, <2>5
<1> HIDE DEF S, IsPart
<1>3. 0 .. N \subseteq S
  BY <1>1, <1>2, SegmentInduction
<1> QED BY <1>3 DEF S, IsPart

\* What the first n commands make of a base.
IsRun(run, base, commands, n) ==
  run = [k \in 0 .. n |-> IF k = 0 THEN {base}
                          ELSE UNION {Step(base, d, commands[k]) : d \in run[k - 1]}]

\* A batch of any length has a run of the planner.
LEMMA RunExists ==
  ASSUME NEW base, NEW commands, NEW N \in Nat
  PROVE  \E run : IsRun(run, base, commands, N)
<1> DEFINE S == {n \in 0 .. N : \E run : IsRun(run, base, commands, n)}
<1>1. 0 \in S
  <2>1. IsRun([k \in 0 .. 0 |-> {base}], base, commands, 0)
    BY DEF IsRun
  <2> QED BY <2>1
<1>2. ASSUME NEW n \in 1 .. N, n - 1 \in S PROVE n \in S
  <2>1. PICK run : IsRun(run, base, commands, n - 1)
    BY <1>2
  <2> DEFINE longer == [k \in 0 .. n |-> IF k = n
                          THEN UNION {Step(base, d, commands[n]) : d \in run[n - 1]} ELSE run[k]]
  <2>2. /\ \A k \in 0 .. n - 1 : longer[k] = run[k]
        /\ longer[n] = UNION {Step(base, d, commands[n]) : d \in run[n - 1]}
    OBVIOUS
  <2>3. \A k \in 0 .. n - 1 : run[k] = IF k = 0 THEN {base}
                          ELSE UNION {Step(base, d, commands[k]) : d \in run[k - 1]}
    BY <2>1 DEF IsRun
  <2>4. \A k \in 0 .. n : longer[k] = IF k = 0 THEN {base}
                          ELSE UNION {Step(base, d, commands[k]) : d \in longer[k - 1]}
    <3> HIDE DEF longer
    <3> SUFFICES ASSUME NEW k \in 0 .. n
                 PROVE  longer[k] = IF k = 0 THEN {base}
                          ELSE UNION {Step(base, d, commands[k]) : d \in longer[k - 1]}
      OBVIOUS
    <3>1. CASE k = n
      <4>1. longer[k - 1] = run[n - 1] /\ k # 0
        BY <2>2, <3>1
      <4> QED BY <2>2, <3>1, <4>1
    <3>2. CASE k # n
      <4>1. k \in 0 .. n - 1 /\ (k # 0 => k - 1 \in 0 .. n - 1)
        BY <3>2
      <4>2. k # 0 => longer[k - 1] = run[k - 1]
        BY <2>2, <4>1
      <4> QED BY <2>2, <2>3, <4>1, <4>2
    <3> QED BY <3>1, <3>2
  <2>5. IsRun(longer, base, commands, n)
    BY <2>4 DEF IsRun
  <2> QED BY <2>5
<1> HIDE DEF S
<1>3. N \in S
  BY <1>1, <1>2, SegmentInduction
<1> QED BY <1>3 DEF S

\* Plan is where such a run ends.
LEMMA PlanIsRun ==
  ASSUME NEW base, NEW commands, Len(commands) \in Nat
  PROVE  \E run : IsRun(run, base, commands, Len(commands)) /\ Plan(base, commands) = run[Len(commands)]
<1> DEFINE after == CHOOSE run : IsRun(run, base, commands, Len(commands))
<1>1. IsRun(after, base, commands, Len(commands))
  BY RunExists
<1>2. Plan(base, commands) = after[Len(commands)]
  BY DEF Plan, IsRun
<1> QED BY <1>1, <1>2

\* What holds of the base, and survives each command, holds of what a batch is
\* planned as.  The universe makes sets of documents to speak of.
LEMMA PlanInduction ==
  ASSUME NEW base, NEW commands, Len(commands) \in Nat
  PROVE  \E Universe :
           \A Good : /\ base \in Good
                     /\ \A i \in 1 .. Len(commands), d \in Good :
                          \A e \in Step(base, d, commands[i]) : e \in Universe => e \in Good
                     => \A e \in Plan(base, commands) : e \in Good
<1>1. PICK n, run : /\ n = Len(commands) /\ IsRun(run, base, commands, n)
                    /\ Plan(base, commands) = run[n]
  BY PlanIsRun
<1> DEFINE Universe == UNION {run[k] : k \in 0 .. n}
<1>2. ASSUME NEW Good, base \in Good,
             \A i \in 1 .. n, d \in Good :
               \A e \in Step(base, d, commands[i]) : e \in Universe => e \in Good
      PROVE  \A e \in Plan(base, commands) : e \in Good
  <2> DEFINE S == {k \in 0 .. n : run[k] \subseteq Good}
  <2>1. 0 \in S
    BY <1>1, <1>2 DEF IsRun
  <2>2. ASSUME NEW k \in 1 .. n, k - 1 \in S PROVE k \in S
    <3>1. k \in 0 .. n /\ k # 0
      BY <1>1
    <3> HIDE DEF S, Universe
    <3>4. run[k] = UNION {Step(base, d, commands[k]) : d \in run[k - 1]}
      BY <1>1, <3>1 DEF IsRun
    <3> USE DEF S, Universe
    <3>2. run[k] \subseteq Universe
      BY <3>1
    <3> HIDE DEF Universe
    <3>3. run[k] \subseteq Good
      BY <1>2, <2>2, <3>2, <3>4
    <3> QED BY <3>1, <3>3
  <2> HIDE DEF S
  <2>3. n \in Nat
    BY <1>1
  <2>4. 0 .. n \subseteq S
    BY <2>1, <2>2, <2>3, SegmentInduction
  <2> QED BY <1>1, <2>3, <2>4 DEF S
<1> HIDE DEF Universe
<1> QED BY <1>1, <1>2

Operations ==
    {"set", "unset", "formula_update", "formula_inverse_restore", "formula_restore",
     "append_entity", "remove_entity", "append_field", "remove_field", "order",
     "requiredness", "format", "name", "constraint"}

\* A command as the requests build them, in particular the two that bring in ids.
IsCommand(command) ==
    /\ command.op \in Operations
    /\ command.op = "append_entity" => IsMap(command.fields) /\ command.row \in Nat
    /\ command.op = "append_field" => command.column \in Nat

\* Maps cut down and laid over each other are maps.
LEMMA RestrictIsMap ==
  ASSUME NEW f, NEW S
  PROVE  IsMap(Restrict(f, S)) /\ DOMAIN Restrict(f, S) = S
BY DEF IsMap, Restrict

LEMMA OverIsMap ==
  ASSUME NEW x, NEW v, NEW g
  PROVE  IsMap(Over(Only(x, v), g)) /\ DOMAIN Over(Only(x, v), g) = {x} \union DOMAIN g
BY DEF IsMap, Over, Only

\* A table stays one when a cell is put or dropped.
LEMMA PutIsTable ==
  ASSUME NEW d, IsTable(d), NEW cell, NEW value
  PROVE  IsTable(Put(d, cell, value)) /\ IsTable(Drop(d, cell))
<1>1. /\ Put(d, cell, value).columns = d.columns /\ Drop(d, cell).columns = d.columns
      /\ Put(d, cell, value).order = d.order /\ Drop(d, cell).order = d.order
  BY DEF IsTable, Put, Drop
<1>2. /\ Put(d, cell, value).rows = [d.rows EXCEPT ![cell[1]] = Over(Only(cell[2], value), @)]
      /\ Drop(d, cell).rows = [d.rows EXCEPT ![cell[1]] = Restrict(@, DOMAIN @ \ {cell[2]})]
  BY DEF IsTable, Put, Drop
<1>3. /\ Put(d, cell, value) = [columns |-> Put(d, cell, value).columns,
                                order |-> Put(d, cell, value).order, rows |-> Put(d, cell, value).rows]
      /\ Drop(d, cell) = [columns |-> Drop(d, cell).columns,
                          order |-> Drop(d, cell).order, rows |-> Drop(d, cell).rows]
  BY DEF IsTable, Put, Drop
<1>4. /\ DOMAIN Put(d, cell, value).rows = DOMAIN d.rows /\ DOMAIN Drop(d, cell).rows = DOMAIN d.rows
      /\ IsMap(Put(d, cell, value).rows) /\ IsMap(Drop(d, cell).rows)
  BY <1>2 DEF IsMap
<1>5. ASSUME NEW r \in DOMAIN d.rows
      PROVE  IsMap(Put(d, cell, value).rows[r]) /\ IsMap(Drop(d, cell).rows[r])
  <2>1. CASE r = cell[1]
    <3>1. /\ Put(d, cell, value).rows[r] = Over(Only(cell[2], value), d.rows[r])
          /\ Drop(d, cell).rows[r] = Restrict(d.rows[r], DOMAIN d.rows[r] \ {cell[2]})
      BY <1>2, <2>1
    <3>2. IsMap(Over(Only(cell[2], value), d.rows[r]))
      BY OverIsMap
    <3>3. IsMap(Restrict(d.rows[r], DOMAIN d.rows[r] \ {cell[2]}))
      BY RestrictIsMap
    <3> QED BY <3>1, <3>2, <3>3
  <2>2. CASE r # cell[1]
    <3>1. Put(d, cell, value).rows[r] = d.rows[r] /\ Drop(d, cell).rows[r] = d.rows[r]
      BY <1>2, <2>2
    <3> QED BY <3>1 DEF IsTable
  <2> QED BY <2>1, <2>2
<1> QED BY <1>1, <1>3, <1>4, <1>5 DEF IsTable

\* The rows and columns a command appends, none or one.
RowOf(command) == IF command.op = "append_entity" THEN {command.row} ELSE {}
ColumnOf(command) == IF command.op = "append_field" THEN {command.column} ELSE {}

Grows(d, e, command) ==
    /\ DOMAIN e.rows \subseteq (DOMAIN d.rows) \union RowOf(command)
    /\ DOMAIN e.columns \subseteq (DOMAIN d.columns) \union ColumnOf(command)

\* An edit of a cell brings in no row and no column.
LEMMA CellEditGrows ==
  ASSUME NEW d, IsTable(d), NEW cell, NEW value, NEW command
  PROVE  Grows(d, Put(d, cell, value), command) /\ Grows(d, Drop(d, cell), command)
<1>1. /\ Put(d, cell, value).columns = d.columns /\ Drop(d, cell).columns = d.columns
      /\ DOMAIN Put(d, cell, value).rows = DOMAIN d.rows
      /\ DOMAIN Drop(d, cell).rows = DOMAIN d.rows
  BY DEF IsTable, Put, Drop
<1> QED BY <1>1 DEF Grows

\* A table stays one with other rows.
LEMMA NewRowsAreTable ==
  ASSUME NEW d, IsTable(d), NEW rows, IsMap(rows), IsFiniteSet(DOMAIN rows), DOMAIN rows \subseteq Nat,
         \A r \in DOMAIN rows : IsMap(rows[r])
  PROVE  /\ IsTable([d EXCEPT !.rows = rows])
         /\ [d EXCEPT !.rows = rows].rows = rows
         /\ [d EXCEPT !.rows = rows].columns = d.columns
<1>1. [d EXCEPT !.rows = rows] = [columns |-> d.columns, order |-> d.order, rows |-> rows]
  BY DEF IsTable
<1> QED BY <1>1 DEF IsTable

\* A table stays one with another definition of a column.
LEMMA NewColumnIsTable ==
  ASSUME NEW d, IsTable(d), NEW c, NEW column, NEW command,
         NEW e, e = [d EXCEPT !.columns = [d.columns EXCEPT ![c] = column]]
  PROVE  IsTable(e) /\ Grows(d, e, command)
<1> DEFINE columns == [d.columns EXCEPT ![c] = column]
<1>1. IsMap(columns) /\ DOMAIN columns = DOMAIN d.columns
  BY DEF IsMap
<1>2. e = [columns |-> columns, order |-> d.order, rows |-> d.rows]
  BY DEF IsTable
<1> QED BY <1>1, <1>2 DEF IsTable, Grows

\* Each of the fourteen commands leads to a table, which has what the command brings in.
LEMMA StepKeepsTable ==
  ASSUME NEW base, NEW d, IsTable(d), NEW command, IsCommand(command), NEW e \in Step(base, d, command)
  PROVE  IsTable(e) /\ Grows(d, e, command)
<1> USE DEF If
<1>1. CASE command.op \in {"set", "unset", "formula_update", "formula_inverse_restore",
                           "formula_restore"}
  <2>1. \/ e = Put(d, command.cell, command.value)
        \/ e = Drop(d, command.cell)
        \/ e = d
    BY <1>1 DEF Step, StepSet, StepUnset, StepFormulaUpdate, StepFormulaInverseRestore, StepFormulaRestore
  <2> QED BY <2>1, PutIsTable, CellEditGrows DEF Grows
<1>2. CASE command.op = "append_entity"
  <2>1. e = [d EXCEPT !.rows = Over(Only(command.row, command.fields), d.rows)]
    BY <1>2 DEF Step, StepAppendEntity, IsTable
  <2> DEFINE rows == Over(Only(command.row, command.fields), d.rows)
  <2>2. /\ IsMap(rows) /\ DOMAIN rows = {command.row} \union DOMAIN d.rows
        /\ command.row \in Nat /\ IsMap(command.fields)
    BY <1>2, OverIsMap, RestrictIsMap DEF IsCommand
  <2>3. IsFiniteSet(DOMAIN rows)
    BY <2>2, FS_AddElement DEF IsTable
  <2>4. \A r \in DOMAIN rows : IsMap(rows[r])
    BY <2>2 DEF Over, Only, IsTable
  <2>5. DOMAIN rows \subseteq Nat
    BY <2>2 DEF IsTable
  <2> HIDE DEF rows
  <2> QED BY <1>2, <2>1, <2>2, <2>3, <2>4, <2>5, NewRowsAreTable DEF Grows, RowOf, rows
<1>3. CASE command.op = "remove_entity"
  <2> DEFINE rows == Restrict(d.rows, (DOMAIN d.rows) \ {command.row})
  <2>1. e = [d EXCEPT !.rows = rows]
    BY <1>3 DEF Step, StepRemoveEntity, IsTable
  <2>2. IsMap(rows) /\ DOMAIN rows = (DOMAIN d.rows) \ {command.row}
    BY OverIsMap, RestrictIsMap
  <2>3. IsFiniteSet(DOMAIN rows)
    BY <2>2, FS_Subset DEF IsTable
  <2>4. \A r \in DOMAIN rows : IsMap(rows[r])
    BY <2>2 DEF Restrict, IsTable
  <2>5. DOMAIN rows \subseteq Nat
    BY <2>2 DEF IsTable
  <2> HIDE DEF rows
  <2> QED BY <2>1, <2>2, <2>3, <2>4, <2>5, NewRowsAreTable DEF Grows
<1>4. CASE command.op = "append_field"
  <2>1. e = [columns |-> Over(Only(command.column, command.definition), d.columns),
             order |-> Normalize(d.order, DOMAIN d.columns \union {command.column}),
             rows |-> [r \in DOMAIN d.rows |->
                         IF r \in DOMAIN command.values
                         THEN Over(Only(command.column, command.values[r]), d.rows[r])
                         ELSE d.rows[r]]]
    BY <1>4 DEF Step, StepAppendField
  <2>7. e.columns = Over(Only(command.column, command.definition), d.columns)
    BY <2>1
  <2> DEFINE columns == Over(Only(command.column, command.definition), d.columns)
  <2>9. IsMap(columns) /\ DOMAIN columns = {command.column} \union DOMAIN d.columns
    BY OverIsMap
  <2> HIDE DEF columns
  <2>8. IsMap(e.columns) /\ DOMAIN e.columns = {command.column} \union DOMAIN d.columns
    BY <2>7, <2>9 DEF columns
  <2>2. /\ IsMap(e.columns) /\ DOMAIN e.columns = {command.column} \union DOMAIN d.columns
        /\ command.column \in Nat
    BY <1>4, <2>8 DEF IsCommand
  <2>3. IsFiniteSet(DOMAIN e.columns) /\ DOMAIN e.columns \subseteq Nat
    BY <2>2, FS_AddElement, SMTT(30) DEF IsTable
  <2>4. IsMap(e.rows) /\ DOMAIN e.rows = DOMAIN d.rows
    BY <2>1 DEF IsMap
  <2>5. \A r \in DOMAIN e.rows : IsMap(e.rows[r])
    BY <2>1, OverIsMap, RestrictIsMap DEF IsTable
  <2>6. e = [columns |-> e.columns, order |-> e.order, rows |-> e.rows]
    BY <2>1
  <2> QED BY <1>4, <2>2, <2>3, <2>4, <2>5, <2>6 DEF Grows, ColumnOf, IsTable
<1>5. CASE command.op = "remove_field"
  <2>1. e = [columns |-> Restrict(d.columns, DOMAIN d.columns \ {command.column}),
             order |-> Normalize(d.order, DOMAIN d.columns \ {command.column}),
             rows |-> [r \in DOMAIN d.rows |->
                         Restrict(d.rows[r], DOMAIN d.rows[r] \ {command.column})]]
    BY <1>5 DEF Step, StepRemoveField
  <2>2. IsMap(e.columns) /\ DOMAIN e.columns = (DOMAIN d.columns) \ {command.column}
    BY <2>1, OverIsMap, RestrictIsMap
  <2>3. IsFiniteSet(DOMAIN e.columns) /\ DOMAIN e.columns \subseteq Nat
    BY <2>2, FS_Subset DEF IsTable
  <2>4. IsMap(e.rows) /\ DOMAIN e.rows = DOMAIN d.rows
    BY <2>1 DEF IsMap
  <2>5. \A r \in DOMAIN e.rows : IsMap(e.rows[r])
    BY <2>1, OverIsMap, RestrictIsMap
  <2>6. e = [columns |-> e.columns, order |-> e.order, rows |-> e.rows]
    BY <2>1
  <2> QED BY <2>2, <2>3, <2>4, <2>5, <2>6 DEF Grows, IsTable
<1>6. CASE command.op = "order"
  <2>1. e = [columns |-> d.columns, order |-> Normalize(command.order, DOMAIN d.columns), rows |-> d.rows]
    BY <1>6 DEF Step, StepOrder, IsTable
  <2> QED BY <2>1 DEF Grows, IsTable
<1>7. CASE command.op \in {"requiredness", "format", "name", "constraint"}
  <2>1. CASE command.op = "requiredness"
    <3>1. e = [d EXCEPT !.columns = [d.columns EXCEPT ![command.column] =
                  [d.columns[command.column] EXCEPT !.required = command.required]]]
      BY <2>1 DEF Step, StepRequiredness, IsTable
    <3> QED BY <3>1, NewColumnIsTable
  <2>2. CASE command.op = "format"
    <3>1. e = [d EXCEPT !.columns = [d.columns EXCEPT ![command.column] =
                  [d.columns[command.column] EXCEPT !.format = command.format]]]
      BY <2>2 DEF Step, StepNumberFormat, IsTable
    <3> QED BY <3>1, NewColumnIsTable
  <2>3. CASE command.op = "name"
    <3>1. e = [d EXCEPT !.columns = [d.columns EXCEPT ![command.column] =
                  [d.columns[command.column] EXCEPT !.name = command.name]]]
      BY <2>3 DEF Step, StepDisplayName, IsTable
    <3> QED BY <3>1, NewColumnIsTable
  <2>4. CASE command.op = "constraint"
    <3>1. e = [d EXCEPT !.columns = [d.columns EXCEPT ![command.column] =
                  [d.columns[command.column] EXCEPT !.constraint = command.constraint]]]
      BY <2>4 DEF Step, StepConstraint, IsTable
    <3> QED BY <3>1, NewColumnIsTable
  <2> QED BY <1>7, <2>1, <2>2, <2>3, <2>4
<1> QED BY <1>1, <1>2, <1>3, <1>4, <1>5, <1>6, <1>7 DEF IsCommand, Operations

\* A batch of commands is planned as a table, with no row or column but those
\* there were and those it appends.
IsBatch(commands) ==
    /\ Len(commands) \in Nat /\ DOMAIN commands = 1 .. Len(commands)
    /\ \A i \in 1 .. Len(commands) : IsCommand(commands[i])

\* So does a batch.
LEMMA PlanKeepsTable ==
  ASSUME NEW base, IsTable(base), NEW commands, IsBatch(commands), NEW e \in Plan(base, commands)
  PROVE  IsTable(e)
<1>1. PICK Universe :
        \A Good : /\ base \in Good
                  /\ \A i \in 1 .. Len(commands), d \in Good :
                       \A f \in Step(base, d, commands[i]) : f \in Universe => f \in Good
                  => \A f \in Plan(base, commands) : f \in Good
  BY PlanInduction DEF IsBatch
<1> DEFINE Good == {d \in Universe \union {base} : IsTable(d)}
<1>2. ASSUME NEW i \in 1 .. Len(commands), NEW d \in Good, NEW f \in Step(base, d, commands[i]),
             f \in Universe
      PROVE  f \in Good
  BY <1>2, StepKeepsTable DEF IsBatch
<1>3. base \in Good
  OBVIOUS
<1> HIDE DEF Good
<1>4. e \in Good
  BY <1>1, <1>2, <1>3
<1> QED BY <1>4 DEF Good

\* A batch brings in the rows and the columns its commands append, and no others.
LEMMA PlanGrows ==
  ASSUME NEW base, IsTable(base), NEW commands, IsBatch(commands), NEW e \in Plan(base, commands)
  PROVE  /\ DOMAIN e.rows \subseteq
              (DOMAIN base.rows) \union UNION {RowOf(commands[i]) : i \in 1 .. Len(commands)}
         /\ DOMAIN e.columns \subseteq
              (DOMAIN base.columns) \union UNION {ColumnOf(commands[i]) : i \in 1 .. Len(commands)}
<1> DEFINE Rows == (DOMAIN base.rows) \union UNION {RowOf(commands[i]) : i \in 1 .. Len(commands)}
           Columns ==
             (DOMAIN base.columns) \union UNION {ColumnOf(commands[i]) : i \in 1 .. Len(commands)}
<1>1. PICK Universe :
        \A Good : /\ base \in Good
                  /\ \A i \in 1 .. Len(commands), d \in Good :
                       \A f \in Step(base, d, commands[i]) : f \in Universe => f \in Good
                  => \A f \in Plan(base, commands) : f \in Good
  BY PlanInduction DEF IsBatch
<1> DEFINE Good == {d \in Universe \union {base} :
                      IsTable(d) /\ DOMAIN d.rows \subseteq Rows /\ DOMAIN d.columns \subseteq Columns}
<1>2. ASSUME NEW i \in 1 .. Len(commands), NEW d \in Good, NEW f \in Step(base, d, commands[i]),
             f \in Universe
      PROVE  f \in Good
  <2>1. IsTable(f) /\ Grows(d, f, commands[i])
    BY StepKeepsTable DEF IsBatch
  <2>2. RowOf(commands[i]) \subseteq Rows /\ ColumnOf(commands[i]) \subseteq Columns
    OBVIOUS
  <2> HIDE DEF Rows, Columns
  <2> QED BY <1>2, <2>1, <2>2 DEF Grows
<1>3. base \in Good
  OBVIOUS
<1> HIDE DEF Good
<1>4. e \in Good
  BY <1>1, <1>2, <1>3
<1> QED BY <1>4 DEF Good

\* Which cells hold formulas.
LEMMA FormulaCellsAre ==
  ASSUME NEW d
  PROVE  \A cell : cell \in FormulaCells(d) <=>
           \E r \in DOMAIN d.rows : \E c \in DOMAIN d.rows[r] :
             cell = <<r, c>> /\ Kind(d.rows[r][c]) = "formula"
BY DEF FormulaCells, CellsOfKind, Cells

-----------------------------------------------------------------------------
(* Finite sets of ids, listed.                                             *)

\* In a finite set of naturals every rank is taken.
LEMMA RankExists ==
  ASSUME NEW ids, ids \subseteq Nat, IsFiniteSet(ids), NEW i \in 1 .. Cardinality(ids)
  PROVE  \E id \in ids : Cardinality({other \in ids : other < id}) = i - 1
<1> DEFINE N == Cardinality(ids)
           Before(id) == {other \in ids : other < id}
           S == {0} \union {k \in 1 .. N : \E id \in ids : Cardinality(Before(id)) = k - 1}
<1>1. N \in Nat
  BY FS_CardinalityType
<1>2. 0 \in S
  OBVIOUS
<1>3. ASSUME NEW k \in 1 .. N, k - 1 \in S PROVE k \in S
  <2>1. CASE k = 1
    <3>1. ids # {}
      BY FS_EmptySet
    <3>2. PICK least \in ids : \A other \in ids : least <= other
      BY <3>1, LeastNat
    <3>3. \A other \in ids : least \in Nat /\ other \in Nat /\ ~(other < least)
      BY <3>2
    <3>4. Before(least) = {}
      BY <3>3
    <3>5. Cardinality(Before(least)) = k - 1
      BY <2>1, <3>4, FS_EmptySet
    <3> QED BY <3>5
  <2>2. CASE k # 1
    <3>1. PICK id \in ids : Cardinality(Before(id)) = k - 2
      BY <1>3, <2>2
    <3> DEFINE Upto == Before(id) \union {id}
               After == ids \ Upto
    <3>2. IsFiniteSet(Before(id)) /\ id \notin Before(id)
      BY FS_Subset
    <3>3. IsFiniteSet(Upto) /\ Cardinality(Upto) = k - 1
      <4> HIDE DEF Before
      <4>1. IsFiniteSet(Upto) /\ Cardinality(Upto) = Cardinality(Before(id)) + 1
        BY <3>2, FS_AddElement
      <4> QED BY <3>1, <4>1
    <3>4. After # {}
      <4> SUFFICES ASSUME After = {} PROVE FALSE
        OBVIOUS
      <4>1. Upto = ids
        OBVIOUS
      <4> QED BY <1>1, <3>3, <4>1
    <3>5. PICK next \in After : \A other \in After : next <= other
      BY <3>4, LeastNat
    <3>7. \A other \in ids : other \in Upto <=> other < id \/ other = id
      OBVIOUS
    <3>8. \A other \in ids : other < next <=> other \in Upto
      <4>1. id \in Nat /\ next \in Nat /\ next \in ids /\ ~(next < id) /\ next # id
        BY <3>7
      <4> SUFFICES ASSUME NEW other \in ids PROVE other < next <=> other \in Upto
        OBVIOUS
      <4>2. other \in Nat
        OBVIOUS
      <4>3. other \notin Upto => next <= other
        BY <3>5
      <4> QED BY <3>7, <4>1, <4>2, <4>3
    <3>6. Before(next) = Upto
      BY <3>8
    <3> QED BY <3>3, <3>5, <3>6
  <2> QED BY <2>1, <2>2
<1> HIDE DEF S
<1>4. 0 .. N \subseteq S
  BY <1>1, <1>2, <1>3, SegmentInduction
<1> QED BY <1>1, <1>4 DEF S

\* The list of the ids has one place for each and every place holds one.
LEMMA IdOrderLists ==
  ASSUME NEW ids, ids \subseteq Nat, IsFiniteSet(ids)
  PROVE  IdOrder(ids) \in [1 .. Cardinality(ids) -> ids]
BY RankExists DEF IdOrder

\* A nonempty finite set of natural numbers has a greatest element.
LEMMA GreatestNat ==
  ASSUME NEW ids, ids \subseteq Nat, IsFiniteSet(ids), ids # {}
  PROVE  \E n \in ids : \A m \in ids : m <= n
<1>1. Cardinality(ids) \in Nat /\ Cardinality(ids) # 0
  BY FS_CardinalityType, FS_EmptySet
<1>5. Cardinality(ids) \in 1 .. Cardinality(ids)
  BY <1>1
<1>2. PICK n \in ids : Cardinality({other \in ids : other < n}) = Cardinality(ids) - 1
  BY <1>5, RankExists
<1> DEFINE Upto == {other \in ids : other < n} \union {n}
<1>3. Upto \subseteq ids /\ Cardinality(Upto) = Cardinality(ids)
  <2> DEFINE Before == {other \in ids : other < n}
  <2>1. IsFiniteSet(Before) /\ n \notin Before /\ Before \subseteq ids
    BY FS_Subset
  <2>2. Cardinality(Before) = Cardinality(ids) - 1
    BY <1>2
  <2> HIDE DEF Before
  <2>3. Cardinality(Before \union {n}) = Cardinality(Before) + 1
    BY <2>1, FS_AddElement
  <2>4. Cardinality(Before \union {n}) = Cardinality(ids)
    BY <1>1, <2>2, <2>3
  <2> QED BY <2>1, <2>4 DEF Before
<1>4. Upto = ids
  BY <1>3, FS_Subset
<1> QED BY <1>4

\* The image of a finite set is finite and no larger.
LEMMA ImageIsFinite ==
  ASSUME NEW S, IsFiniteSet(S), NEW f, DOMAIN f = S
  PROVE  /\ IsFiniteSet({f[x] : x \in S})
         /\ Cardinality({f[x] : x \in S}) <= Cardinality(S)
         /\ Cardinality({f[x] : x \in S}) \in Nat
<1> DEFINE T == {f[x] : x \in S}
           g == [x \in S |-> f[x]]
<1>1. g \in Surjection(S, T)
  BY DEF Surjection
<1> HIDE DEF g, T
<1>2. IsFiniteSet(T) /\ Cardinality(T) <= Cardinality(S)
  BY <1>1, FS_Surjection
<1> QED BY <1>2, FS_CardinalityType DEF T

\* SetToSeq lists the elements of a finite set.
LEMMA SetToSeqLists ==
  ASSUME NEW S, IsFiniteSet(S)
  PROVE  SetToSeq(S) \in [1 .. Cardinality(S) -> S] /\ Cardinality(S) \in Nat
<1>1. \E f \in [1 .. Cardinality(S) -> S] : IsInjective(f)
  BY FS_NatBijection, FS_CardinalityType DEF ExistsBijection, IsInjective, Bijection, Injection
<1> QED BY <1>1, FS_CardinalityType DEF SetToSeq

-----------------------------------------------------------------------------
(* Batches as paths of documents.                                          *)

\* The documents that a batch leads through, from d to e; base is the document
\* that the whole batch was proposed on.
IsPath(path, base, d, e, commands) ==
    /\ path[0] = d /\ path[Len(commands)] = e
    /\ \A k \in 1 .. Len(commands) : path[k] \in Step(base, path[k - 1], commands[k])

Leads(base, d, e, commands) == \E path : IsPath(path, base, d, e, commands)

\* What a batch is planned as is where it leads.
LEMMA PlanLeads ==
  ASSUME NEW base, NEW commands, Len(commands) \in Nat, NEW e \in Plan(base, commands)
  PROVE  Leads(base, base, e, commands)
<1>1. PICK n, run : /\ n = Len(commands) /\ n \in Nat /\ IsRun(run, base, commands, n)
                    /\ Plan(base, commands) = run[n]
  BY PlanIsRun
<1> DEFINE Path(path, k, d) ==
             /\ path[0] = base /\ path[k] = d
             /\ \A j \in 1 .. k : path[j] \in Step(base, path[j - 1], commands[j])
           S == {k \in 0 .. n : \A d \in run[k] : \E path : Path(path, k, d)}
<1>2. 0 \in S
  <2>1. run[0] = {base}
    BY <1>1 DEF IsRun
  <2>2. Path([j \in 0 .. 0 |-> base], 0, base)
    OBVIOUS
  <2> HIDE DEF Path
  <2> QED BY <1>1, <2>1, <2>2
<1>3. ASSUME NEW k \in 1 .. n, k - 1 \in S PROVE k \in S
  <2>0. k \in 0 .. n /\ k # 0
    BY <1>1
  <2>1. run[k] = UNION {Step(base, d, commands[k]) : d \in run[k - 1]}
    <3> HIDE DEF S
    <3> QED BY <1>1, <2>0 DEF IsRun
  <2>2. ASSUME NEW d \in run[k] PROVE \E path : Path(path, k, d)
    <3>1. PICK c \in run[k - 1] : d \in Step(base, c, commands[k])
      BY <2>1
    <3>2. PICK path : Path(path, k - 1, c)
      BY <1>3
    <3> DEFINE longer == [j \in 0 .. k |-> IF j = k THEN d ELSE path[j]]
    <3>3. /\ longer[k] = d /\ longer[0] = path[0] /\ longer[k - 1] = path[k - 1]
          /\ \A j \in 1 .. k : j # k => longer[j] = path[j] /\ longer[j - 1] = path[j - 1]
                                        /\ j \in 1 .. k - 1
      OBVIOUS
    <3> HIDE DEF longer
    <3>4. Path(longer, k, d)
      BY <3>1, <3>2, <3>3
    <3> QED BY <3>4
  <2> QED BY <2>0, <2>2
<1> HIDE DEF S
<1>6. n \in Nat
  BY <1>1
<1>7. 0 .. n \subseteq S
  BY <1>2, <1>3, <1>6, SegmentInduction
<1>4. n \in S
  BY <1>6, <1>7
<1>5. PICK path : Path(path, n, e)
  BY <1>1, <1>4 DEF S
<1> QED BY <1>1, <1>5 DEF Leads, IsPath

\* Where a batch leads it is planned as.
LEMMA LeadsPlan ==
  ASSUME NEW base, NEW commands, Len(commands) \in Nat, NEW e, Leads(base, base, e, commands)
  PROVE  e \in Plan(base, commands)
<1>1. PICK n, run : /\ n = Len(commands) /\ n \in Nat /\ IsRun(run, base, commands, n)
                    /\ Plan(base, commands) = run[n]
  BY PlanIsRun
<1>2. PICK path : IsPath(path, base, base, e, commands)
  BY DEF Leads
<1> DEFINE S == {k \in 0 .. n : path[k] \in run[k]}
<1>3. 0 \in S
  <2>1. run[0] = {base}
    BY <1>1 DEF IsRun
  <2> QED BY <1>1, <1>2, <2>1 DEF IsPath
<1>4. ASSUME NEW k \in 1 .. n, k - 1 \in S PROVE k \in S
  <2>0. k \in 0 .. n /\ k # 0
    BY <1>1
  <2>1. path[k - 1] \in run[k - 1]
    BY <1>4
  <2>2. path[k] \in Step(base, path[k - 1], commands[k])
    BY <1>1, <1>2 DEF IsPath
  <2> HIDE DEF S
  <2>3. run[k] = UNION {Step(base, d, commands[k]) : d \in run[k - 1]}
    BY <1>1, <2>0 DEF IsRun
  <2> QED BY <2>0, <2>1, <2>2, <2>3 DEF S
<1> HIDE DEF S
<1>6. n \in Nat
  BY <1>1
<1>7. 0 .. n \subseteq S
  BY <1>3, <1>4, <1>6, SegmentInduction
<1>5. n \in S
  BY <1>6, <1>7
<1> QED BY <1>1, <1>2, <1>5 DEF S, IsPath

\* A batch of one command leads where the command does.
LEMMA OneLeads ==
  ASSUME NEW base, NEW d, NEW e, NEW command
  PROVE  Leads(base, d, e, <<command>>) <=> e \in Step(base, d, command)
<1>1. ASSUME e \in Step(base, d, command) PROVE Leads(base, d, e, <<command>>)
  <2> DEFINE path == [k \in 0 .. 1 |-> IF k = 0 THEN d ELSE e]
  <2>1. path[0] = d /\ path[1] = e
    OBVIOUS
  <2> HIDE DEF path
  <2>2. IsPath(path, base, d, e, <<command>>)
    BY <1>1, <2>1 DEF IsPath
  <2> QED BY <2>2 DEF Leads
<1> QED BY <1>1 DEF Leads, IsPath

\* One batch after the other.
LEMMA JoinLeads ==
  ASSUME NEW base, NEW d, NEW m, NEW e, NEW S, NEW first \in Seq(S), NEW second \in Seq(S)
  PROVE  /\ Leads(base, d, m, first) /\ Leads(base, m, e, second)
              => Leads(base, d, e, first \o second)
         /\ Leads(base, d, e, first \o second)
              => \E middle : Leads(base, d, middle, first) /\ Leads(base, middle, e, second)
<1> DEFINE n == Len(first)
           all == first \o second
<1>1. /\ n \in Nat /\ Len(second) \in Nat /\ Len(all) = n + Len(second)
      /\ \A k \in 1 .. n : all[k] = first[k]
      /\ \A k \in 1 .. Len(second) : all[n + k] = second[k]
  OBVIOUS
<1> HIDE DEF n, all
<1>2. ASSUME Leads(base, d, m, first), Leads(base, m, e, second) PROVE Leads(base, d, e, all)
  <2>1. PICK p, q : IsPath(p, base, d, m, first) /\ IsPath(q, base, m, e, second)
    BY <1>2 DEF Leads
  <2> DEFINE path == [k \in 0 .. Len(all) |-> IF k <= n THEN p[k] ELSE q[k - n]]
  <2>2. \A k \in 0 .. n : path[k] = p[k]
    BY <1>1
  <2>3. \A k \in 0 .. Len(second) : path[n + k] = q[k]
    <3> SUFFICES ASSUME NEW k \in 0 .. Len(second) PROVE path[n + k] = q[k]
      OBVIOUS
    <3>1. p[n] = q[0]
      BY <2>1 DEF IsPath, n
    <3>2. n + k \in 0 .. Len(all) /\ (n + k) - n = k /\ (n + k <= n <=> k = 0)
      BY <1>1
    <3>3. path[n + k] = IF n + k <= n THEN p[n + k] ELSE q[(n + k) - n]
      BY <3>2
    <3>4. n + 0 = n
      BY <1>1
    <3>5. CASE k = 0
      BY <3>1, <3>2, <3>3, <3>4, <3>5
    <3>6. CASE k # 0
      BY <3>2, <3>3, <3>6
    <3> QED BY <3>5, <3>6
  <2> HIDE DEF path
  <2>4. path[0] = d /\ path[Len(all)] = e
    <3>1. path[0] = p[0] /\ path[n + Len(second)] = q[Len(second)]
      BY <1>1, <2>2, <2>3
    <3> QED BY <1>1, <2>1, <3>1 DEF IsPath
  <2>5. ASSUME NEW k \in 1 .. Len(all) PROVE path[k] \in Step(base, path[k - 1], all[k])
    <3>1. CASE k <= n
      <4>1. k \in 1 .. n /\ path[k] = p[k] /\ path[k - 1] = p[k - 1] /\ all[k] = first[k]
        BY <1>1, <2>2, <3>1, SMTT(30)
      <4> QED BY <2>1, <4>1 DEF IsPath, n
    <3>2. CASE ~(k <= n)
      <4>1. PICK j \in 1 .. Len(second) : k = n + j
        <5>1. k - n \in 1 .. Len(second) /\ k = n + (k - n)
          BY <1>1, <3>2
        <5> QED BY <5>1
      <4>2. j \in 0 .. Len(second) /\ j - 1 \in 0 .. Len(second) /\ k - 1 = n + (j - 1)
        BY <1>1, <4>1
      <4>3. path[k] = q[j] /\ path[k - 1] = q[j - 1] /\ all[k] = second[j]
        BY <1>1, <2>3, <4>1, <4>2
      <4> QED BY <2>1, <4>3 DEF IsPath
    <3> QED BY <3>1, <3>2
  <2> QED BY <2>4, <2>5 DEF Leads, IsPath
<1>3. ASSUME Leads(base, d, e, all)
      PROVE  \E middle : Leads(base, d, middle, first) /\ Leads(base, middle, e, second)
  <2>1. PICK path : IsPath(path, base, d, e, all)
    BY <1>3 DEF Leads
  <2>2. IsPath(path, base, d, path[n], first)
    <3>1. ASSUME NEW k \in 1 .. n PROVE path[k] \in Step(base, path[k - 1], first[k])
      <4>1. k \in 1 .. Len(all) /\ all[k] = first[k]
        BY <1>1
      <4> QED BY <2>1, <4>1 DEF IsPath
    <3> QED BY <2>1, <3>1 DEF IsPath, n
  <2> DEFINE rest == [k \in 0 .. Len(second) |-> path[n + k]]
  <2>3. IsPath(rest, base, path[n], e, second)
    <3>1. rest[0] = path[n] /\ rest[Len(second)] = e
      BY <1>1, <2>1 DEF IsPath
    <3>2. ASSUME NEW k \in 1 .. Len(second) PROVE rest[k] \in Step(base, rest[k - 1], second[k])
      <4>1. /\ n + k \in 1 .. Len(all) /\ all[n + k] = second[k]
            /\ rest[k] = path[n + k] /\ rest[k - 1] = path[(n + k) - 1]
        <5>1. n + k \in 1 .. Len(all) /\ n + (k - 1) = (n + k) - 1
          BY <1>1
        <5> QED BY <1>1, <5>1
      <4> QED BY <2>1, <4>1 DEF IsPath
    <3> QED BY <3>1, <3>2 DEF IsPath
  <2> QED BY <2>2, <2>3 DEF Leads
<1> QED BY <1>2, <1>3 DEF all
\* A batch that is taken back one command after the other, the last one first.
LEMMA BackLeads ==
  ASSUME NEW base, NEW d, NEW e, NEW commands, NEW S, NEW back \in Seq(S),
         NEW path, path[0] = d, path[Len(commands)] = e, Len(back) = Len(commands),
         \A k \in 1 .. Len(commands) : path[k - 1] \in Step(base, path[k], back[k])
  PROVE  Leads(base, e, d, Reverse(back))
<1> DEFINE n == Len(back)
           home == [k \in 0 .. n |-> path[n - k]]
<1>1. n \in Nat /\ Len(Reverse(back)) = n /\ n = Len(commands)
      /\ \A k \in 1 .. n : Reverse(back)[k] = back[(n - k) + 1]
  BY DEF Reverse
<1> HIDE DEF n
<1>2. home[0] = e /\ home[n] = d
  BY <1>1
<1>3. ASSUME NEW k \in 1 .. n PROVE home[k] \in Step(base, home[k - 1], Reverse(back)[k])
  <2>1. /\ (n - k) + 1 \in 1 .. n /\ ((n - k) + 1) - 1 = n - k /\ n - (k - 1) = (n - k) + 1
        /\ k - 1 \in 0 .. n /\ k \in 0 .. n
    BY <1>1
  <2>2. home[k] = path[n - k] /\ home[k - 1] = path[(n - k) + 1]
    BY <2>1
  <2>3. path[((n - k) + 1) - 1] \in Step(base, path[(n - k) + 1], back[(n - k) + 1])
    BY <1>1, <2>1
  <2> QED BY <1>1, <2>1, <2>2, <2>3
<1> HIDE DEF home
<1> QED BY <1>1, <1>2, <1>3 DEF Leads, IsPath

-----------------------------------------------------------------------------
(* Cells.                                                                  *)

\* Tables with the same columns, order, rows and contents are the same.
LEMMA SameTable ==
  ASSUME NEW d, NEW e, IsTable(d), IsTable(e), e.columns = d.columns, e.order = d.order,
         DOMAIN e.rows = DOMAIN d.rows, \A r, c : Content(e, <<r, c>>) = Content(d, <<r, c>>)
  PROVE  e = d
<1>1. ASSUME NEW r \in DOMAIN d.rows PROVE e.rows[r] = d.rows[r]
  <2>1. IsMap(e.rows[r]) /\ IsMap(d.rows[r])
    BY DEF IsTable
  <2>2. ASSUME NEW c PROVE c \in DOMAIN e.rows[r] <=> c \in DOMAIN d.rows[r]
    <3>1. Content(e, <<r, c>>) = Content(d, <<r, c>>)
      OBVIOUS
    <3> QED BY <3>1 DEF Content, Present
  <2>3. ASSUME NEW c \in DOMAIN d.rows[r] PROVE e.rows[r][c] = d.rows[r][c]
    <3>1. Content(e, <<r, c>>) = Content(d, <<r, c>>) /\ c \in DOMAIN e.rows[r]
      BY <2>2
    <3> QED BY <3>1 DEF Content, Present
  <2>4. DOMAIN e.rows[r] = DOMAIN d.rows[r]
    BY <2>2
  <2> QED BY <2>1, <2>3, <2>4 DEF IsMap
<1>2. IsMap(e.rows) /\ IsMap(d.rows)
  BY DEF IsTable
<1>3. e.rows = d.rows
  BY <1>1, <1>2 DEF IsMap
<1> QED BY <1>3 DEF IsTable

CellOperations ==
    {"set", "unset", "formula_update", "formula_inverse_restore", "formula_restore"}

\* What a command of one cell leaves in it.
NewContent(command) == IF command.op = "unset" THEN {} ELSE {command.value}

SameShape(d, e) ==
    /\ IsTable(e) /\ e.columns = d.columns /\ e.order = d.order /\ DOMAIN e.rows = DOMAIN d.rows

\* e is d but for the content of one cell.
IsChange(d, e, cell, content) ==
    /\ SameShape(d, e)
    /\ \A r, c : Content(e, <<r, c>>) =
                   IF r = cell[1] /\ c = cell[2] THEN content ELSE Content(d, <<r, c>>)

LEMMA PutIsChange ==
  ASSUME NEW d, IsTable(d), NEW cell, cell[1] \in DOMAIN d.rows, NEW value
  PROVE  IsChange(d, Put(d, cell, value), cell, {value})
         /\ IsChange(d, Drop(d, cell), cell, {})
<1>1. /\ Put(d, cell, value).columns = d.columns /\ Drop(d, cell).columns = d.columns
      /\ Put(d, cell, value).order = d.order /\ Drop(d, cell).order = d.order
      /\ Put(d, cell, value).rows = [d.rows EXCEPT ![cell[1]] = Over(Only(cell[2], value), @)]
      /\ Drop(d, cell).rows = [d.rows EXCEPT ![cell[1]] = Restrict(@, DOMAIN @ \ {cell[2]})]
  BY DEF IsTable, Put, Drop
<1>2. SameShape(d, Put(d, cell, value)) /\ SameShape(d, Drop(d, cell))
  BY <1>1, PutIsTable DEF SameShape
<1> DEFINE over == Over(Only(cell[2], value), d.rows[cell[1]])
           cut == Restrict(d.rows[cell[1]], DOMAIN d.rows[cell[1]] \ {cell[2]})
<1>3. /\ DOMAIN over = {cell[2]} \union DOMAIN d.rows[cell[1]] /\ over[cell[2]] = value
      /\ \A c \in DOMAIN d.rows[cell[1]] : c # cell[2] => over[c] = d.rows[cell[1]][c]
      /\ DOMAIN cut = DOMAIN d.rows[cell[1]] \ {cell[2]}
      /\ \A c \in DOMAIN d.rows[cell[1]] : c # cell[2] => cut[c] = d.rows[cell[1]][c]
  BY DEF Over, Only, Restrict
<1>4. /\ Put(d, cell, value).rows[cell[1]] = over /\ Drop(d, cell).rows[cell[1]] = cut
      /\ \A r \in DOMAIN d.rows : r # cell[1] =>
           Put(d, cell, value).rows[r] = d.rows[r] /\ Drop(d, cell).rows[r] = d.rows[r]
  BY <1>1
<1> HIDE DEF over, cut
<1>5. ASSUME NEW r, NEW c
      PROVE  /\ Content(Put(d, cell, value), <<r, c>>) =
                  IF r = cell[1] /\ c = cell[2] THEN {value} ELSE Content(d, <<r, c>>)
             /\ Content(Drop(d, cell), <<r, c>>) =
                  IF r = cell[1] /\ c = cell[2] THEN {} ELSE Content(d, <<r, c>>)
  <2>1. DOMAIN Put(d, cell, value).rows = DOMAIN d.rows /\ DOMAIN Drop(d, cell).rows = DOMAIN d.rows
    BY <1>1
  <2>2. CASE r = cell[1]
    BY <1>3, <1>4, <2>1, <2>2 DEF Content, Present
  <2>3. CASE r # cell[1]
    BY <1>4, <2>1, <2>3 DEF Content, Present
  <2> QED BY <2>2, <2>3
<1> QED BY <1>2, <1>5 DEF IsChange

\* A command of one cell leaves its content there and the rest alone.
LEMMA CellStepChanges ==
  ASSUME NEW base, NEW d, IsTable(d), NEW command, command.op \in CellOperations,
         NEW e \in Step(base, d, command)
  PROVE  IsChange(d, e, command.cell, NewContent(command))
<1> USE DEF If
<1> DEFINE cell == command.cell
<1>1. CASE command.op = "unset"
  <2>1. cell[1] \in DOMAIN d.rows /\ (e = Drop(d, cell) \/ (~Present(d, cell) /\ e = d))
    BY <1>1 DEF Step, StepUnset, Declared
  <2>2. CASE e = Drop(d, cell)
    BY <1>1, <2>1, <2>2, PutIsChange DEF NewContent
  <2>3. CASE ~Present(d, cell) /\ e = d
    <3>1. \A r, c : r = cell[1] /\ c = cell[2] => Content(d, <<r, c>>) = {}
      BY <2>3 DEF Content, Present
    <3> QED BY <1>1, <2>3, <3>1 DEF IsChange, SameShape, NewContent
  <2> QED BY <2>1, <2>2, <2>3
<1>2. CASE command.op # "unset"
  <2>1. cell \in FormulaCells(d) => cell[1] \in DOMAIN d.rows
    BY DEF FormulaCells, CellsOfKind, Cells
  <2>2. cell[1] \in DOMAIN d.rows /\ e = Put(d, cell, command.value)
    BY <1>2, <2>1 DEF Step, CellOperations, StepSet, StepFormulaUpdate, StepFormulaRestore,
                      StepFormulaInverseRestore, Declared
  <2> QED BY <1>2, <2>2, PutIsChange DEF NewContent
<1> QED BY <1>1, <1>2

\* A batch that names each cell once, up to its command n.
IsCellBatch(commands, n) ==
    \A i \in 1 .. n :
      /\ commands[i].op \in CellOperations
      /\ commands[i].cell \in Nat \X Nat
      /\ \A j \in 1 .. n : commands[j].cell = commands[i].cell => i = j

\* e is d with what the first k commands leave in their cells.
Laid(d, e, commands, k) ==
    /\ SameShape(d, e)
    /\ \A i \in 1 .. k : Content(e, commands[i].cell) = NewContent(commands[i])
    /\ \A r, c : (\A i \in 1 .. k : commands[i].cell # <<r, c>>)
                   => Content(e, <<r, c>>) = Content(d, <<r, c>>)

LEMMA LaidNext ==
  ASSUME NEW base, NEW d, NEW n \in Nat, NEW commands, IsCellBatch(commands, n), NEW k \in 1 .. n,
         NEW m, Laid(d, m, commands, k - 1), NEW e \in Step(base, m, commands[k])
  PROVE  Laid(d, e, commands, k)
<1> DEFINE cell == commands[k].cell
<1>1. IsChange(m, e, cell, NewContent(commands[k]))
  BY CellStepChanges DEF IsCellBatch, Laid, SameShape
<1>2. SameShape(d, e)
  BY <1>1 DEF IsChange, SameShape, Laid
<1>3. cell = <<cell[1], cell[2]>>
  BY DEF IsCellBatch
<1>4. ASSUME NEW i \in 1 .. k PROVE Content(e, commands[i].cell) = NewContent(commands[i])
  <2>1. commands[i].cell = <<commands[i].cell[1], commands[i].cell[2]>> /\ i \in 1 .. n
    BY DEF IsCellBatch
  <2>2. CASE i = k
    BY <1>1, <1>3, <2>2 DEF IsChange
  <2>3. CASE i # k
    <3>1. i \in 1 .. k - 1 /\ commands[i].cell # cell
      BY <2>1, <2>3 DEF IsCellBatch
    <3>2. ~(commands[i].cell[1] = cell[1] /\ commands[i].cell[2] = cell[2])
      BY <1>3, <2>1, <3>1
    <3>3. Content(e, commands[i].cell) = Content(m, commands[i].cell)
      BY <1>1, <2>1, <3>2 DEF IsChange
    <3> QED BY <3>1, <3>3 DEF Laid
  <2> QED BY <2>2, <2>3
<1>5. ASSUME NEW r, NEW c, \A i \in 1 .. k : commands[i].cell # <<r, c>>
      PROVE  Content(e, <<r, c>>) = Content(d, <<r, c>>)
  <2>1. ~(r = cell[1] /\ c = cell[2])
    BY <1>3, <1>5
  <2>2. \A i \in 1 .. k - 1 : commands[i].cell # <<r, c>>
    BY <1>5
  <2> QED BY <1>1, <2>1, <2>2 DEF IsChange, Laid
<1> QED BY <1>2, <1>4, <1>5 DEF Laid

\* The cells along the path of such a batch.
LEMMA CellPath ==
  ASSUME NEW base, NEW d, IsTable(d), NEW n \in Nat, NEW commands, IsCellBatch(commands, n),
         NEW path, path[0] = d,
         \A k \in 1 .. n : path[k] \in Step(base, path[k - 1], commands[k])
  PROVE  Laid(d, path[n], commands, n)
<1> DEFINE S == {k \in 0 .. n : Laid(d, path[k], commands, k)}
<1>1. 0 \in S
  <2>1. Laid(d, d, commands, 0)
    BY DEF Laid, SameShape
  <2> QED BY <2>1
<1>2. ASSUME NEW k \in 1 .. n, k - 1 \in S PROVE k \in S
  <2>1. Laid(d, path[k - 1], commands, k - 1) /\ k \in 0 .. n
    BY <1>2
  <2>2. Laid(d, path[k], commands, k)
    BY <2>1, LaidNext
  <2> QED BY <2>1, <2>2
<1> HIDE DEF S
<1>3. 0 .. n \subseteq S
  BY <1>1, <1>2, SegmentInduction
<1> QED BY <1>3 DEF S

\* A batch on the cells in which e differs from d leads from one to the other,
\* when each of its commands has somewhere to lead.
LEMMA CellsLead ==
  ASSUME NEW base, NEW d, NEW e, IsTable(e), SameShape(e, d),
         NEW commands, NEW n \in Nat, Len(commands) = n, IsCellBatch(commands, n),
         \A i \in 1 .. n : NewContent(commands[i]) = Content(d, commands[i].cell),
         \A r, c : (\A i \in 1 .. n : commands[i].cell # <<r, c>>)
                     => Content(d, <<r, c>>) = Content(e, <<r, c>>),
         \A i \in 1 .. n : \A m : Laid(e, m, commands, i - 1) => Step(base, m, commands[i]) # {}
  PROVE  Leads(base, e, d, commands)
<1> DEFINE Path(path, k) == /\ path[0] = e
                            /\ \A j \in 1 .. k : path[j] \in Step(base, path[j - 1], commands[j])
           S == {k \in 0 .. n : \E path : Path(path, k)}
<1>1. 0 \in S
  <2>1. Path([j \in 0 .. 0 |-> e], 0)
    OBVIOUS
  <2> HIDE DEF Path
  <2> QED BY <2>1
<1>2. ASSUME NEW k \in 1 .. n, k - 1 \in S PROVE k \in S
  <2>1. PICK path : Path(path, k - 1)
    BY <1>2
  <2>2. k - 1 \in Nat /\ IsCellBatch(commands, k - 1)
    BY DEF IsCellBatch
  <2>3. Laid(e, path[k - 1], commands, k - 1)
    BY <2>1, <2>2, CellPath
  <2>4. PICK next : next \in Step(base, path[k - 1], commands[k])
    BY <2>3
  <2> DEFINE longer == [j \in 0 .. k |-> IF j = k THEN next ELSE path[j]]
  <2>5. /\ longer[k] = next /\ longer[0] = path[0] /\ longer[k - 1] = path[k - 1]
        /\ \A j \in 1 .. k : j # k => longer[j] = path[j] /\ longer[j - 1] = path[j - 1]
                                      /\ j \in 1 .. k - 1
    OBVIOUS
  <2> HIDE DEF longer
  <2>6. Path(longer, k)
    BY <2>1, <2>4, <2>5
  <2> HIDE DEF Path
  <2> QED BY <2>6
<1> HIDE DEF S
<1>3. 0 .. n \subseteq S
  BY <1>1, <1>2, SegmentInduction
<1>4. PICK path : Path(path, n)
  BY <1>3 DEF S
<1>5. Laid(e, path[n], commands, n)
  BY <1>4, CellPath
<1>6. ASSUME NEW r, NEW c PROVE Content(path[n], <<r, c>>) = Content(d, <<r, c>>)
  <2>1. CASE \E i \in 1 .. n : commands[i].cell = <<r, c>>
    BY <1>5, <2>1 DEF Laid
  <2>2. CASE \A i \in 1 .. n : commands[i].cell # <<r, c>>
    BY <1>5, <2>2 DEF Laid
  <2> QED BY <2>1, <2>2
<1>7. path[n] = d
  BY <1>5, <1>6, SameTable DEF Laid, SameShape
<1> QED BY <1>4, <1>7 DEF Leads, IsPath

-----------------------------------------------------------------------------
(* What a valid table guarantees.                                          *)

\* The numbers that cells come to, up to a depth (NumberOf).
IsNumbering(number, d, n) ==
    number = [depth \in 0 .. n |->
               [c \in Nat \X Nat |->
                  IF ~Present(d, c) \/ depth = 0 THEN 0
                  ELSE CASE Kind(d.rows[c[1]][c[2]]) = "number" -> d.rows[c[1]][c[2]][2]
                         [] Kind(d.rows[c[1]][c[2]]) = "text" -> 0
                         [] OTHER -> LET divisor == number[depth - 1][ReadBy(d, c)]
                                     IN IF divisor = 0 THEN 0 ELSE Dividend \div divisor]]

LEMMA NumberingExists ==
  ASSUME NEW d, NEW N \in Nat
  PROVE  \E number : IsNumbering(number, d, N)
<1> DEFINE Numbered(below, c) ==
             CASE Kind(d.rows[c[1]][c[2]]) = "number" -> d.rows[c[1]][c[2]][2]
               [] Kind(d.rows[c[1]][c[2]]) = "text" -> 0
               [] OTHER -> LET divisor == below[ReadBy(d, c)]
                           IN IF divisor = 0 THEN 0 ELSE Dividend \div divisor
           Layer(below, k) == [c \in Nat \X Nat |->
                                 IF ~Present(d, c) \/ k = 0 THEN 0 ELSE Numbered(below, c)]
           IsLayered(f, n) == f = [k \in 0 .. n |-> Layer(f[k - 1], k)]
           S == {n \in 0 .. N : \E f : IsLayered(f, n)}
<1>1. 0 \in S
  <2> HIDE DEF Numbered
  <2> DEFINE f == [k \in 0 .. 0 |-> [c \in Nat \X Nat |-> 0]]
  <2>1. \A below : Layer(below, 0) = [c \in Nat \X Nat |-> 0]
    OBVIOUS
  <2> HIDE DEF Layer
  <2>2. IsLayered(f, 0)
    BY <2>1
  <2> QED BY <2>2
<1> HIDE DEF Layer
<1>2. ASSUME NEW n \in 1 .. N, n - 1 \in S PROVE n \in S
  <2>1. PICK f : IsLayered(f, n - 1)
    BY <1>2
  <2> DEFINE longer == [k \in 0 .. n |-> IF k = n THEN Layer(f[n - 1], n) ELSE f[k]]
  <2>2. /\ longer[n] = Layer(f[n - 1], n)
        /\ \A k \in 0 .. n : k # n => k \in 0 .. n - 1 /\ longer[k] = f[k]
        /\ \A k \in 0 .. n : k # 0 => longer[k - 1] = f[k - 1]
        /\ longer = [k \in 0 .. n |-> longer[k]]
    OBVIOUS
  <2> HIDE DEF longer
  <2>4. longer[0] = Layer(longer[0 - 1], 0)
    <3>1. \A below : Layer(below, 0) = [c \in Nat \X Nat |-> 0]
      BY DEF Layer
    <3>2. 0 \in 0 .. n - 1 /\ 0 \in 0 .. n /\ 0 # n
      OBVIOUS
    <3>3. f[0] = Layer(f[0 - 1], 0) /\ longer[0] = f[0]
      BY <2>1, <2>2, <3>2
    <3> QED BY <3>1, <3>3
  <2>3. ASSUME NEW k \in 0 .. n PROVE longer[k] = Layer(longer[k - 1], k)
    <3>1. CASE k = n
      <4>1. longer[k - 1] = f[n - 1]
        BY <2>2, <3>1
      <4> QED BY <2>2, <3>1, <4>1
    <3>2. CASE k # n
      <4>1. k = 0 \/ longer[k - 1] = f[k - 1]
        BY <2>2
      <4>2. f[k] = Layer(f[k - 1], k) /\ longer[k] = f[k]
        BY <2>1, <2>2, <3>2
      <4> QED BY <2>4, <4>1, <4>2
    <3> QED BY <3>1, <3>2
  <2>5. IsLayered(longer, n)
    BY <2>2, <2>3
  <2> QED BY <2>5
<1> HIDE DEF S
<1>3. 0 .. N \subseteq S
  BY <1>1, <1>2, SegmentInduction
<1>4. PICK f : IsLayered(f, N)
  BY <1>3 DEF S
<1>5. IsNumbering(f, d, N)
  BY <1>4 DEF IsNumbering, Layer
<1> QED BY <1>5


\* A formula that comes to a number reads a cell that holds something.
LEMMA CalculatedReadPresent ==
  ASSUME NEW d, IsTable(d), IsTyped(d), IsFiniteSet(FormulaCells(d)),
         NEW cell \in FormulaCells(d), cell \in Nat \X Nat, NumberOf(d, cell) # 0
  PROVE  Present(d, ReadBy(d, cell)) /\ ReadBy(d, cell) \in Nat \X Nat
<1> DEFINE n == Cardinality(FormulaCells(d)) + 1
           numbering == CHOOSE number : IsNumbering(number, d, n)
<1>1. n \in Nat /\ n # 0 /\ n \in 0 .. n /\ n - 1 \in 0 .. n
  BY FS_CardinalityType
<1>2. NumberOf(d, cell) = numbering[n][cell]
  BY DEF NumberOf, IsNumbering
<1> HIDE DEF n
<1>3. IsNumbering(numbering, d, n)
  BY <1>1, NumberingExists
<1> HIDE DEF numbering
<1>4. Present(d, cell) /\ Kind(d.rows[cell[1]][cell[2]]) = "formula" /\ IsValue(d.rows[cell[1]][cell[2]])
  BY DEF FormulaCells, CellsOfKind, Cells, Present, IsTyped
<1>5. ReadBy(d, cell) \in Nat \X Nat
  BY <1>4 DEF IsValue, ReadBy, Types
<1> DEFINE divisor == numbering[n - 1][ReadBy(d, cell)]
<1>6. numbering[n][cell] = IF divisor = 0 THEN 0 ELSE Dividend \div divisor
  <2> DEFINE value == d.rows[cell[1]][cell[2]]
             below == numbering[n - 1]
  <2>4. numbering[n] =
          [c \in Nat \X Nat |->
             IF ~Present(d, c) \/ n = 0 THEN 0
             ELSE CASE Kind(d.rows[c[1]][c[2]]) = "number" -> d.rows[c[1]][c[2]][2]
                    [] Kind(d.rows[c[1]][c[2]]) = "text" -> 0
                    [] OTHER -> IF numbering[n - 1][ReadBy(d, c)] = 0 THEN 0
                                ELSE Dividend \div numbering[n - 1][ReadBy(d, c)]]
    BY <1>1, <1>3 DEF IsNumbering
  <2>1. numbering[n][cell] =
          IF ~Present(d, cell) \/ n = 0 THEN 0
          ELSE CASE Kind(value) = "number" -> value[2]
                 [] Kind(value) = "text" -> 0
                 [] OTHER -> IF below[ReadBy(d, cell)] = 0 THEN 0
                             ELSE Dividend \div below[ReadBy(d, cell)]
    BY <2>4
  <2>2. Kind(value) = "formula"
    BY <1>4
  <2> HIDE DEF value, below
  <2>3. numbering[n][cell] = IF below[ReadBy(d, cell)] = 0 THEN 0
                             ELSE Dividend \div below[ReadBy(d, cell)]
    BY <1>1, <1>4, <2>1, <2>2
  <2> QED BY <2>3 DEF below
<1>7. divisor # 0
  BY <1>2, <1>6
<1>8. ~Present(d, ReadBy(d, cell)) => divisor = 0
  BY <1>1, <1>3, <1>5 DEF IsNumbering
<1> QED BY <1>5, <1>7, <1>8

GoodTable(d) == IsTable(d) /\ IsTyped(d) /\ Valid(d)

LEMMA SourcesAreDeclared ==
  ASSUME NEW d, GoodTable(d), NEW cell \in FormulaCells(d)
  PROVE  Declared(d, ReadBy(d, cell)) /\ ReadBy(d, cell) \in Nat \X Nat
<1>1. /\ IsFiniteSet(DOMAIN d.rows) /\ DOMAIN d.rows \subseteq Nat
      /\ IsFiniteSet(DOMAIN d.columns) /\ DOMAIN d.columns \subseteq Nat
      /\ \A r \in DOMAIN d.rows : DOMAIN d.rows[r] \subseteq DOMAIN d.columns
      /\ FormulaCells(d) = Calculated(d)
  BY DEF GoodTable, IsTable, Valid, NativeShape
<1>2. FormulaCells(d) \subseteq (DOMAIN d.rows) \X (DOMAIN d.columns)
  BY <1>1 DEF FormulaCells, CellsOfKind, Cells
<1>3. IsFiniteSet(FormulaCells(d))
  BY <1>1, <1>2, FS_Product, FS_Subset
<1>4. cell \in Nat \X Nat /\ NumberOf(d, cell) # 0
  BY <1>1, <1>2 DEF Calculated
<1>5. Present(d, ReadBy(d, cell)) /\ ReadBy(d, cell) \in Nat \X Nat
  BY <1>3, <1>4, CalculatedReadPresent DEF GoodTable
<1> QED BY <1>1, <1>5 DEF Present, Declared

\* Which command takes a cell back to its old content from the new one.
IsWayBack(op, old, new) ==
    \/ op = "unset" /\ old = {}
    \/ /\ op = "set"
       /\ new = {} => \A v \in old : Kind(v) # "formula"
       /\ (\E v \in new : Kind(v) = "formula") => \A v \in old : Kind(v) = "formula"
    \/ op = "formula_restore" /\ new = {} /\ \A v \in old : Kind(v) = "formula"
    \/ op = "formula_inverse_restore" /\ \E v \in new : Kind(v) = "formula"
    \/ op = "formula_update" /\ \A v \in old : Kind(v) = "formula"

\* Such a command is accepted on a table m of the columns of d, which has in
\* that cell what the good table e has.
LEMMA CellGoesBack ==
  ASSUME NEW base, NEW d, NEW e, NEW m, GoodTable(d), NativeShape(e), IsTable(m),
         e.columns = d.columns, m.columns = d.columns,
         DOMAIN d.rows \subseteq DOMAIN e.rows, DOMAIN d.rows \subseteq DOMAIN m.rows,
         NEW r \in DOMAIN d.rows, NEW c \in DOMAIN d.columns,
         Content(m, <<r, c>>) = Content(e, <<r, c>>), Content(d, <<r, c>>) # Content(e, <<r, c>>),
         NEW command, command.cell = <<r, c>>, NewContent(command) = Content(d, <<r, c>>),
         IsWayBack(command.op, Content(d, <<r, c>>), Content(e, <<r, c>>))
  PROVE  Step(base, m, command) # {}
<1> DEFINE old == Content(d, <<r, c>>)
           new == Content(e, <<r, c>>)
           column == d.columns[c]
           value == command.value
<1> USE DEF If
<1>1. command.op # "unset" => old = {value} /\ Present(d, <<r, c>>) /\ value = d.rows[r][c]
  BY DEF NewContent, Content
<1>2. command.op # "unset" => Fits(value, column) /\ IsValue(value)
  BY <1>1 DEF GoodTable, Valid, NativeShape, IsTyped, Present
<1>3. column.type \in Types
  BY DEF GoodTable, IsTyped, IsDefinition
<1>4. new = {} => ~column.required
  BY DEF NativeShape, Content, Present
<1>5. old = {} => ~column.required
  BY DEF GoodTable, Valid, NativeShape, Content, Present
<1>6. ASSUME command.op # "unset", Kind(value) = "formula" PROVE Declared(m, Source(value))
  <2>1. <<r, c>> \in FormulaCells(d) /\ ReadBy(d, <<r, c>>) = Source(value)
    BY <1>1, <1>6 DEF FormulaCells, CellsOfKind, Cells, Present, ReadBy
  <2>2. Declared(d, Source(value))
    BY <2>1, SourcesAreDeclared
  <2> QED BY <2>2 DEF Declared
<1>7. Declared(m, <<r, c>>) /\ m.columns[c] = column
  BY DEF Declared
<1>8. Present(m, <<r, c>>) <=> new # {}
  BY DEF Content
<1>9. command.op \in {"set", "formula_update"} /\ (new = {} => Kind(value) # "formula")
        /\ ((\E v \in new : Kind(v) = "formula") => Kind(value) = "formula")
        => StepSet(m, <<r, c>>, value) # {}
  <2> SUFFICES ASSUME command.op # "unset", new = {} => Kind(value) # "formula",
                      (\E v \in new : Kind(v) = "formula") => Kind(value) = "formula"
               PROVE  StepSet(m, <<r, c>>, value) # {}
    OBVIOUS
  <2>1. value \notin new
    BY <1>1 DEF Content
  <2> HIDE DEF old, new, column, value
  <2> QED BY <1>2, <1>4, <1>6, <1>7, <2>1 DEF StepSet, new
<1>10. command.op \in {"formula_restore", "formula_update"} /\ new = {} /\ Kind(value) = "formula"
         => StepFormulaRestore(m, <<r, c>>, value) # {}
  BY <1>2, <1>3, <1>4, <1>7, <1>8 DEF StepFormulaRestore, Fits, Types
<1> HIDE DEF old, new
<1>11. CASE command.op = "unset"
  BY <1>5, <1>7, <1>11 DEF Step, StepUnset, IsWayBack, old
<1>12. CASE command.op = "set"
  BY <1>1, <1>9, <1>12 DEF Step, IsWayBack, old, new
<1>13. CASE command.op = "formula_restore"
  BY <1>1, <1>10, <1>13 DEF Step, IsWayBack, old, new
<1>14. CASE command.op = "formula_inverse_restore"
  <2>1. PICK v \in new : Kind(v) = "formula"
    BY <1>14 DEF IsWayBack, new
  <2>2. v = m.rows[r][c] /\ Present(m, <<r, c>>) /\ v = e.rows[r][c] /\ Present(e, <<r, c>>)
    BY <2>1 DEF Content, new
  <2>6. r \in DOMAIN m.rows /\ c \in DOMAIN m.rows[r] /\ Kind(m.rows[r][c]) = "formula"
    BY <2>1, <2>2 DEF Present
  <2>3. <<r, c>> \in FormulaCells(m)
    BY <2>6, FormulaCellsAre
  <2>4. Fits(v, column)
    BY <2>2 DEF NativeShape, Present
  <2>5. column.type = "number"
    BY <1>3, <2>1, <2>4 DEF Fits, Types
  <2> QED BY <1>7, <1>14, <2>3, <2>5 DEF Step, StepFormulaInverseRestore
<1>15. CASE command.op = "formula_update"
  <2>1. Kind(value) = "formula"
    BY <1>1, <1>15 DEF IsWayBack, old
  <2>2. CASE new = {}
    BY <1>8, <1>10, <1>15, <2>1, <2>2 DEF Step, StepFormulaUpdate
  <2>3. CASE new # {}
    BY <1>8, <1>9, <1>15, <2>1, <2>3 DEF Step, StepFormulaUpdate
  <2> QED BY <2>2, <2>3
<1> QED BY <1>11, <1>12, <1>13, <1>14, <1>15 DEF IsWayBack

\* A command takes back what another made of its cell in d.
IsAnswer(d, command, back) ==
    /\ back.cell = command.cell
    /\ NewContent(back) = Content(d, command.cell)
    /\ NewContent(command) # Content(d, command.cell)
    /\ IsWayBack(back.op, Content(d, command.cell), NewContent(command))

\* Every command of one batch has its answer in the other, which has no more.
AreAnswered(d, forward, back, n) ==
    /\ \A i \in 1 .. n : \E j \in 1 .. n : IsAnswer(d, forward[i], back[j])
    /\ \A j \in 1 .. n : \E i \in 1 .. n : IsAnswer(d, forward[i], back[j])

\* Cells go back one by one, in whatever order, while the good table e that the
\* whole batch made of d has in them what the cells of m have.
LEMMA CellsGoBack ==
  ASSUME NEW base, NEW d, NEW e, NEW m, GoodTable(d), NativeShape(e), e.columns = d.columns,
         DOMAIN d.rows \subseteq DOMAIN e.rows,
         NEW n \in Nat, NEW forward, IsCellBatch(forward, n), Laid(d, m, forward, n),
         NEW back, Len(back) = n, IsCellBatch(back, n),
         \A i \in 1 .. n : Declared(d, forward[i].cell),
         \A i \in 1 .. n : Content(e, forward[i].cell) = NewContent(forward[i]),
         AreAnswered(d, forward, back, n)
  PROVE  Leads(base, m, d, back)
<1>1. SameShape(d, m) /\ IsTable(d) /\ IsTable(m)
  BY DEF Laid, SameShape, GoodTable
<1>2. SameShape(m, d)
  BY <1>1 DEF SameShape
<1>3. \A j \in 1 .. n : NewContent(back[j]) = Content(d, back[j].cell)
  BY DEF IsAnswer, AreAnswered
<1>4. ASSUME NEW r, NEW c, \A j \in 1 .. n : back[j].cell # <<r, c>>
      PROVE  Content(d, <<r, c>>) = Content(m, <<r, c>>)
  <2>1. \A i \in 1 .. n : forward[i].cell # <<r, c>>
    <3> SUFFICES ASSUME NEW i \in 1 .. n PROVE forward[i].cell # <<r, c>>
      OBVIOUS
    <3>1. PICK j \in 1 .. n : IsAnswer(d, forward[i], back[j])
      BY DEF AreAnswered
    <3> QED BY <1>4, <3>1 DEF IsAnswer
  <2> QED BY <2>1 DEF Laid
<1>5. ASSUME NEW j \in 1 .. n, NEW m2, Laid(m, m2, back, j - 1)
      PROVE  Step(base, m2, back[j]) # {}
  <2>1. PICK i \in 1 .. n : IsAnswer(d, forward[i], back[j])
    BY DEF AreAnswered
  <2>2. PICK r \in DOMAIN d.rows, c \in DOMAIN d.columns : forward[i].cell = <<r, c>>
    <3>1. forward[i].cell = <<forward[i].cell[1], forward[i].cell[2]>>
      BY DEF IsCellBatch
    <3> QED BY <3>1 DEF Declared
  <2>3. back[j].cell = <<r, c>>
    BY <2>1, <2>2 DEF IsAnswer
  <2>4. \A k \in 1 .. j - 1 : back[k].cell # <<r, c>>
    <3>1. \A k \in 1 .. j - 1 : k \in 1 .. n /\ k # j
      OBVIOUS
    <3> QED BY <2>3, <3>1 DEF IsCellBatch
  <2>5. Content(m2, <<r, c>>) = Content(m, <<r, c>>)
    BY <1>5, <2>4 DEF Laid
  <2>6. Content(m, <<r, c>>) = NewContent(forward[i])
    BY <2>2 DEF Laid
  <2>7. Content(e, <<r, c>>) = NewContent(forward[i])
    BY <2>2
  <2>8. IsTable(m2) /\ m2.columns = d.columns /\ DOMAIN m2.rows = DOMAIN d.rows
    BY <1>1, <1>5 DEF Laid, SameShape
  <2>9. /\ NewContent(back[j]) = Content(d, <<r, c>>)
        /\ Content(d, <<r, c>>) # Content(e, <<r, c>>)
        /\ IsWayBack(back[j].op, Content(d, <<r, c>>), Content(e, <<r, c>>))
    BY <2>1, <2>2, <2>7 DEF IsAnswer
  <2> QED BY <2>3, <2>5, <2>6, <2>7, <2>8, <2>9, CellGoesBack
<1> QED BY <1>1, <1>2, <1>3, <1>4, <1>5, CellsLead

\* Cells of a table edited in one batch are planned back.
LEMMA CellEditsGoBack ==
  ASSUME NEW d, NEW e, GoodTable(d), GoodTable(e), NEW n \in Nat,
         NEW forward, Len(forward) = n, IsCellBatch(forward, n), e \in Plan(d, forward),
         NEW back, Len(back) = n, IsCellBatch(back, n),
         \A i \in 1 .. n : Declared(d, forward[i].cell),
         AreAnswered(d, forward, back, n)
  PROVE  d \in Plan(e, back) /\ e.columns = d.columns /\ e.order = d.order
<1>1. PICK path : IsPath(path, d, d, e, forward)
  BY PlanLeads DEF Leads
<1>2. Laid(d, e, forward, n)
  BY <1>1, CellPath DEF IsPath, GoodTable
<1>3. /\ e.columns = d.columns /\ e.order = d.order /\ DOMAIN e.rows = DOMAIN d.rows
      /\ NativeShape(e)
      /\ \A i \in 1 .. n : Content(e, forward[i].cell) = NewContent(forward[i])
  BY <1>2 DEF Laid, SameShape, GoodTable, Valid
<1>4. Leads(e, e, d, back)
  BY <1>2, <1>3, CellsGoBack
<1> QED BY <1>3, <1>4, LeadsPlan

-----------------------------------------------------------------------------
(* Rows.                                                                   *)

\* d without some of its rows.
Without(d, rows) == [d EXCEPT !.rows = Restrict(d.rows, DOMAIN d.rows \ rows)]

LEMMA WithoutRows ==
  ASSUME NEW d, IsTable(d), NEW rows
  PROVE  /\ Without(d, rows) = [columns |-> d.columns, order |-> d.order,
                                rows |-> Without(d, rows).rows]
         /\ Without(d, rows).columns = d.columns /\ Without(d, rows).order = d.order
         /\ DOMAIN Without(d, rows).rows = DOMAIN d.rows \ rows
         /\ IsMap(Without(d, rows).rows)
         /\ \A r \in DOMAIN d.rows \ rows : Without(d, rows).rows[r] = d.rows[r]
<1>1. Without(d, rows) = [columns |-> d.columns, order |-> d.order,
                          rows |-> Restrict(d.rows, DOMAIN d.rows \ rows)]
  BY DEF Without, IsTable
<1> QED BY <1>1, RestrictIsMap DEF Restrict

\* A removal for each of n rows, and the command that puts it back.
AreRemovals(d, rows, forward, back, n) ==
    \A i \in 1 .. n : /\ forward[i] = RemoveEntity(rows[i])
                      /\ back[i] = AppendEntity(rows[i], d.rows[rows[i]])

\* Rows that are removed one by one come back in the opposite order.
LEMMA RemovedRowsGoBack ==
  ASSUME NEW d, IsTable(d), KeysAreUnique(d), NEW n \in Nat, NEW rows, NEW forward, NEW back,
         Len(forward) = n, Len(back) = n, AreRemovals(d, rows, forward, back, n),
         NEW T, back \in Seq(T), NEW e \in Plan(d, forward)
  PROVE  d \in Plan(e, Reverse(back)) /\ e.columns = d.columns /\ e.order = d.order
<1> USE DEF If
<1>0. \A i \in 1 .. n : /\ forward[i] = RemoveEntity(rows[i])
                        /\ back[i] = AppendEntity(rows[i], d.rows[rows[i]])
  BY DEF AreRemovals
<1>1. PICK path : IsPath(path, d, d, e, forward)
  BY PlanLeads DEF Leads
<1> DEFINE Gone(k) == {rows[i] : i \in 1 .. k}
           S == {k \in 0 .. n : path[k] = Without(d, Gone(k))}
<1>2. 0 \in S
  <2>1. Gone(0) = {}
    OBVIOUS
  <2>2. Restrict(d.rows, DOMAIN d.rows \ {}) = d.rows
    BY DEF IsTable, IsMap, Restrict
  <2>3. Without(d, {}) = d
    BY <2>2 DEF Without, IsTable
  <2>4. path[0] = d /\ 0 \in 0 .. n
    BY <1>1 DEF IsPath
  <2> HIDE DEF Gone
  <2> QED BY <2>1, <2>3, <2>4
<1>3. ASSUME NEW k \in 1 .. n, path[k - 1] = Without(d, Gone(k - 1))
      PROVE  /\ path[k] = Without(d, Gone(k))
             /\ rows[k] \in DOMAIN d.rows \ Gone(k - 1)
  <2> DEFINE m == Without(d, Gone(k - 1))
             Left == DOMAIN d.rows \ Gone(k - 1)
  <2>1. path[k] \in StepRemoveEntity(m, rows[k])
    BY <1>0, <1>1, <1>3 DEF IsPath, Step, RemoveEntity
  <2>2. /\ rows[k] \in DOMAIN m.rows
        /\ path[k] = [m EXCEPT !.rows = Restrict(m.rows, DOMAIN m.rows \ {rows[k]})]
    BY <2>1 DEF StepRemoveEntity
  <2>3. Gone(k) = Gone(k - 1) \union {rows[k]}
    OBVIOUS
  <2> HIDE DEF Gone
  <2>4. /\ m = [columns |-> d.columns, order |-> d.order, rows |-> m.rows]
        /\ m.columns = d.columns /\ m.order = d.order
        /\ DOMAIN m.rows = Left /\ \A r \in Left : m.rows[r] = d.rows[r]
    BY WithoutRows
  <2>5. Restrict(m.rows, DOMAIN m.rows \ {rows[k]}) = Restrict(d.rows, DOMAIN d.rows \ Gone(k))
    BY <2>3, <2>4 DEF Restrict
  <2>6. path[k] = [columns |-> d.columns, order |-> d.order,
                   rows |-> Restrict(d.rows, DOMAIN d.rows \ Gone(k))]
    BY <2>2, <2>4, <2>5
  <2>7. path[k] = Without(d, Gone(k))
    BY <2>6 DEF Without, IsTable
  <2> QED BY <2>2, <2>4, <2>7
<1>4. ASSUME NEW k \in 1 .. n, k - 1 \in S PROVE k \in S
  <2>1. k \in 0 .. n /\ path[k - 1] = Without(d, Gone(k - 1))
    BY <1>4
  <2>2. path[k] = Without(d, Gone(k))
    BY <1>3, <2>1
  <2> QED BY <2>1, <2>2
<1> HIDE DEF S
<1>5. 0 .. n \subseteq S
  BY <1>2, <1>4, SegmentInduction
<1>6. \A k \in 0 .. n : path[k] = Without(d, Gone(k))
  BY <1>5 DEF S
<1>7. e = Without(d, Gone(n))
  BY <1>1, <1>6 DEF IsPath
<1>8. ASSUME NEW k \in 1 .. n PROVE path[k - 1] \in Step(e, path[k], back[k])
  <2> DEFINE m == path[k]
             row == rows[k]
             Left == DOMAIN d.rows \ Gone(k)
  <2>1. k - 1 \in 0 .. n /\ k \in 0 .. n
    OBVIOUS
  <2>2. /\ path[k - 1] = Without(d, Gone(k - 1)) /\ m = Without(d, Gone(k))
        /\ row \in DOMAIN d.rows \ Gone(k - 1)
    BY <1>3, <1>6, <2>1
  <2>3. Gone(k) = Gone(k - 1) \union {row} /\ row \in Gone(k) /\ row \in Gone(n)
    OBVIOUS
  <2> HIDE DEF Gone
  <2>4. /\ m = [columns |-> d.columns, order |-> d.order, rows |-> m.rows]
        /\ DOMAIN m.rows = Left /\ (\A r \in Left : m.rows[r] = d.rows[r])
        /\ DOMAIN e.rows = DOMAIN d.rows \ Gone(n)
        /\ path[k - 1] = [columns |-> d.columns, order |-> d.order, rows |-> path[k - 1].rows]
        /\ DOMAIN path[k - 1].rows = DOMAIN d.rows \ Gone(k - 1) /\ IsMap(path[k - 1].rows)
        /\ \A r \in DOMAIN d.rows \ Gone(k - 1) : path[k - 1].rows[r] = d.rows[r]
    BY <1>7, <2>2, WithoutRows
  <2> DEFINE rebuilt == Over(Only(row, d.rows[row]), m.rows)
  <2>5. /\ DOMAIN rebuilt = {row} \union Left /\ IsMap(rebuilt) /\ rebuilt[row] = d.rows[row]
        /\ \A r \in Left : rebuilt[r] = d.rows[r]
    <3>1. row \notin Left /\ DOMAIN m.rows = Left /\ \A r \in Left : m.rows[r] = d.rows[r]
      BY <2>3, <2>4
    <3> HIDE DEF Left, m, row
    <3>2. DOMAIN rebuilt = {row} \union Left /\ IsMap(rebuilt)
      BY <3>1, OverIsMap
    <3>3. rebuilt[row] = d.rows[row] /\ \A r \in Left : rebuilt[r] = d.rows[r]
      BY <3>1 DEF Over, Only
    <3> QED BY <3>2, <3>3
  <2>6. rebuilt = path[k - 1].rows
    <3> HIDE DEF rebuilt, m
    <3>1. DOMAIN rebuilt = DOMAIN path[k - 1].rows
      BY <2>2, <2>3, <2>4, <2>5
    <3>2. \A r \in DOMAIN rebuilt : rebuilt[r] = path[k - 1].rows[r]
      BY <2>2, <2>3, <2>4, <2>5
    <3> QED BY <2>4, <2>5, <3>1, <3>2 DEF IsMap
  <2>7. row \notin DOMAIN e.rows \union DOMAIN m.rows
    BY <2>3, <2>4
  <2>8. \A r \in DOMAIN m.rows : Serial(r) # Serial(row)
    BY <2>2, <2>3, <2>4 DEF KeysAreUnique
  <2>9. [m EXCEPT !.rows = rebuilt] = path[k - 1]
    <3> HIDE DEF rebuilt, m
    <3> QED BY <2>4, <2>6
  <2>10. path[k - 1] \in StepAppendEntity(e, m, row, d.rows[row])
    BY <2>7, <2>8, <2>9 DEF StepAppendEntity
  <2> QED BY <1>0, <2>10 DEF Step, AppendEntity
<1>9. path[0] = d /\ path[Len(forward)] = e
  BY <1>1 DEF IsPath
<1>10. Leads(e, e, d, Reverse(back))
  BY <1>8, <1>9, BackLeads
<1>11. Len(Reverse(back)) \in Nat
  BY DEF Reverse
<1>12. d \in Plan(e, Reverse(back))
  BY <1>10, <1>11, LeadsPlan
<1> QED BY <1>7, <1>12, WithoutRows

\* Rows that are appended one by one go again in the opposite order.
LEMMA AppendedRowsGoBack ==
  ASSUME NEW base, NEW d, IsTable(d), NEW n \in Nat, NEW e, NEW base2,
         NEW forward, IsBatch(forward), Len(forward) = n, Leads(base, d, e, forward),
         \A i \in 1 .. n : forward[i].op = "append_entity",
         NEW S, NEW back \in Seq(S), Len(back) = n,
         \A i \in 1 .. n : back[i] = RemoveEntity(forward[i].row)
  PROVE  Leads(base2, e, d, Reverse(back))
<1> USE DEF If
<1>1. PICK path : IsPath(path, base, d, e, forward)
  BY DEF Leads
<1>2. ASSUME NEW k \in 1 .. n PROVE path[k] \in Step(base, path[k - 1], forward[k])
  BY <1>1 DEF IsPath
<1> DEFINE T == {k \in 0 .. n : IsTable(path[k])}
<1>3. 0 \in T
  BY <1>1 DEF IsPath
<1>4. ASSUME NEW k \in 1 .. n, k - 1 \in T PROVE k \in T
  <2>1. IsTable(path[k - 1]) /\ k \in 0 .. n
    BY <1>4
  <2>2. IsCommand(forward[k])
    BY DEF IsBatch
  <2>3. IsTable(path[k])
    BY <1>2, <2>1, <2>2, StepKeepsTable
  <2> QED BY <2>1, <2>3
<1> HIDE DEF T
<1>5. 0 .. n \subseteq T
  BY <1>3, <1>4, SegmentInduction
<1>6. ASSUME NEW k \in 1 .. n PROVE path[k - 1] \in Step(base2, path[k], back[k])
  <2> DEFINE m == path[k - 1]
             row == forward[k].row
             rows == Over(Only(row, forward[k].fields), m.rows)
  <2>1. IsTable(m)
    <3>1. k - 1 \in 0 .. n
      OBVIOUS
    <3> QED BY <1>5, <3>1 DEF T
  <2>2. row \notin DOMAIN m.rows /\ path[k] = [m EXCEPT !.rows = rows]
    BY <1>2 DEF Step, StepAppendEntity
  <2>3. /\ DOMAIN rows = {row} \union DOMAIN m.rows
        /\ \A r \in DOMAIN m.rows : rows[r] = m.rows[r]
    BY <2>2 DEF Over, Only
  <2> HIDE DEF rows, m, row
  <2>4. m = [columns |-> m.columns, order |-> m.order, rows |-> m.rows] /\ IsMap(m.rows)
    BY <2>1 DEF IsTable
  <2>5. path[k] = [columns |-> m.columns, order |-> m.order, rows |-> rows]
    BY <2>2, <2>4
  <2>6. Restrict(rows, DOMAIN rows \ {row}) = m.rows
    BY <2>2, <2>3, <2>4 DEF Restrict, IsMap
  <2>7. row \in DOMAIN path[k].rows
        /\ [path[k] EXCEPT !.rows = Restrict(path[k].rows, DOMAIN path[k].rows \ {row})] = m
    BY <2>3, <2>4, <2>5, <2>6
  <2>8. m \in StepRemoveEntity(path[k], row)
    BY <2>7 DEF StepRemoveEntity
  <2>9. back[k] = RemoveEntity(row)
    BY DEF row
  <2> QED BY <2>8, <2>9 DEF Step, RemoveEntity, m
<1>7. path[0] = d /\ path[Len(forward)] = e
  BY <1>1 DEF IsPath
<1> QED BY <1>6, <1>7, BackLeads

\* A table of the same columns and of all the rows of d, as they are.
IsLonger(d, e) ==
    /\ IsTable(e)
    /\ e.columns = d.columns /\ e.order = d.order
    /\ DOMAIN d.rows \subseteq DOMAIN e.rows
    /\ \A r \in DOMAIN d.rows : e.rows[r] = d.rows[r]

\* Rows that are appended leave the table they are appended to.
LEMMA AppendedRowsKeep ==
  ASSUME NEW base, NEW d, IsTable(d), NEW n \in Nat, NEW e,
         NEW forward, IsBatch(forward), Len(forward) = n, Leads(base, d, e, forward),
         \A i \in 1 .. n : forward[i].op = "append_entity"
  PROVE  IsLonger(d, e)
<1> USE DEF If
<1>1. PICK path : IsPath(path, base, d, e, forward)
  BY DEF Leads
<1> DEFINE T == {k \in 0 .. n : IsLonger(d, path[k])}
<1>2. 0 \in T
  BY <1>1 DEF IsPath, IsLonger
<1>3. ASSUME NEW k \in 1 .. n, k - 1 \in T PROVE k \in T
  <2> DEFINE m == path[k - 1]
             row == forward[k].row
             rows == Over(Only(row, forward[k].fields), m.rows)
  <2>1. IsLonger(d, m) /\ k \in 0 .. n
    BY <1>3
  <2>2. path[k] \in Step(base, m, forward[k]) /\ IsCommand(forward[k])
    BY <1>1 DEF IsPath, IsBatch
  <2>3. row \notin DOMAIN m.rows /\ path[k] = [m EXCEPT !.rows = rows]
    BY <2>2 DEF Step, StepAppendEntity
  <2>4. /\ DOMAIN rows = {row} \union DOMAIN m.rows
        /\ \A r \in DOMAIN m.rows : rows[r] = m.rows[r]
    BY <2>3 DEF Over, Only
  <2>5. IsTable(path[k])
    BY <2>1, <2>2, StepKeepsTable DEF IsLonger
  <2> HIDE DEF rows, m, row
  <2>6. path[k] = [columns |-> m.columns, order |-> m.order, rows |-> rows]
    BY <2>1, <2>3 DEF IsLonger, IsTable
  <2>7. IsLonger(d, path[k])
    BY <2>1, <2>4, <2>5, <2>6 DEF IsLonger
  <2> QED BY <2>1, <2>7
<1> HIDE DEF T
<1>4. 0 .. n \subseteq T
  BY <1>2, <1>3, SegmentInduction
<1>5. IsLonger(d, path[n])
  BY <1>4 DEF T
<1> QED BY <1>1, <1>5 DEF IsPath

-----------------------------------------------------------------------------
(* Columns.                                                                *)

\* Of a list of ids every one stays that is in the set.
LEMMA AmongAll ==
  ASSUME NEW S, NEW list \in Seq(S), NEW ids, \A i \in 1 .. Len(list) : list[i] \in ids
  PROVE  Among(list, ids) = list
<1> DEFINE n == Len(list)
           IsKept(kept) == kept = [k \in 0 .. n |->
                                     CASE k = 0 -> <<>>
                                       [] k > 0 /\ list[k] \in ids -> Append(kept[k - 1], list[k])
                                       [] OTHER -> kept[k - 1]]
           chosen == CHOOSE kept : IsKept(kept)
           all == [k \in 0 .. n |-> SubSeq(list, 1, k)]
<1>1. n \in Nat
  OBVIOUS
<1>2. Among(list, ids) = chosen[n]
  BY DEF Among
<1>3. ASSUME NEW k \in 1 .. n PROVE SubSeq(list, 1, k) = Append(SubSeq(list, 1, k - 1), list[k])
  OBVIOUS
<1>4. SubSeq(list, 1, 0) = <<>> /\ SubSeq(list, 1, n) = list
  OBVIOUS
<1>5. IsKept(all)
  <2>1. ASSUME NEW k \in 0 .. n
        PROVE  all[k] = CASE k = 0 -> <<>>
                          [] k > 0 /\ list[k] \in ids -> Append(all[k - 1], list[k])
                          [] OTHER -> all[k - 1]
    <3>1. CASE k = 0
      BY <1>4, <3>1
    <3>2. CASE k # 0
      <4>1. k \in 1 .. n /\ k > 0 /\ list[k] \in ids /\ k - 1 \in 0 .. n
        BY <3>2
      <4>2. all[k] = Append(all[k - 1], list[k])
        BY <1>3, <4>1
      <4> HIDE DEF all
      <4> QED BY <3>2, <4>1, <4>2
    <3> QED BY <3>1, <3>2
  <2>2. all = [k \in 0 .. n |-> all[k]]
    OBVIOUS
  <2> HIDE DEF all, n
  <2> QED BY <2>1, <2>2
<1> HIDE DEF all
<1>6. IsKept(chosen)
  BY <1>5
<1> HIDE DEF chosen, n
<1> DEFINE T == {k \in 0 .. n : chosen[k] = SubSeq(list, 1, k)}
<1>7. 0 \in T
  BY <1>1, <1>4, <1>6
<1>8. ASSUME NEW k \in 1 .. n, k - 1 \in T PROVE k \in T
  <2>1. k \in 0 .. n /\ k > 0 /\ k # 0 /\ list[k] \in ids
    BY <1>1 DEF n
  <2>2. chosen[k] = Append(chosen[k - 1], list[k])
    BY <1>6, <2>1
  <2> QED BY <1>3, <1>8, <2>1, <2>2
<1> HIDE DEF T
<1>9. 0 .. n \subseteq T
  BY <1>1, <1>7, <1>8, SegmentInduction
<1>10. chosen[n] = SubSeq(list, 1, n)
  BY <1>1, <1>9 DEF T
<1> QED BY <1>2, <1>4, <1>10

\* An order of exactly the columns is normal.
LEMMA OrderIsNormal ==
  ASSUME NEW ids, IsFiniteSet(ids), NEW order, IsOrderOf(order, ids),
         order = [explicit |-> order.explicit, ids |-> order.ids]
  PROVE  Normalize(order, ids) = order
<1>1. CASE order.explicit
  <2> DEFINE n == Cardinality(ids)
             list == order.ids
  <2>1. n \in Nat /\ list \in [1 .. n -> ids] /\ \A id \in ids : \E i \in 1 .. n : list[i] = id
    BY <1>1, FS_CardinalityType DEF IsOrderOf, Bijection, Injection, Surjection
  <2>2. list \in Seq(ids) /\ Len(list) = n
    BY <2>1
  <2>3. Among(list, ids) = list
    BY <2>1, <2>2, AmongAll
  <2>4. ids \ ToSet(list) = {}
    BY <2>1, <2>2 DEF ToSet
  <2>5. IdOrder({}) = <<>>
    BY FS_EmptySet DEF IdOrder
  <2>6. list \o <<>> = list
    BY <2>2
  <2>7. Normalize(order, ids) = [order EXCEPT !.ids = list]
    BY <1>1, <2>3, <2>4, <2>5, <2>6 DEF Normalize
  <2> QED BY <2>7
<1>2. CASE ~order.explicit
  BY <1>2 DEF Normalize
<1> QED BY <1>1, <1>2

\* The columns and rows of a good table get its order back.
LEMMA OrderGoesBack ==
  ASSUME NEW base, NEW d, GoodTable(d), NEW m, IsTable(m), m.columns = d.columns, m.rows = d.rows
  PROVE  d \in Step(base, m, SetSchemaFieldOrder(d.order))
<1>1. IsOrderOf(d.order, DOMAIN m.columns) /\ IsFiniteSet(DOMAIN m.columns)
  BY DEF GoodTable, Valid, IsTable
<1>2. Normalize(d.order, DOMAIN m.columns) = d.order
  BY <1>1, OrderIsNormal DEF GoodTable, IsTyped
<1>3. [m EXCEPT !.order = d.order] = d
  BY DEF IsTable, GoodTable
<1> QED BY <1>1, <1>2, <1>3 DEF Step, StepOrder, SetSchemaFieldOrder, If

\* A map with one entry laid over it.
LEMMA OverThere ==
  ASSUME NEW x, NEW v, NEW g
  PROVE  Over(Only(x, v), g)[x] = v
BY DEF Over, Only

LEMMA OverElsewhere ==
  ASSUME NEW x, NEW v, NEW g, NEW y \in DOMAIN g, y # x
  PROVE  Over(Only(x, v), g)[y] = g[y]
BY DEF Over, Only

\* What is left of a table without a column.
IsBare(d, m, c) ==
    /\ IsTable(m)
    /\ m.columns = Restrict(d.columns, DOMAIN d.columns \ {c})
    /\ m.rows = [r \in DOMAIN d.rows |-> Restrict(d.rows[r], DOMAIN d.rows[r] \ {c})]

\* A table m with a column more.
IsWider(m, e, c, definition, values) ==
    /\ IsTable(e)
    /\ e.columns = Over(Only(c, definition), m.columns)
    /\ e.rows = [r \in DOMAIN m.rows |->
                   IF r \in DOMAIN values THEN Over(Only(c, values[r]), m.rows[r]) ELSE m.rows[r]]

\* A column of stored values that was removed is appended as it was.
LEMMA ColumnComesBack ==
  ASSUME NEW base, NEW d, GoodTable(d), NEW c \in DOMAIN d.columns, NEW m, IsBare(d, m, c),
         \A r \in DOMAIN ValuesOf(d, c) : Kind(ValuesOf(d, c)[r]) # "formula"
  PROVE  \E f \in Step(base, m, AppendSchemaField(c, d.columns[c], ValuesOf(d, c))) :
           IsTable(f) /\ f.columns = d.columns /\ f.rows = d.rows
<1> DEFINE definition == d.columns[c]
           values == ValuesOf(d, c)
           f == [columns |-> Over(Only(c, definition), m.columns),
                 order |-> Normalize(m.order, DOMAIN m.columns \union {c}),
                 rows |-> [r \in DOMAIN m.rows |->
                             IF r \in DOMAIN values THEN Over(Only(c, values[r]), m.rows[r])
                             ELSE m.rows[r]]]
<1>1. IsTable(d) /\ NativeShape(d) /\ IsMap(d.columns) /\ IsMap(d.rows)
      /\ \A r \in DOMAIN d.rows : IsMap(d.rows[r])
  BY DEF GoodTable, Valid, IsTable
<1>2. /\ DOMAIN m.columns = DOMAIN d.columns \ {c}
      /\ \A x \in DOMAIN d.columns \ {c} : m.columns[x] = d.columns[x]
      /\ DOMAIN m.rows = DOMAIN d.rows
      /\ \A r \in DOMAIN d.rows : /\ DOMAIN m.rows[r] = DOMAIN d.rows[r] \ {c}
                                  /\ \A x \in DOMAIN d.rows[r] \ {c} : m.rows[r][x] = d.rows[r][x]
                                  /\ IsMap(m.rows[r])
  BY RestrictIsMap DEF IsBare, Restrict
<1>3. /\ DOMAIN values = {r \in DOMAIN d.rows : c \in DOMAIN d.rows[r]}
      /\ \A r \in DOMAIN values : values[r] = d.rows[r][c]
  BY DEF ValuesOf
<1> HIDE DEF values
<1>4. f.columns = d.columns
  <2>1. /\ DOMAIN f.columns = DOMAIN d.columns /\ IsMap(f.columns)
        /\ \A x \in DOMAIN d.columns : f.columns[x] = d.columns[x]
    <3>1. f.columns = Over(Only(c, definition), m.columns)
      OBVIOUS
    <3> HIDE DEF f
    <3>2. /\ IsMap(f.columns) /\ DOMAIN f.columns = {c} \union DOMAIN m.columns
      BY <3>1, OverIsMap
    <3>4. f.columns[c] = definition
      BY <3>1, OverThere
    <3>3. ASSUME NEW y \in DOMAIN m.columns, y # c PROVE f.columns[y] = m.columns[y]
      BY <3>1, <3>3, OverElsewhere
    <3> QED BY <1>2, <3>2, <3>3, <3>4
  <2> QED BY <1>1, <2>1 DEF IsMap
<1>5. f.rows = d.rows
  <2>1. ASSUME NEW r \in DOMAIN d.rows PROVE f.rows[r] = d.rows[r]
    <3>1. IsMap(d.rows[r]) /\ IsMap(m.rows[r])
      BY <1>1, <1>2
    <3>2. CASE r \in DOMAIN values
      <4>1. f.rows[r] = Over(Only(c, d.rows[r][c]), m.rows[r]) /\ c \in DOMAIN d.rows[r]
        BY <1>2, <1>3, <3>2
      <4>2. /\ IsMap(f.rows[r]) /\ DOMAIN f.rows[r] = DOMAIN d.rows[r]
            /\ \A x \in DOMAIN d.rows[r] : f.rows[r][x] = d.rows[r][x]
        <5> HIDE DEF f
        <5>1. /\ IsMap(f.rows[r]) /\ DOMAIN f.rows[r] = {c} \union DOMAIN m.rows[r]
          BY <4>1, OverIsMap
        <5>3. f.rows[r][c] = d.rows[r][c]
          BY <4>1, OverThere
        <5>2. ASSUME NEW y \in DOMAIN m.rows[r], y # c PROVE f.rows[r][y] = m.rows[r][y]
          BY <4>1, <5>2, OverElsewhere
        <5> QED BY <1>2, <4>1, <5>1, <5>2, <5>3
      <4> QED BY <3>1, <4>2 DEF IsMap
    <3>3. CASE r \notin DOMAIN values
      <4>1. f.rows[r] = m.rows[r] /\ c \notin DOMAIN d.rows[r]
        BY <1>2, <1>3, <3>3
      <4>2. /\ DOMAIN m.rows[r] = DOMAIN d.rows[r]
            /\ \A x \in DOMAIN d.rows[r] : m.rows[r][x] = d.rows[r][x]
        BY <1>2, <4>1
      <4> QED BY <3>1, <4>1, <4>2 DEF IsMap
    <3> QED BY <3>2, <3>3
  <2>2. f.rows = [r \in DOMAIN d.rows |-> f.rows[r]]
    BY <1>2
  <2> HIDE DEF f
  <2> QED BY <1>1, <2>1, <2>2 DEF IsMap
<1>6. f = [columns |-> f.columns, order |-> f.order, rows |-> f.rows]
  OBVIOUS
<1>7. NativeShape(f)
  <2> HIDE DEF f
  <2> QED BY <1>1, <1>4, <1>5 DEF NativeShape
<1>8. IsTable(f)
  <2> HIDE DEF f
  <2> QED BY <1>1, <1>4, <1>5, <1>6 DEF IsTable
<1>9. \A r \in DOMAIN values : Kind(values[r]) = definition.type
  BY <1>1, <1>3 DEF NativeShape, Fits, values
<1>10. definition.required => DOMAIN values = DOMAIN m.rows
  BY <1>1, <1>2, <1>3 DEF NativeShape
<1>11. f \in StepAppendField(m, c, definition, values)
  <2> HIDE DEF definition
  <2> QED BY <1>2, <1>3, <1>7, <1>9, <1>10 DEF StepAppendField, If
<1>12. f \in Step(base, m, AppendSchemaField(c, definition, values))
  <2> HIDE DEF definition, f
  <2> QED BY <1>11 DEF Step, AppendSchemaField
<1> HIDE DEF f
<1> QED BY <1>4, <1>5, <1>8, <1>12 DEF values

\* A column that was appended to m is removed.
LEMMA ColumnGoes ==
  ASSUME NEW base, NEW m, IsTable(m), NEW e, NativeShape(e), NEW c, NEW definition, NEW values,
         IsWider(m, e, c, definition, values), c \notin DOMAIN m.columns,
         \A r \in DOMAIN m.rows : c \notin DOMAIN m.rows[r],
         IsMap(values), DOMAIN values \subseteq DOMAIN m.rows,
         \A r \in DOMAIN values : Kind(values[r]) # "formula",
         \A cell \in FormulaCells(m) : ReadBy(m, cell)[2] # c
  PROVE  \E f \in Step(base, e, RemoveSchemaField(c, definition, values)) :
           IsTable(f) /\ f.columns = m.columns /\ f.rows = m.rows
<1> DEFINE f == [columns |-> Restrict(e.columns, DOMAIN e.columns \ {c}),
                 order |-> Normalize(e.order, DOMAIN e.columns \ {c}),
                 rows |-> [r \in DOMAIN e.rows |-> Restrict(e.rows[r], DOMAIN e.rows[r] \ {c})]]
<1>1. IsMap(m.columns) /\ IsMap(m.rows) /\ \A r \in DOMAIN m.rows : IsMap(m.rows[r])
  BY DEF IsTable
<1>2. /\ DOMAIN e.columns = {c} \union DOMAIN m.columns /\ e.columns[c] = definition
      /\ \A x \in DOMAIN m.columns : e.columns[x] = m.columns[x]
  BY DEF IsWider, Over, Only
<1>3. /\ DOMAIN e.rows = DOMAIN m.rows
      /\ \A r \in DOMAIN m.rows : \A x \in DOMAIN m.rows[r] : e.rows[r][x] = m.rows[r][x]
      /\ \A r \in DOMAIN values : /\ DOMAIN e.rows[r] = {c} \union DOMAIN m.rows[r]
                                  /\ e.rows[r][c] = values[r]
      /\ \A r \in DOMAIN m.rows \ DOMAIN values : DOMAIN e.rows[r] = DOMAIN m.rows[r]
  <2>1. ASSUME NEW r \in DOMAIN values
        PROVE  /\ DOMAIN e.rows[r] = {c} \union DOMAIN m.rows[r]
               /\ e.rows[r][c] = values[r]
               /\ \A x \in DOMAIN m.rows[r] : e.rows[r][x] = m.rows[r][x]
    <3>1. e.rows[r] = Over(Only(c, values[r]), m.rows[r])
      BY DEF IsWider
    <3> QED BY <3>1 DEF Over, Only
  <2>2. \A r \in DOMAIN m.rows \ DOMAIN values : e.rows[r] = m.rows[r]
    BY DEF IsWider
  <2>3. DOMAIN e.rows = DOMAIN m.rows
    BY DEF IsWider
  <2> QED BY <2>1, <2>2, <2>3
<1>4. f.columns = m.columns
  BY <1>1, <1>2 DEF Restrict, IsMap
<1>5. f.rows = m.rows
  <2>1. ASSUME NEW r \in DOMAIN m.rows PROVE f.rows[r] = m.rows[r]
    <3>1. DOMAIN e.rows[r] \ {c} = DOMAIN m.rows[r]
      BY <1>3
    <3>2. \A x \in DOMAIN m.rows[r] : e.rows[r][x] = m.rows[r][x]
      BY <1>3
    <3>3. f.rows[r] = Restrict(e.rows[r], DOMAIN m.rows[r])
      BY <1>3, <3>1
    <3> HIDE DEF f
    <3> QED BY <1>1, <3>2, <3>3 DEF Restrict, IsMap
  <2>2. f.rows = [r \in DOMAIN m.rows |-> f.rows[r]]
    BY <1>3
  <2> HIDE DEF f
  <2> QED BY <1>1, <2>1, <2>2, ZenonT(30) DEF IsMap
<1>6. IsTable(f)
  <2>1. f = [columns |-> f.columns, order |-> f.order, rows |-> f.rows]
    OBVIOUS
  <2> HIDE DEF f
  <2> QED BY <1>4, <1>5, <2>1 DEF IsTable
<1>7. ValuesOf(e, c) = values
  <2>1. {r \in DOMAIN e.rows : c \in DOMAIN e.rows[r]} = DOMAIN values
    BY <1>3
  <2>2. ValuesOf(e, c) = [r \in DOMAIN values |-> e.rows[r][c]]
    BY <2>1 DEF ValuesOf
  <2> QED BY <1>3, <2>2 DEF IsMap
<1>8. \A cell \in FormulaCells(e) : cell[2] # c /\ ReadBy(e, cell)[2] # c
  <2> SUFFICES ASSUME NEW cell \in FormulaCells(e) PROVE cell[2] # c /\ ReadBy(e, cell)[2] # c
    OBVIOUS
  <2>1. PICK r, x : /\ r \in DOMAIN e.rows /\ x \in DOMAIN e.rows[r]
                    /\ cell = <<r, x>> /\ Kind(e.rows[r][x]) = "formula"
    BY FormulaCellsAre
  <2>2. x # c
    BY <1>3, <2>1
  <2>3. r \in DOMAIN m.rows /\ x \in DOMAIN m.rows[r] /\ e.rows[r][x] = m.rows[r][x]
    BY <1>3, <2>1, <2>2
  <2>4. <<r, x>> \in FormulaCells(m)
    BY <2>1, <2>3, FormulaCellsAre
  <2>5. ReadBy(e, cell) = ReadBy(m, <<r, x>>)
    BY <2>1, <2>3 DEF ReadBy
  <2> QED BY <2>1, <2>2, <2>4, <2>5
<1>9. f \in StepRemoveField(e, c, definition, values)
  BY <1>2, <1>7, <1>8 DEF StepRemoveField, If
<1>10. f \in Step(base, e, RemoveSchemaField(c, definition, values))
  <2> HIDE DEF f
  <2> QED BY <1>9 DEF Step, RemoveSchemaField
<1> HIDE DEF f
<1> QED BY <1>4, <1>5, <1>6, <1>10

\* Batches of two and of three commands.
LEMMA TwoLead ==
  ASSUME NEW base, NEW d, NEW e, NEW one, NEW two
  PROVE  Leads(base, d, e, <<one, two>>)
           <=> \E m \in Step(base, d, one) : e \in Step(base, m, two)
<1>1. ASSUME NEW m \in Step(base, d, one), e \in Step(base, m, two)
      PROVE  Leads(base, d, e, <<one, two>>)
  <2> DEFINE path == [k \in 0 .. 2 |-> IF k = 0 THEN d ELSE IF k = 1 THEN m ELSE e]
  <2>1. path[0] = d /\ path[1] = m /\ path[2] = e
    OBVIOUS
  <2> HIDE DEF path
  <2>2. IsPath(path, base, d, e, <<one, two>>)
    BY <1>1, <2>1 DEF IsPath
  <2> QED BY <2>2 DEF Leads
<1>2. ASSUME Leads(base, d, e, <<one, two>>)
      PROVE  \E m \in Step(base, d, one) : e \in Step(base, m, two)
  <2>1. PICK path : IsPath(path, base, d, e, <<one, two>>)
    BY <1>2 DEF Leads
  <2>2. path[1] \in Step(base, d, one) /\ e \in Step(base, path[1], two)
    BY <2>1 DEF IsPath
  <2> QED BY <2>2
<1> QED BY <1>1, <1>2

LEMMA ThreeLead ==
  ASSUME NEW base, NEW d, NEW e, NEW one, NEW two, NEW three
  PROVE  Leads(base, d, e, <<one, two, three>>)
           <=> \E m \in Step(base, d, one) : \E n \in Step(base, m, two) : e \in Step(base, n, three)
<1>1. ASSUME NEW m \in Step(base, d, one), NEW n \in Step(base, m, two), e \in Step(base, n, three)
      PROVE  Leads(base, d, e, <<one, two, three>>)
  <2> DEFINE path == [k \in 0 .. 3 |-> IF k = 0 THEN d ELSE IF k = 1 THEN m ELSE IF k = 2 THEN n ELSE e]
  <2>1. path[0] = d /\ path[1] = m /\ path[2] = n /\ path[3] = e
    OBVIOUS
  <2> HIDE DEF path
  <2>2. IsPath(path, base, d, e, <<one, two, three>>)
    BY <1>1, <2>1 DEF IsPath
  <2> QED BY <2>2 DEF Leads
<1>2. ASSUME Leads(base, d, e, <<one, two, three>>)
      PROVE  \E m \in Step(base, d, one) : \E n \in Step(base, m, two) : e \in Step(base, n, three)
  <2>1. PICK path : IsPath(path, base, d, e, <<one, two, three>>)
    BY <1>2 DEF Leads
  <2>2. /\ path[1] \in Step(base, d, one) /\ path[2] \in Step(base, path[1], two)
        /\ e \in Step(base, path[2], three)
    BY <2>1 DEF IsPath
  <2> QED BY <2>2
<1> QED BY <1>1, <1>2

\* A function changed at a point and changed back.
LEMMA ChangedBack ==
  ASSUME NEW f, IsMap(f), NEW x, NEW y
  PROVE  [[f EXCEPT ![x] = y] EXCEPT ![x] = f[x]] = f
BY DEF IsMap

\* Each attribute of a column is given back.
LEMMA AttributeGoesBack ==
  ASSUME NEW d, GoodTable(d), NEW e, GoodTable(e), NEW c, NEW value
  PROVE  /\ e \in Step(d, d, SetRequiredness(c, value))
              => d \in Step(e, e, SetRequiredness(c, d.columns[c].required))
         /\ e \in Step(d, d, SetNumberFormat(c, value))
              => d \in Step(e, e, SetNumberFormat(c, d.columns[c].format))
         /\ e \in Step(d, d, SetDisplayName(c, value))
              => d \in Step(e, e, SetDisplayName(c, d.columns[c].name))
         /\ e \in Step(d, d, SetConstraint(c, value))
              => d \in Step(e, e, SetConstraint(c, d.columns[c].constraint))
<1> USE DEF If
<1> DEFINE old == d.columns[c]
           Changed(column) == [columns |-> [d.columns EXCEPT ![c] = column],
                               order |-> d.order, rows |-> d.rows]
           Restored(column) == [columns |-> [e.columns EXCEPT ![c] = column],
                                order |-> e.order, rows |-> e.rows]
<1>1. c \in DOMAIN d.columns => IsDefinition(old)
  BY DEF GoodTable, IsTyped
<1>2. /\ d = [columns |-> d.columns, order |-> d.order, rows |-> d.rows]
      /\ e = [columns |-> e.columns, order |-> e.order, rows |-> e.rows]
  BY DEF GoodTable, IsTable
<1>3. NativeShape(d) /\ NativeShape(e)
  BY DEF GoodTable, Valid
<1>4. ASSUME c \in DOMAIN d.columns, NEW column, e = Changed(column)
      PROVE  d = Restored(old) /\ c \in DOMAIN e.columns /\ e.columns[c] = column
             /\ e.rows = d.rows
  <2>1. e.rows = d.rows
    BY <1>4
  <2>2. e.columns = [d.columns EXCEPT ![c] = column] /\ e.order = d.order
    BY <1>4
  <2>3. IsMap(d.columns)
    BY DEF GoodTable, IsTable
  <2>4. [e.columns EXCEPT ![c] = old] = d.columns
    BY <2>2, <2>3, ChangedBack
  <2>5. c \in DOMAIN e.columns /\ e.columns[c] = column
    BY <1>4, <2>2
  <2>6. Restored(old) = [columns |-> d.columns, order |-> d.order, rows |-> d.rows]
    BY <2>1, <2>2, <2>4
  <2> HIDE DEF Restored
  <2> QED BY <1>2, <2>1, <2>5, <2>6
<1>5. ASSUME e \in Step(d, d, SetRequiredness(c, value))
      PROVE  d \in Step(e, e, SetRequiredness(c, old.required))
  <2>1. c \in DOMAIN d.columns /\ e = [d EXCEPT !.columns[c].required = value]
    BY <1>5 DEF Step, SetRequiredness, StepRequiredness
  <2>2. e = Changed([old EXCEPT !.required = value])
    BY <1>2, <2>1
  <2>3. d = Restored(old) /\ c \in DOMAIN e.columns /\ e.rows = d.rows
        /\ e.columns[c] = [old EXCEPT !.required = value]
    BY <1>4, <2>1, <2>2
  <2>4. [e.columns[c] EXCEPT !.required = old.required] = old
    BY <1>1, <2>1, <2>3 DEF IsDefinition
  <2>5. [e EXCEPT !.columns[c].required = old.required] = d
    <3> HIDE DEF old
    <3> QED BY <1>2, <2>3, <2>4
  <2>6. old.required => \A r \in DOMAIN e.rows : c \in DOMAIN e.rows[r]
    BY <1>3, <2>1, <2>3 DEF NativeShape
  <2>7. d \in StepRequiredness(e, c, old.required)
    BY <1>3, <2>3, <2>5, <2>6 DEF StepRequiredness
  <2> QED BY <2>7 DEF Step, SetRequiredness
<1>6. ASSUME e \in Step(d, d, SetNumberFormat(c, value))
      PROVE  d \in Step(e, e, SetNumberFormat(c, old.format))
  <2>1. /\ c \in DOMAIN d.columns /\ e = [d EXCEPT !.columns[c].format = value]
        /\ old.type = "number"
    BY <1>6 DEF Step, SetNumberFormat, StepNumberFormat
  <2>2. e = Changed([old EXCEPT !.format = value])
    BY <1>2, <2>1
  <2>3. d = Restored(old) /\ c \in DOMAIN e.columns
        /\ e.columns[c] = [old EXCEPT !.format = value]
    BY <1>4, <2>1, <2>2
  <2>4. /\ [e.columns[c] EXCEPT !.format = old.format] = old
        /\ e.columns[c].type = "number"
    BY <1>1, <2>1, <2>3 DEF IsDefinition
  <2>5. [e EXCEPT !.columns[c].format = old.format] = d
    <3> HIDE DEF old
    <3> QED BY <1>2, <2>3, <2>4
  <2>6. d \in StepNumberFormat(e, c, old.format)
    BY <2>3, <2>4, <2>5 DEF StepNumberFormat
  <2> QED BY <2>6 DEF Step, SetNumberFormat
<1>7. ASSUME e \in Step(d, d, SetDisplayName(c, value))
      PROVE  d \in Step(e, e, SetDisplayName(c, old.name))
  <2>1. c \in DOMAIN d.columns /\ e = [d EXCEPT !.columns[c].name = value]
    BY <1>7 DEF Step, SetDisplayName, StepDisplayName
  <2>2. e = Changed([old EXCEPT !.name = value])
    BY <1>2, <2>1
  <2>3. d = Restored(old) /\ c \in DOMAIN e.columns
        /\ e.columns[c] = [old EXCEPT !.name = value]
    BY <1>4, <2>1, <2>2
  <2>4. [e.columns[c] EXCEPT !.name = old.name] = old
    BY <1>1, <2>1, <2>3 DEF IsDefinition
  <2>5. [e EXCEPT !.columns[c].name = old.name] = d
    <3> HIDE DEF old
    <3> QED BY <1>2, <2>3, <2>4
  <2>6. d \in StepDisplayName(e, c, old.name)
    BY <2>3, <2>5 DEF StepDisplayName
  <2> QED BY <2>6 DEF Step, SetDisplayName
<1>8. ASSUME e \in Step(d, d, SetConstraint(c, value))
      PROVE  d \in Step(e, e, SetConstraint(c, old.constraint))
  <2>1. c \in DOMAIN d.columns /\ e = [d EXCEPT !.columns[c].constraint = value]
    BY <1>8 DEF Step, SetConstraint, StepConstraint
  <2>2. e = Changed([old EXCEPT !.constraint = value])
    BY <1>2, <2>1
  <2>3. d = Restored(old) /\ c \in DOMAIN e.columns
        /\ e.columns[c] = [old EXCEPT !.constraint = value]
    BY <1>4, <2>1, <2>2
  <2>4. [e.columns[c] EXCEPT !.constraint = old.constraint] = old
    BY <1>1, <2>1, <2>3 DEF IsDefinition
  <2>5. [e EXCEPT !.columns[c].constraint = old.constraint] = d
    <3> HIDE DEF old
    <3> QED BY <1>2, <2>3, <2>4
  <2>6. d \in StepConstraint(e, c, old.constraint)
    BY <2>3, <2>5 DEF StepConstraint
  <2> QED BY <2>6 DEF Step, SetConstraint
<1> QED BY <1>5, <1>6, <1>7, <1>8

-----------------------------------------------------------------------------
(* What documents are made of.                                             *)

\* A command that brings in typed parts only.
IsTypedCommand(command) ==
    /\ IsCommand(command)
    /\ command.op \in CellOperations \ {"unset"} => IsValue(command.value)
    /\ command.op = "append_entity" => \A c \in DOMAIN command.fields : IsValue(command.fields[c])
    /\ command.op = "append_field" =>
         /\ IsDefinition(command.definition)
         /\ \A r \in DOMAIN command.values : IsValue(command.values[r])
    /\ command.op = "order" =>
         command.order = [explicit |-> command.order.explicit, ids |-> command.order.ids]

IsTypedOrder(order) == order = [explicit |-> order.explicit, ids |-> order.ids]

LEMMA NormalizeIsTyped ==
  ASSUME NEW order, IsTypedOrder(order), NEW ids
  PROVE  IsTypedOrder(Normalize(order, ids))
BY DEF IsTypedOrder, Normalize

\* Rows cut down or laid over hold what was there or what is laid over.
LEMMA StepKeepsTyped ==
  ASSUME NEW base, NEW d, IsTable(d), IsTyped(d), NEW command, IsTypedCommand(command),
         NEW e \in Step(base, d, command)
  PROVE  IsTyped(e)
<1> USE DEF If
<1> DEFINE AllValues(m) == \A r \in DOMAIN m.rows : \A c \in DOMAIN m.rows[r] : IsValue(m.rows[r][c])
           AllDefinitions(m) == \A c \in DOMAIN m.columns : IsDefinition(m.columns[c])
<1>1. AllValues(d) /\ AllDefinitions(d) /\ IsTypedOrder(d.order)
  BY DEF IsTyped, IsTypedOrder
<1>2. ASSUME AllValues(e), AllDefinitions(e), IsTypedOrder(e.order) PROVE IsTyped(e)
  BY <1>2 DEF IsTyped, IsTypedOrder
<1>3. CASE command.op \in CellOperations
  <2>1. IsChange(d, e, command.cell, NewContent(command))
    BY <1>3, CellStepChanges
  <2>2. e.columns = d.columns /\ e.order = d.order
    BY <2>1 DEF IsChange, SameShape
  <2>3. ASSUME NEW r \in DOMAIN e.rows, NEW c \in DOMAIN e.rows[r] PROVE IsValue(e.rows[r][c])
    <3>1. Content(e, <<r, c>>) = {e.rows[r][c]}
      BY DEF Content, Present
    <3>2. CASE r = command.cell[1] /\ c = command.cell[2]
      <4>1. NewContent(command) = {e.rows[r][c]}
        BY <2>1, <3>1, <3>2 DEF IsChange
      <4>2. command.op # "unset" /\ command.value = e.rows[r][c]
        BY <4>1 DEF NewContent
      <4> QED BY <1>3, <4>2 DEF IsTypedCommand
    <3>3. CASE ~(r = command.cell[1] /\ c = command.cell[2])
      <4>1. Content(d, <<r, c>>) = {e.rows[r][c]}
        BY <2>1, <3>1, <3>3 DEF IsChange
      <4>2. r \in DOMAIN d.rows /\ c \in DOMAIN d.rows[r] /\ d.rows[r][c] = e.rows[r][c]
        BY <4>1 DEF Content, Present
      <4> QED BY <1>1, <4>2
    <3> QED BY <3>2, <3>3
  <2> QED BY <1>1, <1>2, <2>2, <2>3
<1>4. CASE command.op = "append_entity"
  <2> DEFINE rows == Over(Only(command.row, command.fields), d.rows)
  <2>1. e = [columns |-> d.columns, order |-> d.order, rows |-> rows]
    BY <1>4 DEF Step, StepAppendEntity, IsTable
  <2>2. DOMAIN rows = {command.row} \union DOMAIN d.rows
    BY OverIsMap
  <2>3. rows[command.row] = command.fields
    BY OverThere
  <2>4. \A r \in DOMAIN d.rows : r # command.row => rows[r] = d.rows[r]
    BY OverElsewhere
  <2> HIDE DEF rows
  <2>5. \A r \in DOMAIN rows : \A c \in DOMAIN rows[r] : IsValue(rows[r][c])
    BY <1>1, <1>4, <2>2, <2>3, <2>4 DEF IsTypedCommand
  <2>6. e.rows = rows /\ e.columns = d.columns /\ e.order = d.order
    BY <2>1
  <2> QED BY <1>1, <1>2, <2>5, <2>6
<1>5. CASE command.op = "remove_entity"
  <2>1. e = [columns |-> d.columns, order |-> d.order,
             rows |-> Restrict(d.rows, (DOMAIN d.rows) \ {command.row})]
    BY <1>5 DEF Step, StepRemoveEntity, IsTable
  <2>2. AllValues(e)
    BY <1>1, <2>1 DEF Restrict
  <2> QED BY <1>1, <1>2, <2>1, <2>2
<1>6. CASE command.op = "append_field"
  <2> DEFINE columns == Over(Only(command.column, command.definition), d.columns)
  <2>1. /\ e.columns = columns
        /\ e.order = Normalize(d.order, DOMAIN d.columns \union {command.column})
        /\ e.rows = [r \in DOMAIN d.rows |->
                       IF r \in DOMAIN command.values
                       THEN Over(Only(command.column, command.values[r]), d.rows[r])
                       ELSE d.rows[r]]
    BY <1>6 DEF Step, StepAppendField
  <2>2. DOMAIN columns = {command.column} \union DOMAIN d.columns
    BY OverIsMap
  <2>3. columns[command.column] = command.definition
    BY OverThere
  <2>4. \A c \in DOMAIN d.columns : c # command.column => columns[c] = d.columns[c]
    BY OverElsewhere
  <2> HIDE DEF columns
  <2>5. AllDefinitions(e)
    BY <1>1, <1>6, <2>1, <2>2, <2>3, <2>4 DEF IsTypedCommand
  <2>6. ASSUME NEW r \in DOMAIN e.rows, NEW c \in DOMAIN e.rows[r] PROVE IsValue(e.rows[r][c])
    <3>1. r \in DOMAIN d.rows
      BY <2>1
    <3>2. CASE r \in DOMAIN command.values
      <4> DEFINE row == Over(Only(command.column, command.values[r]), d.rows[r])
      <4>1. e.rows[r] = row
        BY <2>1, <3>1, <3>2
      <4>2. DOMAIN row = {command.column} \union DOMAIN d.rows[r]
        BY OverIsMap
      <4>3. row[command.column] = command.values[r]
        BY OverThere
      <4>4. \A x \in DOMAIN d.rows[r] : x # command.column => row[x] = d.rows[r][x]
        BY OverElsewhere
      <4> HIDE DEF row
      <4> QED BY <1>1, <1>6, <3>1, <3>2, <4>1, <4>2, <4>3, <4>4 DEF IsTypedCommand
    <3>3. CASE r \notin DOMAIN command.values
      BY <1>1, <2>1, <3>1, <3>3
    <3> QED BY <3>2, <3>3
  <2> QED BY <1>1, <1>2, <2>1, <2>5, <2>6, NormalizeIsTyped
<1>7. CASE command.op = "remove_field"
  <2>1. /\ e.columns = Restrict(d.columns, DOMAIN d.columns \ {command.column})
        /\ e.order = Normalize(d.order, DOMAIN d.columns \ {command.column})
        /\ e.rows = [r \in DOMAIN d.rows |->
                       Restrict(d.rows[r], DOMAIN d.rows[r] \ {command.column})]
    <3>1. e \in StepRemoveField(d, command.column, command.definition, command.values)
      BY <1>7 DEF Step
    <3>2. \E m : /\ m.columns = Restrict(d.columns, DOMAIN d.columns \ {command.column})
                /\ m.order = Normalize(d.order, DOMAIN d.columns \ {command.column})
                /\ m.rows = [r \in DOMAIN d.rows |->
                               Restrict(d.rows[r], DOMAIN d.rows[r] \ {command.column})]
                /\ e = m
      BY <3>1 DEF StepRemoveField
    <3> QED BY <3>2
  <2>2. AllDefinitions(e)
    BY <1>1, <2>1 DEF Restrict
  <2>3. ASSUME NEW r \in DOMAIN e.rows, NEW c \in DOMAIN e.rows[r] PROVE IsValue(e.rows[r][c])
    <3>1. r \in DOMAIN d.rows /\ e.rows[r] = Restrict(d.rows[r], DOMAIN d.rows[r] \ {command.column})
      BY <2>1
    <3> QED BY <1>1, <3>1 DEF Restrict
  <2>4. IsTypedOrder(e.order)
    BY <1>1, <2>1, NormalizeIsTyped
  <2> QED BY <1>2, <2>2, <2>3, <2>4
<1>8. CASE command.op = "order"
  <2>1. /\ e.columns = d.columns /\ e.rows = d.rows
        /\ e.order = Normalize(command.order, DOMAIN d.columns)
    BY <1>8 DEF Step, StepOrder, IsTable
  <2>2. IsTypedOrder(command.order)
    BY <1>8 DEF IsTypedCommand, IsTypedOrder
  <2> QED BY <1>1, <1>2, <2>1, <2>2, NormalizeIsTyped
<1>9. CASE command.op \in {"requiredness", "format", "name", "constraint"}
  <2> DEFINE c == command.column
             old == d.columns[c]
  <2>1. PICK column : /\ c \in DOMAIN d.columns => IsDefinition(column)
                      /\ e = [columns |-> [d.columns EXCEPT ![c] = column],
                              order |-> d.order, rows |-> d.rows]
    <3>1. c \in DOMAIN d.columns => IsDefinition(old)
      BY <1>1
    <3> DEFINE Good(column) ==
                 /\ c \in DOMAIN d.columns => IsDefinition(column)
                 /\ e = [columns |-> [d.columns EXCEPT ![c] = column],
                         order |-> d.order, rows |-> d.rows]
    <3>2. CASE command.op = "requiredness"
      <4>1. Good([old EXCEPT !.required = command.required])
        BY <3>1, <3>2 DEF Step, StepRequiredness, IsTable, IsDefinition
      <4> QED BY <4>1
    <3>3. CASE command.op = "format"
      <4>1. Good([old EXCEPT !.format = command.format])
        BY <3>1, <3>3 DEF Step, StepNumberFormat, IsTable, IsDefinition
      <4> QED BY <4>1
    <3>4. CASE command.op = "name"
      <4>1. Good([old EXCEPT !.name = command.name])
        BY <3>1, <3>4 DEF Step, StepDisplayName, IsTable, IsDefinition
      <4> QED BY <4>1
    <3>5. CASE command.op = "constraint"
      <4>1. Good([old EXCEPT !.constraint = command.constraint])
        BY <3>1, <3>5 DEF Step, StepConstraint, IsTable, IsDefinition
      <4> QED BY <4>1
    <3> QED BY <1>9, <3>2, <3>3, <3>4, <3>5
  <2>2. AllDefinitions(e)
    BY <1>1, <2>1
  <2> QED BY <1>1, <1>2, <2>1, <2>2
<1> QED BY <1>3, <1>4, <1>5, <1>6, <1>7, <1>8, <1>9
    DEF IsTypedCommand, IsCommand, Operations, CellOperations

\* A batch of such commands leads to a typed table.
LEMMA PlanKeepsTyped ==
  ASSUME NEW d, IsTable(d), IsTyped(d), NEW commands, Len(commands) \in Nat,
         \A i \in 1 .. Len(commands) : IsTypedCommand(commands[i]), NEW e \in Plan(d, commands)
  PROVE  IsTyped(e)
<1> DEFINE n == Len(commands)
<1>1. PICK path : IsPath(path, d, d, e, commands)
  BY PlanLeads DEF Leads
<1> DEFINE T == {k \in 0 .. n : IsTable(path[k]) /\ IsTyped(path[k])}
<1>2. 0 \in T
  BY <1>1 DEF IsPath
<1>3. ASSUME NEW k \in 1 .. n, k - 1 \in T PROVE k \in T
  <2>1. /\ IsTable(path[k - 1]) /\ IsTyped(path[k - 1]) /\ k \in 0 .. n
        /\ path[k] \in Step(d, path[k - 1], commands[k])
    BY <1>1, <1>3 DEF IsPath
  <2>2. IsTypedCommand(commands[k]) /\ IsCommand(commands[k])
    BY DEF IsTypedCommand
  <2>3. IsTable(path[k]) /\ IsTyped(path[k])
    BY <2>1, <2>2, StepKeepsTable, StepKeepsTyped
  <2> QED BY <2>1, <2>3
<1> HIDE DEF T
<1>4. 0 .. n \subseteq T
  BY <1>2, <1>3, SegmentInduction
<1>5. n \in T
  BY <1>4
<1> QED BY <1>1, <1>5 DEF T, IsPath

-----------------------------------------------------------------------------
(* What publish_commands makes of a batch by itself is what is published.  *)

\* Nothing is taken away where nothing is.
LEMMA AsItWas ==
  ASSUME NEW d, IsTable(d)
  PROVE  /\ \A r \in DOMAIN d.rows : \A c : c \notin DOMAIN d.rows[r] =>
              Restrict(d.rows[r], DOMAIN d.rows[r] \ {c}) = d.rows[r]
         /\ \A cell : ~Present(d, cell) => Drop(d, cell) = d
<1>1. ASSUME NEW r \in DOMAIN d.rows, NEW c, c \notin DOMAIN d.rows[r]
      PROVE  Restrict(d.rows[r], DOMAIN d.rows[r] \ {c}) = d.rows[r]
  <2>1. (DOMAIN d.rows[r]) \ {c} = DOMAIN d.rows[r]
    BY <1>1
  <2> QED BY <2>1 DEF Restrict, IsTable, IsMap
<1>2. ASSUME NEW cell, ~Present(d, cell) PROVE Drop(d, cell) = d
  <2>1. [d.rows EXCEPT ![cell[1]] = Restrict(d.rows[cell[1]], DOMAIN d.rows[cell[1]] \ {cell[2]})] = d.rows
    <3> DEFINE new == Restrict(d.rows[cell[1]], DOMAIN d.rows[cell[1]] \ {cell[2]})
    <3>1. cell[1] \in DOMAIN d.rows => new = d.rows[cell[1]]
      BY <1>1, <1>2 DEF Present
    <3> HIDE DEF new
    <3>2. [d.rows EXCEPT ![cell[1]] = new] = d.rows
      BY <3>1 DEF IsTable, IsMap
    <3> QED BY <3>2 DEF new
  <2>2. Drop(d, cell) = [columns |-> d.columns, order |-> d.order, rows |-> d.rows]
    BY <2>1 DEF Drop, IsTable
  <2> QED BY <2>2 DEF IsTable
<1> QED BY <1>1, <1>2

\* The planner and publish_commands agree on what one command makes of a table.
LEMMA StepIsApplyOne ==
  ASSUME NEW base, NEW d, IsTable(d), NEW command, IsCommand(command), NEW e \in Step(base, d, command)
  PROVE  e = ApplyOne(d, command)
<1> USE DEF If
<1>1. CASE command.op \in {"set", "unset", "formula_update", "formula_inverse_restore",
                           "formula_restore"}
  <2>1. IF command.op = "unset" THEN e = IF Present(d, command.cell) THEN Drop(d, command.cell) ELSE d
        ELSE e = Put(d, command.cell, command.value)
    BY <1>1 DEF Step, StepSet, StepUnset, StepFormulaUpdate, StepFormulaInverseRestore, StepFormulaRestore
  <2>2. ApplyOne(d, command) = IF command.op = "unset" THEN Drop(d, command.cell)
                               ELSE Put(d, command.cell, command.value)
    BY <1>1 DEF ApplyOne, ApplyToCell
  <2> QED BY <2>1, <2>2, AsItWas
<1>2. CASE command.op = "append_entity"
  BY <1>2 DEF Step, StepAppendEntity, ApplyOne
<1>3. CASE command.op = "remove_entity"
  BY <1>3 DEF Step, StepRemoveEntity, ApplyOne
<1>4. CASE command.op = "append_field"
  BY <1>4 DEF Step, StepAppendField, ApplyOne
<1>5. CASE command.op = "remove_field"
  <2> DEFINE c == command.column
  <2>1. /\ e = [columns |-> Restrict(d.columns, DOMAIN d.columns \ {c}),
                order |-> Normalize(d.order, DOMAIN d.columns \ {c}),
                rows |-> [r \in DOMAIN d.rows |-> Restrict(d.rows[r], DOMAIN d.rows[r] \ {c})]]
        /\ ValuesOf(d, c) = command.values
    BY <1>5 DEF Step, StepRemoveField
  <2>2. ApplyOne(d, command) =
          [columns |-> Restrict(d.columns, DOMAIN d.columns \ {c}),
           order |-> Normalize(d.order, DOMAIN d.columns \ {c}),
           rows |-> [r \in DOMAIN d.rows |->
                        IF r \in DOMAIN command.values
                        THEN Restrict(d.rows[r], DOMAIN d.rows[r] \ {c})
                        ELSE d.rows[r]]]
    BY <1>5 DEF ApplyOne
  <2>3. \A r \in DOMAIN d.rows : r \in DOMAIN command.values <=> c \in DOMAIN d.rows[r]
    BY <2>1 DEF ValuesOf
  <2>4. \A r \in DOMAIN d.rows :
          (IF r \in DOMAIN command.values THEN Restrict(d.rows[r], DOMAIN d.rows[r] \ {c})
           ELSE d.rows[r]) = Restrict(d.rows[r], DOMAIN d.rows[r] \ {c})
    BY <2>3, AsItWas
  <2>5. [r \in DOMAIN d.rows |->
           IF r \in DOMAIN command.values THEN Restrict(d.rows[r], DOMAIN d.rows[r] \ {c})
           ELSE d.rows[r]]
         = [r \in DOMAIN d.rows |-> Restrict(d.rows[r], DOMAIN d.rows[r] \ {c})]
    BY <2>4
  <2> QED BY <2>1, <2>2, <2>5
<1>6. CASE command.op = "order"
  BY <1>6 DEF Step, StepOrder, ApplyOne
<1>7. CASE command.op = "requiredness"
  BY <1>7 DEF Step, StepRequiredness, ApplyOne
<1>8. CASE command.op = "format"
  BY <1>8 DEF Step, StepNumberFormat, ApplyOne
<1>9. CASE command.op = "name"
  BY <1>9 DEF Step, StepDisplayName, ApplyOne
<1>10. CASE command.op = "constraint"
  BY <1>10 DEF Step, StepConstraint, ApplyOne
<1> QED BY <1>1, <1>2, <1>3, <1>4, <1>5, <1>6, <1>7, <1>8, <1>9, <1>10 DEF IsCommand, Operations

\* The runs of Applied, as IsRun has those of Plan.
IsAppliedRun(run, base, commands, n) ==
  run = [k \in 0 .. n |-> IF k = 0 THEN {base} ELSE {ApplyOne(d, commands[k]) : d \in run[k - 1]}]

\* A batch of any length has a run of what publish_commands makes of it.
LEMMA AppliedRunExists ==
  ASSUME NEW base, NEW commands, NEW N \in Nat
  PROVE  \E run : IsAppliedRun(run, base, commands, N)
<1> DEFINE S == {n \in 0 .. N : \E run : IsAppliedRun(run, base, commands, n)}
<1>1. 0 \in S
  <2>1. IsAppliedRun([k \in 0 .. 0 |-> {base}], base, commands, 0)
    BY DEF IsAppliedRun
  <2> QED BY <2>1
<1>2. ASSUME NEW n \in 1 .. N, n - 1 \in S PROVE n \in S
  <2>1. PICK run : IsAppliedRun(run, base, commands, n - 1)
    BY <1>2
  <2> DEFINE longer == [k \in 0 .. n |-> IF k = n
                          THEN {ApplyOne(d, commands[n]) : d \in run[n - 1]} ELSE run[k]]
  <2>2. /\ \A k \in 0 .. n - 1 : longer[k] = run[k]
        /\ longer[n] = {ApplyOne(d, commands[n]) : d \in run[n - 1]}
    OBVIOUS
  <2>3. \A k \in 0 .. n - 1 : run[k] = IF k = 0 THEN {base}
                                       ELSE {ApplyOne(d, commands[k]) : d \in run[k - 1]}
    BY <2>1 DEF IsAppliedRun
  <2>4. \A k \in 0 .. n : longer[k] = IF k = 0 THEN {base}
                                      ELSE {ApplyOne(d, commands[k]) : d \in longer[k - 1]}
    <3> HIDE DEF longer
    <3> SUFFICES ASSUME NEW k \in 0 .. n
                 PROVE  longer[k] = IF k = 0 THEN {base}
                                    ELSE {ApplyOne(d, commands[k]) : d \in longer[k - 1]}
      OBVIOUS
    <3>1. CASE k = n
      <4>1. longer[k - 1] = run[n - 1] /\ k # 0
        BY <2>2, <3>1
      <4> QED BY <2>2, <3>1, <4>1
    <3>2. CASE k # n
      <4>1. k \in 0 .. n - 1 /\ (k # 0 => k - 1 \in 0 .. n - 1)
        BY <3>2
      <4>2. k # 0 => longer[k - 1] = run[k - 1]
        BY <2>2, <4>1
      <4> QED BY <2>2, <2>3, <4>1, <4>2
    <3> QED BY <3>1, <3>2
  <2>5. IsAppliedRun(longer, base, commands, n)
    BY <2>4 DEF IsAppliedRun
  <2> QED BY <2>5
<1> HIDE DEF S
<1>3. N \in S
  BY <1>1, <1>2, SegmentInduction
<1> QED BY <1>3 DEF S

\* They agree on a batch.
LEMMA PlannedIsApplied ==
  ASSUME NEW base, IsTable(base), NEW commands, IsBatch(commands), NEW e \in Plan(base, commands)
  PROVE  e = Applied(base, commands)
<1>1. PICK n, run : /\ n = Len(commands) /\ IsRun(run, base, commands, n)
                    /\ Plan(base, commands) = run[n]
  BY PlanIsRun DEF IsBatch
<1> DEFINE after == CHOOSE r : IsAppliedRun(r, base, commands, n)
<1>0. n \in Nat
  BY <1>1 DEF IsBatch
<1>2. IsAppliedRun(after, base, commands, n)
  BY <1>0, AppliedRunExists
<1>3. Applied(base, commands) = CHOOSE d \in after[n] : TRUE
  BY <1>1 DEF Applied, IsAppliedRun
<1> HIDE DEF after
<1> DEFINE S == {k \in 0 .. n : \A d \in run[k] : IsTable(d) /\ after[k] = {d}}
<1>4. 0 \in S
  BY <1>0, <1>1, <1>2 DEF IsRun, IsAppliedRun
<1>5. ASSUME NEW k \in 1 .. n, k - 1 \in S PROVE k \in S
  <2>1. k \in 0 .. n /\ k # 0
    BY <1>0
  <2> HIDE DEF S
  <2>2. /\ run[k] = UNION {Step(base, d, commands[k]) : d \in run[k - 1]}
        /\ after[k] = {ApplyOne(d, commands[k]) : d \in after[k - 1]}
    BY <1>1, <1>2, <2>1 DEF IsRun, IsAppliedRun
  <2>3. ASSUME NEW f \in run[k] PROVE IsTable(f) /\ after[k] = {f}
    <3>1. PICK d \in run[k - 1] : f \in Step(base, d, commands[k])
      BY <2>2
    <3>2. IsTable(d) /\ after[k - 1] = {d}
      BY <1>5 DEF S
    <3>3. IsCommand(commands[k])
      BY <1>1 DEF IsBatch
    <3>4. f = ApplyOne(d, commands[k]) /\ IsTable(f)
      BY <3>1, <3>2, <3>3, StepIsApplyOne, StepKeepsTable
    <3> QED BY <2>2, <3>2, <3>4
  <2> QED BY <2>1, <2>3 DEF S
<1> HIDE DEF S
<1>6. n \in S
  BY <1>0, <1>4, <1>5, SegmentInduction
<1>7. after[n] = {e}
  BY <1>1, <1>6 DEF S
<1> QED BY <1>3, <1>7

-----------------------------------------------------------------------------
(* Batches after which the cached structure is not refreshed.              *)

\* What a table is after a cell is put, and after one is dropped.
LEMMA PutRows ==
  ASSUME NEW d, IsTable(d), NEW cell, NEW value
  PROVE  /\ Put(d, cell, value).columns = d.columns
         /\ Put(d, cell, value).order = d.order
         /\ DOMAIN Put(d, cell, value).rows = DOMAIN d.rows
         /\ \A r \in DOMAIN d.rows :
              /\ DOMAIN Put(d, cell, value).rows[r] =
                   (IF r = cell[1] THEN {cell[2]} ELSE {}) \union DOMAIN d.rows[r]
              /\ \A c \in DOMAIN Put(d, cell, value).rows[r] :
                   Put(d, cell, value).rows[r][c] =
                     IF r = cell[1] /\ c = cell[2] THEN value ELSE d.rows[r][c]
<1>1. Put(d, cell, value) =
        [columns |-> d.columns, order |-> d.order,
         rows |-> [d.rows EXCEPT ![cell[1]] = Over(Only(cell[2], value), @)]]
  BY DEF IsTable, Put
<1> QED BY <1>1 DEF Over, Only

LEMMA DropRows ==
  ASSUME NEW d, IsTable(d), NEW cell
  PROVE  /\ Drop(d, cell).columns = d.columns
         /\ Drop(d, cell).order = d.order
         /\ DOMAIN Drop(d, cell).rows = DOMAIN d.rows
         /\ \A r \in DOMAIN d.rows :
              \A c : c \in DOMAIN Drop(d, cell).rows[r] =>
                      c \in DOMAIN d.rows[r] /\ Drop(d, cell).rows[r][c] = d.rows[r][c]
<1>1. Drop(d, cell) =
        [columns |-> d.columns, order |-> d.order,
         rows |-> [d.rows EXCEPT ![cell[1]] = Restrict(@, DOMAIN @ \ {cell[2]})]]
  BY DEF IsTable, Drop
<1> QED BY <1>1 DEF Restrict

\* Other values of the same kinds, and the same formulas.
AlikeTables(d, e) ==
    /\ e.columns = d.columns /\ e.order = d.order
    /\ DOMAIN e.rows = DOMAIN d.rows
    /\ \A r \in DOMAIN d.rows :
         /\ DOMAIN e.rows[r] = DOMAIN d.rows[r]
         /\ \A c \in DOMAIN d.rows[r] :
              /\ Kind(e.rows[r][c]) = Kind(d.rows[r][c])
              /\ Kind(d.rows[r][c]) = "formula" => e.rows[r][c] = d.rows[r][c]

\* Tables that differ in stored values only have the same structure.
LEMMA AlikeTablesShareStructure ==
  ASSUME NEW d, NEW e, AlikeTables(d, e)
  PROVE  SpecsOf(e) = SpecsOf(d) /\ SourcesOf(e) = SourcesOf(d)
<1>1. SpecsOf(e) = SpecsOf(d)
  BY DEF AlikeTables, SpecsOf, ColumnOrder
<1>2. FormulaCells(e) = FormulaCells(d)
  <2>1. \A cell : cell \in FormulaCells(e) <=> cell \in FormulaCells(d)
    <3> SUFFICES ASSUME NEW cell PROVE cell \in FormulaCells(e) <=> cell \in FormulaCells(d)
      OBVIOUS
    <3>1. ASSUME cell \in FormulaCells(e) PROVE cell \in FormulaCells(d)
      BY <3>1, FormulaCellsAre DEF AlikeTables
    <3>2. ASSUME cell \in FormulaCells(d) PROVE cell \in FormulaCells(e)
      BY <3>2, FormulaCellsAre DEF AlikeTables
    <3> QED BY <3>1, <3>2
  <2> QED BY <2>1
<1>3. \A cell \in FormulaCells(d) : ReadBy(e, cell) = ReadBy(d, cell)
  BY FormulaCellsAre DEF AlikeTables, ReadBy
<1> QED BY <1>1, <1>2, <1>3 DEF SourcesOf

\* A batch whose refresh of the structure is skipped does not change it.
LEMMA ValueOnlyKeepsStructure ==
  ASSUME NEW base, IsTable(base), NEW commands, IsBatch(commands), ValueOnly(base, commands),
         NEW e \in Plan(base, commands)
  PROVE  SpecsOf(e) = SpecsOf(base) /\ SourcesOf(e) = SourcesOf(base)
<1>1. PICK Universe :
        \A Good : /\ base \in Good
                  /\ \A i \in 1 .. Len(commands), d \in Good :
                       \A f \in Step(base, d, commands[i]) : f \in Universe => f \in Good
                  => \A f \in Plan(base, commands) : f \in Good
  BY PlanInduction DEF IsBatch
<1> DEFINE Good == {d \in Universe \union {base} : IsTable(d) /\ AlikeTables(base, d)}
<1>2. ASSUME NEW i \in 1 .. Len(commands), NEW d \in Good, NEW f \in Step(base, d, commands[i]),
             f \in Universe
      PROVE  f \in Good
  <2> DEFINE cell == commands[i].cell
             value == commands[i].value
  <2>1. IsTable(f) /\ IsTable(d) /\ AlikeTables(base, d)
    BY StepKeepsTable DEF IsBatch
  <2>2. /\ cell[1] \in DOMAIN base.rows /\ cell[2] \in DOMAIN base.rows[cell[1]]
        /\ Kind(value) = Kind(base.rows[cell[1]][cell[2]])
        /\ Kind(base.rows[cell[1]][cell[2]]) # "formula"
    <3>1. PICK old \in Content(base, cell) : Kind(old) \in {"number", "text"} /\ Kind(old) = Kind(value)
      BY DEF ValueOnly
    <3>2. Present(base, cell) /\ old = base.rows[cell[1]][cell[2]]
      BY DEF Content
    <3> HIDE DEF cell, value
    <3> QED BY <3>1, <3>2 DEF Present
  <2>3. f = Put(d, cell, value)
    BY DEF ValueOnly, Step, StepSet, If
  <2> HIDE DEF cell, value
  <2>4. AlikeTables(base, f)
    <3>1. f.columns = base.columns /\ f.order = base.order /\ DOMAIN f.rows = DOMAIN base.rows
      BY <2>1, <2>3, PutRows DEF AlikeTables
    <3>2. ASSUME NEW r \in DOMAIN base.rows
          PROVE  /\ DOMAIN f.rows[r] = DOMAIN base.rows[r]
                 /\ \A c \in DOMAIN base.rows[r] :
                      /\ Kind(f.rows[r][c]) = Kind(base.rows[r][c])
                      /\ Kind(base.rows[r][c]) = "formula" => f.rows[r][c] = base.rows[r][c]
      <4>1. /\ r \in DOMAIN d.rows
            /\ DOMAIN d.rows[r] = DOMAIN base.rows[r]
            /\ \A c \in DOMAIN base.rows[r] :
                 /\ Kind(d.rows[r][c]) = Kind(base.rows[r][c])
                 /\ Kind(base.rows[r][c]) = "formula" => d.rows[r][c] = base.rows[r][c]
        BY <2>1 DEF AlikeTables
      <4>2. /\ DOMAIN f.rows[r] = (IF r = cell[1] THEN {cell[2]} ELSE {}) \union DOMAIN d.rows[r]
            /\ \A c \in DOMAIN f.rows[r] :
                 f.rows[r][c] = IF r = cell[1] /\ c = cell[2] THEN value ELSE d.rows[r][c]
        BY <2>1, <2>3, <4>1, PutRows
      <4>3. DOMAIN f.rows[r] = DOMAIN base.rows[r]
        BY <2>2, <4>1, <4>2
      <4> QED BY <2>2, <4>1, <4>2, <4>3
    <3> QED BY <3>1, <3>2 DEF AlikeTables
  <2> QED BY <1>2, <2>1, <2>4
<1>3. base \in Good
  BY DEF AlikeTables
<1> HIDE DEF Good
<1>4. e \in Good
  BY <1>1, <1>2, <1>3
<1> QED BY <1>4, AlikeTablesShareStructure DEF Good

\* No formula, and none comes in with texts or blanks.
LEMMA CapacityEditKeepsStructure ==
  ASSUME NEW base, IsTable(base), FormulaCells(base) = {}, NEW commands, IsBatch(commands),
         CapacityTextEdit(commands), NEW e \in Plan(base, commands)
  PROVE  SpecsOf(e) = SpecsOf(base) /\ SourcesOf(e) = SourcesOf(base)
<1>1. PICK Universe :
        \A Good : /\ base \in Good
                  /\ \A i \in 1 .. Len(commands), d \in Good :
                       \A f \in Step(base, d, commands[i]) : f \in Universe => f \in Good
                  => \A f \in Plan(base, commands) : f \in Good
  BY PlanInduction DEF IsBatch
<1> DEFINE Plain(d) == /\ d.columns = base.columns /\ d.order = base.order
                       /\ DOMAIN d.rows = DOMAIN base.rows
                       /\ FormulaCells(d) = {}
           Good == {d \in Universe \union {base} : IsTable(d) /\ Plain(d)}
<1>2. ASSUME NEW i \in 1 .. Len(commands), NEW d \in Good, NEW f \in Step(base, d, commands[i]),
             f \in Universe
      PROVE  f \in Good
  <2> DEFINE cell == commands[i].cell
             value == commands[i].value
  <2>1. IsTable(f) /\ IsTable(d) /\ Plain(d)
    BY StepKeepsTable DEF IsBatch
  <2>2. \/ f = Drop(d, cell)
        \/ f = d
        \/ f = Put(d, cell, value) /\ Kind(value) = "text"
    <3>1. commands[i].op = "unset" \/ (commands[i].op = "set" /\ Kind(value) = "text")
      BY DEF CapacityTextEdit
    <3> QED BY <3>1 DEF Step, StepSet, StepUnset, If
  <2> HIDE DEF cell, value
  <2>3. \A r \in DOMAIN d.rows : \A c \in DOMAIN d.rows[r] : Kind(d.rows[r][c]) # "formula"
    BY <2>1, FormulaCellsAre
  <2>6. /\ f.columns = d.columns /\ f.order = d.order /\ DOMAIN f.rows = DOMAIN d.rows
        /\ \A r \in DOMAIN f.rows : \A c \in DOMAIN f.rows[r] : Kind(f.rows[r][c]) # "formula"
    <3> HIDE DEF Plain
    <3>0. IsTable(d)
      BY <2>1
    <3>1. CASE f = Drop(d, cell)
      <4>1. f.columns = d.columns /\ f.order = d.order /\ DOMAIN f.rows = DOMAIN d.rows
        BY <3>0, <3>1, DropRows
      <4>2. ASSUME NEW r \in DOMAIN d.rows, NEW c \in DOMAIN f.rows[r]
            PROVE  c \in DOMAIN d.rows[r] /\ f.rows[r][c] = d.rows[r][c]
        BY <3>0, <3>1, DropRows
      <4> QED BY <2>3, <4>1, <4>2
    <3>2. CASE f = Put(d, cell, value) /\ Kind(value) = "text"
      <4>1. f.columns = d.columns /\ f.order = d.order /\ DOMAIN f.rows = DOMAIN d.rows
        BY <3>0, <3>2, PutRows
      <4>2. ASSUME NEW r \in DOMAIN d.rows, NEW c \in DOMAIN f.rows[r]
            PROVE  f.rows[r][c] = value \/ (c \in DOMAIN d.rows[r] /\ f.rows[r][c] = d.rows[r][c])
        <5>1. DOMAIN f.rows[r] = (IF r = cell[1] THEN {cell[2]} ELSE {}) \union DOMAIN d.rows[r]
          BY <3>0, <3>2, PutRows
        <5>2. f.rows[r][c] = IF r = cell[1] /\ c = cell[2] THEN value ELSE d.rows[r][c]
          BY <3>0, <3>2, PutRows
        <5> QED BY <5>1, <5>2
      <4> QED BY <2>3, <3>2, <4>1, <4>2
    <3> QED BY <2>2, <2>3, <3>1, <3>2
  <2>7. FormulaCells(f) = {}
    <3> SUFFICES ASSUME NEW at \in FormulaCells(f) PROVE FALSE
      OBVIOUS
    <3>1. \E r \in DOMAIN f.rows : \E c \in DOMAIN f.rows[r] : Kind(f.rows[r][c]) = "formula"
      BY FormulaCellsAre
    <3> QED BY <2>6, <3>1
  <2> QED BY <1>2, <2>1, <2>6, <2>7
<1>3. base \in Good
  OBVIOUS
<1>4. \A d \in Good : Plain(d)
  OBVIOUS
<1> HIDE DEF Good
<1>5. Plain(e)
  BY <1>1, <1>2, <1>3, <1>4
<1>6. SpecsOf(e) = SpecsOf(base)
  BY <1>5 DEF SpecsOf, ColumnOrder
<1> QED BY <1>5, <1>6 DEF SourcesOf

-----------------------------------------------------------------------------
(* The invariant of a session.                                             *)

\* An id this session may have issued has a serial it has handed out.
Known(id, serial) == id \in Nat /\ (id % 2 = 1 => Serial(id) <= serial)

KnownCommand(command, rowLimit, columnLimit) ==
    /\ IsCommand(command)
    /\ \A row \in RowOf(command) : Known(row, rowLimit)
    /\ \A column \in ColumnOf(command) : Known(column, columnLimit)

KnownBatch(commands, rowLimit, columnLimit) ==
    /\ IsBatch(commands)
    /\ \A i \in 1 .. Len(commands) : KnownCommand(commands[i], rowLimit, columnLimit)

KnownStack(stack, rowLimit, columnLimit) ==
    /\ stack \in Seq(Range(stack))
    /\ \A entry \in Range(stack) :
         /\ KnownBatch(entry.forward, rowLimit, columnLimit)
         /\ KnownBatch(entry.inverse, rowLimit, columnLimit)

\* Every batch that may still be published is one of commands on known ids.
BatchInv ==
    /\ revision \in Nat /\ proposalSerial \in Nat /\ rowSerial \in Nat
    /\ KnownStack(undo, rowSerial, proposalSerial)
    /\ KnownStack(redo, rowSerial, proposalSerial)

DocInv == IsTable(doc) /\ Valid(doc) /\ ProfileAdmits(doc) /\ StructureIsCurrent

\* The preview of a cleanup is what the document becomes if nothing is
\* published before it is committed.
PendingInv ==
    pending # NoCleanup =>
      /\ KnownBatch(pending.commands, rowSerial, proposalSerial)
      /\ KnownBatch(pending.inverse, rowSerial, proposalSerial)
      /\ \A i \in 1 .. Len(pending.commands) : pending.commands[i].op \in {"set", "remove_entity"}
      /\ pending.revision \in Nat /\ pending.revision <= revision
      /\ pending.revision = revision => pending.candidate \in Plan(doc, pending.commands)

IdsInv ==
    /\ \A row \in DOMAIN doc.rows : Known(row, rowSerial)
    /\ \A column \in DOMAIN doc.columns : Known(column, proposalSerial)
    /\ \A id \in issued : Known(id[2], IF id[1] = "row" THEN rowSerial ELSE proposalSerial)
    /\ reissued = {}

SessionInv == BatchInv /\ DocInv /\ PendingInv /\ IdsInv

-----------------------------------------------------------------------------
(* Batches and stacks.                                                     *)

\* What is known stays known when serials are handed out.
LEMMA StaysKnown ==
  ASSUME NEW commands, NEW r1 \in Nat, NEW r2 \in Nat, NEW c1 \in Nat, NEW c2 \in Nat,
         r1 <= r2, c1 <= c2, KnownBatch(commands, r1, c1)
  PROVE  KnownBatch(commands, r2, c2)
<1>1. \A id : id \in Nat => Serial(id) \in Nat
  BY DEF Serial
<1>2. \A id : /\ Known(id, r1) => Known(id, r2)
              /\ Known(id, c1) => Known(id, c2)
  BY <1>1 DEF Known
<1> QED BY <1>2 DEF KnownBatch, KnownCommand

LEMMA StackStaysKnown ==
  ASSUME NEW stack, NEW r1 \in Nat, NEW r2 \in Nat, NEW c1 \in Nat, NEW c2 \in Nat,
         r1 <= r2, c1 <= c2, KnownStack(stack, r1, c1)
  PROVE  KnownStack(stack, r2, c2)
BY StaysKnown DEF KnownStack

\* A stack of some entries is one of its own entries.
LEMMA StackOf ==
  ASSUME NEW stack, NEW S, stack \in Seq(S)
  PROVE  stack \in Seq(Range(stack)) /\ Range(stack) \subseteq S
<1>1. stack \in [1 .. Len(stack) -> Range(stack)] /\ Len(stack) \in Nat
  BY DEF Range
<1> QED BY <1>1 DEF Range

\* An edit is put on a stack, which drops its oldest entry when it is full.
LEMMA PushKnown ==
  ASSUME NEW stack, NEW r, NEW c, KnownStack(stack, r, c),
         NEW forward, NEW inverse, KnownBatch(forward, r, c), KnownBatch(inverse, r, c)
  PROVE  /\ KnownStack(Append(stack, [forward |-> forward, inverse |-> inverse]), r, c)
         /\ stack # <<>> =>
              KnownStack(Append(Tail(stack), [forward |-> forward, inverse |-> inverse]), r, c)
<1> DEFINE entry == [forward |-> forward, inverse |-> inverse]
           S == Range(stack) \union {entry}
<1>1. stack \in Seq(S) /\ entry \in S
  BY DEF KnownStack
<1>2. \A e \in S : KnownBatch(e.forward, r, c) /\ KnownBatch(e.inverse, r, c)
  BY DEF KnownStack
<1> HIDE DEF S, entry
<1>3. Append(stack, entry) \in Seq(S)
  BY <1>1
<1>4. stack # <<>> => Append(Tail(stack), entry) \in Seq(S)
  BY <1>1
<1>5. KnownStack(Append(stack, entry), r, c)
  BY <1>2, <1>3, StackOf DEF KnownStack
<1>6. stack # <<>> => KnownStack(Append(Tail(stack), entry), r, c)
  BY <1>2, <1>4, StackOf DEF KnownStack
<1> QED BY <1>5, <1>6 DEF entry

\* Moving the top entry of one stack to the other.
LEMMA MoveKnown ==
  ASSUME NEW stack, NEW other, NEW r, NEW c, KnownStack(stack, r, c), KnownStack(other, r, c),
         stack # <<>>
  PROVE  /\ KnownBatch(Top(stack).forward, r, c) /\ KnownBatch(Top(stack).inverse, r, c)
         /\ KnownStack(Front(stack), r, c)
         /\ KnownStack(Append(other, Top(stack)), r, c)
<1> DEFINE S == Range(stack) \union Range(other)
<1>1. stack \in Seq(S) /\ other \in Seq(S) /\ stack # <<>>
  BY DEF KnownStack
<1>2. \A e \in S : KnownBatch(e.forward, r, c) /\ KnownBatch(e.inverse, r, c)
  BY DEF KnownStack
<1> HIDE DEF S
<1>3. Top(stack) \in S
  BY <1>1 DEF Top
<1>4. Front(stack) \in Seq(S)
  BY <1>1 DEF Front
<1>5. Append(other, Top(stack)) \in Seq(S)
  BY <1>1, <1>3
<1> QED BY <1>2, <1>3, <1>4, <1>5, StackOf DEF KnownStack

-----------------------------------------------------------------------------
(* A publication.                                                          *)

\* A publication leads to a valid document of the profile, whose structure is cached.
LEMMA PublishKeepsDoc ==
  ASSUME DocInv, NEW commands, IsBatch(commands), NEW serial, Publish(commands, serial)
  PROVE  /\ DocInv'
         /\ doc' \in Plan(doc, commands)
         /\ doc' = Applied(doc, commands)
         /\ revision' = revision + 1 /\ proposalSerial' = serial
<1>1. /\ doc' \in Plan(doc, commands) /\ Valid(doc')
      /\ ProfileAdmits(Applied(doc, commands))
      /\ revision' = revision + 1 /\ proposalSerial' = serial /\ opened' = opened
  BY DEF Publish, Accepted, Publishable
<1>2. IsTable(doc') /\ doc' = Applied(doc, commands)
  BY <1>1, PlanKeepsTable, PlannedIsApplied DEF DocInv
<1>3. ProfileAdmits(doc)'
  BY <1>1, <1>2 DEF ProfileAdmits, MaxRows
<1>4. StructureIsCurrent'
  <2>1. CASE ValueOnly(doc, commands) \/ CapacityTextEdit(commands)
    <3>1. usage' = Measure(doc') /\ specs' = specs /\ sources' = sources
      BY <1>2, <2>1 DEF Publish
    <3>2. CASE ValueOnly(doc, commands)
      <4>1. SpecsOf(doc') = SpecsOf(doc) /\ SourcesOf(doc') = SourcesOf(doc)
        BY <1>1, <3>2, ValueOnlyKeepsStructure DEF DocInv
      <4> QED BY <3>1, <4>1 DEF DocInv, StructureIsCurrent
    <3>3. CASE CapacityTextEdit(commands)
      <4>1. FormulaCells(doc) = {}
        BY <3>3 DEF DocInv, ProfileAdmits, TextCapacityEligible, CapacityTextEdit
      <4>2. SpecsOf(doc') = SpecsOf(doc) /\ SourcesOf(doc') = SourcesOf(doc)
        BY <1>1, <3>3, <4>1, CapacityEditKeepsStructure DEF DocInv
      <4> QED BY <3>1, <4>2 DEF DocInv, StructureIsCurrent
    <3> QED BY <2>1, <3>2, <3>3
  <2>2. CASE ~(ValueOnly(doc, commands) \/ CapacityTextEdit(commands))
    BY <2>2 DEF Publish, StructureIsCurrent
  <2> QED BY <2>1, <2>2
<1> QED BY <1>1, <1>2, <1>3, <1>4 DEF DocInv

\* The document keeps to known ids when the batch does.
LEMMA PublishKeepsKnown ==
  ASSUME BatchInv, DocInv, IdsInv, NEW commands, NEW serial \in Nat, Publish(commands, serial),
         rowSerial' \in Nat, rowSerial' >= rowSerial, serial >= proposalSerial,
         KnownBatch(commands, rowSerial', serial)
  PROVE  /\ \A row \in DOMAIN doc'.rows : Known(row, rowSerial')
         /\ \A column \in DOMAIN doc'.columns : Known(column, serial)
<1>1. /\ DOMAIN doc'.rows \subseteq
           (DOMAIN doc.rows) \union UNION {RowOf(commands[i]) : i \in 1 .. Len(commands)}
      /\ DOMAIN doc'.columns \subseteq
           (DOMAIN doc.columns) \union UNION {ColumnOf(commands[i]) : i \in 1 .. Len(commands)}
  BY PublishKeepsDoc, PlanGrows DEF KnownBatch, DocInv
<1>2. \A id : /\ Known(id, rowSerial) => Known(id, rowSerial')
              /\ Known(id, proposalSerial) => Known(id, serial)
  BY DEF Known, Serial, BatchInv
<1>3. ASSUME NEW row \in DOMAIN doc'.rows PROVE Known(row, rowSerial')
  BY <1>1, <1>2 DEF IdsInv, KnownBatch, KnownCommand
<1>4. ASSUME NEW column \in DOMAIN doc'.columns PROVE Known(column, serial)
  BY <1>1, <1>2 DEF IdsInv, KnownBatch, KnownCommand
<1> QED BY <1>3, <1>4

-----------------------------------------------------------------------------
(* An edit is recorded and keeps the invariant.                            *)

\* What every request that edits the table comes to.  The ids it brings in are
\* of serials not handed out before, or those of columns there already.
FreshCommand(command) ==
    /\ \A row \in RowOf(command) : row % 2 = 1 /\ Serial(row) > rowSerial
    /\ \A column \in ColumnOf(command) :
         column \in DOMAIN doc.columns \/ (column % 2 = 1 /\ Serial(column) > proposalSerial)

EditAs(forward, inverse, serial) ==
    /\ RecordEditAs(forward, inverse, serial)
    /\ serial \in Nat /\ serial >= proposalSerial
    /\ rowSerial' \in Nat /\ rowSerial' >= rowSerial
    /\ KnownBatch(forward, rowSerial', serial) /\ KnownBatch(inverse, rowSerial', serial)
    /\ \A i \in 1 .. Len(forward) : FreshCommand(forward[i])
    /\ pending' \in {pending, NoCleanup}

\* An edit whose batches keep to known and fresh ids keeps the invariant.
LEMMA EditKeepsInvariant ==
  ASSUME SessionInv, NEW forward, NEW inverse, NEW serial, EditAs(forward, inverse, serial)
  PROVE  SessionInv'
<1>1. /\ Publish(forward, serial) /\ Record(forward, inverse) /\ NoteNewIds
      /\ IsBatch(forward)
  BY DEF EditAs, RecordEditAs, KnownBatch
<1>2. /\ DocInv' /\ doc' \in Plan(doc, forward)
      /\ revision' = revision + 1 /\ proposalSerial' = serial
  BY <1>1, PublishKeepsDoc DEF SessionInv
<1>3. /\ serial \in Nat /\ serial >= proposalSerial
      /\ rowSerial' \in Nat /\ rowSerial' >= rowSerial
      /\ proposalSerial \in Nat /\ rowSerial \in Nat /\ revision \in Nat
  BY DEF EditAs, SessionInv, BatchInv
<1>4. BatchInv'
  <2>1. KnownStack(undo, rowSerial', serial)
    BY <1>3, StackStaysKnown DEF SessionInv, BatchInv
  <2>2. Len(undo) >= HistoryDepth => undo # <<>>
    BY BoundsAssumption DEF SessionInv, BatchInv, KnownStack
  <2>3. KnownStack(undo', rowSerial', serial)
    <3>1. CASE Len(undo) >= HistoryDepth
      BY <1>1, <2>1, <2>2, <3>1, PushKnown DEF EditAs, Record
    <3>2. CASE ~(Len(undo) >= HistoryDepth)
      BY <1>1, <2>1, <3>2, PushKnown DEF EditAs, Record
    <3> QED BY <3>1, <3>2
  <2>4. KnownStack(redo', rowSerial', serial)
    <3>1. redo' = <<>>
      BY <1>1 DEF Record
    <3> QED BY <3>1 DEF KnownStack, Range
  <2> QED BY <1>2, <1>3, <2>3, <2>4 DEF BatchInv
<1>5. PendingInv'
  <2>1. CASE pending' = NoCleanup
    BY <2>1 DEF PendingInv
  <2>2. CASE pending' = pending /\ pending # NoCleanup
    <3>1. /\ KnownBatch(pending.commands, rowSerial', serial)
          /\ KnownBatch(pending.inverse, rowSerial', serial)
      BY <1>3, <2>2, StaysKnown DEF SessionInv, PendingInv
    <3>2. pending.revision \in Nat /\ pending.revision <= revision
      BY <2>2 DEF SessionInv, PendingInv
    <3>3. pending.revision <= revision' /\ pending.revision # revision'
      BY <1>2, <1>3, <3>2
    <3> QED BY <1>2, <2>2, <3>1, <3>2, <3>3 DEF SessionInv, PendingInv
  <2> QED BY <2>1, <2>2 DEF EditAs
<1>6. IdsInv'
  <2>1. /\ \A row \in DOMAIN doc'.rows : Known(row, rowSerial')
        /\ \A column \in DOMAIN doc'.columns : Known(column, serial)
    BY <1>1, <1>3, PublishKeepsKnown DEF SessionInv, EditAs
  <2>2. \A id : /\ Known(id, rowSerial) => Known(id, rowSerial')
                /\ Known(id, proposalSerial) => Known(id, serial)
    BY <1>3 DEF Known, Serial
  <2>3. \A id \in Ids(doc') : Known(id[2], IF id[1] = "row" THEN rowSerial' ELSE serial)
    BY <2>1 DEF Ids
  <2>4. \A id \in issued' : Known(id[2], IF id[1] = "row" THEN rowSerial' ELSE serial)
    BY <1>1, <2>2, <2>3 DEF NoteNewIds, SessionInv, IdsInv
  <2>5. ASSUME NEW id \in Ids(doc') \ Ids(doc) PROVE id \notin issued
    <3>1. /\ DOMAIN doc'.rows \subseteq
               (DOMAIN doc.rows) \union UNION {RowOf(forward[i]) : i \in 1 .. Len(forward)}
          /\ DOMAIN doc'.columns \subseteq
               (DOMAIN doc.columns) \union UNION {ColumnOf(forward[i]) : i \in 1 .. Len(forward)}
      BY <1>1, <1>2, PlanGrows DEF SessionInv, DocInv
    <3>2. CASE id[1] = "row"
      <4>1. id[2] \in (DOMAIN doc'.rows) \ DOMAIN doc.rows
        BY <3>2 DEF Ids
      <4>2. id[2] % 2 = 1 /\ Serial(id[2]) > rowSerial /\ id[2] \in Nat
        BY <2>1, <3>1, <4>1 DEF EditAs, FreshCommand, Known
      <4>3. Serial(id[2]) \in Nat
        BY <4>2 DEF Serial
      <4>4. ~Known(id[2], rowSerial)
        BY <1>3, <4>2, <4>3 DEF Known
      <4> QED BY <3>2, <4>4 DEF SessionInv, IdsInv
    <3>3. CASE id[1] # "row"
      <4>1. id[2] \in (DOMAIN doc'.columns) \ DOMAIN doc.columns
        BY <3>3 DEF Ids
      <4>2. id[2] % 2 = 1 /\ Serial(id[2]) > proposalSerial /\ id[2] \in Nat
        BY <2>1, <3>1, <4>1 DEF EditAs, FreshCommand, Known
      <4>3. Serial(id[2]) \in Nat
        BY <4>2 DEF Serial
      <4>4. ~Known(id[2], proposalSerial)
        BY <1>3, <4>2, <4>3 DEF Known
      <4> QED BY <3>3, <4>4 DEF SessionInv, IdsInv
    <3> QED BY <3>2, <3>3
  <2>6. reissued' = {}
    BY <1>1, <2>5 DEF NoteNewIds, SessionInv, IdsInv
  <2> QED BY <1>2, <2>1, <2>4, <2>6 DEF IdsInv
<1> QED BY <1>2, <1>4, <1>5, <1>6 DEF SessionInv

-----------------------------------------------------------------------------
(* Each request is such an edit.                                           *)

\* Commands that append nothing.
IsPlain(commands) ==
    /\ Len(commands) \in Nat /\ DOMAIN commands = 1 .. Len(commands)
    /\ \A i \in 1 .. Len(commands) :
         commands[i].op \in Operations \ {"append_entity", "append_field"}

\* Commands that bring no id in are known and fresh whatever serials there are.
LEMMA PlainBatch ==
  ASSUME NEW commands, IsPlain(commands)
  PROVE  /\ \A r, c : KnownBatch(commands, r, c)
         /\ \A i \in 1 .. Len(commands) : FreshCommand(commands[i])
BY DEF IsPlain, KnownBatch, IsBatch, IsCommand, KnownCommand, FreshCommand, RowOf, ColumnOf

LEMMA PlainEdit ==
  ASSUME SessionInv, NEW forward, NEW inverse, IsPlain(forward), IsPlain(inverse),
         RecordEdit(forward, inverse), UNCHANGED rowSerial
  PROVE  EditAs(forward, inverse, proposalSerial + 1)
BY PlainBatch DEF EditAs, RecordEdit, SessionInv, BatchInv

\* The structure that the requests read.
LEMMA SpecsAre ==
  ASSUME DocInv
  PROVE  /\ specs.columns = doc.columns /\ specs.rows = DOMAIN doc.rows
         /\ IsFiniteSet(DOMAIN doc.rows) /\ DOMAIN doc.rows \subseteq Nat
         /\ IsFiniteSet(DOMAIN doc.columns) /\ DOMAIN doc.columns \subseteq Nat
         /\ DOMAIN doc.columns # {}
         /\ IsFiniteSet(AllCells)
<1>1. /\ specs.columns = doc.columns /\ specs.rows = DOMAIN doc.rows
      /\ IsFiniteSet(DOMAIN doc.rows) /\ DOMAIN doc.rows \subseteq Nat
      /\ IsFiniteSet(DOMAIN doc.columns) /\ DOMAIN doc.columns \subseteq Nat
  BY DEF DocInv, StructureIsCurrent, SpecsOf, IsTable
<1>2. DOMAIN doc.columns # {}
  BY DEF DocInv, Valid, NativeShape
<1>3. IsFiniteSet(AllCells)
  BY <1>1, FS_Product DEF AllCells
<1> QED BY <1>1, <1>2, <1>3

\* The commands for a finite set of cells or rows, one for each.
LEMMA ListedPlain ==
  ASSUME NEW S, IsFiniteSet(S), NEW commands, commands = [i \in DOMAIN SetToSeq(S) |-> commands[i]],
         \A i \in DOMAIN SetToSeq(S) :
           commands[i].op \in Operations \ {"append_entity", "append_field"}
  PROVE  IsPlain(commands)
<1>1. SetToSeq(S) \in [1 .. Cardinality(S) -> S] /\ Cardinality(S) \in Nat
  BY SetToSeqLists
<1>2. DOMAIN commands = 1 .. Cardinality(S)
  BY <1>1
<1>3. Len(commands) = Cardinality(S)
  BY <1>1, <1>2
<1> QED BY <1>1, <1>2, <1>3 DEF IsPlain

\* The order of commands does not matter to that.
LEMMA ReversedPlain ==
  ASSUME NEW commands, IsPlain(commands)
  PROVE  IsPlain(Reverse(commands))
<1>1. Len(commands) \in Nat
  BY DEF IsPlain
<1>2. /\ DOMAIN Reverse(commands) = 1 .. Len(commands)
      /\ \A i \in 1 .. Len(commands) : Reverse(commands)[i] = commands[(Len(commands) - i) + 1]
  BY DEF Reverse
<1>3. Len(Reverse(commands)) = Len(commands)
  BY <1>1 DEF Reverse
<1>4. \A i \in 1 .. Len(commands) : (Len(commands) - i) + 1 \in 1 .. Len(commands)
  BY <1>1
<1> QED BY <1>1, <1>2, <1>3, <1>4 DEF IsPlain

\* A block of typed cells is such an edit.
LEMMA EditCellsIsEdit ==
  ASSUME SessionInv, EditCells
  PROVE  \E forward, inverse, serial : EditAs(forward, inverse, serial)
<1>1. PICK range \in Ranges : \E input \in [range -> Values \union {Clear}] :
        LET old(cell) == Content(doc, cell)
            new(cell) == Entered(input[cell])
            changed == SetToSeq({cell \in range : new(cell) # old(cell)})
        IN /\ RecordEdit(
                [i \in DOMAIN changed |->
                    CellForward(changed[i], old(changed[i]), new(changed[i]))],
                [i \in DOMAIN changed |->
                    CellInverse(changed[i], old(changed[i]), new(changed[i]))])
           /\ UNCHANGED rowSerial
  BY DEF EditCells
<1>2. PICK input \in [range -> Values \union {Clear}] :
        LET old(cell) == Content(doc, cell)
            new(cell) == Entered(input[cell])
            changed == SetToSeq({cell \in range : new(cell) # old(cell)})
        IN /\ RecordEdit(
                [i \in DOMAIN changed |->
                    CellForward(changed[i], old(changed[i]), new(changed[i]))],
                [i \in DOMAIN changed |->
                    CellInverse(changed[i], old(changed[i]), new(changed[i]))])
           /\ UNCHANGED rowSerial
  BY <1>1
<1> DEFINE S == {cell \in range : Entered(input[cell]) # Content(doc, cell)}
           changed == SetToSeq(S)
           forward == [i \in DOMAIN changed |->
                         CellForward(changed[i], Content(doc, changed[i]), Entered(input[changed[i]]))]
           inverse == [i \in DOMAIN changed |->
                         CellInverse(changed[i], Content(doc, changed[i]), Entered(input[changed[i]]))]
<1>3. RecordEdit(forward, inverse) /\ UNCHANGED rowSerial
  BY <1>2
<1>4. IsFiniteSet(S)
  BY SpecsAre, FS_Subset DEF Ranges, SessionInv
<1>5. IsPlain(forward)
  <2>1. \A i \in DOMAIN changed :
          forward[i].op \in Operations \ {"append_entity", "append_field"}
    BY DEF CellForward, ValueCommand, FormulaInverseRestore, SetFieldValue, UnsetField, Operations
  <2> HIDE DEF S
  <2> QED BY <1>4, <2>1, ListedPlain
<1>6. IsPlain(inverse)
  <2>1. \A i \in DOMAIN changed :
          inverse[i].op \in Operations \ {"append_entity", "append_field"}
    BY DEF CellInverse, ValueCommand, FormulaRestore, SetFieldValue, UnsetField, Operations
  <2> HIDE DEF S
  <2> QED BY <1>4, <2>1, ListedPlain
<1> HIDE DEF forward, inverse
<1> QED BY <1>3, <1>5, <1>6, PlainEdit

\* A formula that is typed in is one.
LEMMA UpdateFormulaIsEdit ==
  ASSUME SessionInv, UpdateFormula
  PROVE  \E forward, inverse, serial : EditAs(forward, inverse, serial)
<1>1. PICK cell \in AllCells, source \in AllCells :
        /\ RecordEdit(<<FormulaUpdate(cell, FormulaValue(source))>>, <<FormulaInverse(cell)>>)
        /\ UNCHANGED rowSerial
  BY DEF UpdateFormula
<1>2. IsPlain(<<FormulaUpdate(cell, FormulaValue(source))>>)
  BY DEF IsPlain, FormulaUpdate, Operations
<1>3. FormulaInverse(cell).op \in {"unset", "formula_update", "formula_inverse_restore"}
  BY DEF FormulaInverse, UnsetField, FormulaUpdate, FormulaInverseRestore
<1>4. IsPlain(<<FormulaInverse(cell)>>)
  BY <1>3 DEF IsPlain, Operations
<1> QED BY <1>1, <1>2, <1>4, PlainEdit

\* A formula that is copied is one.
LEMMA CopyFormulaIsEdit ==
  ASSUME SessionInv, CopyFormula
  PROVE  \E forward, inverse, serial : EditAs(forward, inverse, serial)
<1>1. PICK range, copy : range \in Ranges /\ CopyTo(range, copy) /\ UNCHANGED rowSerial
  BY DEF CopyFormula
<1> DEFINE S == {cell \in range : Content(doc, cell) # {copy[cell]}}
           changed == SetToSeq(S)
           ahead == [i \in DOMAIN changed |-> CopyForward(changed[i], copy[changed[i]])]
           back == [i \in DOMAIN changed |-> CopyInverse(changed[i])]
<1>2. RecordEdit(ahead, Reverse(back)) /\ UNCHANGED rowSerial
  BY <1>1 DEF CopyTo
<1>3. IsFiniteSet(S)
  BY <1>1, SpecsAre, FS_Subset DEF Ranges, SessionInv
<1> HIDE DEF S
<1>4. IsPlain(ahead)
  <2>1. \A i \in DOMAIN changed : ahead[i].op \in Operations \ {"append_entity", "append_field"}
    BY DEF CopyForward, SetFieldValue, FormulaRestore, Operations
  <2> QED BY <1>3, <2>1, ListedPlain
<1>5. IsPlain(back)
  <2>1. \A i \in DOMAIN changed : back[i].op \in Operations \ {"append_entity", "append_field"}
    BY DEF CopyInverse, FormulaInverseRestore, ValueCommand, SetFieldValue, UnsetField, Operations
  <2> QED BY <1>3, <2>1, ListedPlain
<1> HIDE DEF ahead, back
<1>6. IsPlain(Reverse(back))
  BY <1>5, ReversedPlain
<1> QED BY <1>2, <1>4, <1>6, PlainEdit

-----------------------------------------------------------------------------
(* Serials.                                                                *)

\* An issued id is odd, and its serial is the one it was issued for.
LEMMA IssuedId ==
  ASSUME NEW serial \in Nat
  PROVE  Issued(serial) \in Nat /\ Issued(serial) % 2 = 1 /\ Serial(Issued(serial)) = serial
BY DEF Issued, Serial

\* Among one serial more than there are rows one is free.
LEMMA NextSerialIsFree ==
  ASSUME DocInv, NEW serial \in Nat
  PROVE  /\ NextSerial(serial) \in Nat /\ NextSerial(serial) > serial
         /\ \A r \in DOMAIN doc.rows : Serial(r) # NextSerial(serial)
<1> DEFINE N == Cardinality(DOMAIN doc.rows)
           number == [r \in DOMAIN doc.rows |-> Serial(r)]
           Used == {number[r] : r \in DOMAIN doc.rows}
           Tried == (serial + 1) .. (serial + 1 + N)
<1>0. IsFiniteSet(DOMAIN doc.rows) /\ N \in Nat
  BY SpecsAre, FS_CardinalityType
<1>1. IsFiniteSet(Used) /\ Cardinality(Used) <= N /\ Cardinality(Used) \in Nat
  <2>1. DOMAIN number = DOMAIN doc.rows
    OBVIOUS
  <2> HIDE DEF number
  <2> QED BY <1>0, <2>1, ImageIsFinite
<1>2. IsFiniteSet(Tried) /\ Cardinality(Tried) = N + 1
  <2> HIDE DEF N
  <2>1. serial + 1 \in Int /\ serial + 1 + N \in Int
    BY <1>0
  <2>2. \A a, b \in Int : IsFiniteSet(a .. b) /\ Cardinality(a .. b) = IF a > b THEN 0 ELSE b - a + 1
    BY FS_Interval
  <2>3. ~(serial + 1 > serial + 1 + N) /\ (serial + 1 + N) - (serial + 1) + 1 = N + 1
    BY <1>0
  <2> QED BY <2>1, <2>2, <2>3
<1>3. Tried \ Used # {}
  <2> SUFFICES ASSUME Tried \subseteq Used PROVE FALSE
    OBVIOUS
  <2> HIDE DEF Tried, Used
  <2>1. Cardinality(Tried) <= Cardinality(Used)
    BY <1>1, FS_Subset
  <2> QED BY <1>0, <1>1, <1>2, <2>1
<1>4. PICK n \in Tried \ Used : \A m \in Tried \ Used : n <= m
  <2>1. Tried \ Used \in SUBSET Nat
    BY <1>0
  <2> HIDE DEF Tried, Used
  <2> QED BY <1>3, <2>1, LeastNat
<1>5. /\ n \in Tried
      /\ \A r \in DOMAIN doc.rows : Serial(r) # n
      /\ \A m \in serial + 1 .. n - 1 : \E r \in DOMAIN doc.rows : Serial(r) = m
  <2>1. ASSUME NEW m \in serial + 1 .. n - 1 PROVE m \in Used
    <3>1. n \in Nat /\ m \in Tried /\ ~(n <= m)
      BY <1>0
    <3> QED BY <1>4, <3>1
  <2> QED BY <1>4, <2>1
<1>6. /\ NextSerial(serial) \in Tried
      /\ \A r \in DOMAIN doc.rows : Serial(r) # NextSerial(serial)
  BY <1>5 DEF NextSerial
<1> QED BY <1>0, <1>6

\* New rows get growing serials, all beyond the last one handed out.
LEMMA NewSerialsAre ==
  ASSUME BatchInv, DocInv, NEW count \in Nat
  PROVE  /\ NewSerials(count) \in [0 .. count -> Nat]
         /\ NewSerials(count)[0] = rowSerial
         /\ \A k \in 0 .. count : \A j \in 0 .. k :
              /\ NewSerials(count)[j] <= NewSerials(count)[k]
              /\ j # k => NewSerials(count)[j] < NewSerials(count)[k]
<1> DEFINE Is(f) == f = [k \in 0 .. count |-> IF k = 0 THEN rowSerial ELSE NextSerial(f[k - 1])]
           serial == NewSerials(count)
<1>1. \E f : Is(f)
  <2> DEFINE next == [at \in (1 .. count) \X Nat |-> NextSerial(at[2])]
  <2>1. next \in [(1 .. count) \X Nat -> Nat]
    BY NextSerialIsFree
  <2>2. \A k \in 1 .. count, s \in Nat : next[<<k, s>>] = NextSerial(s)
    OBVIOUS
  <2> HIDE DEF next
  <2>3. rowSerial \in Nat
    BY DEF BatchInv
  <2>4. PICK f \in [0 .. count -> Nat] : IsRecursion(f, count, rowSerial, next)
    BY <2>1, <2>3, RecursionExists
  <2>5. \A k \in 0 .. count : f[k] = IF k = 0 THEN rowSerial ELSE NextSerial(f[k - 1])
    <3> SUFFICES ASSUME NEW k \in 0 .. count
                 PROVE  f[k] = IF k = 0 THEN rowSerial ELSE NextSerial(f[k - 1])
      OBVIOUS
    <3>1. CASE k = 0
      BY <2>4, <3>1 DEF IsRecursion
    <3>2. CASE k # 0
      <4>1. k \in 1 .. count /\ f[k - 1] \in Nat
        BY <3>2
      <4> QED BY <2>2, <2>4, <3>2, <4>1 DEF IsRecursion
    <3> QED BY <3>1, <3>2
  <2> QED BY <2>5
<1>2. Is(serial)
  BY <1>1 DEF NewSerials
<1> HIDE DEF serial
<1> DEFINE S == {k \in 0 .. count :
                   \A j \in 0 .. k :
                     /\ serial[j] \in Nat /\ serial[k] \in Nat
                     /\ serial[j] <= serial[k]
                     /\ j # k => serial[j] < serial[k]}
<1>3. 0 \in S
  BY <1>2 DEF BatchInv
<1>4. ASSUME NEW k \in 1 .. count, k - 1 \in S PROVE k \in S
  <2>1. serial[k] = NextSerial(serial[k - 1])
    BY <1>2
  <2>2. \A j \in 0 .. k - 1 :
          serial[j] \in Nat /\ serial[k - 1] \in Nat /\ serial[j] <= serial[k - 1]
    BY <1>4
  <2>3. serial[k] \in Nat /\ serial[k] > serial[k - 1]
    BY <2>1, <2>2, NextSerialIsFree
  <2>4. ASSUME NEW j \in 0 .. k
        PROVE  /\ serial[j] \in Nat /\ serial[k] \in Nat
               /\ serial[j] <= serial[k]
               /\ j # k => serial[j] < serial[k]
    <3>1. CASE j = k
      BY <2>3, <3>1
    <3>2. CASE j # k
      <4>1. j \in 0 .. k - 1
        BY <3>2
      <4> QED BY <2>2, <2>3, <4>1
    <3> QED BY <3>1, <3>2
  <2> QED BY <2>4
<1>5. 0 .. count \subseteq S
  <2> HIDE DEF S, Is
  <2> QED BY <1>3, <1>4, SegmentInduction
<1>6. \A k \in 0 .. count : serial[k] \in Nat
  BY <1>5
<1>7. serial \in [0 .. count -> Nat]
  BY <1>2, <1>6
<1>8. serial[0] = rowSerial
  BY <1>2
<1> QED BY <1>5, <1>7, <1>8 DEF serial

\* A new column gets a serial beyond the last one handed out.
LEMMA LastSerialIs ==
  ASSUME BatchInv, DocInv
  PROVE  LastSerial \in Nat /\ LastSerial >= proposalSerial
<1> DEFINE number == [c \in DOMAIN doc.columns |-> Serial(c)]
           serials == {number[c] : c \in DOMAIN doc.columns}
<1>0. serials = {Serial(c) : c \in DOMAIN doc.columns}
  OBVIOUS
<1>1. serials # {} /\ serials \subseteq Nat /\ IsFiniteSet(serials)
  <2>1. DOMAIN number = DOMAIN doc.columns
    OBVIOUS
  <2>2. DOMAIN doc.columns # {} /\ DOMAIN doc.columns \subseteq Nat
    BY SpecsAre
  <2>3. serials # {} /\ serials \subseteq Nat
    <3>1. \A c \in DOMAIN doc.columns : Serial(c) \in Nat
      BY <2>2 DEF Serial
    <3> QED BY <1>0, <2>2, <3>1
  <2> HIDE DEF number
  <2> QED BY <2>1, <2>3, SpecsAre, ImageIsFinite
<1> HIDE DEF serials
<1>2. \E n \in serials : \A m \in serials : m <= n
  BY <1>1, GreatestNat
<1>3. LastColumnSerial \in serials
  BY <1>0, <1>2 DEF LastColumnSerial
<1>4. LastColumnSerial \in Nat
  BY <1>1, <1>3
<1> QED BY <1>4 DEF LastSerial, BatchInv

-----------------------------------------------------------------------------
(* Requests about columns.                                                 *)

\* Commands that bring in nothing but what is in the document.
IsRestoring(commands) ==
    /\ Len(commands) \in Nat /\ DOMAIN commands = 1 .. Len(commands)
    /\ \A i \in 1 .. Len(commands) :
         /\ commands[i].op \in Operations
         /\ commands[i].op = "append_entity" =>
              commands[i].row \in DOMAIN doc.rows /\ IsMap(commands[i].fields)
         /\ commands[i].op = "append_field" => commands[i].column \in DOMAIN doc.columns

\* Commands that bring back ids of the document are known.
LEMMA RestoringBatch ==
  ASSUME SessionInv, NEW commands, IsRestoring(commands)
  PROVE  KnownBatch(commands, rowSerial, proposalSerial)
<1>1. /\ \A row \in DOMAIN doc.rows : Known(row, rowSerial) /\ row \in Nat
      /\ \A column \in DOMAIN doc.columns : Known(column, proposalSerial) /\ column \in Nat
  BY DEF SessionInv, IdsInv, DocInv, IsTable
<1>2. ASSUME NEW i \in 1 .. Len(commands)
      PROVE  KnownCommand(commands[i], rowSerial, proposalSerial)
  BY <1>1 DEF IsRestoring, KnownCommand, IsCommand, RowOf, ColumnOf
<1> QED BY <1>2 DEF KnownBatch, KnownCommand, IsBatch, IsRestoring

\* Such a batch without new rows is an edit that keeps the invariant.
LEMMA RestoringEdit ==
  ASSUME SessionInv, NEW forward, NEW inverse, IsRestoring(forward), IsRestoring(inverse),
         \A i \in 1 .. Len(forward) : forward[i].op # "append_entity",
         RecordEdit(forward, inverse), UNCHANGED rowSerial
  PROVE  EditAs(forward, inverse, proposalSerial + 1)
<1>1. /\ KnownBatch(forward, rowSerial, proposalSerial)
      /\ KnownBatch(inverse, rowSerial, proposalSerial)
      /\ rowSerial \in Nat /\ proposalSerial \in Nat
  BY RestoringBatch DEF SessionInv, BatchInv
<1>2. /\ KnownBatch(forward, rowSerial', proposalSerial + 1)
      /\ KnownBatch(inverse, rowSerial', proposalSerial + 1)
  <2>1. proposalSerial + 1 \in Nat /\ proposalSerial <= proposalSerial + 1
        /\ rowSerial <= rowSerial /\ rowSerial' = rowSerial
    BY <1>1
  <2> QED BY <1>1, <2>1, StaysKnown
<1>3. \A i \in 1 .. Len(forward) : FreshCommand(forward[i])
  BY DEF IsRestoring, FreshCommand, RowOf, ColumnOf
<1> QED BY <1>1, <1>2, <1>3 DEF EditAs, RecordEdit

\* One plain command, and one that takes it back.
LEMMA OneCommandIsEdit ==
  ASSUME SessionInv, NEW one, NEW back,
         one.op \in {"name", "requiredness", "constraint", "format", "order"},
         back.op \in {"name", "requiredness", "constraint", "format", "order"},
         RecordEdit(<<one>>, <<back>>), UNCHANGED rowSerial
  PROVE  \E forward, inverse, serial : EditAs(forward, inverse, serial)
<1>1. IsPlain(<<one>>) /\ IsPlain(<<back>>)
  BY DEF IsPlain, Operations
<1> QED BY <1>1, PlainEdit

\* A change of a column's name, constraint, format, requiredness or place is an edit.
LEMMA AttributeIsEdit ==
  ASSUME SessionInv,
         RenameColumn \/ ChangeRequiredness \/ ChangeConstraint \/ ChangeNumberFormat \/ MoveColumn
  PROVE  \E forward, inverse, serial : EditAs(forward, inverse, serial)
<1>1. CASE RenameColumn
  <2>1. PICK c, name : /\ RecordEdit(<<SetDisplayName(c, {name})>>,
                                     <<SetDisplayName(c, doc.columns[c].name)>>)
                       /\ UNCHANGED rowSerial
    BY <1>1 DEF RenameColumn
  <2>2. \A n : SetDisplayName(c, n).op = "name"
    BY DEF SetDisplayName
  <2> QED BY <2>1, <2>2, OneCommandIsEdit
<1>2. CASE ChangeRequiredness
  <2>1. PICK c : /\ RecordEdit(<<SetRequiredness(c, ~doc.columns[c].required)>>,
                               <<SetRequiredness(c, doc.columns[c].required)>>)
                 /\ UNCHANGED rowSerial
    BY <1>2 DEF ChangeRequiredness
  <2>2. /\ SetRequiredness(c, ~doc.columns[c].required).op = "requiredness"
        /\ SetRequiredness(c, doc.columns[c].required).op = "requiredness"
    BY DEF SetRequiredness
  <2> QED BY <2>1, <2>2, OneCommandIsEdit
<1>3. CASE ChangeConstraint
  <2>1. PICK c, allowed : /\ RecordEdit(<<SetConstraint(c, allowed)>>,
                                        <<SetConstraint(c, doc.columns[c].constraint)>>)
                          /\ UNCHANGED rowSerial
    BY <1>3 DEF ChangeConstraint
  <2>2. \A set : SetConstraint(c, set).op = "constraint"
    BY DEF SetConstraint
  <2> QED BY <2>1, <2>2, OneCommandIsEdit
<1>4. CASE ChangeNumberFormat
  <2>1. PICK c, format : /\ RecordEdit(<<SetNumberFormat(c, format)>>,
                                       <<SetNumberFormat(c, doc.columns[c].format)>>)
                         /\ UNCHANGED rowSerial
    BY <1>4 DEF ChangeNumberFormat
  <2>2. \A f : SetNumberFormat(c, f).op = "format"
    BY DEF SetNumberFormat
  <2> QED BY <2>1, <2>2, OneCommandIsEdit
<1>5. CASE MoveColumn
  <2>1. PICK next : /\ RecordEdit(<<SetSchemaFieldOrder(next)>>, <<SetSchemaFieldOrder(doc.order)>>)
                    /\ UNCHANGED rowSerial
    BY <1>5 DEF MoveColumn
  <2>2. \A order : SetSchemaFieldOrder(order).op = "order"
    BY DEF SetSchemaFieldOrder
  <2> QED BY <2>1, <2>2, OneCommandIsEdit
<1> QED BY <1>1, <1>2, <1>3, <1>4, <1>5

\* The removal of a column is an edit.
LEMMA RemoveColumnIsEdit ==
  ASSUME SessionInv, RemoveColumn
  PROVE  \E forward, inverse, serial : EditAs(forward, inverse, serial)
<1>1. PICK c \in DOMAIN doc.columns :
        /\ RecordEdit(<<RemoveSchemaField(c, doc.columns[c], ValuesOf(doc, c))>>,
                      <<AppendSchemaField(c, doc.columns[c], ValuesOf(doc, c)),
                        SetSchemaFieldOrder(doc.order)>>)
        /\ UNCHANGED rowSerial
  BY DEF RemoveColumn
<1> DEFINE ahead == <<RemoveSchemaField(c, doc.columns[c], ValuesOf(doc, c))>>
           back == <<AppendSchemaField(c, doc.columns[c], ValuesOf(doc, c)),
                     SetSchemaFieldOrder(doc.order)>>
<1>2. IsRestoring(ahead) /\ \A i \in 1 .. Len(ahead) : ahead[i].op # "append_entity"
  BY DEF IsRestoring, RemoveSchemaField, Operations
<1>3. IsRestoring(back)
  BY DEF IsRestoring, AppendSchemaField, SetSchemaFieldOrder, Operations
<1> HIDE DEF ahead, back
<1>4. RecordEdit(ahead, back) /\ UNCHANGED rowSerial
  BY <1>1 DEF ahead, back
<1> QED BY <1>2, <1>3, <1>4, RestoringEdit

\* A change of a column's type is an edit: the column is removed and appended again.
LEMMA ChangeColumnTypeIsEdit ==
  ASSUME SessionInv, ChangeColumnType
  PROVE  \E forward, inverse, serial : EditAs(forward, inverse, serial)
<1>1. PICK c, changed, newValues :
        /\ c \in DOMAIN doc.columns
        /\ RecordEdit(<<RemoveSchemaField(c, doc.columns[c], ValuesOf(doc, c)),
                        AppendSchemaField(c, changed, newValues),
                        SetSchemaFieldOrder(doc.order)>>,
                      <<RemoveSchemaField(c, changed, newValues),
                        AppendSchemaField(c, doc.columns[c], ValuesOf(doc, c)),
                        SetSchemaFieldOrder(doc.order)>>)
        /\ UNCHANGED rowSerial
  BY DEF ChangeColumnType
<1> DEFINE replaced(old, oldValues, new, values) ==
             <<RemoveSchemaField(c, old, oldValues), AppendSchemaField(c, new, values),
               SetSchemaFieldOrder(doc.order)>>
           ahead == replaced(doc.columns[c], ValuesOf(doc, c), changed, newValues)
           back == replaced(changed, newValues, doc.columns[c], ValuesOf(doc, c))
<1>2. ASSUME NEW old, NEW oldValues, NEW new, NEW values
      PROVE  /\ IsRestoring(replaced(old, oldValues, new, values))
             /\ \A i \in 1 .. Len(replaced(old, oldValues, new, values)) :
                  replaced(old, oldValues, new, values)[i].op # "append_entity"
  BY <1>1 DEF IsRestoring, RemoveSchemaField, AppendSchemaField, SetSchemaFieldOrder, Operations
<1>3. RecordEdit(ahead, back) /\ UNCHANGED rowSerial
  BY <1>1
<1>4. /\ IsRestoring(ahead) /\ IsRestoring(back)
      /\ \A i \in 1 .. Len(ahead) : ahead[i].op # "append_entity"
  BY <1>2
<1> HIDE DEF ahead, back
<1> QED BY <1>3, <1>4, RestoringEdit

\* The column is of a serial above every one handed out.
LEMMA AddColumnIsEdit ==
  ASSUME SessionInv, AddColumn
  PROVE  \E forward, inverse, serial : EditAs(forward, inverse, serial)
<1> DEFINE serial == LastSerial + 1
           column == Issued(serial)
<1>1. PICK definition, values :
        /\ RecordEditAs(<<AppendSchemaField(column, definition, values)>>,
                        <<RemoveSchemaField(column, definition, values),
                          SetSchemaFieldOrder(doc.order)>>,
                        serial)
        /\ UNCHANGED <<rowSerial, pending>>
  BY DEF AddColumn
<1> DEFINE ahead == <<AppendSchemaField(column, definition, values)>>
           back == <<RemoveSchemaField(column, definition, values), SetSchemaFieldOrder(doc.order)>>
<1>2. serial \in Nat /\ serial > proposalSerial /\ proposalSerial \in Nat /\ rowSerial \in Nat
  BY LastSerialIs DEF SessionInv, BatchInv
<1> HIDE DEF serial
<1>3. column \in Nat /\ column % 2 = 1 /\ Serial(column) = serial
  BY <1>2, IssuedId
<1> HIDE DEF column
<1>4. KnownBatch(ahead, rowSerial, serial) /\ FreshCommand(ahead[1]) /\ Len(ahead) = 1
  BY <1>2, <1>3 DEF KnownBatch, KnownCommand, IsBatch, IsCommand, RowOf, ColumnOf, Known,
                    FreshCommand, AppendSchemaField, Operations
<1>5. IsPlain(back)
  BY DEF IsPlain, RemoveSchemaField, SetSchemaFieldOrder, Operations
<1>6. RecordEditAs(ahead, back, serial) /\ UNCHANGED <<rowSerial, pending>>
  BY <1>1
<1> HIDE DEF ahead, back
<1>7. KnownBatch(back, rowSerial, serial)
  BY <1>5, PlainBatch
<1>8. \A i \in 1 .. Len(ahead) : FreshCommand(ahead[i])
  BY <1>4
<1>9. EditAs(ahead, back, serial)
  BY <1>2, <1>4, <1>6, <1>7, <1>8 DEF EditAs
<1> QED BY <1>9

-----------------------------------------------------------------------------
(* Requests about rows, and cleanups.                                      *)

\* The order of commands does not matter to what they bring back.
LEMMA ReversedRestoring ==
  ASSUME NEW commands, IsRestoring(commands)
  PROVE  IsRestoring(Reverse(commands))
<1>1. Len(commands) \in Nat
  BY DEF IsRestoring
<1>2. /\ DOMAIN Reverse(commands) = 1 .. Len(commands)
      /\ \A i \in 1 .. Len(commands) : Reverse(commands)[i] = commands[(Len(commands) - i) + 1]
  BY DEF Reverse
<1>3. Len(Reverse(commands)) = Len(commands)
  BY <1>1 DEF Reverse
<1>4. \A i \in 1 .. Len(commands) : (Len(commands) - i) + 1 \in 1 .. Len(commands)
  BY <1>1
<1> QED BY <1>1, <1>2, <1>3, <1>4 DEF IsRestoring

\* The removal of rows is an edit.
LEMMA RemoveTableRowsIsEdit ==
  ASSUME SessionInv, RemoveTableRows
  PROVE  \E forward, inverse, serial : EditAs(forward, inverse, serial)
<1>1. PICK removed \in SUBSET specs.rows :
        /\ RecordEdit([i \in DOMAIN SetToSeq(removed) |-> RemoveEntity(SetToSeq(removed)[i])],
                      Reverse([i \in DOMAIN SetToSeq(removed) |->
                        AppendEntity(SetToSeq(removed)[i], doc.rows[SetToSeq(removed)[i]])]))
        /\ UNCHANGED rowSerial
  BY DEF RemoveTableRows
<1> DEFINE rows == SetToSeq(removed)
           ahead == [i \in DOMAIN rows |-> RemoveEntity(rows[i])]
           back == [i \in DOMAIN rows |-> AppendEntity(rows[i], doc.rows[rows[i]])]
<1>2. IsFiniteSet(removed) /\ removed \subseteq DOMAIN doc.rows
  BY SpecsAre, FS_Subset DEF SessionInv
<1>3. rows \in [1 .. Cardinality(removed) -> removed] /\ Cardinality(removed) \in Nat
  BY <1>2, SetToSeqLists
<1>4. RecordEdit(ahead, Reverse(back)) /\ UNCHANGED rowSerial
  BY <1>1
<1> HIDE DEF rows
<1>5. IsPlain(ahead)
  <2>1. DOMAIN ahead = 1 .. Cardinality(removed) /\ Len(ahead) = Cardinality(removed)
    BY <1>3
  <2> QED BY <1>3, <2>1 DEF IsPlain, RemoveEntity, Operations
<1>6. IsRestoring(ahead) /\ \A i \in 1 .. Len(ahead) : ahead[i].op # "append_entity"
  BY <1>5 DEF IsPlain, IsRestoring
<1>7. IsRestoring(back)
  <2>1. DOMAIN back = 1 .. Cardinality(removed) /\ Len(back) = Cardinality(removed)
    BY <1>3
  <2>2. ASSUME NEW i \in 1 .. Cardinality(removed)
        PROVE  /\ back[i].op = "append_entity" /\ back[i].row \in DOMAIN doc.rows
               /\ IsMap(back[i].fields)
    <3>1. rows[i] \in DOMAIN doc.rows /\ IsMap(doc.rows[rows[i]])
      BY <1>2, <1>3 DEF SessionInv, DocInv, IsTable
    <3> QED BY <1>3, <3>1 DEF AppendEntity
  <2> HIDE DEF back
  <2> QED BY <1>3, <2>1, <2>2 DEF IsRestoring, Operations
<1> HIDE DEF ahead, back
<1>8. IsRestoring(Reverse(back))
  BY <1>7, ReversedRestoring
<1> QED BY <1>4, <1>6, <1>8, RestoringEdit

\* The commit of a cleanup is an edit.
LEMMA CommitCleanupIsEdit ==
  ASSUME SessionInv, CommitCleanup
  PROVE  \E forward, inverse, serial : EditAs(forward, inverse, serial)
<1>1. /\ pending # NoCleanup /\ pending.revision = revision
      /\ RecordEditAs(pending.commands, pending.inverse, proposalSerial + 1)
      /\ pending' = NoCleanup /\ rowSerial' = rowSerial
  BY DEF CommitCleanup
<1>2. /\ KnownBatch(pending.commands, rowSerial, proposalSerial)
      /\ KnownBatch(pending.inverse, rowSerial, proposalSerial)
      /\ \A i \in 1 .. Len(pending.commands) : pending.commands[i].op \in {"set", "remove_entity"}
      /\ proposalSerial \in Nat /\ rowSerial \in Nat
  BY <1>1 DEF SessionInv, PendingInv, BatchInv
<1>3. /\ KnownBatch(pending.commands, rowSerial, proposalSerial + 1)
      /\ KnownBatch(pending.inverse, rowSerial, proposalSerial + 1)
  <2>1. proposalSerial + 1 \in Nat /\ proposalSerial <= proposalSerial + 1 /\ rowSerial <= rowSerial
    BY <1>2
  <2> QED BY <1>2, <2>1, StaysKnown
<1>4. \A i \in 1 .. Len(pending.commands) : FreshCommand(pending.commands[i])
  BY <1>2 DEF FreshCommand, RowOf, ColumnOf
<1>5. EditAs(pending.commands, pending.inverse, proposalSerial + 1)
  BY <1>1, <1>2, <1>3, <1>4 DEF EditAs
<1> QED BY <1>5

\* A filled row is a row.
LEMMA FilledAreMaps ==
  ASSUME NEW edited, NEW rows, NEW typed, NEW fills, \A r \in DOMAIN rows : IsMap(rows[r])
  PROVE  \A r \in DOMAIN rows : IsMap(Filled(edited, rows, typed, fills)[r])
<1> DEFINE with(cells) ==
             [r \in DOMAIN rows |->
                Over([c \in {c \in DOMAIN fills : <<r, c>> \in cells} |-> FormulaValue(<<r, fills[c]>>)],
                     rows[r])]
<1>1. \A cells : \A r \in DOMAIN rows : IsMap(with(cells)[r])
  BY DEF Over, IsMap
<1>2. Filled(edited, rows, typed, fills) = rows \/ \E cells : Filled(edited, rows, typed, fills) = with(cells)
  BY DEF Filled
<1> HIDE DEF with
<1> QED BY <1>1, <1>2

\* A new row of the next serial.
LEMMA InsertRowIsEdit ==
  ASSUME SessionInv, InsertRow
  PROVE  \E forward, inverse, serial : EditAs(forward, inverse, serial)
<1> DEFINE serial == NewSerials(1)[1]
           row == Issued(serial)
           fields(typed) ==
             Filled(doc, Only(row, Over(typed, DefaultFields)), Only(row, typed), Fills)[row]
<1>1. PICK typed : /\ RecordEdit(<<AppendEntity(row, fields(typed))>>, <<RemoveEntity(row)>>)
                   /\ rowSerial' = serial
  BY DEF InsertRow
<1>2. /\ rowSerial \in Nat /\ proposalSerial \in Nat
      /\ serial \in Nat /\ serial > rowSerial
  <2>1. BatchInv /\ DocInv
    BY DEF SessionInv
  <2>2. /\ NewSerials(1) \in [0 .. 1 -> Nat] /\ NewSerials(1)[0] = rowSerial
        /\ NewSerials(1)[0] < NewSerials(1)[1]
    <3>1. 1 \in Nat /\ 1 \in 0 .. 1 /\ 0 \in 0 .. 1 /\ 0 # 1
      OBVIOUS
    <3>2. \A k \in 0 .. 1 : \A j \in 0 .. k : j # k => NewSerials(1)[j] < NewSerials(1)[k]
      BY <2>1, <3>1, NewSerialsAre
    <3>3. NewSerials(1) \in [0 .. 1 -> Nat] /\ NewSerials(1)[0] = rowSerial
      BY <2>1, <3>1, NewSerialsAre
    <3> QED BY <3>1, <3>2, <3>3
  <2> QED BY <2>1, <2>2 DEF BatchInv
<1> HIDE DEF serial
<1>3. row \in Nat /\ row % 2 = 1 /\ Serial(row) = serial
  BY <1>2, IssuedId
<1>4. IsMap(fields(typed))
  <2> DEFINE rows == Only(row, Over(typed, DefaultFields))
  <2>1. DOMAIN rows = {row} /\ \A r \in DOMAIN rows : IsMap(rows[r])
    BY DEF Only, Over, IsMap
  <2> HIDE DEF rows
  <2>2. \A r \in DOMAIN rows : IsMap(Filled(doc, rows, Only(row, typed), Fills)[r])
    BY <2>1, FilledAreMaps
  <2> QED BY <2>1, <2>2 DEF rows
<1> HIDE DEF row, fields
<1> DEFINE command == AppendEntity(row, fields(typed))
<1>5. /\ KnownCommand(command, serial, proposalSerial + 1)
      /\ FreshCommand(command)
  BY <1>2, <1>3, <1>4 DEF KnownCommand, IsCommand, RowOf, ColumnOf, Known, FreshCommand,
                          AppendEntity, Operations
<1>6. IsPlain(<<RemoveEntity(row)>>)
  BY DEF IsPlain, RemoveEntity, Operations
<1> HIDE DEF command
<1>7. KnownBatch(<<command>>, serial, proposalSerial + 1) /\ FreshCommand(<<command>>[1])
  BY <1>5 DEF KnownBatch, IsBatch, KnownCommand
<1>8. KnownBatch(<<RemoveEntity(row)>>, serial, proposalSerial + 1)
  BY <1>6, PlainBatch
<1>9. EditAs(<<command>>, <<RemoveEntity(row)>>, proposalSerial + 1)
  <2>1. RecordEdit(<<command>>, <<RemoveEntity(row)>>)
    BY <1>1 DEF command
  <2>2. \A i \in 1 .. Len(<<command>>) : FreshCommand(<<command>>[i])
    BY <1>7
  <2> QED BY <1>1, <1>2, <1>7, <1>8, <2>1, <2>2 DEF EditAs, RecordEdit
<1> QED BY <1>9

\* What a row that is pasted over comes to.
LEMMA PastedRowIs ==
  ASSUME NEW id, NEW isNew, NEW cells
  PROVE  /\ PastedRow(id, isNew, cells).id = id
         /\ PastedRow(id, isNew, cells).changed \subseteq DOMAIN cells
         /\ IsMap(PastedRow(id, isNew, cells).fields)
         /\ \A c \in PastedRow(id, isNew, cells).changed :
              /\ PastedRow(id, isNew, cells).forward[c].op
                   \in Operations \ {"append_entity", "append_field"}
              /\ PastedRow(id, isNew, cells).inverse[c].op
                   \in Operations \ {"append_entity", "append_field"}
<1>1. \A cell, old, new :
        /\ CellForward(cell, old, new).op \in Operations \ {"append_entity", "append_field"}
        /\ CellInverse(cell, old, new).op \in Operations \ {"append_entity", "append_field"}
  BY DEF CellForward, CellInverse, ValueCommand, FormulaInverseRestore, FormulaRestore,
         SetFieldValue, UnsetField, Operations
<1> QED BY <1>1 DEF PastedRow, Over, IsMap

\* Lists as sequences, and where the elements of a concatenation come from.
LEMMA ListIsSeq ==
  ASSUME NEW S, NEW n \in Nat, NEW list \in [1 .. n -> S]
  PROVE  list \in Seq(S) /\ Len(list) = n
OBVIOUS

LEMMA ConcatPlaces ==
  ASSUME NEW S, NEW a \in Seq(S), NEW b \in Seq(S)
  PROVE  /\ \A j \in 1 .. Len(a) : (a \o b)[j] = a[j]
         /\ \A k \in 1 .. Len(b) : (a \o b)[Len(a) + k] = b[k]
<1>1. Len(a) \in Nat /\ Len(b) \in Nat
  OBVIOUS
<1>2. ASSUME NEW k \in 1 .. Len(b) PROVE (a \o b)[Len(a) + k] = b[k]
  <2>1. Len(a) + k \in 1 .. Len(a) + Len(b) /\ ~(Len(a) + k <= Len(a)) /\ (Len(a) + k) - Len(a) = k
    BY <1>1
  <2> QED BY <1>1, <2>1
<1> QED BY <1>2

LEMMA ConcatElements ==
  ASSUME NEW S, NEW a \in Seq(S), NEW b \in Seq(S)
  PROVE  /\ Len(a \o b) \in Nat /\ DOMAIN (a \o b) = 1 .. Len(a \o b)
         /\ \A i \in 1 .. Len(a \o b) :
              \/ \E j \in 1 .. Len(a) : (a \o b)[i] = a[j]
              \/ \E j \in 1 .. Len(b) : (a \o b)[i] = b[j]
<1>1. Len(a \o b) = Len(a) + Len(b) /\ Len(a) \in Nat /\ Len(b) \in Nat /\ a \o b \in Seq(S)
  OBVIOUS
<1>2. ASSUME NEW i \in 1 .. Len(a \o b)
      PROVE  \/ \E j \in 1 .. Len(a) : (a \o b)[i] = a[j]
             \/ \E j \in 1 .. Len(b) : (a \o b)[i] = b[j]
  <2>1. CASE i <= Len(a)
    BY <1>1, <2>1
  <2>2. CASE ~(i <= Len(a))
    <3>1. i - Len(a) \in 1 .. Len(b) /\ (a \o b)[i] = b[i - Len(a)]
      BY <1>1, <2>2
    <3> QED BY <3>1
  <2> QED BY <2>1, <2>2
<1> QED BY <1>1, <1>2

\* The same for two lists of given lengths.
LEMMA JoinedLists ==
  ASSUME NEW m \in Nat, NEW n \in Nat, NEW a, NEW b,
         a \in [1 .. m -> Range(a)], b \in [1 .. n -> Range(b)]
  PROVE  /\ Len(a \o b) \in Nat /\ DOMAIN (a \o b) = 1 .. Len(a \o b)
         /\ \A i \in 1 .. Len(a \o b) :
              \/ \E k \in 1 .. m : (a \o b)[i] = a[k]
              \/ \E k \in 1 .. n : (a \o b)[i] = b[k]
<1> DEFINE S == Range(a) \union Range(b)
<1>1. a \in [1 .. m -> S] /\ b \in [1 .. n -> S]
  OBVIOUS
<1> HIDE DEF S
<1>2. a \in Seq(S) /\ Len(a) = m
  BY <1>1, ListIsSeq
<1>3. b \in Seq(S) /\ Len(b) = n
  BY <1>1, ListIsSeq
<1> QED BY <1>2, <1>3, ConcatElements

\* The pasted rows below the last one shown are of the next serials, each of its own.
LEMMA PasteTargetsAre ==
  ASSUME SessionInv, NEW count \in Nat,
         NEW targets, targets = IdOrder(specs.rows) \o
                        [k \in DOMAIN NewSerials(count) \ {0} |-> Issued(NewSerials(count)[k])]
  PROVE  /\ Len(IdOrder(specs.rows)) = Cardinality(specs.rows) /\ Cardinality(specs.rows) \in Nat
         /\ \A j \in 1 .. Cardinality(specs.rows) : targets[j] \in DOMAIN doc.rows
         /\ \A k \in 1 .. count :
              targets[Cardinality(specs.rows) + k] = Issued(NewSerials(count)[k])
<1> DEFINE N == Cardinality(specs.rows)
           shown == IdOrder(specs.rows)
           serial == NewSerials(count)
           new == [k \in DOMAIN serial \ {0} |-> Issued(serial[k])]
<1>1. /\ N \in Nat /\ shown \in [1 .. N -> DOMAIN doc.rows]
      /\ BatchInv /\ DocInv
  BY SpecsAre, IdOrderLists, FS_CardinalityType DEF SessionInv
<1>2. Len(shown) = N
  BY <1>1
<1>4. serial \in [0 .. count -> Nat]
  BY <1>1, NewSerialsAre
<1> HIDE DEF N, serial, shown
<1>5. new \in [1 .. count -> Nat] /\ \A k \in 1 .. count : new[k] = Issued(serial[k])
  <2>1. DOMAIN serial \ {0} = 1 .. count
    BY <1>4
  <2>2. ASSUME NEW k \in 1 .. count PROVE Issued(serial[k]) \in Nat
    <3>1. serial[k] \in Nat
      BY <1>4
    <3> QED BY <3>1, IssuedId
  <2> QED BY <2>1, <2>2
<1> HIDE DEF new
<1>6. targets = shown \o new
  BY DEF shown, new, serial
<1>7. /\ \A j \in 1 .. N : targets[j] = shown[j]
      /\ \A k \in 1 .. count : targets[N + k] = new[k]
  <2> DEFINE S == Nat \union DOMAIN doc.rows
  <2>1. shown \in [1 .. N -> S] /\ new \in [1 .. count -> S]
    BY <1>1, <1>5
  <2> HIDE DEF S
  <2>2. /\ shown \in Seq(S) /\ Len(shown) = N
        /\ new \in Seq(S) /\ Len(new) = count
    BY <1>1, <2>1, ListIsSeq
  <2>3. /\ \A j \in 1 .. Len(shown) : (shown \o new)[j] = shown[j]
        /\ \A k \in 1 .. Len(new) : (shown \o new)[Len(shown) + k] = new[k]
    BY <2>2, ConcatPlaces
  <2> QED BY <1>6, <2>2, <2>3
<1> QED BY <1>1, <1>2, <1>5, <1>7 DEF N, shown, serial

\* Where a block is pasted.
LEMMA PasteIsAt ==
  ASSUME Paste
  PROVE  \E height, start, columns, block :
           /\ height \in 1 .. MaxRange /\ start \in 1 .. Cardinality(specs.rows) + 1
           /\ PasteAt(start, height, columns, block)
           /\ IsFiniteSet(columns)
           /\ \A c \in columns : \E k \in Int : k >= 1 /\ k <= Len(specs.order) /\ c = specs.order[k]
           /\ block \in [1 .. height -> [columns -> Values \union {Clear}]]
<1> DEFINE cut(left, width) == {specs.order[k] : k \in left .. left + width - 1}
<1>1. PICK height \in 1 .. MaxRange, width \in 1 .. MaxRange :
        \E start \in 1 .. Cardinality(specs.rows) + 1, left \in 1 .. Len(specs.order) - width + 1 :
          \E block \in [1 .. height -> [cut(left, width) -> Values \union {Clear}]] :
            PasteAt(start, height, cut(left, width), block)
  BY DEF Paste
<1>2. PICK start \in 1 .. Cardinality(specs.rows) + 1, left \in 1 .. Len(specs.order) - width + 1 :
        \E block \in [1 .. height -> [cut(left, width) -> Values \union {Clear}]] :
          PasteAt(start, height, cut(left, width), block)
  BY <1>1
<1> DEFINE picked == [k \in left .. left + width - 1 |-> specs.order[k]]
           columns == {picked[k] : k \in left .. left + width - 1}
<1>3. columns = cut(left, width)
  OBVIOUS
<1>4. width \in Int /\ left \in Int /\ left + width - 1 \in Int /\ left >= 1
      /\ DOMAIN picked = left .. left + width - 1
  BY BoundsAssumption
<1>5. IsFiniteSet(columns)
  <2>1. \A a, b \in Int : IsFiniteSet(a .. b)
    BY FS_Interval
  <2> HIDE DEF picked
  <2> QED BY <1>4, <2>1, ImageIsFinite
<1>6. ASSUME NEW c \in columns
      PROVE  \E k \in Int : k >= 1 /\ k <= Len(specs.order) /\ c = specs.order[k]
  <2>1. PICK k \in left .. left + width - 1 : c = specs.order[k]
    OBVIOUS
  <2>2. k \in Int /\ k >= 1 /\ k <= Len(specs.order)
    BY <1>4
  <2> QED BY <2>1, <2>2
<1> HIDE DEF columns, cut
<1> QED BY <1>2, <1>3, <1>5, <1>6

\* A paste is an edit, of the rows there are and of new ones.
LEMMA PasteIsEdit ==
  ASSUME SessionInv, Paste
  PROVE  (\E forward, inverse, serial : EditAs(forward, inverse, serial)) /\ UNCHANGED pending
<1>1. PICK height, start, columns, block :
        /\ height \in 1 .. MaxRange /\ start \in 1 .. Cardinality(specs.rows) + 1
        /\ PasteAt(start, height, columns, block)
        /\ IsFiniteSet(columns)
        /\ block \in [1 .. height -> [columns -> Values \union {Clear}]]
  BY PasteIsAt
<1> DEFINE shown == IdOrder(specs.rows)
           below == start + height - 1 - Len(shown)
           count == IF below > 0 THEN below ELSE 0
           serial == NewSerials(count)
           targets == shown \o [k \in DOMAIN serial \ {0} |-> Issued(serial[k])]
           row == [i \in 1 .. height |->
                     PastedRow(targets[start + i - 1], start + i - 1 > Len(shown), block[i])]
           edits == {row[i] : i \in {i \in 1 .. height : start + i - 1 <= Len(shown)}}
           news == {row[i] : i \in 1 .. height} \ edits
           fills == Restrict(Fills, DOMAIN Fills \ UNION {edit.changed : edit \in edits})
           edited == [doc EXCEPT !.rows = Over(RowFunction(edits, LAMBDA r : r.fields), @)]
           appended == Filled(edited, RowFunction(news, LAMBDA r : r.fields),
                              RowFunction(news, LAMBDA r : r.typed), fills)
           cellEdits == SetToSeq(UNION {{<<edit, c>> : c \in edit.changed} : edit \in edits})
           rows == SetToSeq(news)
           cellAhead == [k \in DOMAIN cellEdits |-> cellEdits[k][1].forward[cellEdits[k][2]]]
           rowAhead == [k \in DOMAIN rows |-> AppendEntity(rows[k].id, appended[rows[k].id])]
           cellBack == [k \in DOMAIN cellEdits |-> cellEdits[k][1].inverse[cellEdits[k][2]]]
           rowBack == [k \in DOMAIN rows |-> RemoveEntity(rows[k].id)]
<1>2. /\ RecordEdit(cellAhead \o rowAhead, Reverse(cellBack \o rowBack))
      /\ rowSerial' = serial[Cardinality(news)]
  BY <1>1 DEF PasteAt
<1> DEFINE N == Cardinality(specs.rows)
           new == [k \in 1 .. count |-> row[(N + k - start) + 1]]
           Plain == Operations \ {"append_entity", "append_field"}
<1>3. /\ rowSerial \in Nat /\ proposalSerial \in Nat /\ BatchInv /\ DocInv
      /\ \A r \in DOMAIN doc.rows : Known(r, rowSerial)
  BY DEF SessionInv, BatchInv, IdsInv
<1>4. /\ N \in Nat /\ Len(shown) = N
      /\ height \in Nat \ {0} /\ start \in 1 .. N + 1
  <2>1. N \in Nat /\ Len(shown) = N
    <3>1. 0 \in Nat
      OBVIOUS
    <3> QED BY <3>1, PasteTargetsAre
  <2> QED BY <1>1, <2>1, BoundsAssumption
<1>5. count \in Nat /\ count = IF start + height - 1 - N > 0 THEN start + height - 1 - N ELSE 0
  BY <1>4
<1> HIDE DEF count
<1>6. /\ \A j \in 1 .. N : targets[j] \in DOMAIN doc.rows
      /\ \A k \in 1 .. count : targets[N + k] = Issued(serial[k])
  BY <1>5, PasteTargetsAre
<1>7. /\ serial \in [0 .. count -> Nat] /\ serial[0] = rowSerial
      /\ \A k \in 0 .. count : \A j \in 0 .. k :
           /\ serial[j] <= serial[k]
           /\ j # k => serial[j] < serial[k]
  BY <1>3, <1>5, NewSerialsAre
<1>8. \A i \in 1 .. height :
        /\ row[i].id = targets[start + i - 1]
        /\ row[i].changed \subseteq columns
        /\ IsMap(row[i].fields)
        /\ \A c \in row[i].changed : row[i].forward[c].op \in Plain /\ row[i].inverse[c].op \in Plain
  <2> HIDE DEF targets, shown
  <2> SUFFICES ASSUME NEW i \in 1 .. height
               PROVE  /\ row[i].id = targets[start + i - 1]
                      /\ row[i].changed \subseteq columns
                      /\ IsMap(row[i].fields)
                      /\ \A c \in row[i].changed :
                           row[i].forward[c].op \in Plain /\ row[i].inverse[c].op \in Plain
    OBVIOUS
  <2>1. row[i] = PastedRow(targets[start + i - 1], start + i - 1 > Len(shown), block[i])
    OBVIOUS
  <2>2. DOMAIN block[i] = columns
    BY <1>1
  <2> HIDE DEF row
  <2> QED BY <2>1, <2>2, PastedRowIs
<1> HIDE DEF serial, targets, shown
<1>9. \A k \in 1 .. count :
        /\ serial[k] \in Nat /\ serial[k] > rowSerial
        /\ Issued(serial[k]) \in Nat /\ Issued(serial[k]) % 2 = 1
        /\ Serial(Issued(serial[k])) = serial[k]
        /\ Issued(serial[k]) \notin DOMAIN doc.rows
  <2> SUFFICES ASSUME NEW k \in 1 .. count
               PROVE  /\ serial[k] \in Nat /\ serial[k] > rowSerial
                      /\ Issued(serial[k]) \in Nat /\ Issued(serial[k]) % 2 = 1
                      /\ Serial(Issued(serial[k])) = serial[k]
                      /\ Issued(serial[k]) \notin DOMAIN doc.rows
    OBVIOUS
  <2>1. k \in 0 .. count /\ 0 \in 0 .. k /\ 0 # k
    BY <1>5
  <2>2. serial[k] \in Nat /\ serial[0] < serial[k]
    BY <1>7, <2>1
  <2>3. serial[k] > rowSerial
    BY <1>3, <1>7, <2>2
  <2>4. /\ Issued(serial[k]) \in Nat /\ Issued(serial[k]) % 2 = 1
        /\ Serial(Issued(serial[k])) = serial[k]
    BY <2>2, IssuedId
  <2>5. ~(serial[k] <= rowSerial)
    BY <1>3, <2>2, <2>3
  <2> QED BY <1>3, <2>2, <2>3, <2>4, <2>5 DEF Known
<1> HIDE DEF row
<1>10. \A k \in 1 .. count : /\ new[k].id = Issued(serial[k])
                             /\ (N + k - start) + 1 \in 1 .. height
                             /\ (start + ((N + k - start) + 1)) - 1 = N + k
  <2> SUFFICES ASSUME NEW k \in 1 .. count
               PROVE  /\ new[k].id = Issued(serial[k])
                      /\ (N + k - start) + 1 \in 1 .. height
                      /\ (start + ((N + k - start) + 1)) - 1 = N + k
    OBVIOUS
  <2>1. (N + k - start) + 1 \in 1 .. height
    <3> HIDE DEF N
    <3> QED BY <1>4, <1>5
  <2>2. (start + ((N + k - start) + 1)) - 1 = N + k
    <3> HIDE DEF N
    <3> QED BY <1>4, <1>5
  <2>3. new[k] = row[(N + k - start) + 1]
    OBVIOUS
  <2> HIDE DEF new, N
  <2> DEFINE j == (N + k - start) + 1
  <2>4. j \in 1 .. height /\ start + j - 1 = N + k
    BY <1>4, <1>5, <2>1
  <2> HIDE DEF j
  <2>5. row[j].id = targets[N + k]
    BY <1>8, <2>4
  <2>6. targets[N + k] = Issued(serial[k])
    BY <1>6 DEF N
  <2>7. new[k].id = Issued(serial[k])
    BY <2>3, <2>5, <2>6 DEF j
  <2> QED BY <2>1, <2>2, <2>7
<1>11. news = {new[k] : k \in 1 .. count}
  <2>1. ASSUME NEW n \in news PROVE \E k \in 1 .. count : n = new[k]
    <3>1. PICK i \in 1 .. height : n = row[i] /\ ~(start + i - 1 <= N)
      BY <1>4
    <3> DEFINE k == (start + i - 1) - N
    <3>2. k \in 1 .. count /\ (N + k - start) + 1 = i
      <4> HIDE DEF N
      <4> QED BY <1>4, <1>5, <3>1
    <3> HIDE DEF k, N
    <3> QED BY <3>1, <3>2
  <2>2. ASSUME NEW k \in 1 .. count PROVE new[k] \in news
    <3>1. new[k] \in {row[i] : i \in 1 .. height}
      BY <1>10
    <3>2. ASSUME NEW i \in 1 .. height, start + i - 1 <= N PROVE row[i].id \in DOMAIN doc.rows
      <4>1. start + i - 1 \in 1 .. N
        <5> HIDE DEF N
        <5> QED BY <1>4, <3>2
      <4> HIDE DEF N
      <4> QED BY <1>6, <1>8, <4>1
    <3>3. new[k].id \notin DOMAIN doc.rows
      BY <1>9, <1>10
    <3> HIDE DEF new
    <3> QED BY <1>4, <3>1, <3>2, <3>3
  <2> HIDE DEF news, new
  <2> QED BY <2>1, <2>2
<1>12. IsFiniteSet(news) /\ Cardinality(news) = count
  <2>1. new \in Bijection(1 .. count, news)
    <3>1. new \in Surjection(1 .. count, news)
      <4> HIDE DEF news
      <4> QED BY <1>11 DEF Surjection
    <3>2. ASSUME NEW j \in 1 .. count, NEW k \in 1 .. count, new[j] = new[k] PROVE j = k
      <4>1. Issued(serial[j]) = Issued(serial[k])
        BY <1>10, <3>2
      <4>2. serial[j] = serial[k] /\ serial[j] \in Nat
        BY <1>9, <4>1
      <4>3. j \in 0 .. count /\ k \in 0 .. count /\ (j # k => j \in 0 .. k \/ k \in 0 .. j)
        BY <1>5
      <4>4. ~(serial[j] < serial[k]) /\ ~(serial[k] < serial[j])
        BY <4>2
      <4> QED BY <1>7, <4>3, <4>4
    <3> HIDE DEF new, news
    <3> QED BY <3>1, <3>2 DEF Bijection, Injection, Surjection, IsInjective
  <2>2. \A a, b \in Int : IsFiniteSet(a .. b) /\ Cardinality(a .. b) = IF a > b THEN 0 ELSE b - a + 1
    BY FS_Interval
  <2>3. IsFiniteSet(1 .. count) /\ Cardinality(1 .. count) = count
    <3>1. 1 \in Int /\ count \in Int /\ (IF 1 > count THEN 0 ELSE count - 1 + 1) = count
      BY <1>5
    <3> QED BY <2>2, <3>1
  <2> HIDE DEF new, news
  <2> QED BY <2>1, <2>3, FS_Bijection DEF ExistsBijection
<1>13. rowSerial' \in Nat /\ rowSerial' >= rowSerial /\ \A k \in 1 .. count : serial[k] <= rowSerial'
  <2>1. rowSerial' = serial[count]
    BY <1>2, <1>12
  <2>2. /\ count \in 0 .. count /\ 0 \in 0 .. count
        /\ \A k \in 1 .. count : k \in 0 .. count
    BY <1>5
  <2> QED BY <1>3, <1>7, <2>1, <2>2
<1>14. \A n \in news : /\ n.id \in Nat /\ n.id % 2 = 1
                       /\ Serial(n.id) > rowSerial /\ Serial(n.id) <= rowSerial'
  <2> HIDE DEF new, news
  <2> SUFFICES ASSUME NEW k \in 1 .. count
               PROVE  /\ new[k].id \in Nat /\ new[k].id % 2 = 1
                      /\ Serial(new[k].id) > rowSerial /\ Serial(new[k].id) <= rowSerial'
    BY <1>11
  <2> QED BY <1>9, <1>10, <1>13
<1>15. \A n \in news : IsMap(appended[n.id])
  <2> DEFINE given == RowFunction(news, LAMBDA r : r.fields)
  <2>1. \A n \in news : n.id \in DOMAIN given
    <3> HIDE DEF news
    <3> QED BY DEF RowFunction
  <2>2. \A id \in DOMAIN given : IsMap(given[id])
    <3>1. \A n \in news : IsMap(n.fields)
      BY <1>8
    <3> HIDE DEF news
    <3>2. ASSUME NEW id \in DOMAIN given PROVE IsMap(given[id])
      <4>1. \E n \in news : n.id = id
        BY DEF RowFunction
      <4>2. given[id] = (CHOOSE n \in news : n.id = id).fields
        BY DEF RowFunction
      <4> QED BY <3>1, <4>1, <4>2
    <3> QED BY <3>2
  <2> HIDE DEF given, news, fills, edited
  <2>3. \A r \in DOMAIN given :
          IsMap(Filled(edited, given, RowFunction(news, LAMBDA q : q.typed), fills)[r])
    BY <2>2, FilledAreMaps
  <2> QED BY <2>1, <2>3 DEF given
<1>16. /\ rowAhead \in [1 .. count -> Range(rowAhead)]
       /\ rowBack \in [1 .. count -> Range(rowBack)]
       /\ \A k \in 1 .. count :
            /\ KnownCommand(rowAhead[k], rowSerial', proposalSerial + 1)
            /\ FreshCommand(rowAhead[k])
            /\ rowBack[k].op \in Plain
  <2> HIDE DEF news, appended
  <2>1. rows \in [1 .. count -> news]
    BY <1>12, SetToSeqLists
  <2> HIDE DEF rows
  <2>2. DOMAIN rowAhead = 1 .. count /\ DOMAIN rowBack = 1 .. count
    BY <2>1
  <2>3. ASSUME NEW k \in 1 .. count
        PROVE  /\ KnownCommand(rowAhead[k], rowSerial', proposalSerial + 1)
               /\ FreshCommand(rowAhead[k])
               /\ rowBack[k].op \in Plain
    <3> DEFINE n == rows[k]
    <3>1. n \in news
      BY <2>1
    <3>2. rowAhead[k] = AppendEntity(n.id, appended[n.id]) /\ rowBack[k] = RemoveEntity(n.id)
      BY <2>1
    <3> HIDE DEF n, rowAhead, rowBack
    <3>3. KnownCommand(rowAhead[k], rowSerial', proposalSerial + 1) /\ FreshCommand(rowAhead[k])
      BY <1>14, <1>15, <3>1, <3>2 DEF KnownCommand, IsCommand, RowOf, ColumnOf, Known, FreshCommand,
                                      AppendEntity, Operations
    <3> QED BY <3>2, <3>3 DEF RemoveEntity, Operations
  <2>4. rowAhead \in [1 .. count -> Range(rowAhead)] /\ rowBack \in [1 .. count -> Range(rowBack)]
    BY <2>2 DEF Range
  <2> QED BY <2>3, <2>4
<1>17. \E m \in Nat : /\ cellAhead \in [1 .. m -> Range(cellAhead)]
                      /\ cellBack \in [1 .. m -> Range(cellBack)]
                      /\ \A k \in 1 .. m : cellAhead[k].op \in Plain /\ cellBack[k].op \in Plain
  <2> DEFINE changes == UNION {{<<edit, c>> : c \in edit.changed} : edit \in edits}
  <2>1. \A edit \in edits :
          /\ edit.changed \subseteq columns
          /\ \A c \in edit.changed : edit.forward[c].op \in Plain /\ edit.inverse[c].op \in Plain
    BY <1>8
  <2>2. IsFiniteSet(edits)
    <3> DEFINE f == [i \in 1 .. height |-> row[i]]
    <3>1. DOMAIN f = 1 .. height /\ edits \subseteq {f[i] : i \in 1 .. height}
      OBVIOUS
    <3>2. IsFiniteSet(1 .. height)
      <4>1. \A a, b \in Int : IsFiniteSet(a .. b)
        BY FS_Interval
      <4> QED BY <1>4, <4>1
    <3> HIDE DEF f, edits
    <3>3. IsFiniteSet({f[i] : i \in 1 .. height})
      BY <3>1, <3>2, ImageIsFinite
    <3> QED BY <3>1, <3>3, FS_Subset
  <2> HIDE DEF edits
  <2>3. /\ changes \subseteq edits \X columns
        /\ \A change \in changes : change[1] \in edits /\ change[2] \in change[1].changed
    BY <2>1
  <2>4. IsFiniteSet(changes)
    <3>1. IsFiniteSet(edits \X columns)
      BY <1>1, <2>2, FS_Product
    <3> HIDE DEF changes
    <3> QED BY <2>3, <3>1, FS_Subset
  <2> HIDE DEF changes
  <2>5. cellEdits \in [1 .. Cardinality(changes) -> changes] /\ Cardinality(changes) \in Nat
    BY <2>4, SetToSeqLists DEF changes
  <2> HIDE DEF cellEdits
  <2>6. /\ DOMAIN cellAhead = 1 .. Cardinality(changes)
        /\ DOMAIN cellBack = 1 .. Cardinality(changes)
        /\ \A k \in 1 .. Cardinality(changes) : cellAhead[k].op \in Plain /\ cellBack[k].op \in Plain
    BY <2>1, <2>3, <2>5
  <2>7. /\ cellAhead \in [1 .. Cardinality(changes) -> Range(cellAhead)]
        /\ cellBack \in [1 .. Cardinality(changes) -> Range(cellBack)]
    BY <2>6 DEF Range
  <2> HIDE DEF cellAhead, cellBack
  <2> QED BY <2>5, <2>6, <2>7
<1> HIDE DEF rowAhead, rowBack, cellAhead, cellBack, news
<1> DEFINE ahead == cellAhead \o rowAhead
           back == cellBack \o rowBack
<1>18. /\ KnownBatch(ahead, rowSerial', proposalSerial + 1)
       /\ \A i \in 1 .. Len(ahead) : FreshCommand(ahead[i])
       /\ IsPlain(back)
  <2>1. PICK m \in Nat : /\ cellAhead \in [1 .. m -> Range(cellAhead)]
                         /\ cellBack \in [1 .. m -> Range(cellBack)]
                         /\ \A k \in 1 .. m : cellAhead[k].op \in Plain /\ cellBack[k].op \in Plain
    BY <1>17
  <2>2. count \in Nat
    BY <1>5
  <2>3. /\ rowAhead \in [1 .. count -> Range(rowAhead)]
        /\ rowBack \in [1 .. count -> Range(rowBack)]
    BY <1>16
  <2> HIDE DEF Plain, count
  <2>5. /\ Len(ahead) \in Nat /\ DOMAIN ahead = 1 .. Len(ahead)
        /\ \A i \in 1 .. Len(ahead) : \/ \E k \in 1 .. m : ahead[i] = cellAhead[k]
                                      \/ \E k \in 1 .. count : ahead[i] = rowAhead[k]
    BY <2>1, <2>2, <2>3, JoinedLists, SMTT(30)
  <2>6. /\ Len(back) \in Nat /\ DOMAIN back = 1 .. Len(back)
        /\ \A i \in 1 .. Len(back) : \/ \E k \in 1 .. m : back[i] = cellBack[k]
                                     \/ \E k \in 1 .. count : back[i] = rowBack[k]
    BY <2>1, <2>2, <2>3, JoinedLists
  <2> USE DEF Plain, count
  <2> HIDE DEF ahead, back
  <2>7. ASSUME NEW i \in 1 .. Len(ahead)
        PROVE  KnownCommand(ahead[i], rowSerial', proposalSerial + 1) /\ FreshCommand(ahead[i])
    <3>1. CASE \E k \in 1 .. m : ahead[i] = cellAhead[k]
      <4>1. ahead[i].op \in Plain
        BY <2>1, <3>1
      <4> QED BY <4>1 DEF KnownCommand, IsCommand, RowOf, ColumnOf, FreshCommand
    <3>2. CASE \E k \in 1 .. count : ahead[i] = rowAhead[k]
      BY <1>16, <3>2
    <3> QED BY <2>5, <3>1, <3>2
  <2>8. \A i \in 1 .. Len(back) : back[i].op \in Plain
    BY <1>16, <2>1, <2>6
  <2>9. KnownBatch(ahead, rowSerial', proposalSerial + 1)
    BY <2>5, <2>7 DEF KnownBatch, IsBatch, KnownCommand
  <2> QED BY <2>6, <2>7, <2>8, <2>9 DEF IsPlain
<1>19. KnownBatch(Reverse(back), rowSerial', proposalSerial + 1)
  BY <1>18, ReversedPlain, PlainBatch
<1>20. RecordEdit(ahead, Reverse(back))
  BY <1>2
<1> HIDE DEF ahead, back
<1>21. EditAs(ahead, Reverse(back), proposalSerial + 1)
  BY <1>3, <1>13, <1>18, <1>19, <1>20 DEF EditAs, RecordEdit
<1>22. UNCHANGED pending
  BY <1>20 DEF RecordEdit
<1> QED BY <1>21, <1>22

-----------------------------------------------------------------------------
(* The other steps of a session.                                           *)

\* Undo and Redo keep the invariant: what they publish was known when it was recorded.
LEMMA HistoryKeepsInvariant ==
  ASSUME SessionInv, Undo \/ Redo
  PROVE  SessionInv'
<1>1. PICK commands : /\ HistoryEdit(commands)
                      /\ KnownBatch(commands, rowSerial, proposalSerial)
                      /\ KnownStack(undo', rowSerial, proposalSerial)
                      /\ KnownStack(redo', rowSerial, proposalSerial)
  <2>1. /\ KnownStack(undo, rowSerial, proposalSerial)
        /\ KnownStack(redo, rowSerial, proposalSerial)
    BY DEF SessionInv, BatchInv
  <2>2. CASE Undo
    <3>1. /\ undo # <<>> /\ HistoryEdit(Top(undo).inverse)
          /\ undo' = Front(undo) /\ redo' = Append(redo, Top(undo))
      BY <2>2 DEF Undo
    <3>2. /\ KnownBatch(Top(undo).inverse, rowSerial, proposalSerial)
          /\ KnownStack(Front(undo), rowSerial, proposalSerial)
          /\ KnownStack(Append(redo, Top(undo)), rowSerial, proposalSerial)
      BY <2>1, <3>1, MoveKnown
    <3> QED BY <3>1, <3>2
  <2>3. CASE Redo
    <3>1. /\ redo # <<>> /\ HistoryEdit(Top(redo).forward)
          /\ redo' = Front(redo) /\ undo' = Append(undo, Top(redo))
      BY <2>3 DEF Redo
    <3>2. /\ KnownBatch(Top(redo).forward, rowSerial, proposalSerial)
          /\ KnownStack(Front(redo), rowSerial, proposalSerial)
          /\ KnownStack(Append(undo, Top(redo)), rowSerial, proposalSerial)
      BY <2>1, <3>1, MoveKnown
    <3> QED BY <3>1, <3>2
  <2> QED BY <2>2, <2>3
<1> DEFINE serial == proposalSerial + 1
<1>2. /\ serial \in Nat /\ serial >= proposalSerial /\ proposalSerial <= serial
      /\ rowSerial \in Nat /\ rowSerial' = rowSerial /\ rowSerial <= rowSerial
      /\ rowSerial' >= rowSerial /\ revision \in Nat /\ proposalSerial \in Nat
  BY <1>1 DEF SessionInv, BatchInv, HistoryEdit
<1> HIDE DEF serial
<1>3. /\ Publish(commands, serial)
      /\ UNCHANGED <<pending, issued, reissued>>
      /\ IsBatch(commands)
  BY <1>1 DEF HistoryEdit, KnownBatch, serial
<1>4. DocInv' /\ revision' = revision + 1 /\ proposalSerial' = serial
  BY <1>3, PublishKeepsDoc DEF SessionInv
<1>5. /\ KnownBatch(commands, rowSerial', serial)
      /\ KnownStack(undo', rowSerial', serial)
      /\ KnownStack(redo', rowSerial', serial)
  BY <1>1, <1>2, StaysKnown, StackStaysKnown
<1>6. BatchInv'
  BY <1>2, <1>4, <1>5 DEF BatchInv
<1>7. PendingInv'
  <2>1. CASE pending = NoCleanup
    BY <1>3, <2>1 DEF PendingInv
  <2>2. CASE pending # NoCleanup
    <3>1. /\ KnownBatch(pending.commands, rowSerial', serial)
          /\ KnownBatch(pending.inverse, rowSerial', serial)
      BY <1>2, <2>2, StaysKnown DEF SessionInv, PendingInv
    <3>2. pending.revision \in Nat /\ pending.revision <= revision
      BY <2>2 DEF SessionInv, PendingInv
    <3>3. pending.revision <= revision' /\ pending.revision # revision'
      BY <1>2, <1>4, <3>2
    <3> QED BY <1>3, <1>4, <2>2, <3>1, <3>2, <3>3 DEF SessionInv, PendingInv
  <2> QED BY <2>1, <2>2
<1>8. IdsInv'
  <2>1. /\ \A row \in DOMAIN doc'.rows : Known(row, rowSerial')
        /\ \A column \in DOMAIN doc'.columns : Known(column, serial)
    BY <1>2, <1>3, <1>5, PublishKeepsKnown DEF SessionInv
  <2>2. \A id : Known(id, proposalSerial) => Known(id, serial)
    BY <1>2 DEF Known, Serial
  <2>3. \A id \in issued' : Known(id[2], IF id[1] = "row" THEN rowSerial' ELSE serial)
    BY <1>2, <1>3, <2>2 DEF SessionInv, IdsInv
  <2> QED BY <1>3, <1>4, <2>1, <2>3 DEF SessionInv, IdsInv
<1> QED BY <1>4, <1>6, <1>7, <1>8 DEF SessionInv

\* A proposal id is taken, and the document stays.
LEMMA TakenSerialKeepsInvariant ==
  ASSUME SessionInv, proposalSerial' \in Nat, proposalSerial' >= proposalSerial,
         UNCHANGED <<doc, revision, caches, opened, undo, redo, rowSerial, issued, reissued>>
  PROVE  BatchInv' /\ DocInv' /\ IdsInv' /\ (pending' = pending => PendingInv')
<1> DEFINE serial == proposalSerial'
<1>1. /\ serial \in Nat /\ serial >= proposalSerial /\ proposalSerial <= serial
      /\ rowSerial \in Nat /\ rowSerial' = rowSerial /\ rowSerial <= rowSerial
      /\ revision \in Nat /\ revision' = revision /\ proposalSerial \in Nat
  BY DEF SessionInv, BatchInv
<1>2. /\ doc' = doc /\ specs' = specs /\ sources' = sources /\ usage' = usage /\ opened' = opened
      /\ undo' = undo /\ redo' = redo /\ issued' = issued /\ reissued' = reissued
  BY DEF caches
<1>3. DocInv'
  <2>1. ProfileAdmits(doc)' = ProfileAdmits(doc)
    BY <1>2 DEF ProfileAdmits, MaxRows
  <2> QED BY <1>2, <2>1 DEF SessionInv, DocInv, StructureIsCurrent
<1> HIDE DEF serial
<1>4. KnownStack(undo, rowSerial, serial) /\ KnownStack(redo, rowSerial, serial)
  <2>1. KnownStack(undo, rowSerial, proposalSerial) /\ KnownStack(redo, rowSerial, proposalSerial)
    BY DEF SessionInv, BatchInv
  <2> QED BY <1>1, <2>1, StackStaysKnown
<1>5. BatchInv'
  BY <1>1, <1>2, <1>4 DEF BatchInv, serial
<1>6. \A id : Known(id, proposalSerial) => Known(id, serial)
  BY <1>1 DEF Known, Serial
<1>7. IdsInv'
  <2>1. /\ \A row \in DOMAIN doc.rows : Known(row, rowSerial)
        /\ \A column \in DOMAIN doc.columns : Known(column, serial)
        /\ \A id \in issued : Known(id[2], IF id[1] = "row" THEN rowSerial ELSE serial)
        /\ reissued = {}
    BY <1>6 DEF SessionInv, IdsInv
  <2> QED BY <1>1, <1>2, <2>1 DEF IdsInv, serial
<1>8. ASSUME pending' = pending PROVE PendingInv'
  <2>1. CASE pending = NoCleanup
    BY <1>8, <2>1 DEF PendingInv
  <2>2. CASE pending # NoCleanup
    <3>1. /\ KnownBatch(pending.commands, rowSerial, serial)
          /\ KnownBatch(pending.inverse, rowSerial, serial)
      BY <1>1, <2>2, StaysKnown DEF SessionInv, PendingInv
    <3> QED BY <1>1, <1>2, <1>8, <2>2, <3>1 DEF SessionInv, PendingInv, serial
  <2> QED BY <2>1, <2>2
<1> QED BY <1>3, <1>5, <1>7, <1>8

\* What a cleanup request comes to: values set, or rows of the document removed.
IsCleanup(commands) ==
    /\ Len(commands) \in Nat /\ DOMAIN commands = 1 .. Len(commands)
    /\ \A i \in 1 .. Len(commands) :
         /\ commands[i].op \in {"set", "remove_entity"}
         /\ commands[i].op = "remove_entity" => commands[i].row \in DOMAIN doc.rows

\* A cleanup sets cells and removes rows that are there.
LEMMA SetAllIsCleanup ==
  ASSUME NEW newValue, IsFiniteSet(DOMAIN newValue)
  PROVE  IsCleanup(SetAll(newValue))
<1> DEFINE S == {cell \in DOMAIN newValue : {newValue[cell]} # Content(doc, cell)}
           changed == SetToSeq(S)
<1>1. IsFiniteSet(S)
  BY FS_Subset
<1>2. SetAll(newValue) = [i \in DOMAIN changed |-> SetFieldValue(changed[i], newValue[changed[i]])]
  BY DEF SetAll
<1> HIDE DEF S
<1>3. changed \in [1 .. Cardinality(S) -> S] /\ Cardinality(S) \in Nat
  BY <1>1, SetToSeqLists
<1> HIDE DEF changed
<1>4. DOMAIN SetAll(newValue) = 1 .. Cardinality(S) /\ Len(SetAll(newValue)) = Cardinality(S)
  BY <1>2, <1>3
<1>5. \A i \in 1 .. Cardinality(S) : SetAll(newValue)[i].op = "set"
  BY <1>2, <1>3 DEF SetFieldValue
<1> QED BY <1>3, <1>4, <1>5 DEF IsCleanup

LEMMA CleanupsAre ==
  ASSUME DocInv, NEW commands \in Cleanups
  PROVE  IsCleanup(commands)
<1>1. \A range \in Ranges : IsFiniteSet(range)
  BY SpecsAre, FS_Subset DEF Ranges
<1>2. CASE \E cells \in Ranges : commands = Trim(cells)
  <2>1. PICK cells \in Ranges : commands = Trim(cells)
    BY <1>2
  <2> DEFINE newValue ==
               [cell \in cells |-> TextValue(Trimmed[doc.rows[cell[1]][cell[2]][2]])]
  <2>2. commands = SetAll(newValue) /\ DOMAIN newValue = cells
    BY <2>1 DEF Trim
  <2> HIDE DEF newValue
  <2> QED BY <1>1, <2>2, SetAllIsCleanup
<1>3. CASE \E cells \in Ranges : \E value : commands = FillBlanks(cells, value)
  <2>1. PICK cells \in Ranges : \E value : commands = FillBlanks(cells, value)
    BY <1>3
  <2>2. PICK value : commands = FillBlanks(cells, value)
    BY <2>1
  <2> DEFINE newValue == [cell \in {c \in cells : ~Present(doc, c)} |-> value]
  <2>3. commands = SetAll(newValue) /\ DOMAIN newValue \subseteq cells
    BY <2>2 DEF FillBlanks
  <2> HIDE DEF newValue
  <2>4. IsFiniteSet(DOMAIN newValue)
    BY <1>1, <2>3, FS_Subset
  <2> QED BY <2>3, <2>4, SetAllIsCleanup
<1>4. CASE \E rows \in SUBSET DOMAIN doc.rows : \E keys : commands = Deduplicate(rows, keys)
  <2>1. PICK rows \in SUBSET DOMAIN doc.rows : \E keys : commands = Deduplicate(rows, keys)
    BY <1>4
  <2>2. PICK keys : commands = Deduplicate(rows, keys)
    BY <2>1
  <2>3. PICK gone \in SUBSET DOMAIN doc.rows :
          commands = [i \in DOMAIN IdOrder(gone) |-> RemoveEntity(IdOrder(gone)[i])]
    <3> DEFINE gone == {r \in rows : \E s \in rows :
                          s < r /\ \A c \in keys : Content(doc, <<r, c>>) = Content(doc, <<s, c>>)}
    <3>1. commands = [i \in DOMAIN IdOrder(gone) |-> RemoveEntity(IdOrder(gone)[i])]
      BY <2>2 DEF Deduplicate
    <3>2. gone \in SUBSET DOMAIN doc.rows
      OBVIOUS
    <3> QED BY <3>1, <3>2
  <2>4. IsFiniteSet(gone) /\ gone \subseteq Nat
    BY SpecsAre, FS_Subset
  <2>5. IdOrder(gone) \in [1 .. Cardinality(gone) -> gone] /\ Cardinality(gone) \in Nat
    BY <2>4, IdOrderLists, FS_CardinalityType
  <2>6. DOMAIN commands = 1 .. Cardinality(gone) /\ Len(commands) = Cardinality(gone)
    BY <2>3, <2>5
  <2>7. \A i \in 1 .. Cardinality(gone) :
          commands[i].op = "remove_entity" /\ commands[i].row \in DOMAIN doc.rows
    BY <2>3, <2>5 DEF RemoveEntity
  <2> QED BY <2>5, <2>6, <2>7 DEF IsCleanup
<1> QED BY <1>2, <1>3, <1>4 DEF Cleanups

\* A preview is what its commands make of the document it was made on.
LEMMA PreviewKeepsInvariant ==
  ASSUME SessionInv, PreviewCleanup
  PROVE  SessionInv'
<1>1. PICK commands, candidate :
        /\ commands \in Cleanups /\ candidate \in Publishable(doc, commands)
        /\ pending' = [id |-> proposalSerial + 1, revision |-> revision,
                       commands |-> commands, inverse |-> CleanupInverse(commands),
                       candidate |-> candidate]
        /\ proposalSerial' = proposalSerial + 1
        /\ UNCHANGED <<doc, revision, caches, opened, undo, redo, rowSerial, issued, reissued>>
  <2>1. PICK commands \in Cleanups :
          /\ \E candidate \in Publishable(doc, commands) :
               pending' = [id |-> proposalSerial + 1, revision |-> revision,
                           commands |-> commands, inverse |-> CleanupInverse(commands),
                           candidate |-> candidate]
          /\ proposalSerial' = proposalSerial + 1
          /\ UNCHANGED <<doc, revision, caches, opened, undo, redo, rowSerial, issued, reissued>>
    BY DEF PreviewCleanup
  <2> QED BY <2>1
<1>2. /\ proposalSerial' \in Nat /\ proposalSerial' >= proposalSerial /\ proposalSerial \in Nat
      /\ proposalSerial <= proposalSerial' /\ rowSerial \in Nat /\ rowSerial <= rowSerial
      /\ rowSerial' = rowSerial /\ doc' = doc /\ revision' = revision /\ revision \in Nat
  BY <1>1 DEF SessionInv, BatchInv
<1>3. BatchInv' /\ DocInv' /\ IdsInv'
  BY <1>1, <1>2, TakenSerialKeepsInvariant
<1>4. IsCleanup(commands)
  BY <1>1, CleanupsAre DEF SessionInv
<1> DEFINE inverse(command) ==
             IF command.op = "remove_entity" THEN AppendEntity(command.row, doc.rows[command.row])
             ELSE ValueCommand(command.cell, Content(doc, command.cell))
           back == [i \in DOMAIN commands |-> inverse(commands[i])]
<1>5. CleanupInverse(commands) = Reverse(back)
  BY DEF CleanupInverse
<1>6. IsRestoring(commands) /\ IsRestoring(back)
  <2>1. IsRestoring(commands)
    BY <1>4 DEF IsCleanup, IsRestoring, Operations
  <2>2. DOMAIN back = 1 .. Len(commands) /\ Len(back) = Len(commands)
    BY <1>4 DEF IsCleanup
  <2>3. ASSUME NEW i \in 1 .. Len(commands)
        PROVE  /\ back[i].op \in Operations
               /\ back[i].op = "append_entity" =>
                    back[i].row \in DOMAIN doc.rows /\ IsMap(back[i].fields)
               /\ back[i].op # "append_field"
    <3>1. back[i] = inverse(commands[i])
      BY <2>2
    <3>2. CASE commands[i].op = "remove_entity"
      <4>1. commands[i].row \in DOMAIN doc.rows /\ IsMap(doc.rows[commands[i].row])
        BY <1>4, <3>2 DEF IsCleanup, SessionInv, DocInv, IsTable
      <4> QED BY <3>1, <3>2, <4>1, SMTT(30) DEF AppendEntity, Operations
    <3>3. CASE commands[i].op # "remove_entity"
      BY <3>1, <3>3, SMTT(30) DEF ValueCommand, UnsetField, SetFieldValue, Operations
    <3> QED BY <3>2, <3>3
  <2> HIDE DEF back
  <2>4. IsRestoring(back)
    BY <1>4, <2>2, <2>3 DEF IsCleanup, IsRestoring
  <2> QED BY <2>1, <2>4
<1> HIDE DEF back
<1>7. /\ KnownBatch(commands, rowSerial, proposalSerial)
      /\ KnownBatch(CleanupInverse(commands), rowSerial, proposalSerial)
  BY <1>5, <1>6, ReversedRestoring, RestoringBatch
<1>8. /\ KnownBatch(commands, rowSerial, proposalSerial')
      /\ KnownBatch(CleanupInverse(commands), rowSerial, proposalSerial')
  BY <1>2, <1>7, StaysKnown
<1>9. candidate \in Plan(doc, commands)
  BY <1>1 DEF Publishable
<1>10. /\ pending'.commands = commands /\ pending'.inverse = CleanupInverse(commands)
       /\ pending'.revision = revision /\ pending'.candidate = candidate
  BY <1>1
<1>11. PendingInv'
  BY <1>2, <1>4, <1>8, <1>9, <1>10 DEF PendingInv, IsCleanup
<1> QED BY <1>3, <1>11 DEF SessionInv

-----------------------------------------------------------------------------
(* What is proved of a session.                                            *)

\* The invariant holds when a session opens, and every step keeps it.
LEMMA InitEstablishesInvariant ==
  ASSUME Init
  PROVE  SessionInv
<1>1. /\ IsTable(doc) /\ Valid(doc)
      /\ \A id \in (DOMAIN doc.columns) \union DOMAIN doc.rows : id % 2 = 0
  BY InitialDocsAssumption DEF Init
<1>2. BatchInv
  <2>1. undo = <<>> /\ redo = <<>> /\ revision = 0 /\ proposalSerial = 0 /\ rowSerial = 0
    BY DEF Init
  <2>2. KnownStack(<<>>, 0, 0)
    BY DEF KnownStack, Range
  <2> QED BY <2>1, <2>2 DEF BatchInv
<1>3. DocInv
  BY <1>1 DEF Init, DocInv, StructureIsCurrent
<1>4. PendingInv
  BY DEF Init, PendingInv
<1>5. IdsInv
  <2>1. \A id \in (DOMAIN doc.columns) \union DOMAIN doc.rows : Known(id, 0)
    BY <1>1 DEF Known, IsTable
  <2> QED BY <2>1 DEF Init, IdsInv, Ids
<1> QED BY <1>2, <1>3, <1>4, <1>5 DEF SessionInv

LEMMA RequestIsEdit ==
  ASSUME SessionInv, CellRequest \/ RowRequest \/ ColumnRequest \/ CommitCleanup
  PROVE  \E forward, inverse, serial : EditAs(forward, inverse, serial)
<1>1. CASE CellRequest
  BY <1>1, EditCellsIsEdit, UpdateFormulaIsEdit, CopyFormulaIsEdit DEF CellRequest
<1>2. CASE RowRequest
  BY <1>2, InsertRowIsEdit, RemoveTableRowsIsEdit, PasteIsEdit DEF RowRequest
<1>3. CASE ColumnRequest
  BY <1>3, AddColumnIsEdit, RemoveColumnIsEdit, ChangeColumnTypeIsEdit, AttributeIsEdit
     DEF ColumnRequest
<1> QED BY <1>1, <1>2, <1>3, CommitCleanupIsEdit

LEMMA NextKeepsInvariant ==
  ASSUME SessionInv, [Next]_vars
  PROVE  SessionInv'
<1>1. CASE CellRequest \/ RowRequest \/ ColumnRequest \/ CommitCleanup
  BY <1>1, RequestIsEdit, EditKeepsInvariant
<1>2. CASE PreviewCleanup
  BY <1>2, PreviewKeepsInvariant
<1>3. CASE HistoryRequest
  BY <1>3, HistoryKeepsInvariant DEF HistoryRequest
<1>4. CASE RefusedRequest
  <2>1. proposalSerial' \in {proposalSerial + 1, LastSerial} /\ proposalSerial \in Nat
    BY <1>4 DEF RefusedRequest, SessionInv, BatchInv
  <2>2. proposalSerial' \in Nat /\ proposalSerial' >= proposalSerial
    BY <2>1, LastSerialIs DEF SessionInv
  <2>3. UNCHANGED <<doc, revision, caches, opened, undo, redo, rowSerial, pending, issued, reissued>>
    BY <1>4 DEF RefusedRequest
  <2> QED BY <2>2, <2>3, TakenSerialKeepsInvariant DEF SessionInv
<1>5. CASE UNCHANGED vars
  <2>1. proposalSerial' \in Nat /\ proposalSerial' >= proposalSerial
    BY <1>5 DEF vars, SessionInv, BatchInv
  <2>2. UNCHANGED <<doc, revision, caches, opened, undo, redo, rowSerial, pending, issued, reissued>>
    BY <1>5 DEF vars
  <2> QED BY <2>1, <2>2, TakenSerialKeepsInvariant DEF SessionInv
<1> QED BY <1>1, <1>2, <1>3, <1>4, <1>5 DEF Next, CleanupRequest

\* Whatever a session is asked, its stacks and its preview hold batches on ids
\* it knows, its document is a valid table, and what it caches of it is true.
THEOREM SessionStaysSound == Spec => []SessionInv
<1>1. Init => SessionInv
  BY InitEstablishesInvariant
<1>2. SessionInv /\ [Next]_vars => SessionInv'
  BY NextKeepsInvariant
<1> QED BY <1>1, <1>2, PTL DEF Spec

\* The structure that requests read is that of the document they change, though
\* publish_commands refreshes it after some publications only.
THEOREM StructureStaysCurrent == Spec => []StructureIsCurrent
<1>1. SessionInv => StructureIsCurrent
  BY DEF SessionInv, DocInv
<1> QED BY <1>1, SessionStaysSound, PTL

\* A row or a column never takes the id of one there has been, however many are
\* removed, brought back by Undo or added in between (native_table_row and
\* add_column_with_requiredness).
THEOREM NewIdsAreFresh == Spec => []FreshIds
<1>1. SessionInv => FreshIds
  BY DEF SessionInv, IdsInv, FreshIds
<1> QED BY <1>1, SessionStaysSound, PTL

\* Only committing a cleanup takes its preview away.
LEMMA PreviewStays ==
  ASSUME SessionInv, [Next]_vars, pending # NoCleanup, pending' = NoCleanup
  PROVE  CommitCleanup
<1>1. ASSUME CellRequest PROVE pending' = pending
  <2>1. CASE EditCells
    BY <2>1 DEF EditCells, RecordEdit
  <2>2. CASE UpdateFormula
    BY <2>2 DEF UpdateFormula, RecordEdit
  <2>3. CASE CopyFormula
    BY <2>3 DEF CopyFormula, CopyTo, RecordEdit
  <2> QED BY <1>1, <2>1, <2>2, <2>3 DEF CellRequest
<1>2. ASSUME RowRequest PROVE pending' = pending
  <2>1. CASE InsertRow
    BY <2>1 DEF InsertRow, RecordEdit
  <2>2. CASE RemoveTableRows
    BY <2>2 DEF RemoveTableRows, RecordEdit
  <2>3. CASE Paste
    BY <2>3, PasteIsEdit
  <2> QED BY <1>2, <2>1, <2>2, <2>3 DEF RowRequest
<1>3. ASSUME ColumnRequest PROVE pending' = pending
  <2>1. CASE AddColumn
    BY <2>1 DEF AddColumn
  <2>2. CASE RemoveColumn
    BY <2>2 DEF RemoveColumn, RecordEdit
  <2>3. CASE ChangeColumnType
    BY <2>3 DEF ChangeColumnType, RecordEdit
  <2>4. CASE MoveColumn
    BY <2>4 DEF MoveColumn, RecordEdit
  <2>5. CASE RenameColumn
    BY <2>5 DEF RenameColumn, RecordEdit
  <2>6. CASE ChangeRequiredness
    BY <2>6 DEF ChangeRequiredness, RecordEdit
  <2>7. CASE ChangeConstraint
    BY <2>7 DEF ChangeConstraint, RecordEdit
  <2>8. CASE ChangeNumberFormat
    BY <2>8 DEF ChangeNumberFormat, RecordEdit
  <2> QED BY <1>3, <2>1, <2>2, <2>3, <2>4, <2>5, <2>6, <2>7, <2>8 DEF ColumnRequest
<1>4. ASSUME HistoryRequest \/ RefusedRequest \/ UNCHANGED vars PROVE pending' = pending
  BY <1>4 DEF HistoryRequest, Undo, Redo, HistoryEdit, RefusedRequest, vars
<1>5. ~PreviewCleanup
  <2>1. ASSUME PreviewCleanup PROVE FALSE
    <3>1. pending'.id = proposalSerial + 1
      BY <2>1 DEF PreviewCleanup
    <3> QED BY <3>1 DEF NoCleanup, SessionInv, BatchInv
  <2> QED BY <2>1
<1> QED BY <1>1, <1>2, <1>3, <1>4, <1>5 DEF Next, CleanupRequest

\* A cleanup that is committed gives the document its preview showed, whatever
\* was asked and published between the two (preview_cleanup and commit_cleanup).
THEOREM CleanupsKeepTheirPromise == Spec => CommitPublishesPreview
<1>1. SessionInv /\ [Next]_vars =>
        [pending # NoCleanup /\ pending' = NoCleanup => doc' = pending.candidate]_vars
  <2> SUFFICES ASSUME SessionInv, [Next]_vars, pending # NoCleanup, pending' = NoCleanup
               PROVE  doc' = pending.candidate
    OBVIOUS
  <2>1. CommitCleanup
    BY PreviewStays
  <2>2. Publish(pending.commands, proposalSerial + 1) /\ pending.revision = revision
    BY <2>1 DEF CommitCleanup, RecordEditAs
  <2>3. IsBatch(pending.commands) /\ pending.candidate \in Plan(doc, pending.commands)
    BY <2>2 DEF SessionInv, PendingInv, KnownBatch
  <2>4. pending.candidate = Applied(doc, pending.commands)
    BY <2>3, PlannedIsApplied DEF SessionInv, DocInv
  <2>5. doc' = Applied(doc, pending.commands)
    BY <2>2, <2>3, PublishKeepsDoc DEF SessionInv
  <2> QED BY <2>4, <2>5
<1> QED BY <1>1, SessionStaysSound, PTL DEF Spec, CommitPublishesPreview

-----------------------------------------------------------------------------
(* What a query works out is of the document alone.                        *)

\* Values and texts, comparisons, matches, orders and totals: each depends on the
\* document and on its structure only.
LEMMA ValuesAreOfDocument ==
  ASSUME doc' = doc, specs' = specs, NEW cell
  PROVE  ViewValue(cell)' = ViewValue(cell) /\ CellText(cell)' = CellText(cell)
<1>1. ViewValue(cell)' = ViewValue(cell)
  BY DEF ViewValue
<1> QED BY <1>1 DEF CellText

LEMMA ComparisonsAreOfDocument ==
  ASSUME doc' = doc, specs' = specs, NEW sort, NEW left, NEW right
  PROVE  Precedes(sort, left, right)' = Precedes(sort, left, right)
<1>1. ASSUME NEW key PROVE CompareAlong(key, left, right)' = CompareAlong(key, left, right)
  BY ValuesAreOfDocument DEF CompareAlong
<1>2. \A i : CompareAlong(sort[i], left, right)' = CompareAlong(sort[i], left, right)
  BY <1>1
<1>3. {i \in DOMAIN sort : CompareAlong(sort[i], left, right)' # "equal"}
        = {i \in DOMAIN sort : CompareAlong(sort[i], left, right) # "equal"}
  BY <1>2
<1> QED BY <1>2, <1>3 DEF Precedes

LEMMA MatchesAreOfDocument ==
  ASSUME doc' = doc, specs' = specs, NEW filter, NEW row
  PROVE  Matches(filter, row)' = Matches(filter, row)
<1>1. /\ ViewValue(<<row, filter.field>>)' = ViewValue(<<row, filter.field>>)
      /\ CellText(<<row, filter.field>>)' = CellText(<<row, filter.field>>)
  BY ValuesAreOfDocument
<1> QED BY <1>1 DEF Matches

LEMMA OrderIsOfDocument ==
  ASSUME doc' = doc, specs' = specs, NEW view
  PROVE  BuildViewOrder(view)' = BuildViewOrder(view)
<1>1. Shown(view)' = Shown(view)
  BY MatchesAreOfDocument DEF Shown
<1>2. \A pair : Precedes(view.sort, pair[1], pair[2])' = Precedes(view.sort, pair[1], pair[2])
  BY ComparisonsAreOfDocument
<1>3. {pair \in specs.rows \X specs.rows : Precedes(view.sort, pair[1], pair[2])}'
        = {pair \in specs.rows \X specs.rows : Precedes(view.sort, pair[1], pair[2])}
  BY <1>2
<1> QED BY <1>1, <1>3 DEF BuildViewOrder

LEMMA TotalsAreOfDocument ==
  ASSUME doc' = doc, specs' = specs
  PROVE  TotalsFor(specs.rows)' = TotalsFor(specs.rows)
<1>1. ASSUME NEW rows, NEW column PROVE NumberTotal(rows, column)' = NumberTotal(rows, column)
  <2>1. \A cell : ViewValue(cell)' = ViewValue(cell)
    BY ValuesAreOfDocument
  <2> QED BY <2>1 DEF NumberTotal
<1>2. NumberColumns' = NumberColumns
  BY DEF NumberColumns
<1>3. \A column : NumberTotal(specs.rows, column)' = NumberTotal(specs.rows, column)
  BY <1>1
<1> QED BY <1>2, <1>3 DEF TotalsFor

-----------------------------------------------------------------------------
(* What the queries keep.                                                  *)

\* A kept order or total of the current revision is that of the document, and
\* none is of a later one.
ViewInv ==
    /\ viewIndex \in Seq(Range(viewIndex))
    /\ \A entry \in Range(viewIndex) :
         /\ entry.revision \in Nat /\ entry.revision <= revision
         /\ entry.revision = revision => entry.order = BuildViewOrder(entry.view)
    /\ \A cached \in totalsCache :
         /\ cached.revision \in Nat /\ cached.revision <= revision
         /\ cached.revision = revision => cached.totals = TotalsFor(specs.rows)
    /\ \A one, other \in totalsCache : one = other
    /\ \A answer \in answered :
         /\ answer.order = BuildViewOrder(answer.view)
         /\ answer.totals \subseteq {TotalsFor(specs.rows)}

\* Orders of another revision are forgotten.
LEMMA OfRevisionAre ==
  ASSUME NEW entries, entries \in Seq(Range(entries))
  PROVE  OfRevision(entries) \in Seq({entry \in Range(entries) : entry.revision = revision})
<1> DEFINE S == {entry \in Range(entries) : entry.revision = revision}
           N == Len(entries)
           Is(kept) ==
             kept = [n \in 0 .. N |->
                       CASE n = 0 -> <<>>
                         [] n > 0 /\ entries[n].revision = revision -> Append(kept[n - 1], entries[n])
                         [] OTHER -> kept[n - 1]]
           next == [at \in (1 .. N) \X Seq(S) |->
                      IF entries[at[1]].revision = revision THEN Append(at[2], entries[at[1]])
                      ELSE at[2]]
<1>1. N \in Nat /\ \A n \in 1 .. N : entries[n] \in Range(entries)
  BY DEF Range
<1>2. /\ next \in [(1 .. N) \X Seq(S) -> Seq(S)]
      /\ \A n \in 1 .. N, kept \in Seq(S) :
           next[<<n, kept>>] = IF entries[n].revision = revision THEN Append(kept, entries[n]) ELSE kept
  <2>1. \A n \in 1 .. N : entries[n].revision = revision => entries[n] \in S
    BY <1>1
  <2> HIDE DEF S, N
  <2> QED BY <2>1
<1> HIDE DEF next, S, N
<1>3. PICK f \in [0 .. N -> Seq(S)] : IsRecursion(f, N, <<>>, next)
  <2>1. <<>> \in Seq(S)
    OBVIOUS
  <2> QED BY <1>1, <1>2, <2>1, RecursionExists
<1>4. Is(f)
  <2>1. ASSUME NEW n \in 0 .. N
        PROVE  f[n] = CASE n = 0 -> <<>>
                        [] n > 0 /\ entries[n].revision = revision -> Append(f[n - 1], entries[n])
                        [] OTHER -> f[n - 1]
    <3>1. CASE n = 0
      BY <1>3, <3>1 DEF IsRecursion
    <3>2. CASE n # 0
      <4>1. n \in 1 .. N /\ f[n - 1] \in Seq(S) /\ n > 0
        BY <1>1, <3>2
      <4>2. f[n] = IF entries[n].revision = revision THEN Append(f[n - 1], entries[n]) ELSE f[n - 1]
        BY <1>2, <1>3, <4>1 DEF IsRecursion
      <4> QED BY <3>2, <4>1, <4>2
    <3> QED BY <3>1, <3>2
  <2> QED BY <2>1
<1> DEFINE kept == CHOOSE g : Is(g)
<1>5. Is(kept)
  BY <1>4
<1>6. OfRevision(entries) = kept[N]
  BY DEF OfRevision, N
<1> HIDE DEF kept
<1> DEFINE T == {n \in 0 .. N : kept[n] = f[n]}
<1>7. 0 \in T
  BY <1>1, <1>4, <1>5
<1>8. ASSUME NEW n \in 1 .. N, n - 1 \in T PROVE n \in T
  <2>1. n \in 0 .. N /\ kept[n - 1] = f[n - 1]
    BY <1>1, <1>8
  <2> QED BY <1>4, <1>5, <2>1, ZenonT(30)
<1> HIDE DEF T, Is
<1>9. 0 .. N \subseteq T
  BY <1>1, <1>7, <1>8, SegmentInduction
<1>10. kept[N] = f[N] /\ f[N] \in Seq(S)
  BY <1>1, <1>9 DEF T
<1> QED BY <1>6, <1>10 DEF S

\* The order a view is answered with is of this revision, and so are all kept.
LEMMA ViewOrderIs ==
  ASSUME ViewInv, revision \in Nat, NEW view
  PROVE  /\ ViewOrder(view) \in Seq(Range(ViewOrder(view)))
         /\ \A entry \in Range(ViewOrder(view)) :
              entry.revision = revision /\ entry.order = BuildViewOrder(entry.view)
         /\ Head(ViewOrder(view)).order = BuildViewOrder(view)
<1> DEFINE S == {entry \in Range(viewIndex) : entry.revision = revision}
           entries == OfRevision(viewIndex)
           entry == [revision |-> revision, view |-> view, order |-> BuildViewOrder(view)]
           Kept == S \union {entry}
<1>1. entries \in Seq(S) /\ \A e \in S : e.revision = revision /\ e.order = BuildViewOrder(e.view)
  BY OfRevisionAre DEF ViewInv
<1>2. \A e \in Kept : e.revision = revision /\ e.order = BuildViewOrder(e.view)
  BY <1>1
<1>3. \E order \in Seq(Kept) :
        /\ ViewOrder(view) = order /\ order # <<>>
        /\ Head(order).order = BuildViewOrder(view)
  <2>1. CASE Hits(view) # {}
    <3>1. Hits(view) \in SUBSET Nat /\ Hits(view) \subseteq 1 .. Len(entries)
      BY <1>1 DEF Hits
    <3>2. \E n \in Hits(view) : \A m \in Hits(view) : n <= m
      BY <2>1, <3>1, LeastNat
    <3> DEFINE i == Min(Hits(view))
    <3>3. i \in Hits(view)
      BY <3>2 DEF Min
    <3>4. entries[i].view = view
      BY <3>3 DEF Hits, ViewCacheKey
    <3>5. i \in 1 .. Len(entries)
      BY <3>1, <3>3
    <3>6. ViewOrder(view) = <<entries[i]>> \o RemoveAt(entries, i)
      BY <2>1 DEF ViewOrder
    <3> HIDE DEF i, entries, S
    <3>7. entries[i] \in S /\ Len(entries) \in Nat
      BY <1>1, <3>5
    <3>8. RemoveAt(entries, i) \in Seq(S)
      <4>1. SubSeq(entries, 1, i - 1) \in Seq(S)
        <5>1. /\ 1 \in Int /\ i - 1 \in Int
              /\ \A j \in 1 .. i - 1 : entries[j] \in S
          BY <1>1, <3>5, <3>7
        <5> QED BY <5>1, SubSeqProperties
      <4>2. SubSeq(entries, i + 1, Len(entries)) \in Seq(S)
        <5>1. /\ i + 1 \in Int /\ Len(entries) \in Int
              /\ \A j \in i + 1 .. Len(entries) : entries[j] \in S
          BY <1>1, <3>5, <3>7
        <5> QED BY <5>1, SubSeqProperties
      <4> QED BY <4>1, <4>2, ConcatProperties DEF RemoveAt
    <3>9. <<entries[i]>> \o RemoveAt(entries, i) \in Seq(Kept)
          /\ Head(<<entries[i]>> \o RemoveAt(entries, i)) = entries[i]
          /\ <<entries[i]>> \o RemoveAt(entries, i) # <<>>
      <4> DEFINE rest == RemoveAt(entries, i)
      <4>1. rest \in Seq(Kept) /\ <<entries[i]>> \in Seq(Kept)
        BY <3>7, <3>8
      <4> HIDE DEF rest, Kept
      <4>2. <<entries[i]>> \o rest \in Seq(Kept) /\ Head(<<entries[i]>> \o rest) = entries[i]
            /\ <<entries[i]>> \o rest # <<>>
        BY <4>1
      <4> QED BY <4>2 DEF rest
    <3>10. entries[i].order = BuildViewOrder(view)
      BY <1>1, <3>4, <3>7
    <3> QED BY <3>6, <3>9, <3>10
  <2>2. CASE Hits(view) = {}
    <3> DEFINE next == <<entry>> \o entries
               length == IF Len(next) > MaxViewEntries THEN MaxViewEntries ELSE Len(next)
    <3>1. ViewOrder(view) = SubSeq(next, 1, length)
      BY <2>2 DEF ViewOrder
    <3>2. next \in Seq(Kept) /\ Len(next) \in Nat \ {0} /\ next[1] = entry
      <4> HIDE DEF entry, S, entries
      <4>1. <<entry>> \in Seq(Kept) /\ entries \in Seq(Kept)
        BY <1>1
      <4> HIDE DEF Kept
      <4> QED BY <4>1
    <3> HIDE DEF next, Kept
    <3>3. length \in Nat \ {0} /\ length <= Len(next)
      BY <3>2, ViewEntriesAssumption
    <3> HIDE DEF length, entry
    <3>4. /\ SubSeq(next, 1, length) \in Seq(Kept) /\ Len(SubSeq(next, 1, length)) = length
          /\ SubSeq(next, 1, length)[1] = next[1]
      <4>1. 1 \in Int /\ length \in Int /\ \A j \in 1 .. length : next[j] \in Kept
        BY <3>2, <3>3
      <4>2. SubSeq(next, 1, length) \in Seq(Kept)
        BY <4>1, SubSeqProperties
      <4>3. Len(SubSeq(next, 1, length)) = length
        BY <3>3, <4>1, SubSeqProperties
      <4>4. SubSeq(next, 1, length)[1] = next[1 + 1 - 1]
        <5>1. 1 \in 1 .. length - 1 + 1
          BY <3>3
        <5> QED BY <4>1, <5>1, SubSeqProperties
      <4>5. 1 + 1 - 1 = 1
        OBVIOUS
      <4> HIDE DEF next
      <4> QED BY <4>2, <4>3, <4>4, <4>5
    <3>5. SubSeq(next, 1, length) # <<>> /\ Head(SubSeq(next, 1, length)) = entry
      BY <3>2, <3>3, <3>4
    <3>6. entry.order = BuildViewOrder(view)
      BY DEF entry
    <3> QED BY <3>1, <3>4, <3>5, <3>6
  <2> QED BY <2>1, <2>2
<1> HIDE DEF Kept
<1>4. ViewOrder(view) \in Seq(Kept) /\ Head(ViewOrder(view)).order = BuildViewOrder(view)
  BY <1>3
<1>5. ViewOrder(view) \in Seq(Range(ViewOrder(view))) /\ Range(ViewOrder(view)) \subseteq Kept
  BY <1>4, StackOf
<1> QED BY <1>2, <1>4, <1>5

\* A publication counts the revision up, and nothing else changes the document.
LEMMA RevisionTells ==
  ASSUME SessionInv, [Next]_vars
  PROVE  \/ revision' = revision + 1
         \/ revision' = revision /\ doc' = doc /\ specs' = specs
<1>1. CASE CellRequest \/ RowRequest \/ ColumnRequest \/ CommitCleanup
  <2>1. PICK forward, inverse, serial : EditAs(forward, inverse, serial)
    BY <1>1, EditCellsIsEdit, UpdateFormulaIsEdit, CopyFormulaIsEdit, InsertRowIsEdit,
       RemoveTableRowsIsEdit, PasteIsEdit, AddColumnIsEdit, RemoveColumnIsEdit,
       ChangeColumnTypeIsEdit, AttributeIsEdit, CommitCleanupIsEdit
       DEF CellRequest, RowRequest, ColumnRequest
  <2> QED BY <2>1 DEF EditAs, RecordEditAs, Publish
<1>2. CASE PreviewCleanup \/ RefusedRequest \/ UNCHANGED vars
  BY <1>2 DEF PreviewCleanup, RefusedRequest, vars, caches
<1>3. CASE HistoryRequest
  BY <1>3 DEF HistoryRequest, Undo, Redo, HistoryEdit, Publish
<1> QED BY <1>1, <1>2, <1>3 DEF Next, CleanupRequest

\* A request leaves what the queries keep alone, which may go stale by it.
LEMMA RequestKeepsViews ==
  ASSUME SessionInv, ViewInv, [Next]_vars, UNCHANGED viewCaches, answered' \in {answered, {}},
         answered' = {} \/ (doc' = doc /\ specs' = specs)
  PROVE  ViewInv'
<1>1. viewIndex' = viewIndex /\ totalsCache' = totalsCache
  BY DEF viewCaches
<1>2. revision \in Nat
  BY DEF SessionInv, BatchInv
<1>3. CASE revision' = revision + 1 /\ answered' = {}
  <2>1. \A n \in Nat : n <= revision => n <= revision' /\ n # revision'
    BY <1>2, <1>3
  <2> QED BY <1>1, <1>3, <2>1 DEF ViewInv
<1>4. CASE revision' \in {revision, revision + 1} /\ doc' = doc /\ specs' = specs
  <2>1. /\ \A view : BuildViewOrder(view)' = BuildViewOrder(view)
        /\ TotalsFor(specs.rows)' = TotalsFor(specs.rows)
    BY <1>4, OrderIsOfDocument, TotalsAreOfDocument
  <2>2. \A n \in Nat : n <= revision => n <= revision' /\ (n = revision' => n = revision)
    BY <1>2, <1>4
  <2>3. /\ viewIndex' \in Seq(Range(viewIndex'))
        /\ \A entry \in Range(viewIndex') :
             /\ entry.revision \in Nat /\ entry.revision <= revision'
             /\ entry.revision = revision' => entry.order = BuildViewOrder(entry.view)'
    BY <1>1, <2>1, <2>2 DEF ViewInv
  <2>4. /\ \A cached \in totalsCache' :
             /\ cached.revision \in Nat /\ cached.revision <= revision'
             /\ cached.revision = revision' => cached.totals = TotalsFor(specs.rows)'
        /\ \A one, other \in totalsCache' : one = other
    BY <1>1, <2>1, <2>2 DEF ViewInv
  <2>5. \A answer \in answered' :
          /\ answer.order = BuildViewOrder(answer.view)'
          /\ answer.totals \subseteq {TotalsFor(specs.rows)'}
    BY <2>1 DEF ViewInv
  <2> QED BY <2>3, <2>4, <2>5 DEF ViewInv
<1> QED BY <1>3, <1>4, RevisionTells

\* A query keeps true orders and totals only, and answers with them.
LEMMA QueryKeepsViews ==
  ASSUME SessionInv, ViewInv, Query
  PROVE  SessionInv' /\ ViewInv'
<1>1. /\ UNCHANGED vars /\ revision' = revision /\ revision \in Nat
      /\ doc' = doc /\ specs' = specs
  BY DEF Query, QueryView, QueryTableWindow, RefusedView, vars, caches, SessionInv, BatchInv
<1>2. SessionInv'
  BY <1>1, NextKeepsInvariant
<1>3. /\ \A view : BuildViewOrder(view)' = BuildViewOrder(view)
      /\ TotalsFor(specs.rows)' = TotalsFor(specs.rows)
  BY <1>1, OrderIsOfDocument, TotalsAreOfDocument
<1> DEFINE Current(index) ==
             /\ index \in Seq(Range(index))
             /\ \A entry \in Range(index) :
                  entry.revision = revision /\ entry.order = BuildViewOrder(entry.view)
           CachedTotals(cache) ==
             /\ \A cached \in cache :
                  /\ cached.revision \in Nat /\ cached.revision <= revision
                  /\ cached.revision = revision => cached.totals = TotalsFor(specs.rows)
             /\ \A one, other \in cache : one = other
           True(answers) ==
             \A answer \in answers : /\ answer.order = BuildViewOrder(answer.view)
                                     /\ answer.totals \subseteq {TotalsFor(specs.rows)}
<1>4. ASSUME NEW view
      PROVE  Current(ViewOrder(view)) /\ Head(ViewOrder(view)).order = BuildViewOrder(view)
  BY <1>1, ViewOrderIs
<1>5. CachedTotals(totalsCache) /\ True(answered)
  BY DEF ViewInv
<1>6. /\ CachedTotals(WindowColumnTotals)
      /\ \A cached \in WindowColumnTotals : cached.totals = TotalsFor(specs.rows)
  BY <1>1, <1>5 DEF WindowColumnTotals
<1>7. Current(viewIndex') /\ CachedTotals(totalsCache') /\ True(answered')
  <2>1. CASE QueryView
    <3>1. PICK view : /\ viewIndex' = ViewOrder(view)
                      /\ answered' = {[view |-> view, order |-> Head(viewIndex').order,
                                       totals |-> {}]}
                      /\ totalsCache' = totalsCache
      BY <2>1 DEF QueryView
    <3>2. True(answered')
      BY <1>4, <3>1
    <3> QED BY <1>4, <1>5, <3>1, <3>2
  <2>2. CASE QueryTableWindow
    <3>1. PICK view : /\ viewIndex' = ViewOrder(view)
                      /\ totalsCache' = WindowColumnTotals
                      /\ answered' = {[view |-> view, order |-> Head(viewIndex').order,
                                       totals |-> {cached.totals : cached \in totalsCache'}]}
      BY <2>2 DEF QueryTableWindow
    <3>2. True(answered')
      BY <1>4, <1>6, <3>1
    <3> QED BY <1>4, <1>6, <3>1, <3>2
  <2>3. CASE RefusedView
    <3>1. viewIndex' = OfRevision(viewIndex) /\ totalsCache' = totalsCache /\ answered' = answered
      BY <2>3 DEF RefusedView
    <3> DEFINE S == {entry \in Range(viewIndex) : entry.revision = revision}
    <3>2. OfRevision(viewIndex) \in Seq(S) /\ \A e \in S : e.order = BuildViewOrder(e.view)
      BY OfRevisionAre DEF ViewInv
    <3>3. Current(OfRevision(viewIndex))
      BY <3>2, StackOf
    <3> QED BY <1>5, <3>1, <3>3
  <2> QED BY <2>1, <2>2, <2>3 DEF Query
<1>8. ViewInv'
  <2>1. /\ viewIndex' \in Seq(Range(viewIndex'))
        /\ \A entry \in Range(viewIndex') :
             /\ entry.revision \in Nat /\ entry.revision <= revision'
             /\ entry.revision = revision' => entry.order = BuildViewOrder(entry.view)'
    BY <1>1, <1>3, <1>7
  <2>2. /\ \A cached \in totalsCache' :
             /\ cached.revision \in Nat /\ cached.revision <= revision'
             /\ cached.revision = revision' => cached.totals = TotalsFor(specs.rows)'
        /\ \A one, other \in totalsCache' : one = other
    BY <1>1, <1>3, <1>7
  <2>3. \A answer \in answered' :
          /\ answer.order = BuildViewOrder(answer.view)'
          /\ answer.totals \subseteq {TotalsFor(specs.rows)'}
    BY <1>3, <1>7
  <2> QED BY <2>1, <2>2, <2>3 DEF ViewInv
<1> QED BY <1>2, <1>8

\* A query is answered with the order and the totals of the document as it is,
\* and a request reads its structure as it is, whatever was asked, published,
\* undone and kept in between (publish_commands, view_order and
\* window_column_totals).
THEOREM AnswersAreCurrent == ViewSpec => []CachesAreCurrent
<1>1. ViewInit => SessionInv /\ ViewInv
  BY InitEstablishesInvariant DEF ViewInit, ViewInv, Range
<1>2. SessionInv /\ ViewInv /\ [ViewNext]_<<vars, viewCaches, answered>> => SessionInv' /\ ViewInv'
  <2> SUFFICES ASSUME SessionInv, ViewInv, [ViewNext]_<<vars, viewCaches, answered>>
               PROVE  SessionInv' /\ ViewInv'
    OBVIOUS
  <2>1. CASE Request
    BY <2>1, NextKeepsInvariant, RequestKeepsViews DEF Request
  <2>2. CASE Query
    BY <2>2, QueryKeepsViews
  <2>3. CASE UNCHANGED <<vars, viewCaches, answered>>
    <3>1. UNCHANGED vars /\ UNCHANGED viewCaches /\ answered' = answered
          /\ doc' = doc /\ specs' = specs
      BY <2>3 DEF vars, caches
    <3> QED BY <3>1, NextKeepsInvariant, RequestKeepsViews
  <2> QED BY <2>1, <2>2, <2>3 DEF ViewNext
<1>3. SessionInv /\ ViewInv => CachesAreCurrent
  BY DEF SessionInv, DocInv, ViewInv, CachesAreCurrent
<1> QED BY <1>1, <1>2, <1>3, PTL DEF ViewSpec
=============================================================================

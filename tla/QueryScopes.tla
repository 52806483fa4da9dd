----------------------------- MODULE QueryScopes -----------------------------
(***************************************************************************)
(* The scopes a Query Grant may cover and the scopes an answer requires     *)
(* (patch_lifecycle.rs of workspace-engine).  Who a principal is and how    *)
(* long a Grant lives is PatchLifecycle's: an authority here is the set of  *)
(* scopes the Grants of one principal cover at the time of a query.         *)
(***************************************************************************)
EXTENDS FormulaCalculation

StoredAt(d, cell) == UNION {Entry(e.fields, cell[2]) : e \in Entry(d.entities, cell[1])}
RowsOf(d, s) == {e \in DOMAIN d.entities : d.entities[e].schema = s}

-----------------------------------------------------------------------------
\* A scope is <<schemas, entities, fields>>, each at most one: the less it
\* names, the more it covers.
WholeDocument == <<{}, {}, {}>>
SchemaScope(s) == <<{s}, {}, {}>>
SchemaFieldScope(s, f) == <<{s}, {}, {f}>>
EntityScope(d, e) == <<{d.entities[e].schema}, {e}, {}>>

\* field_scope, and the document's where the field is not declared.
FieldScope(d, cell) ==
    IF Declaration(d, cell) = {} THEN WholeDocument
    ELSE <<{d.entities[cell[1]].schema}, {cell[1]}, {cell[2]}>>

ScopeCovers(held, scope) == \A i \in 1..3 : held[i] \subseteq scope[i]
Permits(authority, required) == \A scope \in required : \E held \in authority : ScopeCovers(held, scope)
=============================================================================

---------------------------- MODULE DocumentEdits ----------------------------
(***************************************************************************)
(* The documents one change away from a document.  How a document comes to *)
(* be edited is not code of the components that meet the result: this is   *)
(* any history, one fact at a time.                                        *)
(***************************************************************************)
EXTENDS SemanticDocument

CONSTANTS
    Titles,        \* titles an edit can give
    Definitions,   \* saved definitions an edit can leave, options
    SchemaFacets,  \* facet of a schema -> the values an edit can give it
    FieldFacets,   \* facet of a field -> the values an edit can give it
    EntityFacets,  \* facet of an entity -> the values an edit can give it
    Values,        \* stored values
    NewSchemas,    \* schema id -> the schemas it can be added as
    NewFields,     \* field id -> the fields it can be added as
    NewEntities    \* entity id -> the entities it can be added as

\* An edit leaves records of the document's types.
ASSUME EditsAssumption ==
    /\ DOMAIN SchemaFacets \subseteq {"key", "name"}
    /\ DOMAIN FieldFacets \subseteq {"key", "name", "type", "required", "constraint", "format"}
    /\ DOMAIN EntityFacets \subseteq {"key", "schema"}
    /\ \A id \in DOMAIN NewSchemas : \A s \in NewSchemas[id] : IsSchema(s)
    /\ \A id \in DOMAIN NewFields : \A f \in NewFields[id] : IsField(f)
    /\ \A id \in DOMAIN NewEntities : \A e \in NewEntities[id] : IsEntity(e)

With(m, key, x) == [k \in DOMAIN m \union {key} |-> IF k = key THEN x ELSE m[k]]
Without(m, key) == Restrict(m, DOMAIN m \ {key})
Added(m, new) ==
    UNION {{With(m, id, x) : x \in new[id]} : id \in DOMAIN new \ DOMAIN m}
Revised(x, facets) ==
    UNION {{[x EXCEPT ![facet] = v] : v \in facets[facet]} : facet \in DOMAIN facets}

\* A schema's fields change together with its order, if it has one.
Refielded(s, fields) ==
    [s EXCEPT !.fields = fields, !.order = NormalizedOrder(@, DOMAIN fields)]

Orders(s) == {{}} \union {{order} : order \in SetToSeqs(DOMAIN s.fields)}

SchemaEdits(s) ==
    Revised(s, SchemaFacets)
    \union {[s EXCEPT !.order = order] : order \in Orders(s)}
    \union {Refielded(s, fields) :
            fields \in Added(s.fields, NewFields) \union {Without(s.fields, f) : f \in DOMAIN s.fields}}
    \union UNION {{[s EXCEPT !.fields[f] = x] : x \in Revised(s.fields[f], FieldFacets)} :
                  f \in DOMAIN s.fields}

EntityEdits(e) ==
    Revised(e, EntityFacets)
    \union {[e EXCEPT !.fields = Without(@, f)] : f \in DOMAIN e.fields}
    \union {[e EXCEPT !.fields = With(@, f, v)] : f \in DOMAIN e.fields \union DOMAIN NewFields, v \in Values}

\* A removed field goes with its stored values, a removed schema with its
\* entities.
Pruned(d) ==
    LET left == {e \in DOMAIN d.entities : d.entities[e].schema \in DOMAIN d.schemas}
        declared(e) == DOMAIN d.schemas[d.entities[e].schema].fields
        row(e) == [d.entities[e] EXCEPT !.fields = Restrict(@, DOMAIN @ \intersect declared(e))]
    IN [d EXCEPT !.entities = [e \in left |-> row(e)]]

Edited(d) ==
    LET schemas == Added(d.schemas, NewSchemas)
                     \union {Without(d.schemas, s) : s \in DOMAIN d.schemas}
                     \union UNION {{[d.schemas EXCEPT ![s] = x] : x \in SchemaEdits(d.schemas[s])} :
                                   s \in DOMAIN d.schemas}
        entities == Added(d.entities, NewEntities)
                      \union {Without(d.entities, e) : e \in DOMAIN d.entities}
                      \union UNION {{[d.entities EXCEPT ![e] = x] : x \in EntityEdits(d.entities[e])} :
                                    e \in DOMAIN d.entities}
    IN ({[d EXCEPT !.title = title] : title \in Titles}
        \union {[d EXCEPT !.definitions = definitions] : definitions \in Definitions}
        \union {Pruned([d EXCEPT !.schemas = x]) : x \in schemas}
        \union {[d EXCEPT !.entities = x] : x \in entities}) \ {d}
=============================================================================

--------------------------- MODULE MCProjectFormats ---------------------------
(***************************************************************************)
(* Two tables: row 1 and row 2 of t share a shard, row 3 of u has its own. *)
(* Two families of behaviours share the run.  "files": documents of up to  *)
(* two features, three files, one of them edited by another program, and   *)
(* sessions that open and export.  "session": two files, and a session     *)
(* that starts from a plain document, with three edits and undos.          *)
(***************************************************************************)
EXTENDS ProjectFormats

MCTableOf == <<"t", "t", "u">>
MCShardOf == <<"0", "0", "1">>

Document(features) ==
    [features |-> features, schemas |-> [t |-> {"a", "b"}, u |-> {"c", "d"}], rows |-> 1..3]
MCInitialDocs == {Document(S) : S \in {{}} \union {{f} : f \in Features} \union
                                    {{"date", "definitions"}, {"date", "conditional"}}}

\* A rule of t that reads a column of u, a rule of u, a title, a footer, and cells.
FullStore ==
    [styles |-> {"red", "bold"},
     tables |-> [t |-> [title |-> FALSE, footer |-> {"b"}, columns |-> [a |-> "bold"]]],
     rules |-> [watch |-> [schema |-> "t", fields |-> {"a"}, reads |-> {<<"t", "b">>, <<"u", "c">>}, style |-> "red"]],
     cells |-> (<<1, "a">> :> "red") @@ (<<3, "c">> :> "bold")]
\* A style that one rule alone uses, and a table with nothing but a title.
RuleStore ==
    [styles |-> {"red"},
     tables |-> [u |-> [title |-> TRUE, footer |-> {}, columns |-> <<>>]],
     rules |-> [watch |-> [schema |-> "t", fields |-> {"a", "b"}, reads |-> {<<"u", "c">>}, style |-> "red"]],
     cells |-> <<>>]
MCInitialStores == {NoPresentation, FullStore, RuleStore}

VARIABLE family
mcvars == <<family, vars>>
MCInit ==
    /\ Init
    /\ family \in {"files", "session"}
    /\ family = "session" => stands[1].docs = {Document({})}
    /\ stands[1].store # NoPresentation => stands[1].docs \subseteq {Document({}), Document({"names"})}
MCNext ==
    /\ Next
    /\ UNCHANGED family
    \* Opening a last file would lead to no export.
    /\ family = "files" => sessionEdits' = 0 /\ (session' # session => Len(files) < MaxFiles)
    \* A save leaves the session as it is: the edits after one add nothing.
    /\ family = "session" => Len(files') <= 2 /\ handEdits' = 0
                             /\ (sessionEdits' # sessionEdits => Len(files) = 1)
    /\ session' # <<>> => Cardinality(session'[1].document.features) <= 2
MCSpec == MCInit /\ [][MCNext]_mcvars
=============================================================================

---------------------------- MODULE ProjectFormats ----------------------------
(***************************************************************************)
(* The files a project lives in: direct .ro, project trees v1, v2 and v3   *)
(* and portable packages; the CLI commands that turn one into another, and *)
(* the browser's open, edit, undo and four exports.                        *)
(*                                                                         *)
(* A document is its features (what some format cannot hold: "names" for   *)
(* display names and constraints, "order" for number formats and column    *)
(* orders, "rowFormula" for the expressions v1 and v2 lack), its schemas   *)
(* and its rows, which are numbers in the byte order of their ids.  A file *)
(* keeps records in shards.  Other programs may edit a tree or a package   *)
(* between its writing and its reading.  A saved project of the browser is *)
(* the tree, or the direct document, it carries.                           *)
(***************************************************************************)
EXTENDS PresentationStore, SequencesExt

CONSTANTS
    ShardOf,        \* row -> shard, by a digest of its id
    InitialDocs,    \* the documents a first file may hold
    InitialStores,  \* and what may be kept beside them
    MaxFiles,       \* bound: files ever written
    MaxHandEdits,   \* bound: edits of files by other programs
    MaxSessionEdits \* bound: edits and undos of the browser's sessions

VARIABLES
    files,          \* the files, oldest first
    stands,         \* history: the documents (one or none) and the store each file stands for
    session,        \* the browser's project, if one is open
    handEdits, sessionEdits
vars == <<files, stands, session, handEdits, sessionEdits>>

Formats == {"direct", "v1", "v2", "v3", "package"}
Features == {"names", "order", "definitions", "date", "rowFormula", "conditional"}
Shards == Range(ShardOf)

\* The type of a document, of which the rows are finitely many.
IsDocument(d) ==
    /\ d = [features |-> d.features, schemas |-> d.schemas, rows |-> d.rows]
    /\ d.features \subseteq Features
    /\ d.rows \subseteq DOMAIN ShardOf /\ IsFiniteSet(d.rows)

ASSUME FormatsAssumption ==
    /\ DOMAIN ShardOf \subseteq Nat
    /\ \A d \in InitialDocs : IsDocument(d)
    /\ \A store \in InitialStores : IsStore(store)

-----------------------------------------------------------------------------
(* Writing.                                                                *)

\* What the records of each format have members for.
Held == [direct |-> {"order", "date", "rowFormula"}, v1 |-> {}, v2 |-> {"definitions"},
         v3 |-> Features, package |-> Features]

\* Refused, mutated: v1 and v2 do not call reject_number_formats and reject_field_orders.
RefusedButOrders(format) ==
    CASE format = "direct" -> {"names", "definitions", "conditional"}
      [] format = "v1" -> Features \ {"order"}
      [] format = "v2" -> Features \ {"definitions", "order"}
      [] format \in {"v3", "package"} -> {}

\* What each encoder refuses, in its reject_ calls or as an unknown expression or type.
Refused(format) ==
    CASE format = "direct" -> {"names", "definitions", "conditional"}
      [] format = "v1" -> Features
      [] format = "v2" -> Features \ {"definitions"}
      [] format \in {"v3", "package"} -> {}

Admits(format, d) == d.features \intersect Refused(format) = {}

InIdOrder(rows) ==
    CHOOSE records \in [1..Cardinality(rows) -> rows] :
        \A k, l \in 1..Cardinality(rows) : k < l => records[k] < records[l]

\* Each record in the shard its id selects, in id order.
Sharded(rows) == [s \in Shards |-> InIdOrder({r \in rows : ShardOf[r] = s})]

\* payload_root, mutated: the optional member is left out.
PayloadRootOfRequired(tree) == [tree EXCEPT !.presentation = <<>>]

\* The digest of the files of a tree, taken to be injective.
PayloadRoot(tree) == tree

File(format, tree) ==
    [format |-> format, tree |-> tree, root |-> IF format = "package" THEN PayloadRoot(tree) ELSE <<>>]

\* encode of each format; v3 with encode_with_presentation.
Encoded(format, d, store) ==
    File(format, [features |-> d.features \intersect Held[format], schemas |-> d.schemas,
                  shards |-> Sharded(d.rows),
                  presentation |-> IF store = NoPresentation \/ format \notin {"v3", "package"} THEN <<>>
                                   ELSE <<[store |-> store, canonical |-> TRUE]>>])

-----------------------------------------------------------------------------
(* Reading.                                                                *)

Records(tree) == UNION {Range(tree.shards[s]) : s \in Shards}
DocumentOf(tree) == [features |-> tree.features, schemas |-> tree.schemas, rows |-> Records(tree)]
StoreOf(tree) == IF tree.presentation = <<>> THEN NoPresentation ELSE tree.presentation[1].store

\* prove_scoped_uniqueness, mutated: one set of ids for each file.
UniqueWithinFiles(tree) == \A s \in Shards : IsInjective(tree.shards[s])

\* prove_scoped_uniqueness
Unique(tree) ==
    /\ \A s \in Shards : IsInjective(tree.shards[s])
    /\ \A s, t \in Shards : s # t => Range(tree.shards[s]) \intersect Range(tree.shards[t]) = {}

\* try_from_files of v1 and v3: every byte is what the encoder would write.
Exact(tree) ==
    /\ tree.shards = Sharded(Records(tree))
    /\ tree.presentation # <<>> =>
         /\ tree.presentation[1].canonical
         /\ tree.presentation[1].store # NoPresentation
         /\ Belongs(tree.presentation[1].store, DocumentOf(tree))

\* The package's own decode.
Verified(file) == file.root = PayloadRoot(file.tree) /\ Exact(file.tree)

\* The host readers behind pack, validate and migrate, and load for a file.
Readable(file) ==
    CASE file.format = "direct" -> TRUE
      [] file.format \in {"v1", "v2", "v3"} -> Exact(file.tree)
      [] file.format = "package" -> Verified(file)

\* load_read_source: every format but v2.
CliReads(file) == file.format # "v2" /\ Readable(file)

\* decode_project_files and open_local_document: try_from_files of v2 canonicalizes.
BrowserOpens(file) == IF file.format = "v2" THEN Unique(file.tree) ELSE Readable(file)

-----------------------------------------------------------------------------
(* What is on the disk.                                                    *)

Add(file, docs, store) ==
    /\ Len(files) < MaxFiles
    /\ files' = Append(files, file)
    /\ stands' = Append(stands, [docs |-> docs, store |-> store, untouched |-> TRUE])

\* What a file stands for, without some rows.
Without(docs, rows) == {[d EXCEPT !.rows = @ \ rows] : d \in docs}

\* materialize: a direct document or a package becomes a tree v1.
Materialize(i) ==
    LET tree == files[i].tree IN
    /\ files[i].format \in {"direct", "package"}
    /\ Readable(files[i])
    /\ Admits("v1", DocumentOf(tree))
    /\ Add(Encoded("v1", DocumentOf(tree), NoPresentation), stands[i].docs, StoreOf(tree))
    /\ UNCHANGED <<session, handEdits, sessionEdits>>

\* set (no row is lost) and remove, which takes a file only: an edit is written as direct .ro.
Rewrite(i, rows) ==
    LET document == [DocumentOf(files[i].tree) EXCEPT !.rows = @ \ rows] IN
    /\ CliReads(files[i])
    /\ rows # {} => files[i].format \in {"direct", "package"}
    /\ rows \subseteq Records(files[i].tree)
    /\ Admits("direct", document)
    /\ Add(Encoded("direct", document, NoPresentation), Without(stands[i].docs, rows),
           Prune(StoreOf(files[i].tree), document))
    /\ UNCHANGED <<session, handEdits, sessionEdits>>

\* canonicalize: the records of a tree v1, in whatever order and shards.
Canonicalize(i) ==
    /\ files[i].format = "v1"
    /\ Unique(files[i].tree)
    /\ Admits("v1", DocumentOf(files[i].tree))
    /\ Add(Encoded("v1", DocumentOf(files[i].tree), NoPresentation), stands[i].docs, NoPresentation)
    /\ UNCHANGED <<session, handEdits, sessionEdits>>

Pack(i) ==
    /\ files[i].format = "v3"
    /\ Readable(files[i])
    /\ Add(File("package", files[i].tree), stands[i].docs, stands[i].store)
    /\ UNCHANGED <<session, handEdits, sessionEdits>>

Unpack(i) ==
    /\ files[i].format = "package"
    /\ Readable(files[i])
    /\ Add(File("v3", files[i].tree), stands[i].docs, stands[i].store)
    /\ UNCHANGED <<session, handEdits, sessionEdits>>

\* migrate_roproj_to_v3, for exact trees v1 and v2 only.
Migrate(i) ==
    /\ files[i].format \in {"v1", "v2"}
    /\ Readable(files[i])
    /\ Add(Encoded("v3", DocumentOf(files[i].tree), NoPresentation), stands[i].docs, NoPresentation)
    /\ UNCHANGED <<session, handEdits, sessionEdits>>

\* compare_verified_package_with_roproj accepts.
Consistent(package, tracked) == package.root = PayloadRoot(tracked.tree)

-----------------------------------------------------------------------------
(* Other programs.                                                         *)

\* Another program replaces a tree, or a package around it whose digest it leaves
\* alone.  A tree that stands for no document is not edited on: which one a
\* repair would bring back the tree does not say.
HandEdit(i, tree, docs, store) ==
    /\ files[i].format # "direct"
    /\ stands[i].docs # {}
    /\ handEdits < MaxHandEdits
    /\ files' = [files EXCEPT ![i].tree = tree]
    /\ stands' = [stands EXCEPT ![i] = [docs |-> docs, store |-> store, untouched |-> FALSE]]
    /\ handEdits' = handEdits + 1
    /\ UNCHANGED <<session, sessionEdits>>

\* A record goes to the end of a shard, its own or another one.
MoveRecord(i, s, k, t) ==
    LET taken == [files[i].tree EXCEPT !.shards[s] = RemoveAt(@, k)] IN
    HandEdit(i, [taken EXCEPT !.shards[t] = Append(@, files[i].tree.shards[s][k])],
             stands[i].docs, stands[i].store)

\* A record is written twice: no document has two rows of one id.
RepeatRecord(i, s, k, t) ==
    HandEdit(i, [files[i].tree EXCEPT !.shards[t] = Append(@, files[i].tree.shards[s][k])],
             {}, stands[i].store)

DropRecord(i, s, k) ==
    HandEdit(i, [files[i].tree EXCEPT !.shards[s] = RemoveAt(@, k)],
             Without(stands[i].docs, {files[i].tree.shards[s][k]}), stands[i].store)

ReorderPresentation(i) ==
    /\ files[i].tree.presentation # <<>>
    /\ HandEdit(i, [files[i].tree EXCEPT !.presentation[1].canonical = FALSE],
                stands[i].docs, stands[i].store)

DropPresentation(i) ==
    /\ files[i].tree.presentation # <<>>
    /\ HandEdit(i, [files[i].tree EXCEPT !.presentation = <<>>], stands[i].docs, NoPresentation)

-----------------------------------------------------------------------------
(* The browser's session.                                                  *)

\* open_project, open_local_document and open_portable_ro.
Open(i) ==
    LET tree == files[i].tree IN
    /\ BrowserOpens(files[i])
    /\ session' = <<[document |-> DocumentOf(tree), store |-> StoreOf(tree), past |-> <<>>,
                     openedFromV3 |-> files[i].format \in {"v3", "package"}, opened |-> StoreOf(tree)]>>
    /\ UNCHANGED <<files, stands, handEdits, sessionEdits>>

NewTable(d) ==
    /\ d.features = {}
    /\ session' = <<[document |-> d, store |-> NoPresentation, past |-> <<>>,
                     openedFromV3 |-> TRUE, opened |-> NoPresentation]>>
    /\ UNCHANGED <<files, stands, handEdits, sessionEdits>>

\* A published edit: the store stays whole.
Publish(document) ==
    /\ sessionEdits < MaxSessionEdits
    /\ document # session[1].document
    /\ session' = [session EXCEPT ![1].document = document,
                                  ![1].past = Append(@, session[1].document)]
    /\ sessionEdits' = sessionEdits + 1
    /\ UNCHANGED <<files, stands, handEdits>>

RemoveRow(r) == Publish([session[1].document EXCEPT !.rows = @ \ {r}])
RemoveColumn(s, f) ==
    /\ session[1].document.schemas[s] # {f}
    /\ Publish([session[1].document EXCEPT !.schemas[s] = @ \ {f}])
AddFeature(f) == Publish([session[1].document EXCEPT !.features = @ \union {f}])

Undo ==
    /\ session[1].past # <<>>
    /\ sessionEdits < MaxSessionEdits
    /\ session' = [session EXCEPT ![1].document = Last(session[1].past), ![1].past = Front(@)]
    /\ sessionEdits' = sessionEdits + 1
    /\ UNCHANGED <<files, stands, handEdits>>

\* The session's document, written in a format that admits it.
Export(format, store) ==
    /\ Admits(format, session[1].document)
    /\ Add(Encoded(format, session[1].document, store), {session[1].document}, store)
    /\ UNCHANGED <<session, handEdits, sessionEdits>>

\* encode_v3_export_tree, and with it export_project_v3 and export_portable_ro.
ExportV3(format) ==
    LET pruned == Prune(session[1].store, session[1].document) IN
    /\ Belongs(pruned, session[1].document)
    /\ Export(format, pruned)

\* export_project
ExportProject ==
    LET features == session[1].document.features IN
    /\ session[1].store = NoPresentation
    /\ ~session[1].openedFromV3
    /\ "order" \notin features
    /\ Export(IF "date" \in features THEN "direct" ELSE IF "definitions" \in features THEN "v2" ELSE "v1",
              NoPresentation)

\* export_canonical_tree
ExportCanonicalTree ==
    IF \/ session[1].openedFromV3
       \/ session[1].store # NoPresentation
       \/ session[1].document.features \intersect {"names", "order"} # {}
    THEN ExportV3("v3")
    ELSE Export("v1", NoPresentation)

-----------------------------------------------------------------------------
\* One file of some format that holds the document and what is kept beside it.
Init ==
    /\ \E d \in InitialDocs, store \in InitialStores, format \in Formats :
         /\ Admits(format, d)
         /\ Belongs(store, d)
         /\ store # NoPresentation => format \in {"v3", "package"}
         /\ files = <<Encoded(format, d, store)>>
         /\ stands = <<[docs |-> {d}, store |-> store, untouched |-> TRUE]>>
    /\ session = <<>>
    /\ handEdits = 0
    /\ sessionEdits = 0

CommandLine(i) ==
    \/ Materialize(i) \/ Canonicalize(i) \/ Pack(i) \/ Unpack(i) \/ Migrate(i)
    \/ Rewrite(i, {})
    \/ \E r \in Records(files[i].tree) : Rewrite(i, {r})

OtherProgram(i) ==
    \/ \E s, t \in Shards : \E k \in DOMAIN files[i].tree.shards[s] :
         MoveRecord(i, s, k, t) \/ RepeatRecord(i, s, k, t)
    \/ \E s \in Shards : \E k \in DOMAIN files[i].tree.shards[s] : DropRecord(i, s, k)
    \/ ReorderPresentation(i)
    \/ DropPresentation(i)

Browser ==
    /\ session # <<>>
    /\ \/ \E r \in session[1].document.rows : RemoveRow(r)
       \/ \E s \in DOMAIN session[1].document.schemas : \E f \in session[1].document.schemas[s] :
            RemoveColumn(s, f)
       \/ \E f \in Features : AddFeature(f)
       \/ Undo
       \/ ExportProject \/ ExportCanonicalTree \/ ExportV3("v3") \/ ExportV3("package")

Next ==
    \/ \E i \in DOMAIN files : CommandLine(i) \/ OtherProgram(i) \/ Open(i)
    \/ \E d \in InitialDocs : NewTable(d)
    \/ Browser

Spec == Init /\ [][Next]_vars

-----------------------------------------------------------------------------
(* Properties.                                                             *)

\* Whatever conversions a project goes through and whatever other programs do
\* to its files, a file that some reader admits holds the document it stands
\* for, feature by feature and row by row, and beside it, in the formats that
\* keep it, the presentation; a file nobody touched is readable; and a file
\* that stands for no document is refused by every reader.
FilesHoldTheirProjects ==
    \A i \in DOMAIN files :
        LET tree == files[i].tree IN
        /\ stands[i].untouched => Readable(files[i])
        /\ Readable(files[i]) \/ BrowserOpens(files[i]) =>
             /\ stands[i].docs = {DocumentOf(tree)}
             /\ files[i].format \in {"v3", "package"} => StoreOf(tree) = stands[i].store

\* The comparison of a package with a tree says that they are consistent just
\* when both hold the same document and the same presentation.
EqualRootsEqualProjects ==
    \A i, j \in DOMAIN files :
        files[i].format = "package" /\ files[j].format = "v3" /\ Readable(files[i]) /\ Readable(files[j]) =>
            (Consistent(files[i], files[j]) <=>
               /\ DocumentOf(files[i].tree) = DocumentOf(files[j].tree)
               /\ StoreOf(files[i].tree) = StoreOf(files[j].tree))

\* After any edits and undos, what the session would save beside its document
\* belongs to the document, so that the save is not refused and can be opened
\* again, and it is the most of what was opened that does: an undo brings back
\* what an edit had made unusable.  (A larger part is looked for while there is
\* one file: a session on it meets every store and document of the others.)
SavesKeepWhatTheyCan ==
    session # <<>> =>
        LET saved == Prune(session[1].store, session[1].document) IN
        /\ Belongs(saved, session[1].document)
        /\ Len(files) = 1 => \A part \in Parts(session[1].opened) :
                                Belongs(part, session[1].document) => Includes(saved, part)

\* The decision on stored presentation (ADR-0049): the writers of the older
\* representations refuse, so no file of a command has lost the presentation
\* of the file it was made from.
PresentationIsKeptOrRefused ==
    \A i \in DOMAIN files : stands[i].untouched => StoreOf(files[i].tree) = stands[i].store
=============================================================================

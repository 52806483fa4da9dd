# TLA+ models and proofs for tachiko-work

Specifications of the stateful parts of tachiko-work, TLC configurations that
check them on small instances, and TLAPS proofs of the properties that matter
most. Paths below are relative to the repository (`src/` in PROJECT.json).

To run: `tlc -config X.cfg M` for each run listed in PROJECT.json, `tlapm M.tla`
for each `...Proofs` module.

## 1. The system

tachiko-work keeps a typed document (schemas, entities, formulas) and changes it
through reviewed semantic commands. A document is *resident* in one session; a
lifecycle registry decides who may change it; storage writes it to disk; a
browser runtime exposes one session through a Worker.

    CLI ----------------------------------+------> storage: codecs -> publication
                                          |
    AI boundary --> patch lifecycle --> resident session --> formula engine
                        ^                   ^                semantic core
                        |                   |                diff / merge
    page --> Worker client ==> Worker --> Designer session

| Component | State | Operations | Interacts by | What is hard |
|---|---|---|---|---|
| Patch lifecycle (`workspace-engine/patch_lifecycle.rs`) | principals, Grants, effective policy, proposals, Approvals, receipts, one evaluation memo | register, disable, provision, revoke, transition policy, propose, preview, approve, revoke Approval, execute | calls the publication authority and is called back by its guard | time passes during execute; four ways a publication can fail; things revoked, expired or changed and changed back between review and use |
| Resident session (`resident_session.rs`) | document, revision, retained calculation, diagnostics, address index | compare-and-publish, queries | guard callback, revision | several writers of one base; incremental state against full recomputation |
| Formula engine (`formula-engine`) | the retained calculation: values, failures, dependency graph | complete calculation, update, replacement | called by validation and by the session at every publication | formulas and columns that come and go, errors that hide or reveal others, what a client has to read again |
| Project formats (`roproj/v1..v3`, `portable_package`, `storage/lib.rs`, CLI commands, exports of `runtime/src/lib.rs`) | files | materialize, set, remove, canonicalize, pack, unpack, migrate, open, export | files that other programs also edit | a fact that one format cannot hold; records moved, repeated or dropped by hand; presentation kept beside a document that loses rows |
| Diff (`diff-engine`) | none | canonical delta, v1 difference | shown with a merge | a change that goes unsaid |
| Planner and semantic core (`workspace-engine/lib.rs`, `semantic-core`) | none | plan a batch, validate a document | pure calls | batches whose commands are admitted only in one order |
| Storage publication (`roproj/host.rs`, `portable_package/host.rs`, `storage/lib.rs`, `cli/commands.rs`) | files beside the destination, a counter per process | publish tree, publish package, write direct document | the file system, shared with other processes | every system call may fail, processes die, ids are used again |
| Worker client, Worker, WASM bridge (`browser-client/src/runtime`, `runtime/src/wasm.rs`) | pending calls, queued messages, the held project | call, reply, error event, close, load | messages in two directions | late bridge, lost Worker, traps, a project replaced under a call |
| Designer session (`runtime/src/lib.rs`, `interop_document.rs`) | structural caches, Undo and Redo stacks, serials, a pending preview | cell, row, column and cleanup requests, Undo, Redo | publishes through lifecycle and session | inverses computed ahead of time, bounded history, caches refreshed only sometimes |
| Merge (`merge-engine`, `workspace-engine/lib.rs`, `tachiko merge`) | none; files that branched from one document | merge (v1), merge (v2, a preview) | documents with a common ancestor | two edits that are each valid and together are not; facts that belong to a schema their entity left; v2 built around a frozen v1 |
| Spreadsheet interop (`interop_adapter.rs`, `interop_document.rs`) | the source's rows, columns, headers and styles, by identity | import, export, between them every edit | worksheets that spreadsheet programs calculate by their own rules | formulas that mean something else elsewhere, rows taken for a title or a total, positions after rows and columns moved |
| Queries (`analysis_operations.rs`, `formula_operations.rs`, `capability_discovery.rs`, `keyed_grouped_sum_operations.rs`) | none | analyses, grouped sums, formula reasoning, scenarios, capabilities | read one snapshot under Query Grants | what an answer discloses is derived before it is known; several ways to say the same thing |
| AI boundary, tools | none of their own | pure or single-pass | calls | see section 7 |

What makes each correct:

* **Lifecycle and session.** An Approval is spent once, for what its approver
  saw, under the authority it was issued with, and exactly when a document is
  published; nothing is published over a revision its proposal did not see; final
  outcomes are final.
* **Storage.** What becomes visible is whole, from one writer, and never
  replaced; success means published; staging residue only after a crash or a
  failed removal; every call returns.
* **Transport.** An answer reaches its caller, requests apply in posting order,
  an edit lands on the project the caller was looking at, a refusal changes
  nothing, a call settles.
* **Designer.** Undo and Redo move along one line of documents, every entry is
  accepted when its turn comes, caches agree with the document, what queries say of a view goes together, identities are
  not used twice, a preview is what gets published.
* **Derived state.** What is kept from revision to revision equals what a
  calculation from nothing gives, and a publication names every field a client
  would see differently.
* **Queries.** An answer depends on nothing its Grants do not cover, no answer
  leaves a row out or counts one twice, a scenario foretells what publishing its
  overrides brings, and discovery says what the operations then do.
* **Interop.** A spreadsheet and the table show the same numbers for the same
  values, an exported workbook imports back, styles follow their cells.
* **Formats.** A file that a reader admits holds the document it stands for;
  what a save keeps beside a document belongs to it and is all that does; a
  package and a tree compare as equal just when they hold the same project.
* **Merge.** No change of either branch is lost and none is invented, a conflict
  is a disagreement and is reported once, columns stay where the branch that
  moved them put them, a fast-forward is exact, v2 agrees with v1, and what a
  merge shows beside its result is the whole difference.

The hazards these answer are listed at their lines in PROJECT.json.

## 2. Modules

| Module | Models | Refines |
|---|---|---|
| `SemanticPublication` | what registry and session promise together: install a document and spend its Approval in one step | |
| `PatchLifecycle` | every state-changing operation of the registry, and `publish_if_current` of the session | `SemanticPublication` |
| `PatchLifecycleProofs` | the proofs about it: types, identities, Approvals, revisions, what was reviewed and what receipts tell, refinement included | |
| `AtomicPublication` | what writers promise about a destination: taken once, and by a staging writer whole at once | |
| `StagedPublication` | the writers, system call by system call | `AtomicPublication` |
| `StagedPublicationProofs` | the proofs about it, refinement included | |
| `WorkerClient` | page, Worker, bridge and the project the runtime holds | |
| `WorkerClientProofs` | the proofs about it | |
| `TableDocument` | one native table and the planner of fourteen commands: pure operators, no state | |
| `EditHistory` | what Undo and Redo promise | |
| `DesignerSession` | the session's requests over `TableDocument` | `EditHistory` |
| `DesignerViews` | what a page asks of that session: views, Find, texts, totals, and the caches behind them | |
| `DesignerSessionProofs` | the proofs about all three: recursion along a batch, which batches take each other back, sessions and queries | |
| `EditHistoryProofs` | the proof that the session implements `EditHistory` | |
| `SemanticDocument` | a document of several schemas, its validation and calculation, its field orders: pure operators | |
| `DocumentEdits` | any history of documents, one fact at a time (no code: the editors) | |
| `DocumentComparison` | the canonical delta and the v1 difference: pure operators | |
| `FormulaCalculation` | dependency graph, failures and evaluation, whole and updated: pure operators | |
| `ResidentSession` | publication into the session, with everything it derives and keeps | |
| `QueryScopes` | scopes of Query Grants, and which of them an authority covers: pure operators | |
| `AnalysisQueries` | bounded analyses of one table, and the scopes they require: pure operators | |
| `GroupedSums` | the saved keyed lookup and grouped sum, and the scopes it requires: pure operators | |
| `WorkspaceQueries` | formula reasoning, scenarios, field capabilities; all queries beside the session that publishes | |
| `ResidentSessionProofs` | the proofs about the session's derived state, what a publication names and what a scenario foretells | |
| `PresentationStore` | which stores of styles and rules belong to a document, and pruning: pure operators | |
| `ProjectFormats` | files of five formats, the commands between them, other programs, the browser's sessions and exports | |
| `ProjectFormatsProofs` | the proofs about both | |
| `SpreadsheetInterop` | one worksheet imported, edited as a table, undone and exported, beside a spreadsheet program that has the same content | |
| `ThreeWayMerge` | the frozen v1 engine: selection, conflicts, kinds, canonical order | |
| `ThreeWayMergeV2` | the v2 engine around it, and the workspace boundary of both | |
| `BranchMerge` | two branches edited apart, merged, and edited on from the result | |
| `BranchMergeProofs` | the proofs about it: what a merge gives, and that v2 keeps v1 | |
| `MC...` | constants and the instances TLC checks | |

Operators named "X, mutated" in the comments are plausible bugs of X. Nothing
uses them; PROJECT.json pairs each with the property that detects it.

### PatchLifecycle

State: the registry's maps become sets of records (a map keyed by id, an Option);
`executing` holds the one `PublicationAttempt` and the Approval it reserved;
`shown`, `published` and `receipts` record what the properties talk about.
`now` is the trusted clock; `occurrence` says whether the host still protects the
document the registry was made for.

Each registry method takes `&mut self`, so it is one action. `execute` is two:
`BeginExecute` (selection, staleness, expiry, authorization, evaluation, and the
reservation at `patch_lifecycle.rs:2389`) and a `Publication` action (the guard
called inside `publish_if_current`, the install, the return or spending of the
Approval, the verification). Between them the clock ticks, another writer
publishes (`ExternalPublish`, which is also how a forked request-local registry
appears) and the host may replace the document; no registry method runs, as the
borrow excludes it. A refused call that changes nothing is stuttering; refusals
that change state (stale, expired, disclosed evaluation) are actions.

Planning is a constant function `CandidateOf[document][body]`, with `Unplannable`
for a planner error. A scope is a name, containment of scopes is expanded in the
Grants. `HostInstalls` lets a host install something other than what it was
given: verification exists for that case.

### StagedPublication

One action per system call of `publish_roproj` and of the package writer (check
the destination, take a name, create exclusively, write each part, rename
exclusively, clean), each with its failure, and the two-step direct writers
(`save`, `write_new`). `sequence` is the static counter of one process; when a
process ends (`ProcessEnds`) its calls crash where they are and the counter
starts again, so that staging names recur. Content is a set of (part, writer)
pairs: mixing two writers would be visible. The file system's part is that
exclusive creation and exclusive rename are atomic.

### WorkerClient

The page's ids, pending map and listeners; the two message queues; the Worker's
handlers suspended at `await bridge`; the runtime's project as (occurrence,
revision). An import is two requests with the page's `validate` between. A trap
leaves `RUNTIME` borrowed, after which every request fails. `aim` and `racing`
in a request record what the page was looking at: an edit carries a revision
number only, and numbers repeat between projects, so
`EditsLandWhereTheCallerLooked` excludes edits posted while a replacement of the
project was outstanding: such an edit can land on the new project.
Replies are taken to fit their size limit (hazard at `runtime/src/lib.rs:8820`).

### TableDocument and DesignerSession

`TableDocument` is one table: typed columns, explicit or implicit order, sparse
rows. `Plan` admits a batch command by command as `plan_commands` does, and
`Publishable` is the set of documents (empty, or one) that publication accepts.
A formula divides a constant (`Dividend`) by the one cell it reads: what admission asks of an expression is
which cells it depends on, whether that is circular, and whether it comes to a
number, which a formula that reads a zero or a blank (read as zero) does not.
Ids are `2*serial`, plus one when issued by this session: that reproduces the
order of the code's strings and keeps issued ids apart from opened ones.

`DesignerSession` has one action per request. A request computes a forward and an
inverse batch from the document it sees, publishes the forward one, and pushes
the pair (`record_edit`, `record_history_entry`). `specs` and `sources` are the
structural caches with the code's rule for skipping their refresh. Requests
that name another revision are refused by `check_revision` without any change,
so only requests at the current revision are actions; `RefusedRequest` is a
request refused later, which keeps the proposal serial it consumed.
Cleanups are blocks of values and the removal of duplicate rows, previewed and
then committed by id.

A session is opened with a profile and with an evidence registry (`opened`), and keeps
both. `Applied` is what `publish_commands` makes of the document by itself before the
engine does: it is measured for `usage`, checked against the profile, and
all the caches know of a batch whose refresh is skipped. `Accepted` adds what the
registry asks: the first evidence vocabulary has no names, constraints, formats or
explicit orders, so that a batch needing them, before or after, is published by a
second-vocabulary registry made for that request (`NeedsV2`). The place where that can
go wrong is Undo: a batch that was published once would be refused on its way back.

The comment at `runtime/src/lib.rs:5106` says that a removed column's serial is
never handed out again. That is so for serials of this session's counter; a
serial of an opened column may come again with another namespace, so that the id
is still new. `FreshIds` is about ids: of rows and columns, since the session began.

`DesignerViews` adds the queries. A view has sort keys, filters and rows it keeps whatever
the filters say; `BuildViewOrder` is `build_view_order`, and `Window`, `Located`,
`DistinctValues`, `FindViewMatch`, `TotalsFor`, `GroupTotals` are what the queries make of the
order and of the table. They change nothing but `viewIndex`, the orders kept, last used
first, and `totalsCache`. Both are filled at one revision and may be stale at the next,
so that it takes the key and the revision to keep an answer (`answered`) true of the document.
Texts are values with tables for their display, lower case, fragments and two orders.
Two quotation marks that somebody typed and an empty text show alike, by `cell_text`;
the instances have no such text.

### SemanticDocument, ThreeWayMerge, ThreeWayMergeV2, BranchMerge

The engines are pure functions of three documents and are modelled whole, as
operators on triples (base, ours, theirs). An `Option` is a set of at most one
value, so that `choose` and `choose_optional` are one operator, `Choice`, and an
absent side is `{}`. The order of the code's checks is kept where it decides
which refusal is reported. `ThreeWayMergeV2` follows `merge_v2`: strip what v1
refuses, merge, drop v1's subject conflicts over schemas and fields, find those
again on the whole documents, add constraint, name and order conflicts, sort;
or put constraints, names and orders back on v1's result.

`SemanticDocument!Valid` keeps the conditions of validation and calculation that
a merge of valid documents can break: names and keys that collide, references
and values that lose their target or type, required fields, constraints, orders,
formulas that become circular. Strings of the document are values, stable ids are numbers in the order
of the ids, a number format is a value nobody looks into, a saved grouped sum is
the column it sums. The text of formulas (`preflight_formula_projections`) is left out.

`BranchMerge` is the way the documents of a triple come about: `EditOurs` and
`EditTheirs` make any single change (`DocumentEdits`) after which the document is valid,
`MergeBranches` and `PreviewMergeV2` compute, `WriteMerged` is `tachiko merge`
writing its output, from which both branches then go on. How branches are edited
is not code of the engines: it stands for any history.

`DocumentComparison` is `canonical_delta` and `compare_documents`: sets of facts,
sorted by the code's ordering key. Both are shown with a merge's outcome and
asked of the two branches. `Applied` in `BranchMerge` is not code: it is the
reader who makes the facts true one after the other, and
`ComparisonsTellAll` says that he arrives at the other document.

Two things follow from the model that a user of merge may not expect, and that
no document rules out. When one side moved columns and the other added one,
merging the result once more, from the same base, with the side that moved them is a conflict:
both count as edits of the order, and they differ by the added column. And when both sides add the same
fields in different orders, as additions and not as moves, ours is taken without
a conflict.

### FormulaCalculation and ResidentSession

A formula is one of six forms, one for each way the code reads a cell (directly,
behind an IF's test, in one of its branches) or a column (a total, an aggregate whose
cells are not looked at before evaluation, a count of blanks). Values are integers; the ratio
of a cell to itself stands for every operation that can fail. `PregraphFailures`,
`CycleFailures` and `Settled` are the engine's phases; `Recomputed` runs
them over the dirty cells, and with every cell dirty it is the complete calculation
(`full_calculation_parts`), as in the code, where both call one function. `Updated` is
`RetainedCalculationState::update`: roots, the graph repaired formula by formula,
dependents in the old and the new graph, recomputation, names.

`ResidentSession!Publish` is `publish_if_current` past the checks that
`PatchLifecycle` models: the change of the document is
translated into roots and fields (`document_projection_changes`), the address
index is built again when it may have changed, the calculation is updated, or replaced
when an index is missing on either side. Candidates are all documents one fact away; `ValidOnly`
says whether they have to calculate without failure: lifecycle candidates do, but
the session itself admits documents with failures, and with them the update has
more to get wrong.

`covered` names what the roots of the code do not cover (`Covers`): a row without
values that comes, goes or moves under a column that is read, a column without
values that is redefined or loses its table, a blank cell that a formula names and whose
declaration changes. In these histories the retained values are stale (section 8),
so `CalculationIsRebuilt` is stated for the others.

### QueryScopes, AnalysisQueries, GroupedSums, WorkspaceQueries

Queries are functions of a document, its complete calculation, an authority and a
request. An authority is the set of scopes a principal's live Query Grants cover
(`Permits` is `authorize_query`; who is active and which Grant is live is
`PatchLifecycle`'s). A scope is a triple of options <<schema, row, field>>, and what
is wider names less.

`AnalysisRequirements` and `SumRequirements` are derived before anything is evaluated,
as `prepare_analysis` and `keyed_grouped_sum_query_disclosures` do, and an answer is
refused as a whole (`<<"denied">>`) when one of them is not covered. The order of
the refusals is the code's, as it decides what is told. `GroupedSum` goes stage by
stage and reports all problems of the first stage that has any.

`Shown` is not code: it is what a scope says of a document, and
`AnswersKeepToTheirGrant` compares answers before and after a publication that
changes nothing shown to the asker. A schema scope shows the membership of the
table and the types of its columns, a row scope the table of the row and whether the document has
it, a cell scope the declaration and the value of the cell. What a formula comes to is shown with the whole document
only, because a calculation fails as a whole: a failure anywhere takes the value of
every formula away. So `ReasoningKeepsToScope` leaves the calculation of a formula out, and
`GroupedSumsKeepToFootprint`, which compares footprints without the document's scope, only compares
documents whose structure is sound and in which the columns that formulas read without there being a
row in them (`EmptyColumns`) are declared alike: such a column has no cell that could be required, and
a total over it fails or not by its declaration alone.

`ScenariosForetellPublications` takes the publications that replace stored numbers
by numbers and asks a scenario with these overrides beforehand: each formula then
shows what was foretold, and the publication names every field that the scenario
called affected. A scenario tells its impact by the v1 difference, so not at all where that has
no words for one of the documents (`UnsupportedByV1` of `DocumentComparison`).

`QueriesAgree` holds queries of one document against each other: a grouped analysis against the same
analysis ungrouped, a saved grouped sum against the sum over all pairs of an order and its product, and
what capability discovery tells of a field against validation, explanations and scenarios.

Abstractions: an analysis's numbers are finite; a grouped sum's are natural numbers with
`LargestNumber` for what overflows. Lineage, source contexts and the comparison of two
snapshots (`query_analysis_pair`: two analyses) are left out, as is the envelope of a scenario
(too many or repeated overrides).

### PresentationStore and ProjectFormats

A file is a format, records in shards, an optional presentation and, for a
package, the digest it was sealed with. Of a document only what formats and
presentations distinguish is kept: six features, each of which some format
cannot hold, the columns of its tables, its rows. What another program may do to a tree
or to what is inside a package (move, repeat or drop a record, reorder or drop the
presentation) is an action each; `stands` remembers the document a file
stands for, none once a record is in it twice. Such a tree is not edited on: which of the
two a repair would keep is not in the tree, so that nothing could be said of it. CLI commands read a file and write a new one; a session opens one,
is edited and undone, and exports.

Abstractions: a feature does not depend on columns or rows, so removing the
last formula of a document is not an edit here; digests are injective; a saved
project of the browser is the tree or the direct document inside it;
direct files are not edited by hand (no shards, no presentation, no digest), and
of the legacy v1 direct encoding only the reader exists.

### SpreadsheetInterop

`Import` is `import_xlsx_with` (titles above the header, summary rows, the formulas
that keep their last value, the format of a column) followed by
`import_workbook_candidate` (the types a user selects, A1 references bound to rows
and columns, the guards that MIN needs, the metadata of the source). The session's
requests then change the table (`EditCell` to `Undo`), and `ExportXlsx` writes
it: `current_import_metadata` orders rows and columns and finds their styles by
identity, `export_expression` gives every reference its address. The functions
between a worksheet and a table are operators, so `ExportsImportBack` applies them
to what any state would export.

`twin` is a spreadsheet program that has the file open and is given every value
the table is given. Its rule for blank arguments of MIN is what the comments in
`excel_extremum` and `export_extremum_argument` say it is. A change that enters
no value (a formula, a row, a column) ends its comparison until the next export.

Abstractions: a formula is a term or the MIN of two, which is where the two
programs differ; SUM and COUNT stand for the column aggregates; a format is an
opaque string that the code's vocabulary has; `bold` stands for all of a style but the format. One
worksheet, so no references across worksheets; texts are not edited; no dates, Booleans or
conditional aggregates; no CSV; limits are not reached.

## 3. Runs

| Run | Instance | Checks |
|---|---|---|
| `lifecycle_governed` | one proposal, one Approval, a human and a delegated principal, three Grants (two equal, one expiring), two policies selected up to twice, clock 0..2 | `PublicationsAreApproved`, `NeverSpentAcrossPolicyTransition`, `SpentUnderOriginalAuthority` |
| `lifecycle_concurrent` | two proposals, two Approvals, another writer, a host that installs something else, revisions 0..2 | `ConsumedIffPublished`, `ReceiptsTellWhatHappened`, `NoLostUpdate`, `OutcomesAreFinal`, `ImplementsSemanticPublication` |
| `staged_publication` | two trees, a package, a direct file and another program at one destination, one process id used again and again | `DestinationIsWhole`, `SuccessIsPublication`, `ResidueIsExplained`, `NeverReplaced`, `ImplementsAtomicPublication`, `EveryCallReturns` |
| `worker_client` | two edits, an open, an import, a closeProject | `MessagesKeepTheirOrder`, `EditsLandWhereTheCallerLooked`, `RefusalsChangeNothing`, `EveryCallSettles` |
| `designer_session` | five families: blocks of cells, formulas and cleanups in a table of two rows and two columns; rows and columns that come and go beside a formula column; column requests on a table of one row; a table in the text-capacity profile; queries between edits, undos and redos | `CachesAreCurrent`, `PageQueriesAgree`, `FreshIds`, `CommitPublishesPreview`, `ImplementsEditHistory` |
| `merge_branches` | two families: two tables, one row, every kind of change, two edits; one table of two columns, two more to add, five edits | `MergeFollowsTheSides`, `ConflictsAreReal`, `OneSidedMergeIsThatSide`, `V2RetainsV1`, `ComparisonsTellAll`, `MovedColumnsStayMoved` |
| `merge_conflict_facts` | the tables of columns, two edits; expected to fail | `FactsMatchKind` |
| `resident_session` | three books of two tables with formulas of every form, three changes; six shops of orders and products with a grouped sum, ten analyses and eight authorities, one change | `DerivedStateIsRebuilt`, `EveryChangeIsNamed`, `QueriesAgree`, `AnswersKeepToTheirGrant`, `ScenariosForetellPublications` |
| `resident_blank_rows` | the same, valid documents only, rows without values; expected to fail | `PublishedValuesAreRecomputed` |
| `project_formats` | two families: three files, one edited by another program; two files and a session of three edits and undos | `FilesHoldTheirProjects`, `EqualRootsEqualProjects`, `SavesKeepWhatTheyCan` |
| `presentation_dropped` | the same; expected to fail | `PresentationIsKeptOrRefused` |
| `spreadsheet_interop` | five worksheets, every header row, summary and type option, three edits, undos or exports | `SpreadsheetsAgree`, `ExportsImportBack`, `SurvivorsKeepTheirLook` |

Bounds, and why they are enough to meet the interesting cases:

* Clock: two ticks put an expiry before, at and after each of review, selection
  and guard. `MaxSelection = 2` allows a policy to be left and selected again.
* `lifecycle_concurrent` uses the constraint `OneWithdrawal` (no principal or
  Grant is withdrawn; either one Approval is, or the clock advances): withdrawal
  and expiry are what the governed run is about, and two full proposals with both do not fit. Two proposals are what
  a conflict, a lost update or a shared Approval takes.
* `MaxRevision` is reached, which is the exhaustion branch of
  `publish_if_current`.
* One process id and `MaxSequence = 2` in `staged_publication`: a restarted
  process meets its predecessor's names at once. A tree is its directory and one part, so that it can be half
  written. `MaxSequence` bounds the restarted counter; in the code a `u64`.
* `worker_client` has one call of each kind that replaces the project and two
  edits, enough for an id, a reply or a revision to be mistaken for another's.
* `designer_session`: `HistoryDepth = 2` (64 in the code) is passed within
  `MaxRevision` publications, so entries are dropped; `MaxSerial` bounds
  proposals. A session drives one family of requests, plus Undo, Redo
  and refusals. A large table has three rows or more, which lets two removals leave the profile
  and one insertion come back to its limit; it is given two edits, and so is the table with a
  formula column, whose third publication is an Undo or a Redo; cells and columns get three. A page asks for four views,
two of which differ in the rows they keep, with room for the orders of two; the table has a blank, an
empty, a numbered text and a calculated number, and one edit of it is undone and done again.
* `merge_branches`: the engines compare fact by fact and look at one change of
  each side at a time, so one change per side meets every pair of changes to a
  fact and to a parent and its child; with both edits on one branch a merge is a
  fast-forward over two changes. What relates several facts of a side is the order of columns, which
  gets five edits and four columns in a family of its own. Every bound is the
  MC module's `WithinFamily` and `MaxEdits`.
* `resident_session`: three publications let a formula come, be read and go, and an
  index be lost (colliding keys) and found again. Each of the three books reads
  columns and cells in two of the six ways, across tables, so that a row that
  changes tables leaves one column that is read for another. A shop is changed once: the
  properties of queries compare two documents, and every reachable difference of one fact is one of them.
  Between them the shops have literal, calculated and failing operands, a missing and an ambiguous key,
  and as many orders, categories and twins as pass `MaxCollection`, `MaxGroups` and `MaxAmbiguous`; one change
  (`MorePieces`) replaces two numbers at once. One of them (`Dated`) has a column of dates, by which
  orders are compared and grouped, and a number format, which withholds the impact of a scenario.
* `project_formats`: three files are a source, a converted file and one
  made from that or beside it; a hand edit can fall on any of them. The session's
  family has documents and stores in which a rule reads another table, a style has a single
  user and a table has nothing but a title, and three edits, which is a removal, an
  undo and one more. More edits add documents, not kinds of stores: pruning looks at the
  opened store and the current document only. A save leaves the session as it is,
  so the session's family edits before its save only; in the other family a session
  opens while a file can still be written, for it does nothing but export.
* `spreadsheet_interop`: the worksheets have two or three rows of data, the least
  with a first, a last and one to remove, and between them each layout and each form of reference the
  import tells apart: titles found and only given, labelled and unlabelled totals, ranges that are and
  are not a whole column, blank arguments, guards written by hand and arguments written `(x+0)`.
  `Typed` has a reference to another row and an aggregate. A new row is given at most one value.
  Three changes are a removal or a move, its undo or a formula, and one more, or an export
  in between and edits of the exported file.

Deadlock is not checked in the storage, transport, Designer, resident and format
runs: calls end, and bounds are reached.

## 4. Fairness

* `StagedPublication!FairSpec`: weak fairness of each call's own steps. A call is
  straight-line code on a thread that the system schedules. Nothing is assumed of
  other programs, of crashes or of system calls succeeding.
* `WorkerClient!FairSpec`: weak fairness of the page's listeners and of the
  Worker's dispatch and handlers, i.e. both event loops keep turning. Nothing
  makes the module's download end, a caller call, `close()` run or the Worker
  fail. So `EveryCallSettles` is stated for calls made before `close()` and
  before the error event, once the bridge has been decided. Calls made later are
  not settled by the code at all (`worker-client.ts:704`).

## 5. Proofs

All theorems hold for every value of the constants that satisfies the named
assumptions of the module.

`PatchLifecycleProofs`

* `TypesHold` (`TypeOK`), with `TypeInv == TypeOK /\ PlannedAtBase`. Types alone
  are not inductive: publication applies the planner again, and that the result
  is a document needs that a live proposal of the current revision could be
  planned when it was made (`PlannedAtBase`).
* `IdentitiesUnique` (`ApprovalIdsUnique`), by `IdentityInv`: at most one
  execution at a time, proposals have distinct ids, an execution holds a
  registered, nonterminal proposal, and what it reserved is Active and out of
  the registry.
* `NoUpdateIsLost` (`NoLostUpdate`), by `RevisionInv`: publishers are proposals,
  and no publication lies beyond the current revision.
* `ApprovalsSpentOnce` (`ConsumedIffPublished`), by `ConsumptionInv`: receipts
  name issued Approvals only. Steps that spend nothing are gathered in
  `UnspentStep`; the one that spends is treated by itself.
* `OriginalAuthority` and `PolicyTransitionKills`, the action properties: only the
  guarded publication spends, and its guard implies both.
* `OutcomesStayFinal` (`OutcomesAreFinal`): every step either adds a record or
  exchanges a nonterminal proposal or an Active Approval. For the publications
  that is `IdentityInv`: what an execution holds was so when it began, and
  nothing else may have touched it.
* `PublicationsWereApproved` (`PublicationsAreApproved`), by `ReviewInv`. An Approval
  says who approved which proposal, not what was on the screen; that it is the candidate
  that is installed takes four links: the memo of an evaluation is the plan of its
  proposal (`MemoFaithful`), a preview showed that plan as long as the base is current
  (`ShownFaithful`), who approved had a preview (`ReviewsShown`, `ApprovalsReviewed`),
  and an execution holds the same plan (`ExecutionIsPlanned`). The last two are
  conditional on the base revision, because a publication by another writer makes every
  base old and the conclusions about it false; `NoLostUpdate` is why that is enough.
* `ReceiptsAreTrue` (`ReceiptsTellWhatHappened`), by `OutcomeInv`: besides the
  property, receipts are of issued proposals, a proposal's publication has a receipt, and an
  applied proposal is terminal, so that it is not executed a second time.
* `PublicationIsOneStep`: `Spec => ImplementsSemanticPublication`. Every action has a
  lemma that says which abstract step it is; most are stutters, because the
  mapping sees neither the reservation of an Approval nor what the host does between.

`WorkerClientProofs`

The assumption `NoProjectAssumption` says that no project equals the mark for its absence
(`Option::None` in the code). `TransportInv` joins

* `OrderInv`: ids grow from the requests that were applied over the replies and the
  handlers suspended at `await bridge` to the requests still in the queue. It gives the second half of
  `MessagesInOrder` (`MessagesKeepTheirOrder`); `CallerInv`, that a message belongs
  to the call that waits under its id, gives the first.
* `LiveInv`: while the Worker runs, each call in flight has one message, or one reply.
  The event of a lost Worker discards the pending calls and leaves their messages
  behind, so what follows is stated for a Worker that runs.
* `ShownInv`: what the page will have been shown once it has read every reply is the project
  that is held, and an edit posted when nothing could replace that project is aimed at it:
  `EditsLand` (`EditsLandWhereTheCallerLooked`). That it speaks of replies not read
  yet is the strengthening: the page lags behind the runtime by a queue of them.
* `AppliedInv`: the call of an applied request was resolved, or waits and has only the
  reply that resolves it before it: `RefusalsAreHarmless` (`RefusalsChangeNothing`).

`TransportTypes` is its first part.

`StagedPublicationProofs`

* `StagedInv` joins `TypeOK`, `StepsOfFamily` (a call is at a step its writer
  has), `StagingIsOwn` (from its creation to its rename or removal, a staging path
  holds exactly what its call has written so far), `FillIsOwn`,
  `DestinationIsWhole` and `SuccessIsPublication`. `StagingIsOwn` is the heart of
  it: names are not unique across restarts, and exclusive creation by itself
  keeps live calls apart: two calls cannot both find their own content at one path.
* From it `StagedTypes`, `WholeDestinations`, `SuccessPublishes`,
  `DestinationsNeverReplaced`.
* `PublicationIsAtomic`: `Spec => ImplementsAtomicPublication`, with
  `OwnershipInv` (a destination is absent, another program's, or owned by one call
  that has left the steps in which it was still to be taken) to evaluate the refinement mapping before and after each step.
* `ResidueExplained` (`ResidueIsExplained`), by `ResidueInv`: a call that has neither died nor failed to
  clean up has left something on the one path it has named last, and only while it holds that
  path. The property alone is not inductive: a call that returns must be known to have left nothing under the
  names it tried before.

`DesignerSessionProofs`

`InitialDocsAssumption` says of an opened document what opening it checked (it is a
table of typed columns and values, as the code's structs have them, and valid) and that
none of its ids is of the session's own namespace: the code
draws a namespace for each session (`RowIds`), the model gives issued ids odd
numbers. `ValuesAssumption` says that what is typed into a cell is a number or a text,
and that division by it is exact (`Dividend` is a multiple of it).
`ViewEntriesAssumption` is that `MAX_VIEW_INDEX_ENTRIES` is positive.

* Batches are applied by recursion. What is claimed along a run of `Plan` is shown for the
  set of places where it holds: the places where it fails are natural numbers, so they have a least one
  (`LeastNat`, from the library's well-foundedness of `<`), and that one has a predecessor
  where it holds (`SegmentInduction`, `PlanInduction`). With it `PlanKeepsTable`, `PlanGrows`
  (the ids of a planned document are those there were and those the batch brings in), and
  `PlannedIsApplied`: `plan_commands` and `publish_commands`, two pieces of code, make
  the same document of every batch that is planned.
* `SessionInv`, proved in `SessionStaysSound`, joins `BatchInv` (every batch in the history is one of known commands
  on ids handed out before), `DocInv` (the document is a valid table of the profile, with its structure
  cached), `PendingInv` (a preview of this revision is the plan of its commands) and `IdsInv`.
  The parts need each other: Redo brings back rows whose ids nobody has, so that a new
  id is fresh only because no batch of the history is ahead of the serials; a skipped
  refresh is right only for a cached structure that was right and a document whose profile has no formulas.
* Each request has a lemma that it is an `EditAs`: it publishes and records two batches that keep to
  ids there are or that are beyond the serials. `EditKeepsInvariant` is then one proof for all of
  them. The greatest of the document's serials, the spare serials of
  new rows and the filled, pasted and retyped values are what these lemmas are about.
* `NewIdsAreFresh` (`FreshIds`), `StructureStaysCurrent` and, with `PlannedIsApplied`,
  `CleanupsKeepTheirPromise` (`CommitPublishesPreview`) follow.
* `AnswersAreCurrent` (`CachesAreCurrent`), by `ViewInv`: no kept order or total is of a later
  revision, and one of this revision is that of the document. What is stale stays in the cache, and
  only because a revision is never used again may its number tell.

`EditHistoryProofs`

`UndoFollowsOneLine` is `Spec => ImplementsEditHistory`: Undo and Redo are never refused, and
lead to exactly the documents there were. What the mapping (`Timeline`) says of
the future of two stacks is a recursion over publications that have not happened. The inductive
invariant says it without recursion.

* `HistoryInv == SessionInv /\ IsTyped(doc) /\ PendingBack /\ LineInv`. `LineInv`: there is a line of
  documents, with `doc` at its place, such that each entry of either stack is accepted
  between its two neighbours, both ways, and makes exactly the neighbour
  (`Between`). `PendingBack`: a preview of this revision has a candidate from which its
  inverse leads back; the commit is a request of its own, some time later.
* What an edit has to show is `ComesBack`: that its inverse, planned on what its forward batch
  made, is accepted and makes the document there was, and that both batches need the same
  vocabulary (`NeedsV2`) where they have to. Each request has a lemma that says so, from
  `EditCellsComeBack` to `CommitComesBack`. They rest on lemmas of
  `DesignerSessionProofs` about the paths a batch takes: values that are set and put back in
  the opposite order (`CellsGoBack`), rows (`RemovedRowsGoBack`), a column that is taken out
  with its values, its place in an explicit order and its formulas, and put back.
  A batch is admitted one command at a time on the candidate so far, so that what is shown is a path
  of documents, each step of which is admitted, though none of the documents on the way need be valid.
* An edit cuts the line where the document stands and adds one (`EditedLine`), without its oldest end once
  `HistoryDepth` entries are kept; Undo and Redo leave the line and move the place
  (`UndoneLine`, `RedoneLine`). That what a line says is what `Timeline` computes is `TimelineIsLine`,
  and the same of the next state, by PTL, `NextTimelineIsLine`.
* `PlannedIsApplied` makes of "some accepted document" the one of `Timeline`'s sets of one.
* Two parts of `Valid` came in with this proof: that an explicit order names each column once
  (`IsOrderOf`), and that no two rows go by one key (`KeysAreUnique`). Without the first, a column put
  back would not find its place; without the second, a row.

`BranchMergeProofs`

`EditsAssumption` and `BasesAssumption` say that edits leave records of the document's
types (maps where the code has maps, the facets its structs have), and that a base
passes the validation merge inputs pass.

* `OneSidedMerge` (`OneSidedMergeIsThatSide`), by `DocsStaySound`, which excludes a refusal of the
  inputs, and `OutcomeOfDocs`: an outcome shown is the merge of the branches as they are.
  There are two halves. No conflict is found: alikeness is inherited by everything taken out of
  a triple (`AgreeingEntries` and the lemmas after it), and `Choice` of an alike triple is never
  `{}`, so that each set of conflicts is empty, level by level; this half needs no assumption on
  documents. And the result is the winner: who wins the whole wins the part (`WinsPart`), so that each facet
  chosen is the winner's and the merge is the winner (`WinningMerge`, `WinningMergeV2`),
  valid because the winner is. An explicit order needs more, since v2 does not choose it but puts
  it together again. A branch that kept the base's schema has not edited its order (`UneditedOrder`), so the
  winner's is picked (`PickedOrder`); the fields only the other side has are appended and then, being
  in no field of the result, dropped by normalization (`ExtensionIsNormal`), which leaves a
  valid order as it is (`OrderIsNormal`).
* `MergesFollow` (`MergeFollowsTheSides`), by `OutcomeIsOfDocs /\ DocsAreDocuments`: the
  branches are documents after every edit and after a merge is written, because what v1
  merges of documents is one (`EditedShape`, `MergedShape`). `ChoiceFollows` is the law
  for one value; `FactsAre` says what a document holds under each name of a fact, and
  `WholeFollows` and `FacetFollows` carry the law from the maps that
  were merged to those names. Two things do not follow level by level. The stored value of a row that one side moved
  to another table: it follows only because a chosen fact outside the chosen table
  is unmaterialized and the merge refused (`MergedEntitiesFollow`). And v2, which merges stripped
  documents: that v1's subject conflicts may be dropped is because v2's own, on whole
  schemas and fields, leave none behind (`SubjectsAreChosen`, `NoHiddenSubjects`), and then what was
  taken off is put back as the sides have it (`RestoredSchemaFollows`, `RestoredFieldFollows`).
* `DocsStaySound` (`DocsAreSound`): base and branches stay valid, with bound saved definitions and one id.
  v1's finalization does not look at the saved definitions of its result. It need not
  (`MergeKeepsBound`): all three documents have the same definitions, so the field they name is in
  all three and a number in each, and a merge can neither remove nor retype it.
* `V2Agrees` (`V2KeepsV1`): plain documents lose nothing by being stripped
  (`PlainStays`), v2's passes find something on them exactly where v1 does (`QuietPasses`,
  `LoudPasses`), and nothing is put back (`NothingIsRestored`).

`ProjectFormatsProofs`

`FormatsAssumption` says that the documents and stores to begin with have the types the code
gives them (a document has finitely many rows), and that rows are ordered as
numbers are. Digests are injective in the model itself, and so in what is proved.

* `FilesHold` (`FilesHoldTheirProjects`), by `FilesInv`. Of a file somebody else has edited the
  property says nothing unless a reader admits it. What is inductive speaks of every
  tree, readable or not: it stands for the document its records make, unless one is in it
  twice, and then for none. A record moved is one taken out (`DropIs`) and put
  back (`PutIs`), wherever it goes; that readers find a row twice wherever the two records are is the
  last line of `PutIs`. A tree v1 and a direct document do not say what was kept beside them: of
  the presentation the invariant speaks for v3 and packages only.
* `EqualRoots` (`EqualRootsEqualProjects`): an exact tree is determined by what it
  holds (`ExactIsDetermined`). That there is just one way to lay rows out in
  shards is `InIdOrder` being a choice; that this choice is a sequence of every
  row once needs that a sorted one exists. `OrderExists` shows it without
  induction: the place of a row is the number of rows that come no later.
* `SavesKeep` (`SavesKeepWhatTheyCan`), by `SessionInv`: a session keeps the store it was opened
  with, whose rules paint something and whose styles include those in use (`IsKept`); a reader
  makes sure of it when the session is opened, and the session only prunes copies. What pruning leaves belongs
  (`PruneBelongs`), and contains every part that does (`PruneKeeps`), whatever the
  document has become. The run looks at the parts while there is one file, the theorem always.

`ResidentSessionProofs`

`BasesAssumption` says of a document a session opens with, and the guard `IsInMemory` of one
it publishes, what the code's types say: it is a `Document` with finitely many values. Nothing
is assumed of which documents follow which.

* A calculation is characterised by what it holds of each cell (`IsCalculation`): its failure
  before evaluation, its cycle, its number, or what its formula comes to in that very state. That a
  calculation from nothing is one is `RebuiltIsCalculation`, and that a document has no second is
  `CalculationIsUnique`. Both look at the first formula in the order of evaluation that
  would be an exception, and there is always a formula to go on with: a set of formulas in which each depends on another has a cycle
  (`CycleExists`, `SomeIsReady`). Reachability is what the recursion in `Reached` computes; the lemmas use it as
  the least closed set (`ReachedIs`).
* `DerivedStateStaysRebuilt` (`DerivedStateIsRebuilt`), by `SessionIsRight`: while the roots have covered every
  change, the retained calculation is the complete one, and the address index is the document's in any case. One step is an
  update, and takes two arguments. What it recomputes is closed under dependents before and after
  (`DirtyIsClosed`), and a formula outside reads cells, slots, declarations and cycles that are as they
  were (`OffDirty`, `CyclesOffDirty`), so what is kept of it is right of the new document
  (`RightOffDirty`). And the graph that is repaired root by root is the new document's
  (`UpdatedGraphIsNew`). Between two roots it is the graph of neither document: `IsPartway` says which formulas it has from
  which, and that the slots of a column no row left or entered are the same in both, which is why
  only touched columns need to be refreshed.
* `NothingIsLeftUncalculated`: each calculated cell has a value or a failure and not both, so that the
  assertion in `evaluate_remaining_formulas` holds.
* `EveryChangeStaysNamed` (`EveryChangeIsNamed`), whether or not the roots covered: the graph has
  the formulas of the document even when its edges are old (`HasFormulas`, `UpdatedHasFormulas`), recomputing
  touches dirty cells only, whatever the graph (`RecomputedTouches`), and all else a client sees of a field
  is among the changed fields (`AddressStands`).
* `ScenariosStayTrue` (`ScenariosForetellPublications`), from the two before: the candidate of a scenario is the published document
  (`OverriddenIs`), so both calculations are the complete one of it.
* `AnswersStayInTheirGrant` (`AnswersKeepToTheirGrant`). `AnalysesAssumption` says of the analyses asked what the
  code's types say (`IsAsked`): fields are named by their ids, there is one to group by at most, and a result is of
  one field, or of rows and of none. Of two documents
  that show a principal the same (`AgreeUnder`), each scope it holds tells a likeness: `SchemaTells`, `RowTells`, `CellTells`.
  An analysis the principal is told in the one document reads only rows, cells and columns that its
  requirements name, so these are alike in the other (`AnalysisIsBlind`), and then its requirements are too
  (`RequirementsAlike`): it is told or denied in both, and every stage of it, from the domain to the metrics, comes
  out alike (`AnalysesKeep`). It never reads what a formula comes to, unless it sees the whole document.
  Of a formula, everything it depends on and everything it affects is among what its explanation names, so no
  edge leaves what is alike (`ReasoningKeeps`). A grouped sum is taken by its stages: when every key is found, the footprint names
  both operands of every order (`ProductsAreMatched`), and when one of these is a formula, every formula
  and all they read (`FormulasAreRequired`). Then formulas fail before evaluation, run in cycles and come to values alike
  (`FormulaPhasesSame`, `FormulasComeToTheSame`), and nothing else of a sound document fails (`FailuresComeTogether`).
* `QueriesStayInAgreement` (`QueriesAgree`), for any document in memory, published or not, valid or not. The rows of an analysis have exactly one key each when
  grouping finds no problem (`RowsHaveKeys`), so its groups are the parts of the whole (`GroupsHave`): memberships
  partition it, counts add up to its count, and the greatest maximum is its own (`PartsHold`). When a grouped
  sum finds no problem, each order is sent to its own pair of order and product, one by one
  (`PairsAre`), so that nothing is left out or counted twice, and the operands it reads are the numbers of the
  calculation (`SumsHold`). The library folds a set in an order it chooses: that it comes to the
  same in every order (`FoldIsTotal`) is by induction over subsets (`SubsetInduction`), and makes a sum one that adds up over
  parts (`PartsAddUp`) and carries over to pairs (`SumCarries`). Capabilities are compared with the operations, rule by rule
  (`CapabilitiesHold`). Formulas need natural numbers for values here (`ValuesAreNumbers`), and so what `IsParsed` says of a formula:
  it has finitely many operands, and a maximum is of some column.

These proofs found what the runs are too small to meet. `Covers` had taken what is stored in a
column for roots when its table goes, which it is not where the column is read without being
declared; `NumbersReplaced` has to say that no row without values comes or goes with the numbers; a
row scope has to show whether the row's table exists, since an analysis narrowed to rows requires no more of the table; and the footprint of a
grouped sum names no column without rows, though a formula's failure may be about one.

## 6. Only model-checked

* Liveness (`EveryCallReturns`, `EveryCallSettles`): liveness under fairness is outside the
  prover's reach.
* `PageQueriesAgree`: sorted and folded tables.
* Of merge, what is a matter of sorted sequences and the folds over them: the order of conflicts in
  `ConflictsAreReal`, the conflicts by name in `V2RetainsV1` (`V2Agrees` says that there are
  some), `ComparisonsTellAll`, whose reader applies a sorted delta, and `MovedColumnsStayMoved`.
  The prover knows no equation of `SelectSeq` and `SortSeq`. Filtering an order is therefore written
  as a function along the sequence (`Within` of `SemanticDocument`), for which induction
  is within reach (`SegmentInduction`, by the least place where a claim fails), and ids in their
  order as a function of the place (`ById`).
* Spreadsheets.

## 7. Not modelled

* Bytes: the spelling of records, strict JSON, the framing of a package, size
  limits, digests as numbers; parsing and printing of formulas; floating-point
  arithmetic; texts of messages and of comparisons.
* Designer: Boolean and Date columns, duplication of
  collections, the stock tracker's rows, saved grouped sums in the session, the
  Split, Convert and Replace cleanups.
* Queries: binding the text of a formula, lineage, analyses of two snapshots. The AI
  boundary: it forwards intent to the lifecycle and changes no state.
* Capacity: the working-size profile and limits on bytes; the reply that is
  refused for its size after its edit was published is a hazard of the list
  (`runtime/src/lib.rs:8820`).
* Host file pickers, tools, scripts, spikes, experiments.

## 8. Findings

Each is a run that is expected to fail: the code does something that a document
or a comment of the repository says it does not.

* `merge_conflict_facts`. `docs/specs/conflict-resolution.md:141` says of
  `delete_modify` that "one side is absent; the other is present and
  non-equivalent to base", and line 368 that v2 "retains every v1 law".
  `add_complete_subject_conflicts` (`conflict_v2.rs:478`) compares whole schemas,
  their field order included, but the facts it reports leave the order out. So when
  one side removes a table and the other only moves its columns, v2 reports a
  `delete_modify` conflict whose surviving side equals the base, followed by a
  conflict over the order of the same schema, where the document's parent rule
  (lines 154 to 159) has one subject conflict. The same holds of
  `concurrent_addition` (line 140), when both sides add a table that differs in
  the order of its columns only.
* `resident_blank_rows`. `docs/decisions/ADR-0018-bound-formulas-and-deterministic-binary64.md:340`
  permits incremental recomputation "only when observationally equivalent" to
  the complete one. `collect_entity_projection_changes` (`resident_session.rs:826`)
  takes the cells a row stores for its roots, so a row without values has none:
  when it comes or goes, a formula that counts the blank cells of its table keeps
  its old count.
* `presentation_dropped`. `docs/decisions/ADR-0049-stored-presentation.md:169` says that
  the writers of older representations refuse a stored presentation. CLI commands
  that write a direct file or a tree v1 read the document alone
  (`commands.rs:479`), so `set` on a tree v3 with a rule writes a file without it.

## 9. Plan

Done, in order of importance: lifecycle with its session, storage publication,
transport, Designer session with the planner, three-way merge with its
comparisons, the session's derived state, the project formats, spreadsheet
import and export, the queries of a workspace. Next:

1. Proofs: of spreadsheets what does not hang on texts.
2. The remaining Designer requests.

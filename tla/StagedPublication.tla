-------------------------- MODULE StagedPublication --------------------------
(***************************************************************************)
(* Writing documents to a shared directory: the staged publication of      *)
(* project trees (crates/storage/src/roproj/host.rs publish_roproj and     *)
(* publish_roproj_v3), of packages (portable_package/host.rs               *)
(* publish_portable_package) and the direct writers (storage lib.rs save,  *)
(* cli commands.rs write_new).                                             *)
(*                                                                         *)
(* Several calls run at once, in threads of one process and in different   *)
(* processes.  Each system call is one step; between two of them any other *)
(* call may run, another program may take the destination, and the process *)
(* may die.  A process id can be used again, with its staging counter back *)
(* at zero and the residue of its predecessor still on disk.               *)
(***************************************************************************)
EXTENDS Naturals, FiniteSets

CONSTANTS
  Calls,        \* call occurrences; each runs at most once
  FamilyOf,     \* what a call writes: "tree", "package" or "direct"
  Destinations,
  Pids,         \* process ids
  Parts,        \* files of a tree
  MaxSequence   \* bound of the staging counters

Families == {"tree", "package", "direct"}

Foreign == "foreign"  \* another program

ASSUME StagedAssumption ==
  /\ FamilyOf \in [Calls -> Families]
  /\ Calls \cap {Foreign, "nobody"} = {}
  /\ Parts \in Nat \ {0}
  /\ MaxSequence \in Nat

\* `.<basename>.tachiko-stage-<pid>-<sequence>`, and -package-stage- for packages.
StagingPaths == Destinations \X {"tree", "package"} \X Pids \X (0 .. MaxSequence)

Writers == Calls \cup {Foreign}

\* What a path holds: which parts of whom, nothing if it is absent.  Part 0 is
\* the directory or file itself, before anything is written into it.
Content == SUBSET ((0 .. Parts) \X Writers)
Absent == {}

VARIABLES
  published,  \* content of every destination
  staged,     \* content of every staging path
  sequence,   \* NEXT_STAGING_DIRECTORY and NEXT_STAGING_FILE of each process id
  call        \* progress of each call

vars == <<published, staged, sequence, call>>

Returned == {"ok", "exists", "failed", "unclean"}
Steps == {"none", "check", "name", "make", "write", "rename", "clean", "create", "fill",
          "crashed"} \cup Returned

Call == [step : Steps, pid : Pids, at : Destinations, staging : 0 .. MaxSequence,
         written : 0 .. Parts, outcome : {"exists", "failed"}]

TypeOK ==
  /\ published \in [Destinations -> Content]
  /\ staged \in [StagingPaths -> Content]
  /\ sequence \in [Pids \X {"tree", "package"} -> 0 .. MaxSequence]
  /\ call \in [Calls -> Call]

-----------------------------------------------------------------------------
Staged(c) == FamilyOf[c] # "direct"

PartsOf(c) == IF FamilyOf[c] = "tree" THEN Parts ELSE 1

\* The first n parts of a call's document, and all of it.
Written(c, n) == (0 .. n) \X {c}
Whole(c) == Written(c, PartsOf(c))

\* The staging path a call has named.
StagingOf(c) == <<call[c].at, FamilyOf[c], call[c].pid, call[c].staging>>

At(c, step) == call[c].step = step

Goto(c, step) == call' = [call EXCEPT ![c].step = step]

\* The call gives up and cleans its staging first.
GiveUp(c, outcome) == call' = [call EXCEPT ![c].step = "clean", ![c].outcome = outcome]

Running(c) == call[c].step \notin {"none", "crashed"} \cup Returned

-----------------------------------------------------------------------------
\* The document is validated and encoded before the first step here.
Start(c, pid, d) ==
  /\ At(c, "none")
  /\ call' = [call EXCEPT ![c] = [@ EXCEPT !.step = IF Staged(c) THEN "check" ELSE "create",
                                           !.pid = pid, !.at = d]]
  /\ UNCHANGED <<published, staged, sequence>>

\* The destination must be absent; nothing keeps it absent.
CheckDestination(c) ==
  /\ At(c, "check")
  /\ Goto(c, IF published[call[c].at] = Absent THEN "name" ELSE "exists")
  /\ UNCHANGED <<published, staged, sequence>>

\* The destination cannot be inspected.
CheckFails(c) ==
  /\ At(c, "check")
  /\ Goto(c, "failed")
  /\ UNCHANGED <<published, staged, sequence>>

\* create_staging_directory, mutated: the counter is read and not advanced.
TakeNameAgain(c) ==
  LET counter == <<call[c].pid, FamilyOf[c]>> IN
  /\ At(c, "name")
  /\ sequence[counter] < MaxSequence
  /\ call' = [call EXCEPT ![c].step = "make", ![c].staging = sequence[counter]]
  /\ UNCHANGED <<published, staged, sequence>>

\* create_staging_directory, create_staging_file: fetch_add on the counter.
TakeName(c) ==
  LET counter == <<call[c].pid, FamilyOf[c]>> IN
  /\ At(c, "name")
  /\ sequence[counter] < MaxSequence
  /\ call' = [call EXCEPT ![c].step = "make", ![c].staging = sequence[counter]]
  /\ sequence' = [sequence EXCEPT ![counter] = @ + 1]
  /\ UNCHANGED <<published, staged>>

\* create_staging_directory, mutated: a staging directory that is there is used.
ReuseStaging(c) ==
  /\ At(c, "make")
  /\ staged' = [staged EXCEPT ![StagingOf(c)] = @ \cup Written(c, 0)]
  /\ Goto(c, "write")
  /\ UNCHANGED <<published, sequence>>

\* Exclusive creation of the staging directory or file.
MakeStaging(c) ==
  /\ At(c, "make")
  /\ staged[StagingOf(c)] = Absent
  /\ staged' = [staged EXCEPT ![StagingOf(c)] = Written(c, 0)]
  /\ Goto(c, "write")
  /\ UNCHANGED <<published, sequence>>

\* The name is taken, by a crashed predecessor say: the next one is tried.
NameIsTaken(c) ==
  /\ At(c, "make")
  /\ staged[StagingOf(c)] # Absent
  /\ Goto(c, "name")
  /\ UNCHANGED <<published, staged, sequence>>

\* The directory or file cannot be created for another reason.
MakeFails(c) ==
  /\ At(c, "make")
  /\ Goto(c, "failed")
  /\ UNCHANGED <<published, staged, sequence>>

\* write_staging_tree: one file after the other; write_all for a package.
WritePart(c) ==
  LET part == call[c].written + 1 IN
  /\ At(c, "write")
  /\ staged' = [staged EXCEPT ![StagingOf(c)] = @ \cup {<<part, c>>}]
  /\ call' = [call EXCEPT ![c].written = part,
                          ![c].step = IF part = PartsOf(c) THEN "rename" ELSE "write"]
  /\ UNCHANGED <<published, sequence>>

\* publish_roproj, mutated: a failed write goes on to the rename.
WriteFailsUnnoticed(c) ==
  /\ At(c, "write")
  /\ Goto(c, "rename")
  /\ UNCHANGED <<published, staged, sequence>>

WriteFails(c) ==
  /\ At(c, "write")
  /\ GiveUp(c, "failed")
  /\ UNCHANGED <<published, staged, sequence>>

\* finish_staged_publication, mutated: the rename replaces what is there.
RenameReplacing(c) ==
  /\ At(c, "rename")
  /\ published' = [published EXCEPT ![call[c].at] = staged[StagingOf(c)]]
  /\ staged' = [staged EXCEPT ![StagingOf(c)] = Absent]
  /\ Goto(c, "ok")
  /\ UNCHANGED sequence

\* finish_staged_publication, finish_staged_file: rename_exclusive.
Rename(c) ==
  /\ At(c, "rename")
  /\ published[call[c].at] = Absent
  /\ published' = [published EXCEPT ![call[c].at] = staged[StagingOf(c)]]
  /\ staged' = [staged EXCEPT ![StagingOf(c)] = Absent]
  /\ Goto(c, "ok")
  /\ UNCHANGED sequence

\* finish_staged_publication, mutated: a taken destination passes for success.
RefusalIgnored(c) ==
  /\ At(c, "rename")
  /\ published[call[c].at] # Absent
  /\ Goto(c, "ok")
  /\ UNCHANGED <<published, staged, sequence>>

\* finish_staged_publication, mutated: the staging directory stays.
RefusalUncleaned(c) ==
  /\ At(c, "rename")
  /\ published[call[c].at] # Absent
  /\ Goto(c, "exists")
  /\ UNCHANGED <<published, staged, sequence>>

RenameRefused(c) ==
  /\ At(c, "rename")
  /\ published[call[c].at] # Absent
  /\ GiveUp(c, "exists")
  /\ UNCHANGED <<published, staged, sequence>>

\* The file system refuses the rename for another reason.
RenameFails(c) ==
  /\ At(c, "rename")
  /\ GiveUp(c, "failed")
  /\ UNCHANGED <<published, staged, sequence>>

\* remove_staging_directory, remove_staging_file
Clean(c) ==
  /\ At(c, "clean")
  /\ staged' = [staged EXCEPT ![StagingOf(c)] = Absent]
  /\ Goto(c, call[c].outcome)
  /\ UNCHANGED <<published, sequence>>

\* The removal fails, that of a tree perhaps half way; its error is returned in
\* place of the first one.
CleanFails(c) ==
  /\ At(c, "clean")
  /\ \E kept \in SUBSET staged[StagingOf(c)] :
       /\ Written(c, 0) \subseteq kept
       /\ FamilyOf[c] = "package" => kept = staged[StagingOf(c)]
       /\ staged' = [staged EXCEPT ![StagingOf(c)] = kept]
  /\ Goto(c, "unclean")
  /\ UNCHANGED <<published, sequence>>

\* save, write_new, mutated: an existing file is truncated.
CreateTruncating(c) ==
  /\ At(c, "create")
  /\ published' = [published EXCEPT ![call[c].at] = Written(c, 0)]
  /\ Goto(c, "fill")
  /\ UNCHANGED <<staged, sequence>>

\* save, write_new: create_new at the destination itself.
Create(c) ==
  /\ At(c, "create")
  /\ published[call[c].at] = Absent
  /\ published' = [published EXCEPT ![call[c].at] = Written(c, 0)]
  /\ Goto(c, "fill")
  /\ UNCHANGED <<staged, sequence>>

CreateRefused(c) ==
  /\ At(c, "create")
  /\ published[call[c].at] # Absent
  /\ Goto(c, "exists")
  /\ UNCHANGED <<published, staged, sequence>>

CreateFails(c) ==
  /\ At(c, "create")
  /\ Goto(c, "failed")
  /\ UNCHANGED <<published, staged, sequence>>

Fill(c) ==
  /\ At(c, "fill")
  /\ published' = [published EXCEPT ![call[c].at] = Whole(c)]
  /\ Goto(c, "ok")
  /\ UNCHANGED <<staged, sequence>>

\* write_all fails: the partial file stays.
FillFails(c) ==
  /\ At(c, "fill")
  /\ Goto(c, "failed")
  /\ UNCHANGED <<published, staged, sequence>>

-----------------------------------------------------------------------------
(* The environment                                                         *)

\* The process ends, killed or not: every thread of it stops where it is, and a
\* successor with the same id counts from zero.
ProcessEnds(pid) ==
  /\ call' = [c \in Calls |-> IF Running(c) /\ call[c].pid = pid
                                THEN [call[c] EXCEPT !.step = "crashed"] ELSE call[c]]
  /\ sequence' = [s \in Pids \X {"tree", "package"} |-> IF s[1] = pid THEN 0 ELSE sequence[s]]
  /\ UNCHANGED <<published, staged>>

\* Another program creates the destination.
ForeignTakes(d) ==
  /\ published[d] = Absent
  /\ published' = [published EXCEPT ![d] = Written(Foreign, 0)]
  /\ UNCHANGED <<staged, sequence, call>>

-----------------------------------------------------------------------------
Init ==
  /\ published = [d \in Destinations |-> Absent]
  /\ staged = [p \in StagingPaths |-> Absent]
  /\ sequence = [s \in Pids \X {"tree", "package"} |-> 0]
  /\ \E pid \in Pids, d \in Destinations :
       call = [c \in Calls |-> [step |-> "none", pid |-> pid, at |-> d, staging |-> 0,
                                written |-> 0, outcome |-> "failed"]]

\* A call's own steps.
Step(c) ==
  \/ CheckDestination(c)
  \/ CheckFails(c)
  \/ TakeName(c)
  \/ MakeStaging(c)
  \/ NameIsTaken(c)
  \/ MakeFails(c)
  \/ WritePart(c)
  \/ WriteFails(c)
  \/ Rename(c)
  \/ RenameRefused(c)
  \/ RenameFails(c)
  \/ Clean(c)
  \/ CleanFails(c)
  \/ Create(c)
  \/ CreateRefused(c)
  \/ CreateFails(c)
  \/ Fill(c)
  \/ FillFails(c)

Next ==
  \/ \E c \in Calls : Step(c)
  \/ \E c \in Calls, pid \in Pids, d \in Destinations : Start(c, pid, d)
  \/ \E pid \in Pids : ProcessEnds(pid)
  \/ \E d \in Destinations : ForeignTakes(d)

Spec == Init /\ [][Next]_vars

\* A call is straight-line code: its thread is scheduled.
FairSpec == Spec /\ \A c \in Calls : WF_vars(Step(c))

-----------------------------------------------------------------------------
(* Properties                                                              *)

\* What staged publication shows at a destination is one call's document, whole:
\* the readers of a project never meet a tree that is being written, abandoned, or
\* mixed with the residue of a crashed process whose id was used again.
DestinationIsWhole ==
  \A d \in Destinations, c \in Calls :
    Staged(c) /\ (\E i \in 0 .. Parts : <<i, c>> \in published[d]) => published[d] = Whole(c)

\* A call that returned success published: its destination holds exactly its own
\* content.  At most one call of a destination can succeed.
SuccessIsPublication == \A c \in Calls : At(c, "ok") => published[call[c].at] = Whole(c)

\* A staging directory outlives its call only after a crash or after an error in
\* which removing it failed.
ResidueIsExplained ==
  \A p \in StagingPaths, c \in Calls :
    (\E i \in 0 .. Parts : <<i, c>> \in staged[p])
      => Running(c) \/ call[c].step \in {"crashed", "unclean"}

Owners(content) == {entry[2] : entry \in content}

\* Once a destination is taken, by a call or by another program, no step of any
\* call takes it away, changes its owner or removes anything from it.
NeverReplaced ==
  [][\A d \in Destinations :
       published[d] # Absent =>
         published[d] \subseteq published'[d] /\ Owners(published'[d]) = Owners(published[d])]_vars

\* Every call returns or dies: the search for a free staging name ends although
\* names of crashed processes are taken.
EveryCallReturns == \A c \in Calls : Running(c) ~> ~Running(c)

\* Who has taken a destination with this content, and whether all of it is there.
TakenBy(content) ==
  IF content = Absent THEN [by |-> "nobody", whole |-> FALSE]
  ELSE LET w == CHOOSE o \in Owners(content) : TRUE
       IN  [by |-> w, whole |-> w \in Calls /\ content = Whole(w)]

AtomicPublication == INSTANCE AtomicPublication WITH
  Direct <- {c \in Calls : FamilyOf[c] = "direct"},
  taken <- [d \in Destinations |-> TakenBy(published[d])]

\* The staged writers publish whole documents in one step, the direct writers in
\* two, and no destination is taken twice.
ImplementsAtomicPublication == AtomicPublication!Spec
=============================================================================

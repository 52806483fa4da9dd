----------------------- MODULE StagedPublicationProofs -----------------------
(***************************************************************************)
(* Staged publication is safe for any number of calls, processes,          *)
(* destinations and files.                                                 *)
(*                                                                         *)
(* The argument never mentions the staging counters: what keeps two calls  *)
(* out of each other's staging is the exclusive creation alone.  From it   *)
(* on a call's staging path holds exactly what that call has written       *)
(* (StagingIsOwn), and since the content names its writer, no two calls    *)
(* can hold one path.  So what a rename moves is one call's whole          *)
(* document, and because rename and creation are exclusive at the          *)
(* destination too, nobody changes it afterwards.                          *)
(***************************************************************************)
EXTENDS StagedPublication, TLAPS

Staging == {"check", "name", "make", "write", "rename", "clean"}
Holding == {"write", "rename", "clean"}

\* A call takes the steps of its family only.
StepsOfFamily ==
  \A c \in Calls :
    /\ call[c].step \in Staging => Staged(c)
    /\ call[c].step \in {"create", "fill"} => ~Staged(c)

\* From its creation to its rename or removal, a staging path holds what its
\* call has written so far.
StagingIsOwn ==
  \A c \in Calls :
    /\ call[c].written <= PartsOf(c)
    /\ call[c].step \in Staging \ Holding => call[c].written = 0
    /\ At(c, "none") => call[c].written = 0
    /\ call[c].step \in Holding => staged[StagingOf(c)] = Written(c, call[c].written)
    /\ At(c, "rename") => call[c].written = PartsOf(c)
    /\ At(c, "write") => call[c].written < PartsOf(c)

\* A direct writer that has created its destination still holds it.
FillIsOwn == \A c \in Calls : At(c, "fill") => published[call[c].at] = Written(c, 0)

StagedInv ==
  /\ TypeOK
  /\ StepsOfFamily
  /\ StagingIsOwn
  /\ FillIsOwn
  /\ DestinationIsWhole
  /\ SuccessIsPublication

-----------------------------------------------------------------------------
\* Every call writes at least one part and at most Parts of them.
LEMMA PartsBound == \A c \in Calls : PartsOf(c) \in 1 .. Parts
  BY StagedAssumption DEF PartsOf

\* What a call has written so far, entry by entry.
LEMMA WrittenEntry ==
  ASSUME NEW c, NEW n \in Nat, NEW i, NEW w
  PROVE  <<i, w>> \in Written(c, n) <=> i \in 0 .. n /\ w = c
  BY DEF Written

\* Content names its writer.
LEMMA WrittenNames ==
  ASSUME NEW c, NEW b, NEW n \in Nat, NEW m \in Nat, Written(c, n) = Written(b, m)
  PROVE  c = b
  BY <<0, c>> \in Written(c, n) DEF Written

\* Content that has been created is not absent.
LEMMA WrittenPresent ==
  ASSUME NEW c, NEW n \in Nat
  PROVE  Written(c, n) # Absent
  BY <<0, c>> \in Written(c, n) DEF Written, Absent

\* Writing one more part extends what is written by that part.
LEMMA WrittenMore ==
  ASSUME NEW c, NEW n \in Nat
  PROVE  Written(c, n) \cup {<<n + 1, c>>} = Written(c, n + 1)
  BY 0 .. (n + 1) = (0 .. n) \cup {n + 1} DEF Written

\* Content being written has the type of content.
LEMMA WrittenType ==
  ASSUME NEW c \in Calls, NEW n \in 0 .. Parts
  PROVE  Written(c, n) \in Content
  BY StagedAssumption DEF Written, Content, Writers

\* Call c moves to a step with n parts written; what names its staging stays.
CallMovesTo(c, step, n) ==
  /\ call' \in [Calls -> Call]
  /\ \A b \in Calls \ {c} : call'[b] = call[b]
  /\ call'[c].step = step
  /\ call'[c].at = call[c].at /\ call'[c].pid = call[c].pid
  /\ call'[c].staging = call[c].staging /\ call'[c].written = n

\* Updating one entry of a function keeps its domain and range.
LEMMA UpdateType ==
  ASSUME NEW S, NEW R, NEW f \in [S -> R], NEW x, NEW r \in R
  PROVE  [f EXCEPT ![x] = r] \in [S -> R]
  OBVIOUS

\* Goto changes the step of one call and nothing else of it.
LEMMA GotoMoves ==
  ASSUME TypeOK, NEW c \in Calls, NEW step \in Steps, Goto(c, step)
  PROVE  CallMovesTo(c, step, call[c].written)
<1>1. call[c] \in Call /\ DOMAIN call = Calls
  BY DEF TypeOK
<1>2. [call[c] EXCEPT !.step = step] \in Call
  BY <1>1 DEF Call
<1> QED
  BY <1>1, <1>2 DEF TypeOK, Call, Goto, CallMovesTo

\* GiveUp ends one call with an error and leaves its staging name.
LEMMA GiveUpMoves ==
  ASSUME TypeOK, NEW c \in Calls, NEW outcome \in {"exists", "failed"}, GiveUp(c, outcome)
  PROVE  CallMovesTo(c, "clean", call[c].written)
<1>1. call[c] \in Call /\ DOMAIN call = Calls
  BY DEF TypeOK
<1>2. [[call[c] EXCEPT !.step = "clean"] EXCEPT !.outcome = outcome] \in Call
  BY <1>1 DEF Call, Steps
<1> QED
  BY <1>1, <1>2 DEF TypeOK, Call, GiveUp, CallMovesTo

\* Starting, being refused and returning write no file.
LEMMA CallSteps ==
  ASSUME StagedInv, NEW c \in Calls,
         \/ CheckDestination(c) \/ CheckFails(c) \/ NameIsTaken(c) \/ MakeFails(c)
         \/ WriteFails(c) \/ RenameRefused(c) \/ RenameFails(c)
         \/ CreateRefused(c) \/ CreateFails(c) \/ FillFails(c)
  PROVE  StagedInv'
<1>1. UNCHANGED <<published, staged, sequence>>
  BY DEF CheckDestination, CheckFails, NameIsTaken, MakeFails, WriteFails, RenameRefused,
         RenameFails, CreateRefused, CreateFails, FillFails
<1>2. \/ At(c, "check") /\ \E step \in {"exists", "name", "failed"} : Goto(c, step)
      \/ At(c, "make") /\ \E step \in {"name", "failed"} : Goto(c, step)
      \/ call[c].step \in Holding /\ \E outcome \in {"exists", "failed"} : GiveUp(c, outcome)
      \/ call[c].step \in {"create", "fill"} /\ \E step \in {"exists", "failed"} : Goto(c, step)
  BY DEF CheckDestination, CheckFails, NameIsTaken, MakeFails, WriteFails, RenameRefused,
         RenameFails, CreateRefused, CreateFails, FillFails, Holding, At
<1>3. PICK step \in Steps :
        /\ CallMovesTo(c, step, call[c].written)
        /\ \/ At(c, "check") /\ step \in {"exists", "name", "failed"}
           \/ At(c, "make") /\ step \in {"name", "failed"}
           \/ call[c].step \in Holding /\ step = "clean"
           \/ call[c].step \in {"create", "fill"} /\ step \in {"exists", "failed"}
  BY <1>2, GotoMoves, GiveUpMoves DEF StagedInv, Steps, Returned
<1>4. TypeOK'
  BY <1>1, <1>3 DEF CallMovesTo, StagedInv, TypeOK
<1>5. StepsOfFamily'
  BY <1>1, <1>3 DEF CallMovesTo, StagedInv, StepsOfFamily, Staging, Holding, At, Staged
<1>6. StagingIsOwn'
  BY <1>1, <1>3 DEF CallMovesTo, StagedInv, StagingIsOwn, Staging, Holding, At, StagingOf, PartsOf, Written
<1>7. FillIsOwn' /\ SuccessIsPublication'
  BY <1>1, <1>3 DEF CallMovesTo, StagedInv, FillIsOwn, SuccessIsPublication, At, Whole, PartsOf, Written, Holding
<1>8. DestinationIsWhole'
  BY <1>1 DEF CallMovesTo, StagedInv, DestinationIsWhole, Staged, Whole, PartsOf, Written
<1> QED
  BY <1>4, <1>5, <1>6, <1>7, <1>8 DEF StagedInv

\* Choosing a staging name and creating it exclusively: two calls that chose one
\* name cannot both create it.
LEMMA NamingSteps ==
  ASSUME StagedInv, NEW c \in Calls,
         \/ \E pid \in Pids, d \in Destinations : Start(c, pid, d)
         \/ TakeName(c)
  PROVE  StagedInv'
<1> DEFINE moved(new) == /\ new \in Call /\ call' = [call EXCEPT ![c] = new]
                         /\ new.written = call[c].written
                         /\ \/ At(c, "none") /\ Staged(c) /\ new.step = "check"
                            \/ At(c, "none") /\ ~Staged(c) /\ new.step = "create"
                            \/ At(c, "name") /\ new.step = "make"
<1>1. /\ UNCHANGED <<published, staged>>
      /\ sequence' \in [Pids \X {"tree", "package"} -> 0 .. MaxSequence]
      /\ \E new : moved(new)
  <2>1. ASSUME NEW pid \in Pids, NEW d \in Destinations, Start(c, pid, d)
        PROVE  UNCHANGED <<published, staged, sequence>> /\ \E new : moved(new)
    <3> DEFINE new == [call[c] EXCEPT !.step = IF Staged(c) THEN "check" ELSE "create",
                                      !.pid = pid, !.at = d]
    <3>1. new \in Call
      BY DEF StagedInv, TypeOK, Call, Steps
    <3>2. /\ new.written = call[c].written
          /\ new.step = IF Staged(c) THEN "check" ELSE "create"
      BY DEF StagedInv, TypeOK, Call
    <3> HIDE DEF new
    <3>3. call' = [call EXCEPT ![c] = new] /\ At(c, "none")
      BY <2>1 DEF Start, new
    <3>4. UNCHANGED <<published, staged, sequence>>
      BY <2>1 DEF Start
    <3> QED
      BY <3>1, <3>2, <3>3, <3>4
  <2>2. CASE TakeName(c)
    <3>1. FamilyOf[c] \in {"tree", "package"}
      BY <2>2, StagedAssumption DEF StagedInv, StepsOfFamily, Staging, Staged, TakeName, At, Families
    <3>2. <<call[c].pid, FamilyOf[c]>> \in Pids \X {"tree", "package"}
      BY <3>1 DEF StagedInv, TypeOK, Call
    <3> DEFINE counter == <<call[c].pid, FamilyOf[c]>>
               new == [call[c] EXCEPT !.step = "make", !.staging = sequence[counter]]
    <3>3. sequence[counter] \in 0 .. MaxSequence /\ sequence[counter] < MaxSequence
      BY <2>2, <3>2 DEF StagedInv, TypeOK, TakeName
    <3>4. /\ UNCHANGED <<published, staged>> /\ At(c, "name")
          /\ call' = [call EXCEPT ![c] = new]
          /\ sequence' = [sequence EXCEPT ![counter] = @ + 1]
      BY <2>2 DEF TakeName
    <3> HIDE DEF counter
    <3>5. new \in Call /\ new.written = call[c].written /\ new.step = "make"
      <4>1. call[c] \in Call
        BY DEF StagedInv, TypeOK
      <4> QED
        BY <3>3, <4>1 DEF Call, Steps
    <3>6. sequence' \in [Pids \X {"tree", "package"} -> 0 .. MaxSequence]
      <4>1. sequence[counter] + 1 \in 0 .. MaxSequence
        BY <3>3, StagedAssumption
      <4>2. sequence' = [sequence EXCEPT ![counter] = sequence[counter] + 1]
        BY <3>4
      <4> QED
        BY <4>1, <4>2, UpdateType DEF StagedInv, TypeOK
    <3> HIDE DEF new
    <3> QED
      BY <3>4, <3>5, <3>6
  <2> QED
    BY <2>1, <2>2 DEF StagedInv, TypeOK
<1>2. /\ call' \in [Calls -> Call]
      /\ \A b \in Calls \ {c} : call'[b] = call[b]
      /\ call'[c].written = call[c].written
      /\ \/ At(c, "none") /\ Staged(c) /\ call'[c].step = "check"
         \/ At(c, "none") /\ ~Staged(c) /\ call'[c].step = "create"
         \/ At(c, "name") /\ call'[c].step = "make"
  BY <1>1 DEF StagedInv, TypeOK
<1> HIDE DEF moved
<1>3. TypeOK'
  BY <1>1, <1>2 DEF StagedInv, TypeOK
<1>4. StepsOfFamily'
  BY <1>1, <1>2 DEF StagedInv, StepsOfFamily, Staging, At, Staged
<1>5. StagingIsOwn'
  BY <1>1, <1>2 DEF StagedInv, StagingIsOwn, Staging, Holding, At, StagingOf, PartsOf, Written
<1>6. FillIsOwn' /\ SuccessIsPublication'
  BY <1>1, <1>2 DEF StagedInv, FillIsOwn, SuccessIsPublication, At, Whole, PartsOf, Written
<1>7. DestinationIsWhole'
  BY <1>1 DEF StagedInv, DestinationIsWhole, Staged, Whole, PartsOf, Written
<1> QED
  BY <1>3, <1>4, <1>5, <1>6, <1>7 DEF StagedInv

\* A process that dies abandons its calls and leaves every file as it is.
LEMMA ProcessEndsStep ==
  ASSUME StagedInv, NEW pid \in Pids, ProcessEnds(pid)
  PROVE  StagedInv'
<1>1. /\ UNCHANGED <<published, staged>>
      /\ sequence' \in [Pids \X {"tree", "package"} -> 0 .. MaxSequence]
  BY StagedAssumption DEF StagedInv, TypeOK, ProcessEnds
<1>2. \A b \in Calls : \/ call'[b] = call[b]
                       \/ call'[b] = [call[b] EXCEPT !.step = "crashed"]
  BY DEF ProcessEnds
<1>3. call' \in [Calls -> Call]
  <2>1. \A b \in Calls : [call[b] EXCEPT !.step = "crashed"] \in Call
    BY DEF StagedInv, TypeOK, Call, Steps
  <2>2. \A b \in Calls : call'[b] \in Call
    BY <1>2, <2>1 DEF StagedInv, TypeOK
  <2> QED
    BY <2>2 DEF ProcessEnds
<1>4. \A b \in Calls : /\ call'[b].step \in {call[b].step, "crashed"}
                       /\ call'[b].written = call[b].written /\ call'[b].at = call[b].at
                       /\ call'[b].pid = call[b].pid /\ call'[b].staging = call[b].staging
  <2>1. ASSUME NEW b \in Calls
        PROVE  /\ call[b] \in Call
               /\ [call[b] EXCEPT !.step = "crashed"].step = "crashed"
               /\ [call[b] EXCEPT !.step = "crashed"].written = call[b].written
               /\ [call[b] EXCEPT !.step = "crashed"].at = call[b].at
               /\ [call[b] EXCEPT !.step = "crashed"].pid = call[b].pid
               /\ [call[b] EXCEPT !.step = "crashed"].staging = call[b].staging
    BY DEF StagedInv, TypeOK, Call
  <2> QED
    BY <1>2, <2>1
<1>5. TypeOK'
  BY <1>1, <1>3 DEF StagedInv, TypeOK
<1>6. StepsOfFamily'
  BY <1>4 DEF StagedInv, StepsOfFamily, Staging, Staged
<1>7. StagingIsOwn'
  BY <1>1, <1>4 DEF StagedInv, StagingIsOwn, Staging, Holding, At, StagingOf, PartsOf, Written
<1>8. FillIsOwn' /\ SuccessIsPublication'
  BY <1>1, <1>4 DEF StagedInv, FillIsOwn, SuccessIsPublication, At, Whole, PartsOf, Written
<1>9. DestinationIsWhole'
  BY <1>1 DEF StagedInv, DestinationIsWhole, Staged, Whole, PartsOf, Written
<1> QED
  BY <1>5, <1>6, <1>7, <1>8, <1>9 DEF StagedInv

\* Two calls never hold one staging path: its content names one writer.
LEMMA HoldersDiffer ==
  ASSUME StagedInv, NEW b \in Calls, NEW c \in Calls, b # c,
         call[b].step \in Holding, call[c].step \in Holding
  PROVE  StagingOf(b) # StagingOf(c)
<1>1. /\ call[b].written \in Nat /\ call[c].written \in Nat
      /\ staged[StagingOf(b)] = Written(b, call[b].written)
      /\ staged[StagingOf(c)] = Written(c, call[c].written)
  BY StagedAssumption DEF StagedInv, TypeOK, Call, StagingIsOwn
<1> QED
  BY <1>1, WrittenNames

\* A call that creates, writes or removes its staging leaves everyone else's alone.
LEMMA StagingStep ==
  ASSUME StagedInv, NEW c \in Calls, NEW X \in Content, NEW step \in Steps, NEW n \in 0 .. Parts,
         \/ At(c, "make") /\ staged[StagingOf(c)] = Absent
         \/ call[c].step \in Holding,
         staged' = [staged EXCEPT ![StagingOf(c)] = X],
         CallMovesTo(c, step, n),
         n <= PartsOf(c),
         step \in Holding \cup {"ok", "exists", "failed", "unclean"},
         step \in Holding => X = Written(c, n),
         step = "rename" => n = PartsOf(c),
         step = "write" => n < PartsOf(c)
  PROVE  /\ StepsOfFamily' /\ StagingIsOwn'
         /\ staged' \in [StagingPaths -> Content] /\ call' \in [Calls -> Call]
<1>1. Staged(c) /\ call[c].step \in Staging
  BY DEF StagedInv, StepsOfFamily, Staging, Holding, At
<1>2. StagingOf(c) \in StagingPaths
  <2>1. FamilyOf[c] \in {"tree", "package"}
    BY <1>1, StagedAssumption DEF Staged, Families
  <2>2. call[c] \in Call
    BY DEF StagedInv, TypeOK
  <2> QED
    BY <2>1, <2>2 DEF StagingOf, StagingPaths, Call
<1>3. staged' \in [StagingPaths -> Content] /\ staged'[StagingOf(c)] = X
  BY <1>2 DEF StagedInv, TypeOK
<1>4. StepsOfFamily'
  BY <1>1 DEF StagedInv, StepsOfFamily, CallMovesTo, Staged, Staging, Holding
<1>5. ASSUME NEW b \in Calls, b # c, call[b].step \in Holding
      PROVE  staged'[StagingOf(b)] = staged[StagingOf(b)]
  <2>1. call[b].written \in Nat /\ staged[StagingOf(b)] = Written(b, call[b].written)
    BY <1>5, StagedAssumption DEF StagedInv, TypeOK, Call, StagingIsOwn
  <2>2. StagingOf(b) # StagingOf(c)
    BY <1>5, <2>1, HoldersDiffer, WrittenPresent DEF At
  <2> QED
    BY <2>2 DEF StagedInv, TypeOK
<1>6. /\ \A b \in Calls : StagingOf(b)' = StagingOf(b) /\ PartsOf(b)' = PartsOf(b)
      /\ \A b \in Calls \ {c} : call'[b] = call[b]
      /\ call'[c].step = step /\ call'[c].written = n
  BY DEF CallMovesTo, StagingOf, PartsOf
<1>7. StagingIsOwn'
  <2>1. ASSUME NEW b \in Calls, b # c, call'[b].step \in Holding
        PROVE  staged'[StagingOf(b)'] = Written(b, call'[b].written)
    BY <1>5, <1>6, <2>1 DEF StagedInv, StagingIsOwn
  <2>2. step \in Holding => staged'[StagingOf(c)'] = Written(c, n)
    BY <1>3, <1>6
  <2> QED
    BY <1>6, <2>1, <2>2 DEF StagedInv, StagingIsOwn, At, Staging, Holding, Written
<1> QED
  BY <1>3, <1>4, <1>7 DEF CallMovesTo

\* A whole document is content, and not the absence of it.
LEMMA WholeType == \A c \in Calls : Whole(c) \in Content /\ Whole(c) # Absent
<1> SUFFICES ASSUME NEW c \in Calls PROVE Whole(c) \in Content /\ Whole(c) # Absent
  OBVIOUS
<1>1. PartsOf(c) \in 0 .. Parts /\ PartsOf(c) \in Nat
  BY PartsBound, StagedAssumption
<1> QED
  BY <1>1, WrittenType, WrittenPresent DEF Whole

\* A destination is filled by the call that takes it while it is absent, or by
\* the direct writer that created it; whatever others hold there is untouched.
LEMMA PublishedStep ==
  ASSUME StagedInv, NEW c \in Calls, NEW step \in Steps, NEW n, NEW X,
         CallMovesTo(c, step, n),
         published' = [published EXCEPT ![call[c].at] = X],
         published[call[c].at] = Absent \/ At(c, "fill"),
         \/ X = Written(c, 0) /\ ~Staged(c) /\ step = "fill"
         \/ X = Whole(c) /\ step = "ok"
  PROVE  /\ FillIsOwn' /\ DestinationIsWhole' /\ SuccessIsPublication'
         /\ published' \in [Destinations -> Content]
<1> DEFINE d0 == call[c].at
<1>1. d0 \in Destinations
  BY DEF StagedInv, TypeOK, Call
<1>2. X \in Content
  BY WholeType, WrittenType, StagedAssumption
<1>3. published' \in [Destinations -> Content] /\ published'[d0] = X
  BY <1>1, <1>2 DEF StagedInv, TypeOK
<1>4. \A d \in Destinations \ {d0} : published'[d] = published[d]
  BY DEF StagedInv, TypeOK
<1>5. /\ \A b \in Calls \ {c} : call'[b] = call[b]
      /\ call'[c].step = step /\ call'[c].at = d0
  BY DEF CallMovesTo
<1>6. ASSUME NEW b \in Calls \ {c}, At(b, "fill") \/ At(b, "ok")
      PROVE  call[b].at \in Destinations \ {d0}
  <2>1. PICK m \in Nat : published[call[b].at] = Written(b, m)
    BY <1>6, PartsBound DEF StagedInv, FillIsOwn, SuccessIsPublication, Whole
  <2>2. published[call[b].at] # Absent
    BY <2>1, WrittenPresent
  <2>3. At(c, "fill") => published[d0] = Written(c, 0)
    BY DEF StagedInv, FillIsOwn
  <2>4. call[b].at # d0
    BY <2>1, <2>2, <2>3, WrittenNames
  <2> QED
    BY <2>4 DEF StagedInv, TypeOK, Call
<1>7. FillIsOwn'
  <2>1. ASSUME NEW b \in Calls, call'[b].step = "fill"
        PROVE  published'[call'[b].at] = Written(b, 0)
    <3>1. CASE b = c
      BY <2>1, <3>1, <1>3, <1>5
    <3>2. CASE b # c
      BY <2>1, <3>2, <1>4, <1>5, <1>6 DEF At, StagedInv, FillIsOwn
    <3> QED
      BY <3>1, <3>2
  <2> QED
    BY <2>1 DEF FillIsOwn, At, Written
<1>8. SuccessIsPublication'
  <2>1. ASSUME NEW b \in Calls, call'[b].step = "ok"
        PROVE  published'[call'[b].at] = Whole(b)
    <3>1. CASE b = c
      BY <2>1, <3>1, <1>3, <1>5
    <3>2. CASE b # c
      BY <2>1, <3>2, <1>4, <1>5, <1>6 DEF At, StagedInv, SuccessIsPublication
    <3> QED
      BY <3>1, <3>2
  <2> QED
    BY <2>1 DEF SuccessIsPublication, At, Whole, PartsOf, Written
<1>9. DestinationIsWhole'
  <2>1. ASSUME NEW d \in Destinations, NEW b \in Calls, Staged(b),
               NEW i \in 0 .. Parts, <<i, b>> \in published'[d]
        PROVE  published'[d] = Whole(b)
    <3>1. CASE d = d0
      <4>1. \A m \in Nat : <<i, b>> \in Written(c, m) => b = c
        BY WrittenEntry
      <4>2. b = c
        BY <2>1, <3>1, <1>3, <4>1, PartsBound DEF Whole
      <4> QED
        BY <2>1, <3>1, <4>2, <1>3
    <3>2. CASE d # d0
      BY <2>1, <3>2, <1>4 DEF StagedInv, DestinationIsWhole
    <3> QED
      BY <3>1, <3>2
  <2> QED
    BY <2>1 DEF DestinationIsWhole, Staged, Whole, PartsOf, Written
<1> QED
  BY <1>3, <1>7, <1>8, <1>9

\* Another program may take an absent destination and nothing more.
LEMMA ForeignStep ==
  ASSUME StagedInv, NEW d \in Destinations, ForeignTakes(d)
  PROVE  StagedInv'
<1>1. /\ UNCHANGED <<staged, sequence, call>> /\ published[d] = Absent
      /\ published' = [published EXCEPT ![d] = Written(Foreign, 0)]
  BY DEF ForeignTakes
<1>2. Written(Foreign, 0) \in Content
  BY StagedAssumption DEF Content, Writers, Written
<1>3. published' \in [Destinations -> Content] /\ published'[d] = Written(Foreign, 0)
  BY <1>1, <1>2 DEF StagedInv, TypeOK
<1>4. \A e \in Destinations \ {d} : published'[e] = published[e]
  BY <1>1 DEF StagedInv, TypeOK
<1>5. TypeOK' /\ StepsOfFamily' /\ StagingIsOwn'
  BY <1>1, <1>3 DEF StagedInv, TypeOK, StepsOfFamily, StagingIsOwn, Staged, At, StagingOf, PartsOf,
     Written, Staging, Holding
<1>6. \A b \in Calls : At(b, "fill") \/ At(b, "ok") => call[b].at \in Destinations \ {d}
  <2>1. \A b \in Calls : At(b, "fill") \/ At(b, "ok") => published[call[b].at] # Absent
    BY WholeType, WrittenPresent DEF StagedInv, FillIsOwn, SuccessIsPublication
  <2> QED
    BY <1>1, <2>1 DEF StagedInv, TypeOK, Call
<1>7. FillIsOwn' /\ SuccessIsPublication'
  BY <1>1, <1>4, <1>6 DEF StagedInv, FillIsOwn, SuccessIsPublication, At, Whole, PartsOf, Written
<1>8. DestinationIsWhole'
  <2>1. \A b \in Calls, i \in 0 .. Parts : <<i, b>> \notin published'[d]
    BY <1>3, WrittenEntry, StagedAssumption
  <2> QED
    BY <1>4, <2>1 DEF StagedInv, DestinationIsWhole, Staged, Whole, PartsOf, Written
<1> QED
  BY <1>5, <1>7, <1>8 DEF StagedInv

\* The steps that write or remove a staging path and leave destinations alone.
LEMMA WritingSteps ==
  ASSUME StagedInv, NEW c \in Calls,
         MakeStaging(c) \/ WritePart(c) \/ Clean(c) \/ CleanFails(c)
  PROVE  StagedInv'
<1>1. UNCHANGED <<published, sequence>>
  BY DEF MakeStaging, WritePart, Clean, CleanFails
<1>2. /\ call[c] \in Call /\ PartsOf(c) \in 1 .. Parts
      /\ call[c].written \in 0 .. PartsOf(c)
      /\ call[c].step \in Holding => staged[StagingOf(c)] = Written(c, call[c].written)
      /\ At(c, "make") => call[c].written = 0
  BY PartsBound, StagedAssumption DEF StagedInv, TypeOK, Call, StagingIsOwn, At, Staging, Holding
<1> DEFINE effect(X, step, n) ==
             /\ staged' = [staged EXCEPT ![StagingOf(c)] = X]
             /\ CallMovesTo(c, step, n)
             /\ n <= PartsOf(c)
             /\ step \in Holding \cup {"exists", "failed", "unclean"}
             /\ step \in Holding => X = Written(c, n)
             /\ step = "rename" => n = PartsOf(c)
             /\ step = "write" => n < PartsOf(c)
<1>3. \E X \in Content, step \in Steps, n \in 0 .. Parts : effect(X, step, n)
  <2>1. CASE MakeStaging(c)
    <3>1. Written(c, 0) \in Content
      BY WrittenType, StagedAssumption
    <3>2. CallMovesTo(c, "write", 0)
      BY <2>1, <1>2, GotoMoves DEF MakeStaging, StagedInv, Steps
    <3>3. staged' = [staged EXCEPT ![StagingOf(c)] = Written(c, 0)]
      BY <2>1 DEF MakeStaging
    <3>4. effect(Written(c, 0), "write", 0)
      BY <3>2, <3>3, <1>2 DEF Holding
    <3>5. "write" \in Steps /\ 0 \in 0 .. Parts
      BY StagedAssumption DEF Steps
    <3> HIDE DEF effect
    <3> QED
      BY <3>1, <3>4, <3>5
  <2>2. CASE WritePart(c)
    <3> DEFINE part == call[c].written + 1
               step == IF part = PartsOf(c) THEN "rename" ELSE "write"
    <3>1. At(c, "write") /\ staged[StagingOf(c)] = Written(c, call[c].written)
      BY <2>2, <1>2 DEF WritePart, At, Holding
    <3>2. call[c].written < PartsOf(c)
      BY <3>1, <1>2 DEF StagedInv, StagingIsOwn
    <3>3. part \in 0 .. Parts /\ part <= PartsOf(c)
      BY <3>2, <1>2, StagedAssumption
    <3>4. Written(c, part) \in Content /\ Written(c, call[c].written) \cup {<<part, c>>} = Written(c, part)
      BY <3>3, <1>2, WrittenMore, WrittenType, StagedAssumption
    <3>5. /\ staged' = [staged EXCEPT ![StagingOf(c)] = Written(c, part)]
          /\ call' = [call EXCEPT ![c].written = part, ![c].step = step]
      BY <2>2, <3>1, <3>4 DEF WritePart
    <3>6. CallMovesTo(c, step, part)
      <4>1. [[call[c] EXCEPT !.written = part] EXCEPT !.step = step] \in Call
        BY <1>2, <3>3 DEF Call, Steps
      <4> HIDE DEF part, step
      <4> QED
        BY <1>2, <3>5, <4>1 DEF CallMovesTo, StagedInv, TypeOK, Call
    <3>7. effect(Written(c, part), step, part) /\ step \in Steps
      BY <3>2, <3>3, <3>5, <3>6, <1>2 DEF Holding, Steps
    <3> HIDE DEF effect, part, step
    <3> QED
      BY <3>3, <3>4, <3>7
  <2>3. CASE Clean(c)
    <3>1. CallMovesTo(c, call[c].outcome, call[c].written) /\ call[c].outcome \in {"exists", "failed"}
      BY <2>3, <1>2, GotoMoves DEF Clean, StagedInv, Call, Steps, Returned
    <3>2. staged' = [staged EXCEPT ![StagingOf(c)] = Absent] /\ Absent \in Content
      BY <2>3 DEF Clean, Absent, Content
    <3>3. effect(Absent, call[c].outcome, call[c].written) /\ call[c].outcome \in Steps
      BY <3>1, <3>2, <1>2 DEF Holding, Steps, Returned
    <3>4. call[c].written \in 0 .. Parts
      BY <1>2 DEF Call
    <3> HIDE DEF effect
    <3> QED
      BY <3>2, <3>3, <3>4
  <2>4. CASE CleanFails(c)
    <3>1. CallMovesTo(c, "unclean", call[c].written)
      BY <2>4, GotoMoves DEF CleanFails, StagedInv, Steps, Returned
    <3>2. staged[StagingOf(c)] \in Content
      BY <2>4, <1>2, WrittenType, StagedAssumption DEF CleanFails, At, Holding
    <3>3. PICK kept \in SUBSET staged[StagingOf(c)] :
            staged' = [staged EXCEPT ![StagingOf(c)] = kept]
      BY <2>4 DEF CleanFails
    <3>4. kept \in Content
      BY <3>2 DEF Content
    <3>5. effect(kept, "unclean", call[c].written) /\ "unclean" \in Steps
      BY <3>1, <3>3, <1>2 DEF Holding, Steps, Returned
    <3>6. call[c].written \in 0 .. Parts
      BY <1>2 DEF Call
    <3> HIDE DEF effect
    <3> QED
      BY <3>4, <3>5, <3>6
  <2> QED
    BY <2>1, <2>2, <2>3, <2>4
<1>4. \/ At(c, "make") /\ staged[StagingOf(c)] = Absent
      \/ call[c].step \in Holding
  BY DEF MakeStaging, WritePart, Clean, CleanFails, At, Holding
<1>5. /\ StepsOfFamily' /\ StagingIsOwn'
      /\ staged' \in [StagingPaths -> Content] /\ call' \in [Calls -> Call]
  BY <1>3, <1>4, StagingStep
<1>6. /\ \A b \in Calls \ {c} : call'[b] = call[b]
      /\ call'[c].step \notin {"ok", "fill"}
  BY <1>3 DEF CallMovesTo, Holding
<1>7. TypeOK'
  BY <1>1, <1>5 DEF StagedInv, TypeOK
<1>8. FillIsOwn' /\ SuccessIsPublication' /\ DestinationIsWhole'
  BY <1>1, <1>6 DEF StagedInv, FillIsOwn, SuccessIsPublication, DestinationIsWhole, At, Staged,
     Whole, PartsOf, Written
<1> QED
  BY <1>5, <1>7, <1>8 DEF StagedInv

\* rename_exclusive moves the whole staging to an absent destination.
LEMMA RenameStep ==
  ASSUME StagedInv, NEW c \in Calls, Rename(c)
  PROVE  StagedInv'
<1>1. /\ UNCHANGED sequence /\ At(c, "rename") /\ published[call[c].at] = Absent
      /\ published' = [published EXCEPT ![call[c].at] = staged[StagingOf(c)]]
      /\ staged' = [staged EXCEPT ![StagingOf(c)] = Absent]
      /\ Goto(c, "ok")
  BY DEF Rename
<1>2. /\ PartsOf(c) \in 0 .. Parts /\ call[c].written = PartsOf(c)
      /\ staged[StagingOf(c)] = Whole(c)
  BY <1>1, PartsBound, StagedAssumption DEF StagedInv, StagingIsOwn, At, Holding, Whole
<1>3. CallMovesTo(c, "ok", PartsOf(c))
  BY <1>1, <1>2, GotoMoves DEF StagedInv, Steps, Returned
<1>4. /\ StepsOfFamily' /\ StagingIsOwn'
      /\ staged' \in [StagingPaths -> Content] /\ call' \in [Calls -> Call]
  <2>1. Absent \in Content /\ "ok" \in Steps /\ "ok" \notin Holding /\ PartsOf(c) <= PartsOf(c)
    BY <1>2, StagedAssumption DEF Absent, Content, Steps, Returned, Holding
  <2>2. call[c].step \in Holding
    BY <1>1 DEF At, Holding
  <2> QED
    BY <1>1, <1>2, <1>3, <2>1, <2>2, StagingStep
<1>5. /\ FillIsOwn' /\ DestinationIsWhole' /\ SuccessIsPublication'
      /\ published' \in [Destinations -> Content]
  BY <1>1, <1>2, <1>3, PublishedStep DEF Steps, Returned
<1> QED
  BY <1>1, <1>4, <1>5 DEF StagedInv, TypeOK

\* The direct writers.
LEMMA DirectSteps ==
  ASSUME StagedInv, NEW c \in Calls, Create(c) \/ Fill(c)
  PROVE  StagedInv'
<1>1. UNCHANGED <<staged, sequence>> /\ call[c].step \in {"create", "fill"} /\ ~Staged(c)
  BY DEF Create, Fill, StagedInv, StepsOfFamily, At
<1>2. \E step \in {"fill", "ok"} :
        /\ CallMovesTo(c, step, call[c].written)
        /\ FillIsOwn' /\ DestinationIsWhole' /\ SuccessIsPublication'
        /\ published' \in [Destinations -> Content]
  <2>1. CASE Create(c)
    <3>1. CallMovesTo(c, "fill", call[c].written)
      BY <2>1, GotoMoves DEF Create, StagedInv, Steps
    <3> QED
      BY <2>1, <3>1, <1>1, PublishedStep DEF Create, Steps
  <2>2. CASE Fill(c)
    <3>1. CallMovesTo(c, "ok", call[c].written)
      BY <2>2, GotoMoves DEF Fill, StagedInv, Steps, Returned
    <3> QED
      BY <2>2, <3>1, PublishedStep DEF Fill, Steps, Returned
  <2> QED
    BY <2>1, <2>2
<1>3. TypeOK'
  BY <1>1, <1>2 DEF StagedInv, TypeOK, CallMovesTo
<1>4. StepsOfFamily'
  BY <1>1, <1>2 DEF StagedInv, StepsOfFamily, CallMovesTo, Staging, Staged
<1>5. StagingIsOwn'
  BY <1>1, <1>2 DEF StagedInv, StagingIsOwn, CallMovesTo, Staging, Holding, At, StagingOf, PartsOf,
     Written
<1> QED
  BY <1>2, <1>3, <1>4, <1>5 DEF StagedInv

-----------------------------------------------------------------------------
\* No call has begun and every path is absent.
LEMMA StagedInit == Init => StagedInv
<1> SUFFICES ASSUME Init PROVE StagedInv
  OBVIOUS
<1>1. TypeOK
  BY StagedAssumption DEF Init, TypeOK, Content, Absent, Call, Steps
<1>2. \A c \in Calls : call[c].step = "none" /\ call[c].written = 0
  BY DEF Init
<1>3. \A d \in Destinations : published[d] = {}
  BY DEF Init, Absent
<1>4. StepsOfFamily /\ FillIsOwn /\ SuccessIsPublication
  BY <1>2 DEF StepsOfFamily, Staging, FillIsOwn, SuccessIsPublication, At
<1>5. StagingIsOwn
  BY <1>2, PartsBound, StagedAssumption DEF StagingIsOwn, Staging, Holding, At
<1>6. DestinationIsWhole
  BY <1>3 DEF DestinationIsWhole
<1> QED
  BY <1>1, <1>4, <1>5, <1>6 DEF StagedInv

\* StagedInv is inductive.
LEMMA StagedInductive == StagedInv /\ [Next]_vars => StagedInv'
<1> SUFFICES ASSUME StagedInv, [Next]_vars PROVE StagedInv'
  OBVIOUS
<1>1. ASSUME NEW c \in Calls, Step(c) PROVE StagedInv'
  BY <1>1, CallSteps, NamingSteps, WritingSteps, RenameStep, DirectSteps DEF Step
<1>2. ASSUME NEW c \in Calls, NEW pid \in Pids, NEW d \in Destinations, Start(c, pid, d)
      PROVE  StagedInv'
  BY <1>2, NamingSteps
<1>3. ASSUME NEW pid \in Pids, ProcessEnds(pid) PROVE StagedInv'
  BY <1>3, ProcessEndsStep
<1>4. ASSUME NEW d \in Destinations, ForeignTakes(d) PROVE StagedInv'
  BY <1>4, ForeignStep
<1>5. CASE UNCHANGED vars
  BY <1>5 DEF vars, StagedInv, TypeOK, StepsOfFamily, StagingIsOwn, FillIsOwn, DestinationIsWhole,
     SuccessIsPublication, At, Staged, StagingOf, Whole, PartsOf, Written, Staging, Holding
<1> QED
  BY <1>1, <1>2, <1>3, <1>4, <1>5 DEF Next

\* Every reachable state satisfies StagedInv.
LEMMA StagedInvariant == Spec => []StagedInv
  BY StagedInit, StagedInductive, PTL DEF Spec

\* Every variable keeps its type in every instance: a staging name stays within
\* the counters and a call never writes more files than its tree has.
THEOREM StagedTypes == Spec => []TypeOK
  BY StagedInvariant, PTL DEF StagedInv

\* publish_roproj, publish_roproj_v3, publish_portable_package: what a staged
\* writer shows at a destination is its whole document, whatever other calls,
\* other programs, failures and dying processes do in between.
THEOREM WholeDestinations == Spec => []DestinationIsWhole
  BY StagedInvariant, PTL DEF StagedInv

\* Ok(()) means published: the destination holds the caller's own document, so at
\* most one call of a destination is told that it succeeded.
THEOREM SuccessPublishes == Spec => []SuccessIsPublication
  BY StagedInvariant, PTL DEF StagedInv

\* The owner of written content is its writer.
LEMMA OwnersOfWritten ==
  ASSUME NEW c, NEW n \in Nat
  PROVE  Owners(Written(c, n)) = {c}
<1>1. \A e \in Written(c, n) : e[2] = c
  BY DEF Written
<1>2. <<0, c>> \in Written(c, n)
  BY DEF Written
<1> QED
  BY <1>1, <1>2 DEF Owners

\* rename_exclusive and create_new: a destination that is taken keeps its owner
\* and loses nothing in any later step.
THEOREM DestinationsNeverReplaced == Spec => NeverReplaced
<1> DEFINE Kept == \A d \in Destinations :
              published[d] # Absent =>
                published[d] \subseteq published'[d] /\ Owners(published'[d]) = Owners(published[d])
<1>1. StagedInv /\ Next => Kept
  <2> SUFFICES ASSUME StagedInv, Next, NEW d \in Destinations, published[d] # Absent
               PROVE  published[d] \subseteq published'[d] /\ Owners(published'[d]) = Owners(published[d])
    OBVIOUS
  <2>1. ASSUME published'[d] = published[d]
        PROVE  published[d] \subseteq published'[d] /\ Owners(published'[d]) = Owners(published[d])
    BY <2>1
  <2>2. ASSUME NEW c \in Calls, Rename(c) \/ Create(c) PROVE published'[d] = published[d]
    BY <2>2 DEF Rename, Create, StagedInv, TypeOK
  <2>3. ASSUME NEW c \in Calls, Fill(c), call[c].at = d
        PROVE  published[d] \subseteq published'[d] /\ Owners(published'[d]) = Owners(published[d])
    <3>1. published[d] = Written(c, 0)
      BY <2>3 DEF Fill, StagedInv, FillIsOwn
    <3>2. published'[d] = Written(c, PartsOf(c)) /\ PartsOf(c) \in Nat /\ 0 <= PartsOf(c)
      BY <2>3, PartsBound, StagedAssumption DEF Fill, StagedInv, TypeOK, Whole
    <3>3. Written(c, 0) \subseteq Written(c, PartsOf(c))
      BY <3>2 DEF Written
    <3>4. Owners(Written(c, 0)) = {c} /\ Owners(Written(c, PartsOf(c))) = {c}
      BY <3>2, OwnersOfWritten
    <3> QED
      BY <3>1, <3>2, <3>3, <3>4
  <2>4. ASSUME NEW c \in Calls, Fill(c), call[c].at # d PROVE published'[d] = published[d]
    BY <2>4 DEF Fill, StagedInv, TypeOK
  <2>5. ASSUME NEW e \in Destinations, ForeignTakes(e) PROVE published'[d] = published[d]
    BY <2>5 DEF ForeignTakes, StagedInv, TypeOK
  <2>6. ASSUME NEW c \in Calls, Step(c), ~Rename(c), ~Create(c), ~Fill(c)
        PROVE  published'[d] = published[d]
    BY <2>6 DEF Step, CheckDestination, CheckFails, TakeName, MakeStaging, NameIsTaken, MakeFails,
       WritePart, WriteFails, RenameRefused, RenameFails, Clean, CleanFails, CreateRefused,
       CreateFails, FillFails
  <2>7. ASSUME NEW c \in Calls, NEW pid \in Pids, NEW e \in Destinations, Start(c, pid, e)
        PROVE  published'[d] = published[d]
    BY <2>7 DEF Start
  <2>8. ASSUME NEW pid \in Pids, ProcessEnds(pid) PROVE published'[d] = published[d]
    BY <2>8 DEF ProcessEnds
  <2> QED
    BY <2>1, <2>2, <2>3, <2>4, <2>5, <2>6, <2>7, <2>8 DEF Next
<1>2. StagedInv /\ [Next]_vars => [Kept]_vars
  BY <1>1
<1> QED
  BY <1>2, StagedInvariant, PTL DEF Spec, NeverReplaced

-----------------------------------------------------------------------------
(* Residue                                                                 *)

\* The staging paths on which something of call c lies.
Residue(c) == {p \in StagingPaths : \E i \in 0 .. Parts : <<i, c>> \in staged[p]}

\* A call that has not failed to clean up leaves something on the one path it has
\* named only, and only between its creation and its rename or removal.
Explained(c) ==
  \/ Residue(c) = {}
  \/ call[c].step \in Holding /\ Residue(c) \subseteq {StagingOf(c)}
  \/ call[c].step \in {"crashed", "unclean"}

ResidueInv == \A c \in Calls : Explained(c)

\* A call that stays where it is stays explained when its residue does not grow.
LEMMA StaysExplained ==
  ASSUME ResidueInv, NEW c \in Calls, call'[c] = call[c], Residue(c)' \subseteq Residue(c)
  PROVE  Explained(c)'
  BY DEF ResidueInv, Explained, StagingOf

\* A step at one staging path that puts nothing of c there adds nothing to its residue.
LEMMA ResidueShrinks ==
  ASSUME StagedInv, NEW p, NEW X, NEW c \in Calls, staged' = [staged EXCEPT ![p] = X],
         \A i \in 0 .. Parts : p \in StagingPaths /\ <<i, c>> \in X => <<i, c>> \in staged[p]
  PROVE  Residue(c)' \subseteq Residue(c)
<1>1. \A q \in StagingPaths : staged'[q] = IF q = p THEN X ELSE staged[q]
  BY DEF StagedInv, TypeOK
<1> QED
  BY <1>1 DEF Residue

\* Steps that touch no staging path move a call without residue, or one that
\* holds its staging and goes on to clean it.
LEMMA ResidueOfCallSteps ==
  ASSUME StagedInv, ResidueInv, NEW c \in Calls, UNCHANGED staged,
         \A b \in Calls \ {c} : call'[b] = call[b],
         \/ call[c].step \notin Holding \cup {"crashed", "unclean"}
         \/ /\ call[c].step \in Holding
            /\ CallMovesTo(c, "clean", call[c].written)
  PROVE  ResidueInv'
<1>1. \A b \in Calls : Residue(b)' = Residue(b)
  BY DEF Residue
<1>2. ASSUME NEW b \in Calls \ {c} PROVE Explained(b)'
  BY <1>1, <1>2, StaysExplained
<1>3. Explained(c)'
  BY <1>1 DEF ResidueInv, Explained, CallMovesTo, Holding, StagingOf
<1> QED
  BY <1>2, <1>3 DEF ResidueInv

\* Steps at a call's own staging path.
LEMMA ResidueOfStagingSteps ==
  ASSUME StagedInv, ResidueInv, NEW c \in Calls,
         MakeStaging(c) \/ WritePart(c) \/ Clean(c) \/ CleanFails(c) \/ Rename(c)
  PROVE  ResidueInv'
<1>1. call \in [Calls -> Call]
  BY DEF StagedInv, TypeOK
<1>2. /\ \A b \in Calls \ {c} : call'[b] = call[b]
      /\ StagingOf(c)' = StagingOf(c)
  BY <1>1 DEF MakeStaging, WritePart, Clean, CleanFails, Rename, Goto, StagingOf, Call
<1>3. PICK X :
        /\ staged' = [staged EXCEPT ![StagingOf(c)] = X]
        /\ \A b \in Calls \ {c} : \A i \in 0 .. Parts : <<i, b>> \in X => <<i, b>> \in staged[StagingOf(c)]
        /\ \/ X = Absent
           \/ call'[c].step \in Holding \cup {"unclean"}
  <2>1. CASE MakeStaging(c)
    <3>1. staged' = [staged EXCEPT ![StagingOf(c)] = Written(c, 0)]
      BY <2>1 DEF MakeStaging
    <3>2. \A b \in Calls \ {c} : \A i \in 0 .. Parts : <<i, b>> \notin Written(c, 0)
      BY WrittenEntry
    <3>3. call'[c].step \in Holding
      BY <1>1, <2>1 DEF MakeStaging, Goto, Call, Holding
    <3> QED
      BY <3>1, <3>2, <3>3
  <2>2. CASE WritePart(c)
    <3> DEFINE X == staged[StagingOf(c)] \cup {<<call[c].written + 1, c>>}
    <3>1. staged' = [staged EXCEPT ![StagingOf(c)] = X]
      BY <2>2 DEF WritePart
    <3>2. \A b \in Calls \ {c} : \A i \in 0 .. Parts : <<i, b>> \in X => <<i, b>> \in staged[StagingOf(c)]
      OBVIOUS
    <3>3. call'[c].step \in Holding
      BY <1>1, <2>2 DEF WritePart, Call, Holding
    <3> HIDE DEF X
    <3> QED
      BY <3>1, <3>2, <3>3
  <2>3. CASE Clean(c) \/ Rename(c)
    BY <2>3 DEF Clean, Rename, Absent
  <2>4. CASE CleanFails(c)
    <3>1. PICK kept \in SUBSET staged[StagingOf(c)] :
            staged' = [staged EXCEPT ![StagingOf(c)] = kept]
      BY <2>4 DEF CleanFails
    <3>2. call'[c].step = "unclean"
      BY <1>1, <2>4 DEF CleanFails, Goto, Call
    <3> QED
      BY <3>1, <3>2
  <2> QED
    BY <2>1, <2>2, <2>3, <2>4
<1>4. ASSUME NEW b \in Calls \ {c} PROVE Explained(b)'
  <2>1. Residue(b)' \subseteq Residue(b)
    BY <1>3, ResidueShrinks
  <2> QED
    BY <1>2, <2>1, StaysExplained
<1>5. Explained(c)'
  <2>1. Residue(c) \subseteq {StagingOf(c)}
    BY DEF MakeStaging, WritePart, Clean, CleanFails, Rename, At, ResidueInv, Explained, Holding
  <2>2. \A q \in StagingPaths : staged'[q] = IF q = StagingOf(c) THEN X ELSE staged[q]
    BY <1>3 DEF StagedInv, TypeOK
  <2>3. Residue(c)' \subseteq {StagingOf(c)}
    BY <2>1, <2>2 DEF Residue
  <2>4. CASE X = Absent
    BY <2>1, <2>2, <2>4 DEF Residue, Absent, Explained
  <2>5. CASE call'[c].step \in Holding \cup {"unclean"}
    BY <1>2, <2>3, <2>5 DEF Explained
  <2> QED
    BY <1>3, <2>4, <2>5
<1> QED
  BY <1>4, <1>5 DEF ResidueInv

\* No step leaves residue that is not explained.
LEMMA ResidueKept ==
  ASSUME StagedInv, ResidueInv, Next
  PROVE  ResidueInv'
<1>1. call \in [Calls -> Call]
  BY DEF StagedInv, TypeOK
<1>2. ASSUME NEW c \in Calls,
             \/ CheckDestination(c) \/ CheckFails(c) \/ TakeName(c) \/ NameIsTaken(c) \/ MakeFails(c)
             \/ Create(c) \/ CreateRefused(c) \/ CreateFails(c) \/ Fill(c) \/ FillFails(c)
             \/ \E pid \in Pids, d \in Destinations : Start(c, pid, d)
      PROVE  ResidueInv'
  <2>1. UNCHANGED staged /\ \A b \in Calls \ {c} : call'[b] = call[b]
    BY <1>1, <1>2 DEF CheckDestination, CheckFails, TakeName, NameIsTaken, MakeFails, Create,
       CreateRefused, CreateFails, Fill, FillFails, Start, Goto
  <2>2. call[c].step \notin Holding \cup {"crashed", "unclean"}
    BY <1>2 DEF CheckDestination, CheckFails, TakeName, NameIsTaken, MakeFails, Create,
       CreateRefused, CreateFails, Fill, FillFails, Start, At, Holding
  <2> QED
    BY <2>1, <2>2, ResidueOfCallSteps
<1>3. ASSUME NEW c \in Calls, WriteFails(c) \/ RenameRefused(c) \/ RenameFails(c)
      PROVE  ResidueInv'
  <2>1. UNCHANGED staged /\ call[c].step \in Holding
    BY <1>3 DEF WriteFails, RenameRefused, RenameFails, At, Holding
  <2>2. CallMovesTo(c, "clean", call[c].written)
    BY <1>3, GiveUpMoves DEF WriteFails, RenameRefused, RenameFails, StagedInv
  <2>3. \A b \in Calls \ {c} : call'[b] = call[b]
    BY <2>2 DEF CallMovesTo
  <2> QED
    BY <2>1, <2>2, <2>3, ResidueOfCallSteps
<1>4. ASSUME NEW pid \in Pids, ProcessEnds(pid)
      PROVE  ResidueInv'
  <2>1. \A b \in Calls : Residue(b)' = Residue(b)
    BY <1>4 DEF ProcessEnds, Residue
  <2>2. ASSUME NEW b \in Calls PROVE call'[b] = call[b] \/ call'[b].step = "crashed"
    BY <1>1, <1>4 DEF ProcessEnds, Call
  <2>3. ASSUME NEW b \in Calls PROVE Explained(b)'
    BY <2>1, <2>2, StaysExplained DEF Explained
  <2> QED
    BY <2>3 DEF ResidueInv
<1>5. ASSUME NEW d \in Destinations, ForeignTakes(d)
      PROVE  ResidueInv'
  BY <1>5 DEF ForeignTakes, ResidueInv, Explained, Residue, StagingOf
<1> QED
  BY <1>2, <1>3, <1>4, <1>5, ResidueOfStagingSteps DEF Next, Step

\* Nothing is staged at first.
LEMMA ResidueInit == Init => ResidueInv
  BY DEF Init, ResidueInv, Explained, Residue, Absent

\* What lies on a staging path is of a call that is still to rename or remove it,
\* of one that died, or of one whose removal of it failed: nobody else's residue
\* accumulates in the directory.
THEOREM ResidueExplained == Spec => []ResidueIsExplained
<1>1. ResidueInv /\ UNCHANGED vars => ResidueInv'
  BY DEF ResidueInv, Explained, Residue, StagingOf, vars
<1>2. StagedInv /\ ResidueInv /\ [Next]_vars => ResidueInv'
  BY <1>1, ResidueKept
<1>3. ResidueInv => ResidueIsExplained
  BY DEF ResidueInv, Explained, Residue, ResidueIsExplained, Running, Returned, Holding
<1> QED
  BY <1>2, <1>3, ResidueInit, StagedInvariant, PTL DEF Spec

-----------------------------------------------------------------------------
(* Refinement                                                              *)

\* Every destination that is taken is explained by what its owner did: a staged
\* or direct writer that finished, or a direct writer that created it only.
OwnedBy(c, d) ==
  /\ call[c].at = d
  /\ \/ published[d] = Whole(c) /\ At(c, "ok")
     \/ published[d] = Written(c, 0) /\ ~Staged(c) /\ call[c].step \in {"fill", "failed", "crashed"}

OwnershipInv ==
  \A d \in Destinations :
    \/ published[d] = Absent
    \/ published[d] = Written(Foreign, 0)
    \/ \E c \in Calls : OwnedBy(c, d)

\* Owners have left the steps in which a destination is still to be taken.
LEMMA OwnershipKept ==
  ASSUME StagedInv, OwnershipInv, Next
  PROVE  OwnershipInv'
<1> SUFFICES ASSUME NEW d \in Destinations
             PROVE  \/ published'[d] = Absent
                    \/ published'[d] = Written(Foreign, 0)
                    \/ \E c \in Calls : OwnedBy(c, d)'
  BY DEF OwnershipInv, Absent, Written
<1>1. ASSUME NEW c \in Calls, Rename(c) \/ Create(c) \/ Fill(c), call[c].at = d
      PROVE  OwnedBy(c, d)'
  <2>1. CASE Rename(c)
    <3>1. CallMovesTo(c, "ok", call[c].written)
      BY <2>1, GotoMoves DEF Rename, StagedInv, Steps, Returned
    <3>2. published'[d] = Whole(c)
      BY <1>1, <2>1 DEF Rename, StagedInv, TypeOK, StagingIsOwn, At, Holding, Whole
    <3> QED
      BY <1>1, <3>1, <3>2 DEF OwnedBy, CallMovesTo, At, Whole, PartsOf, Written
  <2>2. CASE Create(c)
    <3>1. CallMovesTo(c, "fill", call[c].written)
      BY <2>2, GotoMoves DEF Create, StagedInv, Steps, Returned
    <3>2. published'[d] = Written(c, 0) /\ ~Staged(c)
      BY <1>1, <2>2 DEF Create, StagedInv, TypeOK, StepsOfFamily, At
    <3> QED
      BY <1>1, <3>1, <3>2 DEF OwnedBy, CallMovesTo, At, Staged, Written
  <2>3. CASE Fill(c)
    <3>1. CallMovesTo(c, "ok", call[c].written)
      BY <2>3, GotoMoves DEF Fill, StagedInv, Steps, Returned
    <3>2. published'[d] = Whole(c)
      BY <1>1, <2>3 DEF Fill, StagedInv, TypeOK
    <3> QED
      BY <1>1, <3>1, <3>2 DEF OwnedBy, CallMovesTo, At, Whole, PartsOf, Written
  <2> QED
    BY <1>1, <2>1, <2>2, <2>3
<1>2. ASSUME ForeignTakes(d) PROVE published'[d] = Written(Foreign, 0)
  BY <1>2 DEF ForeignTakes, StagedInv, TypeOK
<1>3. ASSUME published'[d] = published[d],
             \A c \in Calls : OwnedBy(c, d) => OwnedBy(c, d)'
      PROVE  \/ published'[d] = Absent
             \/ published'[d] = Written(Foreign, 0)
             \/ \E c \in Calls : OwnedBy(c, d)'
  BY <1>3 DEF OwnershipInv
<1>4. ASSUME NEW b \in Calls, \A c \in Calls \ {b} : call'[c] = call[c],
             \/ call[b].step \notin {"ok", "fill", "failed", "crashed"}
             \/ At(b, "fill") /\ call[b].at # d
             \/ At(b, "fill") /\ CallMovesTo(b, "failed", call[b].written)
      PROVE  published'[d] = published[d] => \A c \in Calls : OwnedBy(c, d) => OwnedBy(c, d)'
  BY <1>4 DEF CallMovesTo, OwnedBy, At, Staged, Whole, PartsOf, Written
<1>5. ASSUME NEW c \in Calls, Step(c) \/ \E pid \in Pids, e \in Destinations : Start(c, pid, e)
      PROVE  \A b \in Calls \ {c} : call'[b] = call[b]
  <2>1. call \in [Calls -> Call]
    BY DEF StagedInv, TypeOK
  <2> QED
    BY <1>5, <2>1 DEF Step, Start, Goto, GiveUp, CheckDestination, CheckFails, TakeName,
       MakeStaging, NameIsTaken, MakeFails, WritePart, WriteFails, Rename, RenameRefused,
       RenameFails, Clean, CleanFails, Create, CreateRefused, CreateFails, Fill, FillFails
<1>6. ASSUME NEW c \in Calls, Step(c) \/ \E pid \in Pids, e \in Destinations : Start(c, pid, e),
             ~((Rename(c) \/ Create(c) \/ Fill(c)) /\ call[c].at = d)
      PROVE  /\ published'[d] = published[d]
             /\ \/ call[c].step \notin {"ok", "fill", "failed", "crashed"}
                \/ At(c, "fill") /\ call[c].at # d
                \/ At(c, "fill") /\ CallMovesTo(c, "failed", call[c].written)
  <2>1. CASE Rename(c) \/ Create(c) \/ Fill(c)
    <3>1. call[c].at # d
      BY <1>6, <2>1
    <3> QED
      BY <2>1, <3>1 DEF Rename, Create, Fill, StagedInv, TypeOK, At
  <2>2. CASE FillFails(c)
    BY <2>2, GotoMoves DEF FillFails, StagedInv, Steps, Returned, At
  <2>3. CASE \E pid \in Pids, e \in Destinations : Start(c, pid, e)
    BY <2>3 DEF Start, At
  <2>4. CASE Step(c) /\ ~Rename(c) /\ ~Create(c) /\ ~Fill(c) /\ ~FillFails(c)
    BY <2>4 DEF Step, CheckDestination, CheckFails, TakeName, MakeStaging, NameIsTaken, MakeFails,
       WritePart, WriteFails, RenameRefused, RenameFails, Clean, CleanFails, CreateRefused,
       CreateFails, At
  <2> QED
    BY <1>6, <2>1, <2>2, <2>3, <2>4
<1>7. ASSUME NEW pid \in Pids, ProcessEnds(pid)
      PROVE  published'[d] = published[d] /\ \A c \in Calls : OwnedBy(c, d) => OwnedBy(c, d)'
  <2>1. published' = published
    BY <1>7 DEF ProcessEnds
  <2>2. \A c \in Calls : \/ call'[c] = call[c]
                         \/ Running(c) /\ call'[c] = [call[c] EXCEPT !.step = "crashed"]
    BY <1>7 DEF ProcessEnds
  <2>3. ASSUME NEW c \in Calls, OwnedBy(c, d) PROVE OwnedBy(c, d)'
    <3>1. call[c] \in Call
      BY DEF StagedInv, TypeOK
    <3>2. call'[c] = call[c] \/ /\ call[c].step = "fill" /\ call'[c].step = "crashed"
                                /\ call'[c].at = call[c].at
      BY <2>2, <2>3, <3>1 DEF Running, OwnedBy, At, Returned, Call
    <3> QED
      BY <2>1, <2>3, <3>2 DEF OwnedBy, At, Staged, Whole, PartsOf, Written
  <2> QED
    BY <2>1, <2>3
<1>8. ASSUME NEW e \in Destinations \ {d}, ForeignTakes(e)
      PROVE  published'[d] = published[d] /\ \A c \in Calls : OwnedBy(c, d) => OwnedBy(c, d)'
  BY <1>8 DEF ForeignTakes, OwnedBy, StagedInv, TypeOK, At, Staged, Whole, PartsOf, Written
<1> QED
  BY <1>1, <1>2, <1>3, <1>4, <1>5, <1>6, <1>7, <1>8 DEF Next

\* Nobody owns a destination at first.
LEMMA OwnershipInit == Init => OwnershipInv
  BY DEF Init, OwnershipInv

\* Every reachable state satisfies OwnershipInv.
LEMMA OwnershipInvariant == Spec => []OwnershipInv
<1>1. OwnershipInv /\ UNCHANGED vars => OwnershipInv'
  BY DEF OwnershipInv, OwnedBy, vars, At, Staged, Whole, PartsOf, Written, Absent
<1>2. StagedInv /\ OwnershipInv /\ [Next]_vars => OwnershipInv'
  BY <1>1, OwnershipKept
<1> QED
  BY <1>2, OwnershipInit, StagedInvariant, PTL DEF Spec

\* What the refinement mapping makes of each form of a destination.
LEMMA TakenAbsent == TakenBy(Absent) = [by |-> "nobody", whole |-> FALSE]
  BY DEF TakenBy

\* Written content maps to its writer, whole once the last part is there.
LEMMA TakenWritten ==
  ASSUME NEW c, NEW n \in Nat
  PROVE  TakenBy(Written(c, n)) = [by |-> c, whole |-> c \in Calls /\ Written(c, n) = Whole(c)]
  BY WrittenPresent, OwnersOfWritten DEF TakenBy

\* A direct writer's file is not whole when it has only been created.
LEMMA CreatedIsNotWhole ==
  ASSUME NEW c \in Calls
  PROVE  Written(c, 0) # Whole(c)
<1>1. <<1, c>> \in Whole(c)
  BY PartsBound, WrittenEntry, StagedAssumption DEF Whole
<1>2. <<1, c>> \notin Written(c, 0)
  BY WrittenEntry
<1> QED
  BY <1>1, <1>2

\* A whole document maps to a whole document of its writer.
LEMMA TakenWhole ==
  ASSUME NEW c \in Calls
  PROVE  TakenBy(Whole(c)) = [by |-> c, whole |-> TRUE]
<1>1. PartsOf(c) \in Nat /\ Whole(c) = Written(c, PartsOf(c))
  BY PartsBound, StagedAssumption DEF Whole
<1> QED
  BY <1>1, TakenWritten

\* A file only created maps to a destination taken but not whole.
LEMMA TakenCreated ==
  ASSUME NEW c \in Calls
  PROVE  TakenBy(Written(c, 0)) = [by |-> c, whole |-> FALSE]
<1>1. 0 \in Nat
  OBVIOUS
<1> QED
  BY <1>1, TakenWritten, CreatedIsNotWhole

\* What another program puts there maps to a destination that is not ours.
LEMMA TakenForeign == TakenBy(Written(Foreign, 0)) = [by |-> Foreign, whole |-> FALSE]
<1>1. Foreign \notin Calls /\ 0 \in Nat
  BY StagedAssumption
<1> QED
  BY <1>1, TakenWritten

\* A call about to take a destination has not taken any other.
LEMMA NotYetOwner ==
  ASSUME OwnershipInv, NEW c \in Calls, call[c].step \in {"rename", "create"}, NEW d \in Destinations
  PROVE  TakenBy(published[d]).by # c
<1>1. CASE published[d] = Absent
  BY <1>1, TakenAbsent, StagedAssumption
<1>2. CASE published[d] = Written(Foreign, 0)
  BY <1>2, TakenForeign, StagedAssumption
<1>3. ASSUME NEW b \in Calls, OwnedBy(b, d) PROVE TakenBy(published[d]).by # c
  <2>1. b # c
    BY <1>3 DEF OwnedBy, At
  <2>2. TakenBy(published[d]).by = b
    BY <1>3, TakenWhole, TakenCreated DEF OwnedBy
  <2> QED
    BY <2>1, <2>2
<1> QED
  BY <1>1, <1>2, <1>3 DEF OwnershipInv

takenNow == [d \in Destinations |-> TakenBy(published[d])]

\* A step at one destination maps to one update of the abstract state.
LEMMA TakenUpdate ==
  ASSUME StagedInv, NEW d \in Destinations, NEW X,
         published' = [published EXCEPT ![d] = X]
  PROVE  takenNow' = [takenNow EXCEPT ![d] = TakenBy(X)]
<1>1. /\ \A e \in Destinations \ {d} : published'[e] = published[e]
      /\ published'[d] = X
  BY DEF StagedInv, TypeOK
<1>2. takenNow' = [e \in Destinations |-> TakenBy(published'[e])]
  BY DEF takenNow, TakenBy, Owners, Whole, Written, PartsOf, Absent
<1>3. takenNow' = [e \in Destinations |-> IF e = d THEN TakenBy(X) ELSE TakenBy(published[e])]
  BY <1>1, <1>2
<1>4. /\ DOMAIN takenNow = Destinations
      /\ \A e \in Destinations : takenNow[e] = TakenBy(published[e])
  BY DEF takenNow
<1>5. [takenNow EXCEPT ![d] = TakenBy(X)]
        = [e \in Destinations |-> IF e = d THEN TakenBy(X) ELSE takenNow[e]]
  BY <1>4
<1> QED
  BY <1>3, <1>4, <1>5

\* The system of calls implements atomic publication: every step takes one absent
\* destination, completes a direct writer's file, or changes nothing that a
\* reader of the destinations can see.
THEOREM PublicationIsAtomic == Spec => ImplementsAtomicPublication
<1>1. Init => AtomicPublication!Init
  BY TakenAbsent DEF Init, AtomicPublication!Init, AtomicPublication!Nobody
<1>2. StagedInv /\ OwnershipInv /\ [Next]_vars => [AtomicPublication!Next]_takenNow
  <2> SUFFICES ASSUME StagedInv, OwnershipInv, [Next]_vars
               PROVE  [AtomicPublication!Next]_takenNow
    OBVIOUS
  <2> USE DEF AtomicPublication!Take, AtomicPublication!Nobody, AtomicPublication!Unpublished
  <2>1. ASSUME published' = published PROVE takenNow' = takenNow
    BY <2>1 DEF takenNow, TakenBy, Owners, Whole, Written, PartsOf, Absent
  <2>2. ASSUME NEW c \in Calls, Rename(c) PROVE AtomicPublication!Next
    <3> DEFINE d == call[c].at
    <3>1. d \in Destinations /\ Staged(c) /\ call[c].step = "rename"
      BY <2>2 DEF Rename, At, StagedInv, TypeOK, Call, StepsOfFamily, Staging
    <3>2. /\ published[d] = Absent
          /\ published' = [published EXCEPT ![d] = Whole(c)]
      BY <2>2, <3>1 DEF Rename, StagedInv, StagingIsOwn, At, Holding, Whole
    <3> HIDE DEF d
    <3>3. takenNow' = [takenNow EXCEPT ![d] = [by |-> c, whole |-> TRUE]]
      BY <3>1, <3>2, TakenWhole, TakenUpdate
    <3>4. takenNow[d].by = "nobody" /\ \A e \in Destinations : takenNow[e].by # c
      BY <3>1, <3>2, TakenAbsent, NotYetOwner DEF takenNow
    <3>5. AtomicPublication!Publish(c, d)
      BY <3>1, <3>3, <3>4, StagedAssumption DEF AtomicPublication!Publish, takenNow, Staged
    <3> QED
      BY <3>1, <3>5 DEF AtomicPublication!Next
  <2>3. ASSUME NEW c \in Calls, Create(c) PROVE AtomicPublication!Next
    <3> DEFINE d == call[c].at
    <3>1. d \in Destinations /\ ~Staged(c) /\ call[c].step = "create"
      BY <2>3 DEF Create, At, StagedInv, TypeOK, Call, StepsOfFamily
    <3>2. /\ published[d] = Absent
          /\ published' = [published EXCEPT ![d] = Written(c, 0)]
      BY <2>3 DEF Create
    <3> HIDE DEF d
    <3>3. takenNow' = [takenNow EXCEPT ![d] = [by |-> c, whole |-> FALSE]]
      BY <3>1, <3>2, TakenCreated, TakenUpdate
    <3>4. takenNow[d].by = "nobody" /\ \A e \in Destinations : takenNow[e].by # c
      BY <3>1, <3>2, TakenAbsent, NotYetOwner DEF takenNow
    <3>5. AtomicPublication!Claim(c, d)
      BY <3>1, <3>3, <3>4, StagedAssumption DEF AtomicPublication!Claim, takenNow, Staged
    <3> QED
      BY <3>1, <3>5 DEF AtomicPublication!Next
  <2>4. ASSUME NEW c \in Calls, Fill(c) PROVE AtomicPublication!Next
    <3> DEFINE d == call[c].at
    <3>1. d \in Destinations /\ ~Staged(c) /\ published[d] = Written(c, 0)
      BY <2>4 DEF Fill, At, StagedInv, TypeOK, Call, StepsOfFamily, FillIsOwn
    <3>2. published' = [published EXCEPT ![d] = Whole(c)]
      BY <2>4 DEF Fill
    <3> HIDE DEF d
    <3>3. takenNow' = [takenNow EXCEPT ![d] = [by |-> c, whole |-> TRUE]]
      BY <3>1, <3>2, TakenWhole, TakenUpdate
    <3>4. takenNow[d] = [by |-> c, whole |-> FALSE]
      BY <3>1, TakenCreated DEF takenNow
    <3>5. takenNow' = [takenNow EXCEPT ![d] = [by |-> takenNow[d].by, whole |-> TRUE]]
      BY <3>3, <3>4
    <3>6. AtomicPublication!Fill(d)
      <4>1. takenNow[d].by \in {b \in Calls : FamilyOf[b] = "direct"}
        BY <3>1, <3>4 DEF Staged
      <4> QED
        BY <3>5, <4>1 DEF AtomicPublication!Fill, takenNow
    <3> QED
      BY <3>1, <3>6 DEF AtomicPublication!Next
  <2>5. ASSUME NEW d \in Destinations, ForeignTakes(d) PROVE AtomicPublication!Next
    <3>1. published[d] = Absent /\ published' = [published EXCEPT ![d] = Written(Foreign, 0)]
      BY <2>5 DEF ForeignTakes
    <3>2. takenNow' = [takenNow EXCEPT ![d] = [by |-> Foreign, whole |-> FALSE]]
      BY <3>1, TakenForeign, TakenUpdate
    <3>3. takenNow[d].by = "nobody"
      BY <3>1, TakenAbsent DEF takenNow
    <3>4. Foreign # "nobody"
      BY DEF Foreign
    <3>5. AtomicPublication!Take(d, Foreign, FALSE)
      BY <3>2, <3>3, <3>4 DEF takenNow
    <3> HIDE DEF AtomicPublication!Take
    <3> QED
      BY <3>5 DEF AtomicPublication!Next, Foreign
  <2>6. ASSUME NEW c \in Calls, Step(c), ~Rename(c), ~Create(c), ~Fill(c)
        PROVE  published' = published
    BY <2>6 DEF Step, CheckDestination, CheckFails, TakeName, MakeStaging, NameIsTaken, MakeFails,
       WritePart, WriteFails, RenameRefused, RenameFails, Clean, CleanFails, CreateRefused,
       CreateFails, FillFails
  <2>7. ASSUME NEW c \in Calls, NEW pid \in Pids, NEW e \in Destinations, Start(c, pid, e)
        PROVE  published' = published
    BY <2>7 DEF Start
  <2>8. ASSUME NEW pid \in Pids, ProcessEnds(pid) PROVE published' = published
    BY <2>8 DEF ProcessEnds
  <2>9. CASE UNCHANGED vars
    BY <2>1, <2>9 DEF vars
  <2> QED
    BY <2>1, <2>2, <2>3, <2>4, <2>5, <2>6, <2>7, <2>8, <2>9 DEF Next
<1> QED
  BY <1>1, <1>2, StagedInvariant, OwnershipInvariant, PTL
     DEF Spec, ImplementsAtomicPublication, AtomicPublication!Spec, takenNow
=============================================================================

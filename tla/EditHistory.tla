----------------------------- MODULE EditHistory -----------------------------
(***************************************************************************)
(* What Undo and Redo promise the user of one Designer session: the        *)
(* documents the session went through form one line, Undo and Redo only    *)
(* move along it, an edit cuts what lay ahead and adds one document, and   *)
(* at most Depth steps back are kept.  Every move is a publication.        *)
(***************************************************************************)
EXTENDS Naturals, Sequences

CONSTANT Depth          \* how many edits can be undone

VARIABLES
    timeline,           \* the documents the user can move to, oldest first
    cursor,             \* the one on the screen
    revision            \* how many publications the session has seen

vars == <<timeline, cursor, revision>>

Init ==
    /\ Len(timeline) = 1
    /\ cursor = 1
    /\ revision = 0

\* What an edit keeps: the past up to the cursor, without its oldest document
\* when Depth steps back are already kept.
Kept ==
    LET past == SubSeq(timeline, 1, cursor)
    IN IF Len(past) > Depth THEN Tail(past) ELSE past

Edit ==
    /\ revision' = revision + 1
    /\ \E kept \in {Kept}, next \in {timeline'} :
         /\ cursor' = Len(kept) + 1
         /\ next = Append(kept, next[cursor'])
         /\ next[cursor'] # kept[Len(kept)]

Undo ==
    /\ cursor > 1
    /\ cursor' = cursor - 1
    /\ revision' = revision + 1
    /\ UNCHANGED timeline

Redo ==
    /\ cursor < Len(timeline)
    /\ cursor' = cursor + 1
    /\ revision' = revision + 1
    /\ UNCHANGED timeline

Next == Edit \/ Undo \/ Redo

Spec == Init /\ [][Next]_vars
=============================================================================

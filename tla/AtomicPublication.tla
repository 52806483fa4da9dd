-------------------------- MODULE AtomicPublication --------------------------
(***************************************************************************)
(* What writing a project or a package promises (crates/storage/src/       *)
(* roproj/host.rs publish_roproj_v3, portable_package/host.rs              *)
(* publish_portable_package, lib.rs save): a destination is taken once and *)
(* never replaced.  A staged writer makes it visible whole; a direct       *)
(* writer takes it first and fills it afterwards.                          *)
(***************************************************************************)
CONSTANTS Calls, Direct, Destinations

VARIABLE taken  \* of each destination: nothing, or who took it and whether it is whole

Nobody == "nobody"

Init == taken = [d \in Destinations |-> [by |-> Nobody, whole |-> FALSE]]

\* A caller, or a program outside this one (any other name), takes an absent path.
Take(d, by, whole) ==
  /\ taken[d].by = Nobody
  /\ by # Nobody
  /\ taken' = [taken EXCEPT ![d] = [by |-> by, whole |-> whole]]

\* A call publishes at most once.
Unpublished(c) == \A d \in Destinations : taken[d].by # c

Publish(c, d) == c \notin Direct /\ Unpublished(c) /\ Take(d, c, TRUE)

Claim(c, d) == c \in Direct /\ Unpublished(c) /\ Take(d, c, FALSE)

Fill(d) ==
  /\ taken[d].by \in Direct
  /\ taken' = [taken EXCEPT ![d] = [by |-> taken[d].by, whole |-> TRUE]]

Next ==
  \E d \in Destinations :
    \/ \E c \in Calls : Publish(c, d) \/ Claim(c, d)
    \/ Take(d, "foreign", FALSE)
    \/ Fill(d)

Spec == Init /\ [][Next]_taken
=============================================================================

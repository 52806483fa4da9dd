---------------------------- MODULE WorkerClient ----------------------------
(***************************************************************************)
(* The Browser Designer's transport: WorkerDesignerClient on the page      *)
(* (packages/browser-client/src/runtime/worker-client.ts), the dedicated   *)
(* Worker that hosts the WASM runtime (worker-runtime.ts, wasm-bridge.ts)  *)
(* and the one project that runtime holds (runtime/src/wasm.rs).           *)
(*                                                                         *)
(* A call of the client posts a request under a fresh id and waits.  The   *)
(* Worker's message handler awaits the bridge, which may still be loading  *)
(* or may have failed to load, and then runs to its reply without another  *)
(* await.  Replies, the Worker's error event and close() race on the page. *)
(*                                                                         *)
(* What the runtime computes is abstracted to what the transport can mix   *)
(* up: which project (the call that opened it) is held, at which revision, *)
(* and whether the request was refused.  Replies are taken to fit their    *)
(* size limit: process_wire_request checks it after the request has run.   *)
(***************************************************************************)
EXTENDS Naturals, Sequences, FiniteSets

CONSTANTS
    Edits,         \* calls that edit at the revision the page read
    Opens,         \* calls that create or open a project
    Imports,       \* importSpreadsheet calls: preview, validate, install
    Closings,      \* closeProject calls
    NoProject      \* the runtime before the first open and after closeProject

Calls == Edits \union Opens \union Imports \union Closings

ASSUME CallsAssumption ==
    /\ IsFiniteSet(Calls)
    /\ NoProject \notin Calls
    /\ \A K, L \in {Edits, Opens, Imports, Closings} : K # L => K \cap L = {}

\* A project occurrence is named by the call that opened it: every open draws
\* a fresh occurrence identity.  Revisions are counted from zero in each
\* occurrence, so the revision alone does not name the document.
Project == [occurrence : Calls, revision : Nat]
Held == Project \union {NoProject}

ASSUME NoProjectAssumption == NoProject \notin Project

RequestKind == {"edit", "open", "preview", "install", "close_project"}

\* `aim` and `racing` are carried for checking only: the project the page
\* showed when the edit was posted, and whether a call that replaces the
\* project was still waiting then.
Request == [id : Nat, call : Calls, kind : RequestKind,
            aim : Held, racing : BOOLEAN]

Reply == [id : Nat, call : Calls, kind : RequestKind,
          ok : BOOLEAN, project : Held]

VARIABLES
    nextId,        \* #nextId
    pending,       \* #pending: the ids awaiting a reply, with their call
    phase,         \* what each call's promise is: see Phase
    answer,        \* the call whose reply settled a call (checking only)
    late,          \* calls made after close() or the error event (checking only)
    seen,          \* the project the last answer told the page about
    closed,        \* close() has run
    failed,        \* the error event has been delivered
    requests,      \* messages posted to the Worker, not yet dispatched
    replies,       \* messages posted to the page, not yet dispatched
    errorEvent,    \* an error event is queued for the page
    worker,        \* the Worker's thread
    bridge,        \* the promise createDesignerWasmBridge returned
    trapped,       \* a WASM trap left the runtime's cell borrowed
    awaiting,      \* handlers suspended at `await bridge`, oldest first
    runtime,       \* RUNTIME: the project the WASM module holds
    applied        \* requests that changed RUNTIME, in order (checking only)

pageVars == <<nextId, pending, phase, answer, late, seen, closed, failed>>
workerVars == <<worker, bridge, trapped, awaiting, runtime, applied>>
vars == <<pageVars, requests, replies, errorEvent, workerVars>>

Phase == {"idle", "waiting", "resolved", "rejected"}

-----------------------------------------------------------------------------
(* The page.                                                               *)

Replaces(c) == c \in Opens \union Imports \union Closings

ReplacementWaiting == \E c \in Calls : Replaces(c) /\ phase[c] = "waiting"

FirstKind(c) ==
    IF c \in Edits THEN "edit"
    ELSE IF c \in Imports THEN "preview"
    ELSE IF c \in Closings THEN "close_project"
    ELSE "open"

\* #claimId, mutated: the counter is not advanced.
ClaimSameId == [id |-> nextId, next |-> nextId]

\* #claimId: the id the next request takes, and the counter after it.
ClaimId == [id |-> nextId, next |-> nextId + 1]

\* #send: record the promise under the id and post the message.  A terminated
\* Worker drops what is posted to it.
Send(c, kind, stillPending) ==
    /\ nextId' = ClaimId.next
    /\ pending' = [i \in DOMAIN stillPending \union {ClaimId.id} |->
                     IF i = ClaimId.id THEN c ELSE stillPending[i]]
    /\ requests' =
         IF closed THEN requests
         ELSE Append(requests,
                     [id |-> ClaimId.id, call |-> c, kind |-> kind, aim |-> seen,
                      racing |-> ReplacementWaiting])

\* Any method of the client.  An edit names the revision the page read.
Call(c) ==
    /\ phase[c] = "idle"
    /\ c \in Edits => seen # NoProject
    /\ phase' = [phase EXCEPT ![c] = "waiting"]
    /\ late' = IF closed \/ failed THEN late \union {c} ELSE late
    /\ Send(c, FirstKind(c), pending)
    /\ UNCHANGED <<answer, seen, closed, failed, replies, errorEvent, workerVars>>

\* An open whose buffer was already transferred: postMessage throws inside the
\* promise's executor, after the id was recorded.  The call rejects and its id
\* stays in #pending.
PostThrows(c) ==
    /\ c \in Opens
    /\ phase[c] = "idle"
    /\ phase' = [phase EXCEPT ![c] = "rejected"]
    /\ nextId' = ClaimId.next
    /\ pending' = [i \in DOMAIN pending \union {ClaimId.id} |->
                     IF i = ClaimId.id THEN c ELSE pending[i]]
    /\ UNCHANGED <<answer, late, seen, closed, failed, requests, replies,
                   errorEvent, workerVars>>

\* The "message" listener.  A reply whose id is not pending is ignored;
\* an answered import preview goes on, in the same turn, to `validate` and
\* then either rejects or posts the install request under an id of its own.
Unclaimed(reply) == reply.id \notin DOMAIN pending

Settled(reply) ==
    [i \in DOMAIN pending \ {reply.id} |-> pending[i]]

IgnoreReply ==
    /\ replies # <<>>
    /\ Unclaimed(Head(replies))
    /\ replies' = Tail(replies)
    /\ UNCHANGED <<pageVars, requests, errorEvent, workerVars>>

SettleCall ==
    /\ replies # <<>>
    /\ LET reply == Head(replies)
           c == pending[reply.id]
       IN /\ ~Unclaimed(reply)
          /\ ~(reply.ok /\ reply.kind = "preview")
          /\ pending' = Settled(reply)
          /\ phase' = [phase EXCEPT ![c] = IF reply.ok THEN "resolved" ELSE "rejected"]
          /\ answer' = [answer EXCEPT ![c] = reply.call]
          /\ seen' = IF reply.ok THEN reply.project ELSE seen
    /\ replies' = Tail(replies)
    /\ UNCHANGED <<nextId, late, closed, failed, requests, errorEvent, workerVars>>

\* `validate` throws: the import rejects and nothing more is sent.
RefusePreview ==
    /\ replies # <<>>
    /\ LET reply == Head(replies)
           c == pending[reply.id]
       IN /\ ~Unclaimed(reply)
          /\ reply.ok /\ reply.kind = "preview"
          /\ pending' = Settled(reply)
          /\ phase' = [phase EXCEPT ![c] = "rejected"]
          /\ answer' = [answer EXCEPT ![c] = reply.call]
    /\ replies' = Tail(replies)
    /\ UNCHANGED <<nextId, late, seen, closed, failed, requests, errorEvent, workerVars>>

AcceptPreview ==
    /\ replies # <<>>
    /\ LET reply == Head(replies)
       IN /\ ~Unclaimed(reply)
          /\ reply.ok /\ reply.kind = "preview"
          /\ Send(pending[reply.id], "install", Settled(reply))
    /\ replies' = Tail(replies)
    /\ UNCHANGED <<phase, answer, late, seen, closed, failed, errorEvent, workerVars>>

\* RejectPending, mutated: the map is cleared before its promises are rejected.
ForgetPending ==
    /\ phase' = phase
    /\ pending' = [i \in {} |-> NoProject]

\* Every promise in #pending rejects and the map is cleared.
RejectPending ==
    /\ phase' = [c \in Calls |->
                   IF \E i \in DOMAIN pending : pending[i] = c
                   THEN "rejected" ELSE phase[c]]
    /\ pending' = [i \in {} |-> NoProject]

\* The "error" listener.
ErrorListener ==
    /\ errorEvent
    /\ errorEvent' = FALSE
    /\ failed' = TRUE
    /\ RejectPending
    /\ UNCHANGED <<nextId, answer, late, seen, closed, requests, replies, workerVars>>

\* close(): terminate the Worker, then reject what waits.  A reply already on
\* its way may still arrive.
Close ==
    /\ ~closed
    /\ closed' = TRUE
    /\ worker' = "stopped"
    /\ requests' = <<>>
    /\ awaiting' = <<>>
    /\ RejectPending
    /\ UNCHANGED <<nextId, answer, late, seen, failed, replies, errorEvent,
                   bridge, trapped, runtime, applied>>

-----------------------------------------------------------------------------
(* The Worker.                                                             *)

\* The Worker dies.  Its handlers turn every exception into a reply, so this
\* is a script that could not be loaded or a thread the browser stopped.
WorkerStops ==
    /\ worker = "running"
    /\ worker' = "stopped"
    /\ errorEvent' = TRUE
    /\ UNCHANGED <<pageVars, requests, replies, bridge, trapped, awaiting,
                   runtime, applied>>

\* The bridge's promise settles: the module is instantiated, or the fetch or
\* the instantiation failed.
BridgeSettles ==
    /\ worker = "running"
    /\ bridge = "loading"
    /\ bridge' \in {"ready", "failed"}
    /\ UNCHANGED <<pageVars, requests, replies, errorEvent, worker, trapped,
                   awaiting, runtime, applied>>

\* The Worker's "message" listener starts a handler, which runs to its await.
Dispatch ==
    /\ worker = "running"
    /\ requests # <<>>
    /\ awaiting' = Append(awaiting, Head(requests))
    /\ requests' = Tail(requests)
    /\ UNCHANGED <<pageVars, replies, errorEvent, worker, bridge, trapped,
                   runtime, applied>>

\* Resume, mutated: the youngest handler first.
ResumeYoungest(handlers) ==
    [request |-> handlers[Len(handlers)],
     rest |-> SubSeq(handlers, 1, Len(handlers) - 1)]

\* Handlers waiting on the bridge resume in the order in which they awaited it.
Resume(handlers) == [request |-> Head(handlers), rest |-> Tail(handlers)]
Resumed == Resume(awaiting).request
StillAwaiting == Resume(awaiting).rest

\* Admitted, mutated: the expected revision is not compared.
AdmittedAtAnyRevision(request) ==
    request.kind = "edit" => runtime # NoProject

\* check_revision: an edit needs an open project at the revision it names.
Admitted(request) ==
    request.kind = "edit" =>
        /\ runtime # NoProject
        /\ runtime.revision = request.aim.revision

\* Effect, mutated: the preview installs its candidate.
EffectOfEagerPreview(request) ==
    CASE request.kind = "edit" -> [runtime EXCEPT !.revision = @ + 1]
      [] request.kind \in {"open", "preview", "install"} ->
           [occurrence |-> request.call, revision |-> 0]
      [] request.kind = "close_project" -> NoProject

\* What a request does to RUNTIME.  Every check precedes the assignment, and
\* an import preview carries `install: false`.
Effect(request) ==
    CASE request.kind = "edit" -> [runtime EXCEPT !.revision = @ + 1]
      [] request.kind \in {"open", "install"} ->
           [occurrence |-> request.call, revision |-> 0]
      [] request.kind = "preview" -> runtime
      [] request.kind = "close_project" -> NoProject

\* Requests the runtime may refuse for reasons of its own: an invalid edit, an
\* inadmissible source.  Installing repeats the preview's admission of the same
\* bytes and cannot come out differently.
MayBeRefused(request) == request.kind \in {"edit", "open", "preview"}

Answer(request, ok, held) ==
    replies' = Append(replies, [id |-> request.id, call |-> request.call,
                                kind |-> request.kind, ok |-> ok, project |-> held])

HandleAccepted ==
    /\ worker = "running" /\ awaiting # <<>>
    /\ bridge = "ready" /\ ~trapped
    /\ Admitted(Resumed)
    /\ runtime' = Effect(Resumed)
    /\ applied' = IF runtime' = runtime THEN applied
                  ELSE Append(applied, [request |-> Resumed, before |-> runtime])
    /\ awaiting' = StillAwaiting
    /\ Answer(Resumed, TRUE, runtime')
    /\ UNCHANGED <<pageVars, requests, errorEvent, worker, bridge, trapped>>

HandleRefused ==
    /\ worker = "running" /\ awaiting # <<>>
    /\ bridge = "ready" /\ ~trapped
    /\ MayBeRefused(Resumed) \/ ~Admitted(Resumed)
    /\ awaiting' = StillAwaiting
    /\ Answer(Resumed, FALSE, runtime)
    /\ UNCHANGED <<pageVars, requests, errorEvent, worker, bridge, trapped,
                   runtime, applied>>

\* The catch block: the bridge did not load, or the module traps.  A trap
\* unwinds without returning the runtime's borrow, so every later request
\* traps on the borrow.
CatchFailure ==
    /\ worker = "running" /\ awaiting # <<>>
    /\ \/ /\ bridge = "failed"
          /\ UNCHANGED trapped
       \/ /\ bridge = "ready"
          /\ trapped' = TRUE
    /\ awaiting' = StillAwaiting
    /\ Answer(Resumed, FALSE, NoProject)
    /\ UNCHANGED <<pageVars, requests, errorEvent, worker, bridge, runtime, applied>>

-----------------------------------------------------------------------------
Init ==
    /\ nextId = 1
    /\ pending = [i \in {} |-> NoProject]
    /\ phase = [c \in Calls |-> "idle"]
    /\ answer = [c \in Calls |-> c]
    /\ late = {}
    /\ seen = NoProject
    /\ closed = FALSE
    /\ failed = FALSE
    /\ requests = <<>>
    /\ replies = <<>>
    /\ errorEvent = FALSE
    /\ worker = "running"
    /\ bridge = "loading"
    /\ trapped = FALSE
    /\ awaiting = <<>>
    /\ runtime = NoProject
    /\ applied = <<>>

Receive == IgnoreReply \/ SettleCall \/ RefusePreview \/ AcceptPreview

Handle == HandleAccepted \/ HandleRefused \/ CatchFailure

Next ==
    \/ \E c \in Calls : Call(c)
    \/ \E c \in Opens : PostThrows(c)
    \/ Receive
    \/ ErrorListener
    \/ Close
    \/ WorkerStops
    \/ BridgeSettles
    \/ Dispatch
    \/ Handle

Spec == Init /\ [][Next]_vars

\* Both event loops keep turning.  Nothing makes the caller call, close() run,
\* the Worker fail, or the download of the module end.
Fairness ==
    /\ WF_vars(Receive)
    /\ WF_vars(ErrorListener)
    /\ WF_vars(Dispatch)
    /\ WF_vars(Handle)

FairSpec == Spec /\ Fairness

-----------------------------------------------------------------------------
(* Properties.                                                             *)

\* A call is only ever settled by the reply to a request of its own, whatever
\* else is in flight and whatever close() or the error event discarded.
AnswersReachTheirCaller ==
    \A c \in Calls : phase[c] \in {"resolved", "rejected"} => answer[c] = c

\* The runtime applies requests in the order the page posted them, each at
\* most once, whether they waited for the bridge or not.
AppliedInPostingOrder ==
    \A i, j \in DOMAIN applied :
        i < j => applied[i].request.id < applied[j].request.id

\* Neither requests nor replies are mixed up between the page and the runtime.
MessagesKeepTheirOrder == AnswersReachTheirCaller /\ AppliedInPostingOrder

\* An edit carries a revision and no project identity, and revisions repeat
\* across projects.  It still only lands on the project its caller was shown,
\* unless the caller posted it while an open, an import or a closeProject of
\* its own was unanswered.
EditsLandWhereTheCallerLooked ==
    \A i \in DOMAIN applied :
        LET a == applied[i] IN
        a.request.kind = "edit" /\ ~a.request.racing => a.before = a.request.aim

\* A call that rejects while the Worker is alive and the client open, because
\* of an error reply or of an import's `validate`, has changed nothing.
RefusalsChangeNothing ==
    \A i \in DOMAIN applied :
        LET c == applied[i].request.call IN
        phase[c] = "rejected" => worker = "stopped"

\* A call made before close() and before the Worker's error event settles
\* once the module's download is decided: by its reply, by the catch block, by
\* the error event or by close().
EveryCallSettles ==
    \A c \in Calls :
        (phase[c] = "waiting" /\ c \notin late /\ bridge # "loading")
            ~> (phase[c] \in {"resolved", "rejected"})
=============================================================================

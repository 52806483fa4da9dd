------------------------- MODULE WorkerClientProofs -------------------------
(***************************************************************************)
(* Proofs about WorkerClient: every answer reaches the call that asked,    *)
(* requests are applied in the order they were posted, an edit lands on    *)
(* the project its caller was shown, and a refused call changes nothing.   *)
(***************************************************************************)
EXTENDS WorkerClient, Functions, TLAPS

-----------------------------------------------------------------------------
(* The inductive invariant.                                                *)

InFlight == Range(replies) \union Range(awaiting) \union Range(requests)
Posted == Range(awaiting) \union Range(requests)

WorkerStates == {"running", "stopped"}
BridgeStates == {"loading", "ready", "failed"}
Application == [request : Request, before : Held]

TypeOK ==
    /\ nextId \in Nat
    /\ pending \in [DOMAIN pending -> Calls]
    /\ phase \in [Calls -> Phase]
    /\ answer \in [Calls -> Calls]
    /\ seen \in Held
    /\ closed \in BOOLEAN /\ failed \in BOOLEAN /\ errorEvent \in BOOLEAN /\ trapped \in BOOLEAN
    /\ requests \in Seq(Request) /\ awaiting \in Seq(Request)
    /\ replies \in Seq(Reply)
    /\ worker \in WorkerStates /\ bridge \in BridgeStates
    /\ runtime \in Held
    /\ applied \in Seq(Application)

Ascending(queue) == \A i, j \in DOMAIN queue : i < j => queue[i].id < queue[j].id
Precede(earlier, later) == \A m \in earlier, n \in later : m.id < n.id

\* Ids grow from what was applied over the replies and the handlers to the
\* requests, and from the oldest to the youngest of each.
OrderInv ==
    /\ Ascending(replies) /\ Ascending(awaiting) /\ Ascending(requests)
    /\ Precede(Range(replies), Posted) /\ Precede(Range(awaiting), Range(requests))
    /\ \A m \in InFlight : m.id < nextId
    /\ AppliedInPostingOrder
    /\ \A a \in Range(applied) : a.request.id < nextId /\ \A m \in Posted : a.request.id < m.id

\* A message belongs to the call that waits under its id.
CallerInv ==
    /\ \A m \in InFlight : m.id \in DOMAIN pending => pending[m.id] = m.call
    /\ \A m \in InFlight : m.kind = "edit" \/ Replaces(m.call)
    /\ \A c \in Calls : answer[c] = c

\* While the Worker runs, each message has a call that waits for it alone.
LiveInv ==
    worker = "running" =>
        /\ ~errorEvent /\ ~closed
        /\ \A m \in InFlight : m.id \in DOMAIN pending /\ phase[m.call] = "waiting"
        /\ \A m, n \in InFlight : m.call = n.call => m.id = n.id

Occurrence(held) == IF held = NoProject THEN NoProject ELSE held.occurrence

\* The requests that replace the project, the answers that tell of a project,
\* and those that tell of a new one.
Replacing == {"open", "install", "close_project"}
Tells(reply) == reply.ok /\ reply.kind # "preview"
Switches(reply) == reply.ok /\ reply.kind \in Replacing

\* What the page will have been shown once it has read every reply is the
\* project that is held.
RepliesTell ==
    /\ (\A m \in Range(replies) : ~Switches(m)) => Occurrence(seen) = Occurrence(runtime)
    /\ \A m \in Range(replies) :
          Tells(m) /\ (\A n \in Range(replies) : Switches(n) => n.id <= m.id) =>
              Occurrence(m.project) = Occurrence(runtime)

\* An edit that was posted when nothing could replace the project is aimed at
\* the one that is held.
EditsAimed ==
    /\ \A m, n \in Posted : m.id < n.id /\ m.kind \in Replacing /\ n.kind = "edit" => n.racing
    /\ \A n \in Posted : n.kind = "edit" /\ ~n.racing => Occurrence(n.aim) = Occurrence(runtime)

ShownInv == worker = "running" => RepliesTell /\ EditsAimed

\* While the Worker runs, the call of an applied request has resolved, or waits
\* and has only the reply that resolves it before it.
AppliedInv ==
    worker = "running" =>
        \A a \in Range(applied) :
            /\ phase[a.request.call] \in {"waiting", "resolved"}
            /\ \A m \in Posted : m.call # a.request.call
            /\ \A m \in Range(replies) : m.call = a.request.call => Tells(m)

TransportInv ==
    /\ TypeOK /\ OrderInv /\ CallerInv /\ LiveInv /\ ShownInv /\ AppliedInv
    /\ EditsLandWhereTheCallerLooked

-----------------------------------------------------------------------------
(* Queues.                                                                 *)

\* What a queue holds after a message was added: those before and the new one,
\* in order if the new one has the greatest id.
LEMMA AppendedQueue ==
    ASSUME NEW S, NEW queue \in Seq(S), NEW m \in S
    PROVE  /\ Append(queue, m) \in Seq(S)
           /\ Range(Append(queue, m)) = Range(queue) \union {m}
           /\ Ascending(queue) /\ (\A n \in Range(queue) : n.id < m.id) => Ascending(Append(queue, m))
<1>1. /\ Append(queue, m) \in Seq(S)
      /\ DOMAIN Append(queue, m) = DOMAIN queue \union {Len(queue) + 1}
      /\ \A i \in DOMAIN queue : Append(queue, m)[i] = queue[i]
      /\ Append(queue, m)[Len(queue) + 1] = m
      /\ \A i \in DOMAIN queue : i < Len(queue) + 1
      /\ DOMAIN queue = 1 .. Len(queue) /\ Len(queue) \in Nat
  OBVIOUS
<1>2. Range(Append(queue, m)) = Range(queue) \union {m}
  BY <1>1 DEF Range
<1>3. ASSUME Ascending(queue), \A n \in Range(queue) : n.id < m.id
      PROVE  Ascending(Append(queue, m))
  BY <1>1, <1>3 DEF Ascending, Range
<1> QED BY <1>1, <1>2, <1>3

\* What a queue holds after its head was taken: those behind it, in order.
LEMMA TakenQueue ==
    ASSUME NEW S, NEW queue \in Seq(S), queue # <<>>
    PROVE  /\ Head(queue) \in S /\ Tail(queue) \in Seq(S)
           /\ Range(queue) = Range(Tail(queue)) \union {Head(queue)}
           /\ Ascending(queue) =>
                 Ascending(Tail(queue)) /\ \A m \in Range(Tail(queue)) : Head(queue).id < m.id
<1>1. /\ Head(queue) \in S /\ Tail(queue) \in Seq(S)
      /\ Head(queue) = queue[1]
      /\ DOMAIN queue = 1 .. Len(queue) /\ Len(queue) \in Nat \ {0}
      /\ DOMAIN Tail(queue) = 1 .. Len(queue) - 1
      /\ \A i \in DOMAIN Tail(queue) : Tail(queue)[i] = queue[i + 1]
  OBVIOUS
<1>2. Range(queue) = Range(Tail(queue)) \union {Head(queue)}
  <2>1. ASSUME NEW i \in DOMAIN queue PROVE queue[i] \in Range(Tail(queue)) \union {Head(queue)}
    <3>1. CASE i = 1 BY <3>1, <1>1
    <3>2. CASE i # 1
      <4>1. i - 1 \in DOMAIN Tail(queue) /\ Tail(queue)[i - 1] = queue[i] BY <3>2, <1>1
      <4> QED BY <4>1 DEF Range
    <3> QED BY <3>1, <3>2
  <2>2. ASSUME NEW i \in DOMAIN Tail(queue) PROVE Tail(queue)[i] \in Range(queue)
    <3>1. i + 1 \in DOMAIN queue BY <1>1
    <3> QED BY <3>1, <1>1 DEF Range
  <2>3. Head(queue) \in Range(queue) BY <1>1 DEF Range
  <2> QED BY <2>1, <2>2, <2>3 DEF Range
<1>3. ASSUME Ascending(queue) PROVE Ascending(Tail(queue))
  <2> SUFFICES ASSUME NEW i \in DOMAIN Tail(queue), NEW j \in DOMAIN Tail(queue), i < j
               PROVE  Tail(queue)[i].id < Tail(queue)[j].id
    BY DEF Ascending
  <2>1. i + 1 \in DOMAIN queue /\ j + 1 \in DOMAIN queue /\ i + 1 < j + 1 BY <1>1
  <2> QED BY <2>1, <1>1, <1>3 DEF Ascending
<1>4. ASSUME Ascending(queue), NEW i \in DOMAIN Tail(queue) PROVE Head(queue).id < Tail(queue)[i].id
  <2>1. 1 \in DOMAIN queue /\ i + 1 \in DOMAIN queue /\ 1 < i + 1 BY <1>1
  <2> QED BY <2>1, <1>1, <1>4 DEF Ascending
<1> QED BY <1>1, <1>2, <1>3, <1>4 DEF Range

\* An empty queue holds nothing.
LEMMA EmptyQueue == Range(<<>>) = {} /\ Ascending(<<>>)
  BY DEF Range, Ascending

\* What a queue holds is of its type.
LEMMA QueueTypes ==
    ASSUME TypeOK
    PROVE  /\ Range(replies) \subseteq Reply
           /\ Range(awaiting) \subseteq Request /\ Range(requests) \subseteq Request
           /\ Range(applied) \subseteq Application
  BY DEF TypeOK, Range

-----------------------------------------------------------------------------
(* Types.                                                                  *)

LEMMA InitTypeOK == Init => TypeOK
<1> SUFFICES ASSUME Init PROVE TypeOK OBVIOUS
<1>1. <<>> \in Seq(Request) /\ <<>> \in Seq(Reply) /\ <<>> \in Seq(Application) OBVIOUS
<1>2. [i \in {} |-> NoProject] \in [DOMAIN [i \in {} |-> NoProject] -> Calls] OBVIOUS
<1> QED BY <1>1, <1>2 DEF Init, TypeOK, Held, Phase, WorkerStates, BridgeStates

LEMMA SendTypes ==
    ASSUME TypeOK, NEW c \in Calls, NEW kind \in RequestKind, NEW stillPending,
           stillPending \in [DOMAIN stillPending -> Calls], Send(c, kind, stillPending)
    PROVE  nextId' \in Nat /\ pending' \in [DOMAIN pending' -> Calls] /\ requests' \in Seq(Request)
<1>1. nextId' \in Nat BY DEF Send, ClaimId, TypeOK
<1>2. pending' \in [DOMAIN pending' -> Calls] BY DEF Send, ClaimId
<1>3. [id |-> nextId, call |-> c, kind |-> kind, aim |-> seen, racing |-> ReplacementWaiting] \in Request
  BY DEF Request, TypeOK, ReplacementWaiting
<1>4. requests' \in Seq(Request) BY <1>3, AppendedQueue DEF Send, ClaimId, TypeOK
<1> QED BY <1>1, <1>2, <1>4

\* What the steps that read a reply, start a handler or end one leave in the
\* queues.
LEMMA ReadTypes ==
    ASSUME TypeOK, replies # <<>>
    PROVE  Head(replies) \in Reply /\ Tail(replies) \in Seq(Reply)
  BY TakenQueue DEF TypeOK

LEMMA HandlerTypes ==
    ASSUME TypeOK, awaiting # <<>>
    PROVE  Resumed \in Request /\ StillAwaiting \in Seq(Request)
  BY TakenQueue DEF TypeOK, Resumed, StillAwaiting, Resume

LEMMA AnswerTypes ==
    ASSUME TypeOK, awaiting # <<>>, NEW ok \in BOOLEAN, NEW held \in Held, Answer(Resumed, ok, held)
    PROVE  replies' \in Seq(Reply)
<1>1. Resumed \in Request BY HandlerTypes
<1>2. [id |-> Resumed.id, call |-> Resumed.call, kind |-> Resumed.kind, ok |-> ok, project |-> held] \in Reply
  BY <1>1 DEF Request, Reply
<1> QED BY <1>2, AppendedQueue DEF Answer, TypeOK

LEMMA EffectType ==
    ASSUME TypeOK, awaiting # <<>>, Admitted(Resumed)
    PROVE  Effect(Resumed) \in Held
<1>1. Resumed \in Request BY HandlerTypes
<1>2. CASE Resumed.kind = "edit"
  <2>1. runtime \in Project BY <1>2 DEF Admitted, TypeOK, Held
  <2> QED BY <1>2, <2>1 DEF Effect, Held, Project
<1>3. CASE Resumed.kind \in {"open", "install"} BY <1>1, <1>3 DEF Effect, Held, Project, Request
<1>4. CASE Resumed.kind \in {"preview", "close_project"} BY <1>4 DEF Effect, TypeOK, Held
<1> QED BY <1>1, <1>2, <1>3, <1>4 DEF Request, RequestKind

LEMMA NextTypeOK == TypeOK /\ [Next]_vars => TypeOK'
<1> SUFFICES ASSUME TypeOK, [Next]_vars PROVE TypeOK' OBVIOUS
<1> USE DEF pageVars, workerVars
<1>1. ASSUME NEW c \in Calls, Call(c) PROVE TypeOK'
  <2>1. FirstKind(c) \in RequestKind BY DEF FirstKind, RequestKind
  <2>2. nextId' \in Nat /\ pending' \in [DOMAIN pending' -> Calls] /\ requests' \in Seq(Request)
    BY <1>1, <2>1, SendTypes DEF Call, TypeOK
  <2> QED BY <1>1, <2>2 DEF Call, TypeOK, Phase
<1>2. ASSUME NEW c \in Opens, PostThrows(c) PROVE TypeOK'
  <2>1. c \in Calls BY DEF Calls
  <2>2. pending' \in [DOMAIN pending' -> Calls] BY <1>2, <2>1 DEF PostThrows, TypeOK, ClaimId
  <2> QED BY <1>2, <2>1, <2>2 DEF PostThrows, TypeOK, Phase, ClaimId
<1>3. CASE IgnoreReply BY <1>3, ReadTypes DEF IgnoreReply, TypeOK
<1>4. CASE SettleCall
  <2>1. Head(replies) \in Reply /\ Tail(replies) \in Seq(Reply) BY <1>4, ReadTypes DEF SettleCall
  <2>2. pending[Head(replies).id] \in Calls BY <1>4 DEF SettleCall, Unclaimed, TypeOK
  <2>3. pending' \in [DOMAIN pending' -> Calls] BY <1>4 DEF SettleCall, Settled, TypeOK
  <2> QED BY <1>4, <2>1, <2>2, <2>3 DEF SettleCall, TypeOK, Phase, Reply
<1>5. CASE RefusePreview
  <2>1. Head(replies) \in Reply /\ Tail(replies) \in Seq(Reply) BY <1>5, ReadTypes DEF RefusePreview
  <2>2. pending[Head(replies).id] \in Calls BY <1>5 DEF RefusePreview, Unclaimed, TypeOK
  <2>3. pending' \in [DOMAIN pending' -> Calls] BY <1>5 DEF RefusePreview, Settled, TypeOK
  <2> QED BY <1>5, <2>1, <2>2, <2>3 DEF RefusePreview, TypeOK, Phase, Reply
<1>6. CASE AcceptPreview
  <2>1. Tail(replies) \in Seq(Reply) BY <1>6, ReadTypes DEF AcceptPreview
  <2>2. pending[Head(replies).id] \in Calls BY <1>6 DEF AcceptPreview, Unclaimed, TypeOK
  <2>3. Settled(Head(replies)) \in [DOMAIN Settled(Head(replies)) -> Calls] BY DEF Settled, TypeOK
  <2>4. nextId' \in Nat /\ pending' \in [DOMAIN pending' -> Calls] /\ requests' \in Seq(Request)
    BY <1>6, <2>2, <2>3, SendTypes DEF AcceptPreview, RequestKind
  <2> QED BY <1>6, <2>1, <2>4 DEF AcceptPreview, TypeOK
<1>7. CASE ErrorListener BY <1>7 DEF ErrorListener, RejectPending, TypeOK, Phase
<1>8. CASE Close
  <2>1. <<>> \in Seq(Request) OBVIOUS
  <2> QED BY <1>8, <2>1 DEF Close, RejectPending, TypeOK, Phase, WorkerStates
<1>9. CASE WorkerStops BY <1>9 DEF WorkerStops, TypeOK, WorkerStates
<1>10. CASE BridgeSettles BY <1>10 DEF BridgeSettles, TypeOK, BridgeStates
<1>11. CASE Dispatch
  <2>1. Head(requests) \in Request /\ Tail(requests) \in Seq(Request) BY <1>11, TakenQueue DEF Dispatch, TypeOK
  <2>2. awaiting' \in Seq(Request) BY <1>11, <2>1, AppendedQueue DEF Dispatch, TypeOK
  <2> QED BY <1>11, <2>1, <2>2 DEF Dispatch, TypeOK
<1>12. CASE HandleAccepted
  <2>1. runtime' \in Held BY <1>12, EffectType DEF HandleAccepted
  <2>2. replies' \in Seq(Reply) BY <1>12, <2>1, AnswerTypes DEF HandleAccepted
  <2>3. Resumed \in Request /\ StillAwaiting \in Seq(Request) BY <1>12, HandlerTypes DEF HandleAccepted
  <2>4. [request |-> Resumed, before |-> runtime] \in Application BY <2>3 DEF Application, TypeOK
  <2>5. applied' \in Seq(Application) BY <1>12, <2>4, AppendedQueue DEF HandleAccepted, TypeOK
  <2> QED BY <1>12, <2>1, <2>2, <2>3, <2>5 DEF HandleAccepted, TypeOK
<1>13. CASE HandleRefused
  <2>1. replies' \in Seq(Reply) BY <1>13, AnswerTypes DEF HandleRefused, TypeOK
  <2> QED BY <1>13, <2>1, HandlerTypes DEF HandleRefused, TypeOK
<1>14. CASE CatchFailure
  <2>1. NoProject \in Held BY DEF Held
  <2>2. replies' \in Seq(Reply) BY <1>14, <2>1, AnswerTypes DEF CatchFailure
  <2> QED BY <1>14, <2>2, HandlerTypes DEF CatchFailure, TypeOK
<1>15. CASE UNCHANGED vars BY <1>15 DEF vars, TypeOK
<1> QED BY <1>1, <1>2, <1>3, <1>4, <1>5, <1>6, <1>7, <1>8, <1>9, <1>10, <1>11, <1>12, <1>13, <1>14, <1>15
        DEF Next, Receive, Handle

-----------------------------------------------------------------------------
(* What the steps do to the queues.                                        *)

\* The request that Send posts, and the reply that Answer posts.
NewRequest(c, kind) ==
    [id |-> nextId, call |-> c, kind |-> kind, aim |-> seen, racing |-> ReplacementWaiting]
NewReply(ok, held) ==
    [id |-> Resumed.id, call |-> Resumed.call, kind |-> Resumed.kind, ok |-> ok, project |-> held]

LEMMA SendQueues ==
    ASSUME TypeOK, OrderInv, NEW c \in Calls, NEW kind \in RequestKind, NEW stillPending,
           Send(c, kind, stillPending)
    PROVE  /\ nextId' = nextId + 1
           /\ closed => requests' = requests
           /\ ~closed => Range(requests') = Range(requests) \union {NewRequest(c, kind)}
           /\ Ascending(requests')
<1>1. NewRequest(c, kind) \in Request BY DEF NewRequest, Request, TypeOK, ReplacementWaiting
<1>2. \A m \in Range(requests) : m.id < NewRequest(c, kind).id BY DEF OrderInv, InFlight, NewRequest
<1>3. ~closed => requests' = Append(requests, NewRequest(c, kind)) BY DEF Send, ClaimId, NewRequest
<1>4. Ascending(requests) BY DEF OrderInv
<1> QED BY <1>1, <1>2, <1>3, <1>4, AppendedQueue DEF Send, ClaimId, TypeOK

LEMMA ReadQueues ==
    ASSUME TypeOK, OrderInv, replies # <<>>, replies' = Tail(replies)
    PROVE  /\ Range(replies) = Range(replies') \union {Head(replies)}
           /\ Ascending(replies')
           /\ \A m \in Range(replies') : Head(replies).id < m.id
  BY TakenQueue DEF TypeOK, OrderInv

LEMMA HandleQueues ==
    ASSUME TypeOK, OrderInv, awaiting # <<>>, awaiting' = StillAwaiting, requests' = requests,
           NEW ok \in BOOLEAN, NEW held \in Held, Answer(Resumed, ok, held)
    PROVE  /\ Range(replies') = Range(replies) \union {NewReply(ok, held)}
           /\ Range(awaiting) = Range(awaiting') \union {Resumed}
           /\ Ascending(replies') /\ Ascending(awaiting')
           /\ \A m \in Posted' : Resumed.id < m.id
<1>1. Resumed \in Request BY HandlerTypes
<1>2. NewReply(ok, held) \in Reply BY <1>1 DEF NewReply, Request, Reply
<1>3. Resumed = Head(awaiting) /\ StillAwaiting = Tail(awaiting) BY DEF Resumed, StillAwaiting, Resume
<1>4. /\ Range(awaiting) = Range(awaiting') \union {Resumed}
      /\ Ascending(awaiting')
      /\ \A m \in Range(awaiting') : Resumed.id < m.id
  BY <1>3, TakenQueue DEF TypeOK, OrderInv
<1>5. replies' = Append(replies, NewReply(ok, held)) BY DEF Answer, NewReply
<1>6. \A m \in Range(replies) : m.id < NewReply(ok, held).id
  BY <1>4 DEF OrderInv, Precede, Posted, NewReply
<1>7. Range(replies') = Range(replies) \union {NewReply(ok, held)} /\ Ascending(replies')
  BY <1>2, <1>5, <1>6, AppendedQueue DEF TypeOK, OrderInv
<1>8. \A m \in Posted' : Resumed.id < m.id BY <1>4 DEF OrderInv, Precede, Posted
<1> QED BY <1>4, <1>7, <1>8

LEMMA DispatchQueues ==
    ASSUME TypeOK, OrderInv, Dispatch
    PROVE  /\ Range(requests) = Range(requests') \union {Head(requests)}
           /\ Range(awaiting') = Range(awaiting) \union {Head(requests)}
           /\ Ascending(requests') /\ Ascending(awaiting')
           /\ \A m \in Range(requests') : Head(requests).id < m.id
<1>1. /\ Head(requests) \in Request
      /\ Range(requests) = Range(requests') \union {Head(requests)}
      /\ Ascending(requests')
      /\ \A m \in Range(requests') : Head(requests).id < m.id
  BY TakenQueue DEF TypeOK, OrderInv, Dispatch
<1>2. \A m \in Range(awaiting) : m.id < Head(requests).id BY <1>1 DEF OrderInv, Precede
<1>3. Range(awaiting') = Range(awaiting) \union {Head(requests)} /\ Ascending(awaiting')
  BY <1>1, <1>2, AppendedQueue DEF TypeOK, OrderInv, Dispatch
<1> QED BY <1>1, <1>3

-----------------------------------------------------------------------------
(* The order of messages.                                                  *)

\* A request that is applied has the greatest id of those applied.
LEMMA AppliedOrder ==
    ASSUME TypeOK, OrderInv, awaiting # <<>>,
           applied' = Append(applied, [request |-> Resumed, before |-> runtime])
    PROVE  /\ Range(applied') = Range(applied) \union {[request |-> Resumed, before |-> runtime]}
           /\ AppliedInPostingOrder'
<1> DEFINE new == [request |-> Resumed, before |-> runtime]
<1>1. Resumed \in Request /\ Resumed \in Posted
  BY HandlerTypes, TakenQueue DEF TypeOK, Resumed, Resume, Posted
<1>2. new \in Application BY <1>1 DEF Application, TypeOK
<1>3. Range(applied') = Range(applied) \union {new} BY <1>2, AppendedQueue DEF TypeOK
<1>4. \A i \in DOMAIN applied : applied[i].request.id < new.request.id BY <1>1 DEF OrderInv, Range
<1>5. /\ \A i \in DOMAIN applied' :
            \/ i \in DOMAIN applied /\ applied'[i] = applied[i]
            \/ i = Len(applied) + 1 /\ applied'[i] = new
      /\ \A i \in DOMAIN applied : i \in Nat /\ i < Len(applied) + 1
      /\ Len(applied) \in Nat
  BY <1>2 DEF TypeOK
<1>6. AppliedInPostingOrder'
  <2> SUFFICES ASSUME NEW i \in DOMAIN applied', NEW j \in DOMAIN applied', i < j
               PROVE  applied'[i].request.id < applied'[j].request.id
    BY DEF AppliedInPostingOrder
  <2>1. CASE j \in DOMAIN applied /\ applied'[j] = applied[j]
    <3>1. i \in DOMAIN applied /\ applied'[i] = applied[i] BY <1>5, <2>1
    <3> QED BY <2>1, <3>1 DEF OrderInv, AppliedInPostingOrder
  <2>2. CASE j = Len(applied) + 1 /\ applied'[j] = new
    <3>1. i \in DOMAIN applied /\ applied'[i] = applied[i] BY <1>5, <2>2
    <3> QED BY <1>4, <2>2, <3>1
  <2> QED BY <1>5, <2>1, <2>2
<1> QED BY <1>3, <1>6

LEMMA NextOrderInv == TypeOK /\ OrderInv /\ [Next]_vars => OrderInv'
<1> SUFFICES ASSUME TypeOK, OrderInv, [Next]_vars PROVE OrderInv' OBVIOUS
<1> USE DEF pageVars, workerVars
<1>1. nextId \in Nat /\ Range(replies) \subseteq Reply /\ Range(awaiting) \subseteq Request /\ Range(requests) \subseteq Request
      /\ Range(applied) \subseteq Application
  BY QueueTypes DEF TypeOK
<1>2. \A m \in InFlight : m.id \in Nat BY <1>1 DEF InFlight, Reply, Request
<1>3. \A a \in Range(applied) : a.request.id \in Nat BY <1>1 DEF Application, Request
<1>4. ASSUME NEW c \in Calls, NEW kind \in RequestKind, NEW stillPending, Send(c, kind, stillPending),
             Range(replies') \subseteq Range(replies), Ascending(replies'), UNCHANGED <<awaiting, applied>>
      PROVE  OrderInv'
  <2>1. /\ nextId' = nextId + 1
        /\ Range(requests') \subseteq Range(requests) \union {NewRequest(c, kind)}
        /\ Ascending(requests')
    BY <1>4, SendQueues
  <2>2. NewRequest(c, kind).id = nextId BY DEF NewRequest
  <2>3. \A m \in InFlight' : m \in InFlight \/ m.id = nextId BY <1>4, <2>1, <2>2 DEF InFlight
  <2>4. Precede(Range(replies), Posted)' /\ Precede(Range(awaiting), Range(requests))'
    BY <1>4, <2>1, <2>2 DEF OrderInv, Precede, Posted, InFlight
  <2>5. \A m \in InFlight' : m.id < nextId' BY <1>1, <1>2, <2>1, <2>3 DEF OrderInv
  <2>6. \A a \in Range(applied') : a.request.id < nextId' /\ \A m \in Posted' : a.request.id < m.id
    BY <1>1, <1>3, <1>4, <2>1, <2>2 DEF OrderInv, Posted
  <2> QED BY <1>4, <2>1, <2>4, <2>5, <2>6 DEF OrderInv, AppliedInPostingOrder
<1>5. ASSUME Range(replies') \subseteq Range(replies), Ascending(replies'), nextId' \in {nextId, nextId + 1},
             requests' \in {requests, <<>>}, awaiting' \in {awaiting, <<>>}, UNCHANGED applied
      PROVE  OrderInv'
  <2>1. Posted' \subseteq Posted /\ InFlight' \subseteq InFlight BY <1>5, EmptyQueue DEF Posted, InFlight
  <2>2. Ascending(awaiting)' /\ Ascending(requests)' BY <1>5, EmptyQueue DEF OrderInv
  <2>3. Precede(Range(replies), Posted)' /\ Precede(Range(awaiting), Range(requests))'
    BY <1>5, <2>1, EmptyQueue DEF OrderInv, Precede
  <2>4. \A m \in InFlight' : m.id < nextId' BY <1>1, <1>2, <1>5, <2>1 DEF OrderInv
  <2>5. \A a \in Range(applied') : a.request.id < nextId' /\ \A m \in Posted' : a.request.id < m.id
    BY <1>1, <1>3, <1>5, <2>1 DEF OrderInv
  <2> QED BY <1>5, <2>2, <2>3, <2>4, <2>5 DEF OrderInv, AppliedInPostingOrder
<1>6. ASSUME awaiting # <<>>, awaiting' = StillAwaiting, UNCHANGED <<requests, nextId>>,
             NEW ok \in BOOLEAN, NEW held \in Held, Answer(Resumed, ok, held),
             \/ applied' = applied
             \/ applied' = Append(applied, [request |-> Resumed, before |-> runtime])
      PROVE  OrderInv'
  <2>1. /\ Range(replies') = Range(replies) \union {NewReply(ok, held)}
        /\ Range(awaiting) = Range(awaiting') \union {Resumed}
        /\ Ascending(replies') /\ Ascending(awaiting')
        /\ \A m \in Posted' : Resumed.id < m.id
    BY <1>6, HandleQueues
  <2>2. NewReply(ok, held).id = Resumed.id BY DEF NewReply
  <2>3. Posted' \subseteq Posted /\ Resumed \in Posted BY <1>6, <2>1 DEF Posted
  <2>4. Precede(Range(replies), Posted)' BY <2>1, <2>2, <2>3 DEF OrderInv, Precede
  <2>5. Precede(Range(awaiting), Range(requests))' BY <1>6, <2>1 DEF OrderInv, Precede
  <2>6. \A m \in InFlight' : m.id < nextId' BY <1>6, <2>1, <2>2 DEF OrderInv, InFlight
  <2>7. AppliedInPostingOrder' /\ Range(applied') \subseteq Range(applied) \union {[request |-> Resumed, before |-> runtime]}
    BY <1>6, AppliedOrder DEF OrderInv, AppliedInPostingOrder
  <2>8. \A a \in Range(applied') : a.request.id < nextId' /\ \A m \in Posted' : a.request.id < m.id
    <3>1. ASSUME NEW a \in Range(applied') PROVE a \in Range(applied) \/ a.request = Resumed BY <2>7
    <3>2. Resumed.id < nextId BY <2>1 DEF OrderInv, InFlight
    <3> QED BY <1>6, <2>1, <2>3, <3>1, <3>2 DEF OrderInv
  <2> QED BY <1>6, <2>1, <2>4, <2>5, <2>6, <2>7, <2>8 DEF OrderInv
<1>7. ASSUME NEW c \in Calls, Call(c) PROVE OrderInv'
  <2>1. FirstKind(c) \in RequestKind BY DEF FirstKind, RequestKind
  <2> QED BY <1>4, <1>7, <2>1 DEF Call, OrderInv
<1>8. ASSUME NEW c \in Opens, PostThrows(c) PROVE OrderInv'
  BY <1>5, <1>8 DEF PostThrows, ClaimId, OrderInv
<1>9. ASSUME replies # <<>>, replies' = Tail(replies)
      PROVE  Range(replies') \subseteq Range(replies) /\ Ascending(replies')
  BY <1>9, ReadQueues
<1>10. CASE IgnoreReply BY <1>5, <1>9, <1>10 DEF IgnoreReply
<1>11. CASE SettleCall BY <1>5, <1>9, <1>11 DEF SettleCall
<1>12. CASE RefusePreview BY <1>5, <1>9, <1>12 DEF RefusePreview
<1>13. CASE AcceptPreview
  <2>1. pending[Head(replies).id] \in Calls BY <1>13 DEF AcceptPreview, Unclaimed, TypeOK
  <2>2. "install" \in RequestKind BY DEF RequestKind
  <2> QED BY <1>4, <1>9, <1>13, <2>1, <2>2 DEF AcceptPreview
<1>14. CASE ErrorListener BY <1>5, <1>14 DEF ErrorListener, OrderInv
<1>15. CASE Close BY <1>5, <1>15 DEF Close, OrderInv
<1>16. CASE WorkerStops BY <1>5, <1>16 DEF WorkerStops, OrderInv
<1>17. CASE BridgeSettles BY <1>5, <1>17 DEF BridgeSettles, OrderInv
<1>18. CASE Dispatch
  <2>1. /\ Range(requests) = Range(requests') \union {Head(requests)}
        /\ Range(awaiting') = Range(awaiting) \union {Head(requests)}
        /\ Ascending(requests') /\ Ascending(awaiting')
        /\ \A m \in Range(requests') : Head(requests).id < m.id
    BY <1>18, DispatchQueues
  <2>2. UNCHANGED <<nextId, replies, applied>> BY <1>18 DEF Dispatch
  <2>3. Posted' = Posted /\ InFlight' = InFlight BY <2>1, <2>2 DEF Posted, InFlight
  <2>4. Precede(Range(awaiting), Range(requests))' BY <2>1 DEF OrderInv, Precede
  <2> QED BY <2>1, <2>2, <2>3, <2>4 DEF OrderInv, Precede, AppliedInPostingOrder
<1>19. CASE HandleAccepted
  <2>1. runtime' \in Held BY <1>19, EffectType DEF HandleAccepted
  <2> QED BY <1>6, <1>19, <2>1 DEF HandleAccepted
<1>20. CASE HandleRefused BY <1>6, <1>20 DEF HandleRefused, TypeOK
<1>21. CASE CatchFailure
  <2>1. NoProject \in Held BY DEF Held
  <2> QED BY <1>6, <1>21, <2>1 DEF CatchFailure
<1>22. CASE UNCHANGED vars BY <1>5, <1>22 DEF vars, OrderInv
<1> QED BY <1>7, <1>8, <1>10, <1>11, <1>12, <1>13, <1>14, <1>15, <1>16, <1>17, <1>18, <1>19, <1>20, <1>21, <1>22
        DEF Next, Receive, Handle

-----------------------------------------------------------------------------
(* Whose messages they are.                                                *)

\* What Send adds to the ids that are pending, and leaves alone.
LEMMA SendPending ==
    ASSUME NEW c \in Calls, NEW kind, NEW stillPending, Send(c, kind, stillPending)
    PROVE  /\ DOMAIN pending' = DOMAIN stillPending \union {nextId} /\ pending'[nextId] = c
           /\ \A i \in DOMAIN stillPending : i # nextId => pending'[i] = stillPending[i]
  BY DEF Send, ClaimId

LEMMA NextCallerInv == TypeOK /\ OrderInv /\ CallerInv /\ [Next]_vars => CallerInv'
<1> SUFFICES ASSUME TypeOK, OrderInv, CallerInv, [Next]_vars PROVE CallerInv' OBVIOUS
<1> USE DEF pageVars, workerVars
<1>1. nextId \in Nat /\ \A m \in InFlight : m.id < nextId /\ m.id # nextId
  <2>1. \A m \in InFlight : m.id \in Nat BY QueueTypes DEF InFlight, Reply, Request
  <2> QED BY <2>1 DEF TypeOK, OrderInv
<1>2. ASSUME NEW c \in Calls, NEW kind \in RequestKind, NEW stillPending, Send(c, kind, stillPending),
             \A i \in DOMAIN stillPending : i \in DOMAIN pending /\ stillPending[i] = pending[i],
             kind = "edit" \/ Replaces(c),
             Range(replies') \subseteq Range(replies), UNCHANGED <<awaiting, answer>>
      PROVE  CallerInv'
  <2>1. Range(requests') \subseteq Range(requests) \union {NewRequest(c, kind)} BY <1>2, SendQueues
  <2>2. \A m \in InFlight' : m \in InFlight \/ m = NewRequest(c, kind) BY <1>2, <2>1 DEF InFlight
  <2>3. ASSUME NEW m \in InFlight
        PROVE  (m.id \in DOMAIN pending' => pending'[m.id] = m.call) /\ (m.kind = "edit" \/ Replaces(m.call))
    <3>1. m.id \in DOMAIN pending' => m.id \in DOMAIN stillPending /\ pending'[m.id] = stillPending[m.id]
      BY <1>1, <1>2, SendPending
    <3> QED BY <1>2, <3>1 DEF CallerInv
  <2>4. LET m == NewRequest(c, kind)
        IN  (m.id \in DOMAIN pending' => pending'[m.id] = m.call) /\ (m.kind = "edit" \/ Replaces(m.call))
    BY <1>2, SendPending DEF NewRequest
  <2> QED BY <1>2, <2>2, <2>3, <2>4 DEF CallerInv, Replaces
<1>3. ASSUME InFlight' \subseteq InFlight, \A c \in Calls : answer'[c] = c,
             \A i \in DOMAIN pending' : i # nextId => i \in DOMAIN pending /\ pending'[i] = pending[i]
      PROVE  CallerInv'
  BY <1>1, <1>3 DEF CallerInv, Replaces
<1>4. ASSUME awaiting # <<>>, awaiting' = StillAwaiting, UNCHANGED <<requests, pageVars>>,
             NEW ok \in BOOLEAN, NEW held \in Held, Answer(Resumed, ok, held)
      PROVE  CallerInv'
  <2>1. /\ Range(replies') = Range(replies) \union {NewReply(ok, held)}
        /\ Range(awaiting) = Range(awaiting') \union {Resumed}
    BY <1>4, HandleQueues
  <2>2. \A m \in InFlight' : m \in InFlight \/ m = NewReply(ok, held) BY <1>4, <2>1 DEF InFlight
  <2>3. Resumed \in InFlight BY <2>1 DEF InFlight
  <2>4. LET m == NewReply(ok, held)
        IN  m.id = Resumed.id /\ m.call = Resumed.call /\ m.kind = Resumed.kind
    BY DEF NewReply
  <2> QED BY <1>4, <2>2, <2>3, <2>4 DEF CallerInv, Replaces
<1>5. ASSUME replies # <<>>, replies' = Tail(replies), UNCHANGED <<awaiting, requests>>
      PROVE  InFlight' \subseteq InFlight
  BY <1>5, ReadQueues DEF InFlight
<1>6. ASSUME replies # <<>>, ~Unclaimed(Head(replies))
      PROVE  /\ Head(replies) \in InFlight
             /\ pending[Head(replies).id] = Head(replies).call /\ Head(replies).call \in Calls
  BY <1>6, TakenQueue DEF CallerInv, InFlight, Unclaimed, TypeOK
<1>7. ASSUME NEW c \in Calls, Call(c) PROVE CallerInv'
  <2>1. FirstKind(c) \in RequestKind BY DEF FirstKind, RequestKind
  <2>2. FirstKind(c) = "edit" \/ Replaces(c) BY DEF FirstKind, Replaces, Calls
  <2> QED BY <1>2, <1>7, <2>1, <2>2 DEF Call
<1>8. ASSUME NEW c \in Opens, PostThrows(c) PROVE CallerInv'
  <2>1. InFlight' = InFlight BY <1>8 DEF PostThrows, InFlight
  <2> QED BY <1>3, <1>8, <2>1 DEF PostThrows, ClaimId, CallerInv
<1>9. CASE IgnoreReply BY <1>3, <1>5, <1>9 DEF IgnoreReply, CallerInv
<1>10. CASE SettleCall
  <2>1. \A c \in Calls : answer'[c] = c BY <1>6, <1>10 DEF SettleCall, CallerInv, TypeOK
  <2> QED BY <1>3, <1>5, <1>10, <2>1 DEF SettleCall, Settled
<1>11. CASE RefusePreview
  <2>1. \A c \in Calls : answer'[c] = c BY <1>6, <1>11 DEF RefusePreview, CallerInv, TypeOK
  <2> QED BY <1>3, <1>5, <1>11, <2>1 DEF RefusePreview, Settled
<1>12. CASE AcceptPreview
  <2>1. LET c == pending[Head(replies).id] IN c \in Calls /\ Replaces(c)
    BY <1>6, <1>12 DEF AcceptPreview, CallerInv
  <2>2. "install" \in RequestKind /\ Range(replies') \subseteq Range(replies)
    BY <1>12, ReadQueues DEF RequestKind, AcceptPreview
  <2>3. \A i \in DOMAIN Settled(Head(replies)) : i \in DOMAIN pending /\ Settled(Head(replies))[i] = pending[i]
    BY DEF Settled
  <2> QED BY <1>2, <1>12, <2>1, <2>2, <2>3 DEF AcceptPreview
<1>13. CASE ErrorListener
  <2>1. InFlight' = InFlight BY <1>13 DEF ErrorListener, InFlight
  <2> QED BY <1>3, <1>13, <2>1 DEF ErrorListener, RejectPending, CallerInv
<1>14. CASE Close
  <2>1. InFlight' \subseteq InFlight BY <1>14, EmptyQueue DEF Close, InFlight
  <2> QED BY <1>3, <1>14, <2>1 DEF Close, RejectPending, CallerInv
<1>15. CASE WorkerStops BY <1>3, <1>15 DEF WorkerStops, InFlight, CallerInv
<1>16. CASE BridgeSettles BY <1>3, <1>16 DEF BridgeSettles, InFlight, CallerInv
<1>17. CASE Dispatch
  <2>1. InFlight' = InFlight BY <1>17, DispatchQueues DEF Dispatch, InFlight
  <2> QED BY <1>3, <1>17, <2>1 DEF Dispatch, CallerInv
<1>18. CASE HandleAccepted BY <1>4, <1>18, EffectType DEF HandleAccepted
<1>19. CASE HandleRefused BY <1>4, <1>19 DEF HandleRefused, TypeOK
<1>20. CASE CatchFailure BY <1>4, <1>20 DEF CatchFailure, Held
<1>21. CASE UNCHANGED vars BY <1>3, <1>21 DEF vars, InFlight, CallerInv
<1> QED BY <1>7, <1>8, <1>9, <1>10, <1>11, <1>12, <1>13, <1>14, <1>15, <1>16, <1>17, <1>18, <1>19, <1>20, <1>21
        DEF Next, Receive, Handle

-----------------------------------------------------------------------------
(* While the Worker runs.                                                  *)

\* No other message has the call or the id of the reply that is read.
LEMMA ReadAlone ==
    ASSUME TypeOK, OrderInv, LiveInv, worker = "running", replies # <<>>, replies' = Tail(replies)
    PROVE  /\ Head(replies) \in InFlight
           /\ \A m \in Range(replies') \union Posted :
                 m \in InFlight /\ m.id # Head(replies).id /\ m.call # Head(replies).call
<1>1. /\ Range(replies) = Range(replies') \union {Head(replies)}
      /\ \A m \in Range(replies') : Head(replies).id < m.id
  BY ReadQueues
<1>2. Head(replies) \in InFlight /\ \A m \in Range(replies') \union Posted : m \in InFlight
  BY <1>1 DEF InFlight, Posted
<1>3. \A m \in Range(replies') \union Posted : Head(replies).id < m.id BY <1>1 DEF OrderInv, Precede
<1>4. \A m \in InFlight : m.id \in Nat BY QueueTypes DEF InFlight, Reply, Request
<1>5. \A m \in Range(replies') \union Posted : m.id # Head(replies).id BY <1>2, <1>3, <1>4
<1> QED BY <1>2, <1>5 DEF LiveInv

\* Nor those of the request whose handler runs.
LEMMA HandledAlone ==
    ASSUME TypeOK, OrderInv, LiveInv, worker = "running", awaiting # <<>>, awaiting' = StillAwaiting,
           requests' = requests, NEW ok \in BOOLEAN, NEW held \in Held, Answer(Resumed, ok, held)
    PROVE  /\ Resumed \in Posted /\ Resumed \in InFlight
           /\ \A m \in Range(replies) \union Posted' :
                 m \in InFlight /\ m.id # Resumed.id /\ m.call # Resumed.call
<1>1. /\ Range(awaiting) = Range(awaiting') \union {Resumed}
      /\ \A m \in Posted' : Resumed.id < m.id
  BY HandleQueues
<1>2. Resumed \in Posted /\ Resumed \in InFlight /\ \A m \in Range(replies) \union Posted' : m \in InFlight
  BY <1>1 DEF InFlight, Posted
<1>3. \A m \in Range(replies) : m.id < Resumed.id BY <1>2 DEF OrderInv, Precede
<1>4. \A m \in InFlight : m.id \in Nat BY QueueTypes DEF InFlight, Reply, Request
<1>5. \A m \in Range(replies) \union Posted' : m.id # Resumed.id BY <1>1, <1>2, <1>3, <1>4
<1> QED BY <1>2, <1>5 DEF LiveInv

\* A Worker that has stopped does not run again.
LEMMA WorkerNeverRestarts ==
    ASSUME [Next]_vars, worker' = "running"
    PROVE  worker = "running"
  BY DEF Next, Call, Send, PostThrows, Receive, IgnoreReply, SettleCall, RefusePreview, AcceptPreview,
         ErrorListener, Close, WorkerStops, BridgeSettles, Dispatch, Handle, HandleAccepted, HandleRefused,
         CatchFailure, vars, workerVars

LEMMA NextLiveInv == TypeOK /\ OrderInv /\ CallerInv /\ LiveInv /\ [Next]_vars => LiveInv'
<1> SUFFICES ASSUME TypeOK, OrderInv, CallerInv, LiveInv, [Next]_vars, worker' = "running"
             PROVE  LiveInv'
  BY DEF LiveInv
<1> USE DEF pageVars, workerVars
<1>1. worker = "running" BY WorkerNeverRestarts
<1>2. /\ ~errorEvent /\ ~closed
      /\ \A m \in InFlight : m.id \in DOMAIN pending /\ phase[m.call] = "waiting"
      /\ \A m, n \in InFlight : m.call = n.call => m.id = n.id
  BY <1>1 DEF LiveInv
<1>3. ASSUME NEW c \in Calls, NEW kind \in RequestKind, NEW stillPending, Send(c, kind, stillPending),
             NEW others, InFlight' \subseteq others \union {NewRequest(c, kind)},
             \A m \in others : m \in InFlight /\ m.id \in DOMAIN stillPending /\ m.call # c,
             phase' = [phase EXCEPT ![c] = "waiting"], UNCHANGED <<errorEvent, closed>>
      PROVE  LiveInv'
  <2>1. \A m \in InFlight' : m \in others \/ m = NewRequest(c, kind) BY <1>3
  <2>2. NewRequest(c, kind).id = nextId /\ NewRequest(c, kind).call = c BY DEF NewRequest
  <2>3. DOMAIN pending' = DOMAIN stillPending \union {nextId} BY <1>3, SendPending
  <2>4. \A m \in InFlight' : m.id \in DOMAIN pending' /\ phase'[m.call] = "waiting"
    <3>1. phase'[c] = "waiting" BY <1>3 DEF TypeOK
    <3>2. \A m \in others : phase'[m.call] = "waiting" BY <1>2, <1>3 DEF TypeOK
    <3> QED BY <1>3, <2>1, <2>2, <2>3, <3>1, <3>2
  <2>5. \A m, n \in InFlight' : m.call = n.call => m.id = n.id BY <1>2, <1>3, <2>1, <2>2
  <2> QED BY <1>2, <1>3, <2>4, <2>5 DEF LiveInv
<1>4. ASSUME InFlight' \subseteq InFlight, UNCHANGED <<errorEvent, closed>>,
             \A m \in InFlight' : m.id \in DOMAIN pending' /\ phase'[m.call] = "waiting"
      PROVE  LiveInv'
  BY <1>2, <1>4 DEF LiveInv
<1>5. ASSUME awaiting # <<>>, awaiting' = StillAwaiting, UNCHANGED <<requests, errorEvent, pageVars>>,
             NEW ok \in BOOLEAN, NEW held \in Held, Answer(Resumed, ok, held)
      PROVE  LiveInv'
  <2>1. Range(replies') = Range(replies) \union {NewReply(ok, held)} BY <1>5, HandleQueues
  <2>2. \A m \in InFlight' : m \in Range(replies) \union Posted' \/ m = NewReply(ok, held)
    BY <2>1 DEF InFlight, Posted
  <2>3. NewReply(ok, held).id = Resumed.id /\ NewReply(ok, held).call = Resumed.call BY DEF NewReply
  <2>4. /\ Resumed \in InFlight
        /\ \A m \in Range(replies) \union Posted' : m \in InFlight /\ m.id # Resumed.id /\ m.call # Resumed.call
    BY <1>1, <1>5, HandledAlone
  <2>5. \A m \in InFlight' : m.id \in DOMAIN pending' /\ phase'[m.call] = "waiting"
    BY <1>2, <1>5, <2>2, <2>3, <2>4
  <2>6. \A m, n \in InFlight' : m.call = n.call => m.id = n.id BY <1>2, <2>2, <2>3, <2>4
  <2> QED BY <1>2, <1>5, <2>5, <2>6 DEF LiveInv
<1>6. ASSUME NEW c \in Calls, Call(c) PROVE LiveInv'
  <2>1. FirstKind(c) \in RequestKind BY DEF FirstKind, RequestKind
  <2>2. Range(requests') \subseteq Range(requests) \union {NewRequest(c, FirstKind(c))}
    BY <1>6, <2>1, SendQueues DEF Call
  <2>3. InFlight' \subseteq InFlight \union {NewRequest(c, FirstKind(c))} BY <1>6, <2>2 DEF Call, InFlight
  <2>4. \A m \in InFlight : m.id \in DOMAIN pending /\ m.call # c BY <1>2, <1>6 DEF Call
  <2> QED BY <1>3, <1>6, <2>1, <2>3, <2>4 DEF Call
<1>7. ASSUME NEW c \in Opens, PostThrows(c) PROVE LiveInv'
  <2>1. InFlight' = InFlight BY <1>7 DEF PostThrows, InFlight
  <2>2. \A m \in InFlight : m.call # c BY <1>2, <1>7 DEF PostThrows
  <2>3. \A m \in InFlight : phase'[m.call] = "waiting"
    BY <1>2, <1>7, <2>2 DEF PostThrows, TypeOK
  <2>4. \A m \in InFlight : m.id \in DOMAIN pending' BY <1>2, <1>7 DEF PostThrows
  <2> QED BY <1>4, <1>7, <2>1, <2>3, <2>4 DEF PostThrows
<1>8. CASE IgnoreReply
  <2>1. InFlight' \subseteq InFlight BY <1>8, ReadQueues DEF IgnoreReply, InFlight
  <2> QED BY <1>2, <1>4, <1>8, <2>1 DEF IgnoreReply
<1>9. ASSUME replies # <<>>, ~Unclaimed(Head(replies)), replies' = Tail(replies), UNCHANGED <<awaiting, requests>>
      PROVE  /\ pending[Head(replies).id] = Head(replies).call
             /\ InFlight' \subseteq InFlight
             /\ InFlight' = Range(replies') \union Posted
             /\ \A m \in InFlight' : m.id # Head(replies).id /\ m.call # Head(replies).call
  <2>1. /\ Head(replies) \in InFlight
        /\ \A m \in Range(replies') \union Posted :
              m \in InFlight /\ m.id # Head(replies).id /\ m.call # Head(replies).call
    BY <1>1, <1>9, ReadAlone
  <2>2. InFlight' = Range(replies') \union Posted BY <1>9 DEF InFlight, Posted
  <2> QED BY <1>9, <2>1, <2>2 DEF CallerInv, Unclaimed
<1>10. CASE SettleCall
  <2>1. \A m \in InFlight' : m.id \in DOMAIN pending' /\ phase'[m.call] = "waiting"
    BY <1>2, <1>9, <1>10 DEF SettleCall, Settled, TypeOK
  <2> QED BY <1>4, <1>9, <1>10, <2>1 DEF SettleCall
<1>11. CASE RefusePreview
  <2>1. \A m \in InFlight' : m.id \in DOMAIN pending' /\ phase'[m.call] = "waiting"
    BY <1>2, <1>9, <1>11 DEF RefusePreview, Settled, TypeOK
  <2> QED BY <1>4, <1>9, <1>11, <2>1 DEF RefusePreview
<1>12. CASE AcceptPreview
  <2> DEFINE c == pending[Head(replies).id]
  <2>1. c \in Calls /\ "install" \in RequestKind BY <1>12 DEF AcceptPreview, Unclaimed, TypeOK, RequestKind
  <2>2. /\ Head(replies) \in InFlight
        /\ \A m \in Range(replies') \union Posted :
              m \in InFlight /\ m.id # Head(replies).id /\ m.call # Head(replies).call
    BY <1>1, <1>12, ReadAlone DEF AcceptPreview
  <2>3. c = Head(replies).call BY <1>12, <2>2 DEF AcceptPreview, CallerInv, Unclaimed
  <2>4. Range(requests') \subseteq Range(requests) \union {NewRequest(c, "install")}
    BY <1>12, <2>1, SendQueues DEF AcceptPreview
  <2>5. InFlight' \subseteq (Range(replies') \union Posted) \union {NewRequest(c, "install")}
    BY <1>12, <2>4 DEF AcceptPreview, InFlight, Posted
  <2>6. phase' = [phase EXCEPT ![c] = "waiting"] BY <1>2, <1>12, <2>2, <2>3 DEF AcceptPreview, TypeOK
  <2>7. \A m \in Range(replies') \union Posted : m.id \in DOMAIN Settled(Head(replies))
    BY <1>2, <2>2 DEF Settled
  <2>8. Send(c, "install", Settled(Head(replies))) /\ UNCHANGED <<errorEvent, closed>> BY <1>12 DEF AcceptPreview
  <2>9. \A m \in Range(replies') \union Posted : m \in InFlight /\ m.id \in DOMAIN Settled(Head(replies)) /\ m.call # c
    BY <2>2, <2>3, <2>7
  <2> HIDE DEF c
  <2> QED BY <1>3, <2>1, <2>5, <2>6, <2>8, <2>9
<1>13. CASE ErrorListener BY <1>2, <1>13 DEF ErrorListener
<1>14. CASE Close BY <1>14 DEF Close
<1>15. CASE WorkerStops BY <1>15 DEF WorkerStops
<1>16. CASE BridgeSettles
  <2>1. InFlight' = InFlight BY <1>16 DEF BridgeSettles, InFlight
  <2> QED BY <1>2, <1>4, <1>16, <2>1 DEF BridgeSettles
<1>17. CASE Dispatch
  <2>1. InFlight' = InFlight BY <1>17, DispatchQueues DEF Dispatch, InFlight
  <2> QED BY <1>2, <1>4, <1>17, <2>1 DEF Dispatch
<1>18. CASE HandleAccepted BY <1>5, <1>18, EffectType DEF HandleAccepted
<1>19. CASE HandleRefused BY <1>5, <1>19 DEF HandleRefused, TypeOK
<1>20. CASE CatchFailure BY <1>5, <1>20 DEF CatchFailure, Held
<1>21. CASE UNCHANGED vars
  <2>1. InFlight' = InFlight BY <1>21 DEF vars, InFlight
  <2> QED BY <1>2, <1>4, <1>21, <2>1 DEF vars
<1> QED BY <1>6, <1>7, <1>8, <1>10, <1>11, <1>12, <1>13, <1>14, <1>15, <1>16, <1>17, <1>18, <1>19, <1>20, <1>21
        DEF Next, Receive, Handle

-----------------------------------------------------------------------------
(* What the page was shown.                                                *)

\* Reading a reply shows the page what the reply tells.
LEMMA ReadShows ==
    ASSUME TypeOK, OrderInv, RepliesTell, replies # <<>>, replies' = Tail(replies), runtime' = runtime,
           seen' = IF Tells(Head(replies)) THEN Head(replies).project ELSE seen
    PROVE  RepliesTell'
<1> DEFINE reply == Head(replies)
<1>1. /\ Range(replies) = Range(replies') \union {reply}
      /\ \A m \in Range(replies') : reply.id < m.id
  BY ReadQueues
<1>2. \A m \in Range(replies) : m.id \in Nat BY QueueTypes DEF Reply
<1>3. Switches(reply) => Tells(reply) BY DEF Switches, Tells, Replacing
<1>4. ASSUME \A m \in Range(replies') : ~Switches(m) PROVE Occurrence(seen') = Occurrence(runtime')
  <2>1. CASE Tells(reply)
    <3>1. \A n \in Range(replies) : Switches(n) => n.id <= reply.id BY <1>1, <1>2, <1>4
    <3> QED BY <1>1, <2>1, <3>1 DEF RepliesTell
  <2>2. CASE ~Tells(reply) BY <1>1, <1>3, <1>4, <2>2 DEF RepliesTell
  <2> QED BY <2>1, <2>2
<1>5. ASSUME NEW m \in Range(replies'), Tells(m), \A n \in Range(replies') : Switches(n) => n.id <= m.id
      PROVE  Occurrence(m.project) = Occurrence(runtime')
  <2>1. \A n \in Range(replies) : Switches(n) => n.id <= m.id BY <1>1, <1>2, <1>5
  <2> QED BY <1>1, <1>5, <2>1 DEF RepliesTell
<1> QED BY <1>4, <1>5 DEF RepliesTell, Switches, Tells, Occurrence

\* Posting a request: an edit is aimed at what the page shows.
LEMMA SendAims ==
    ASSUME TypeOK, OrderInv, CallerInv, LiveInv, RepliesTell, EditsAimed, worker = "running",
           NEW c \in Calls, NEW kind \in RequestKind, NEW stillPending, Send(c, kind, stillPending),
           UNCHANGED <<awaiting, runtime>>
    PROVE  EditsAimed'
<1> DEFINE new == NewRequest(c, kind)
<1>1. Posted' \subseteq Posted \union {new}
  <2>1. Range(requests') \subseteq Range(requests) \union {new} BY SendQueues
  <2> QED BY <2>1 DEF Posted
<1>2. /\ nextId \in Nat /\ \A m \in Posted : m.id \in Nat /\ m.id < nextId
      /\ \A m \in InFlight : m.call \in Calls
  <2>1. \A m \in InFlight : m.id \in Nat /\ m.call \in Calls BY QueueTypes DEF InFlight, Reply, Request
  <2> QED BY <2>1 DEF TypeOK, OrderInv, InFlight, Posted
<1>3. new.id = nextId /\ new.kind = kind /\ new.aim = seen /\ new.racing = ReplacementWaiting BY DEF NewRequest
<1>4. ASSUME NEW m \in InFlight, m.kind \in Replacing PROVE ReplacementWaiting
  <2>1. Replaces(m.call) BY <1>4 DEF CallerInv, Replacing
  <2>2. phase[m.call] = "waiting" BY <1>4 DEF LiveInv
  <2> QED BY <1>2, <2>1, <2>2 DEF ReplacementWaiting
<1>5. ASSUME NEW m \in Posted', NEW n \in Posted', m.id < n.id, m.kind \in Replacing, n.kind = "edit"
      PROVE  n.racing
  <2>1. m \in Posted BY <1>1, <1>2, <1>3, <1>5
  <2>2. CASE n \in Posted BY <1>5, <2>1, <2>2 DEF EditsAimed
  <2>3. CASE n = new BY <1>3, <1>4, <1>5, <2>1, <2>3 DEF InFlight, Posted
  <2> QED BY <1>1, <2>2, <2>3
<1>6. ASSUME NEW n \in Posted', n.kind = "edit", ~n.racing PROVE Occurrence(n.aim) = Occurrence(runtime')
  <2>1. CASE n \in Posted BY <1>6, <2>1 DEF EditsAimed
  <2>2. CASE n = new
    <3>1. \A m \in Range(replies) : ~Switches(m) BY <1>3, <1>4, <1>6, <2>2 DEF Switches, InFlight
    <3> QED BY <1>3, <2>2, <3>1 DEF RepliesTell
  <2> QED BY <1>1, <2>1, <2>2
<1> QED BY <1>5, <1>6 DEF EditsAimed, Occurrence, Replacing

\* The reply to a request tells what has become of the project.
LEMMA HandleShows ==
    ASSUME TypeOK, OrderInv, RepliesTell, EditsAimed, awaiting # <<>>, awaiting' = StillAwaiting,
           UNCHANGED <<requests, seen>>, NEW ok \in BOOLEAN, NEW held \in Held, Answer(Resumed, ok, held),
           \/ ok /\ Admitted(Resumed) /\ runtime' = Effect(Resumed) /\ held = runtime'
           \/ ~ok /\ runtime' = runtime
    PROVE  RepliesTell' /\ EditsAimed'
<1> DEFINE reply == NewReply(ok, held)
<1>1. /\ Range(replies') = Range(replies) \union {reply}
      /\ Range(awaiting) = Range(awaiting') \union {Resumed}
      /\ \A m \in Posted' : Resumed.id < m.id
  BY HandleQueues
<1>2. Resumed \in Posted /\ Resumed \in Request /\ Posted' \subseteq Posted
  BY <1>1, HandlerTypes DEF Posted
<1>3. reply.id = Resumed.id /\ reply.kind = Resumed.kind /\ reply.ok = ok /\ reply.project = held BY DEF NewReply
<1>4. \A m \in Range(replies) : m.id \in Nat /\ m.id < Resumed.id
  BY <1>2, QueueTypes DEF Reply, OrderInv, Precede
<1>5. CASE ok /\ Resumed.kind \in Replacing
  <2>1. Switches(reply) /\ held = runtime' BY <1>3, <1>5 DEF Switches
  <2>2. \A m \in Range(replies) : ~(reply.id <= m.id) BY <1>2, <1>3, <1>4 DEF Request
  <2>3. RepliesTell' BY <1>1, <1>3, <2>1, <2>2 DEF RepliesTell, Occurrence, Switches, Tells
  <2>4. \A n \in Posted' : n.kind = "edit" => n.racing BY <1>1, <1>2, <1>5 DEF EditsAimed
  <2> QED BY <1>2, <2>3, <2>4 DEF EditsAimed
<1>6. CASE ~(ok /\ Resumed.kind \in Replacing)
  <2>1. Occurrence(runtime') = Occurrence(runtime) /\ (Tells(reply) => held = runtime')
    <3>1. CASE ~ok BY <1>3, <3>1 DEF Tells
    <3>2. CASE ok /\ Resumed.kind = "preview" BY <1>3, <3>2 DEF Tells, Effect
    <3>3. CASE ok /\ Resumed.kind = "edit"
      <4>1. runtime \in Project /\ NoProject \notin Project /\ runtime' = [runtime EXCEPT !.revision = @ + 1]
        BY <3>3, NoProjectAssumption DEF Admitted, Effect, TypeOK, Held
      <4>2. runtime' \in Project /\ runtime'.occurrence = runtime.occurrence BY <4>1 DEF Project
      <4> QED BY <3>3, <4>1, <4>2 DEF Occurrence
    <3> QED BY <1>2, <1>6, <3>1, <3>2, <3>3 DEF Request, RequestKind, Replacing
  <2>2. ~Switches(reply) BY <1>3, <1>6 DEF Switches
  <2>3. RepliesTell' BY <1>1, <1>3, <2>1, <2>2 DEF RepliesTell, Occurrence, Switches, Tells
  <2> QED BY <1>2, <2>1, <2>3 DEF EditsAimed, Occurrence, Replacing
<1> QED BY <1>5, <1>6

LEMMA NextShownInv ==
    TypeOK /\ OrderInv /\ CallerInv /\ LiveInv /\ ShownInv /\ [Next]_vars => ShownInv'
<1> SUFFICES ASSUME TypeOK, OrderInv, CallerInv, LiveInv, ShownInv, [Next]_vars, worker' = "running"
             PROVE  RepliesTell' /\ EditsAimed'
  BY DEF ShownInv
<1> USE DEF pageVars, workerVars
<1>1. worker = "running" BY WorkerNeverRestarts
<1>2. RepliesTell /\ EditsAimed /\ ~errorEvent /\ \A m \in InFlight : m.id \in DOMAIN pending
  BY <1>1 DEF ShownInv, LiveInv
<1>3. ASSUME UNCHANGED <<replies, runtime, seen>> PROVE RepliesTell'
  BY <1>2, <1>3 DEF RepliesTell, Switches, Tells, Occurrence
<1>4. ASSUME UNCHANGED runtime, Posted' = Posted PROVE EditsAimed'
  BY <1>2, <1>4 DEF EditsAimed, Occurrence, Replacing
<1>5. ASSUME NEW c \in Calls, Call(c) PROVE RepliesTell' /\ EditsAimed'
  <2>1. FirstKind(c) \in RequestKind BY DEF FirstKind, RequestKind
  <2>2. EditsAimed' BY <1>1, <1>2, <1>5, <2>1, SendAims DEF Call
  <2> QED BY <1>3, <1>5, <2>2 DEF Call
<1>6. ASSUME NEW c \in Opens, PostThrows(c) PROVE RepliesTell' /\ EditsAimed'
  BY <1>3, <1>4, <1>6 DEF PostThrows, Posted
<1>7. CASE IgnoreReply
  <2>1. Head(replies) \in InFlight BY <1>7, TakenQueue DEF IgnoreReply, InFlight, TypeOK
  <2> QED BY <1>2, <1>7, <2>1 DEF IgnoreReply, Unclaimed
<1>8. CASE SettleCall
  <2>1. seen' = IF Tells(Head(replies)) THEN Head(replies).project ELSE seen
    <3>1. Head(replies) \in Reply BY <1>8, ReadTypes DEF SettleCall
    <3> QED BY <1>8, <3>1 DEF SettleCall, Tells, Reply
  <2>2. RepliesTell' BY <1>2, <1>8, <2>1, ReadShows DEF SettleCall
  <2> QED BY <1>4, <1>8, <2>2 DEF SettleCall, Posted
<1>9. CASE RefusePreview
  <2>1. seen' = IF Tells(Head(replies)) THEN Head(replies).project ELSE seen BY <1>9 DEF RefusePreview, Tells
  <2>2. RepliesTell' BY <1>2, <1>9, <2>1, ReadShows DEF RefusePreview
  <2> QED BY <1>4, <1>9, <2>2 DEF RefusePreview, Posted
<1>10. CASE AcceptPreview
  <2>1. seen' = IF Tells(Head(replies)) THEN Head(replies).project ELSE seen BY <1>10 DEF AcceptPreview, Tells
  <2>2. RepliesTell' BY <1>2, <1>10, <2>1, ReadShows DEF AcceptPreview
  <2>3. pending[Head(replies).id] \in Calls /\ "install" \in RequestKind
    BY <1>10 DEF AcceptPreview, Unclaimed, TypeOK, RequestKind
  <2>4. EditsAimed' BY <1>1, <1>2, <1>10, <2>3, SendAims DEF AcceptPreview
  <2> QED BY <2>2, <2>4
<1>11. CASE ErrorListener BY <1>2, <1>11 DEF ErrorListener
<1>12. CASE Close BY <1>12 DEF Close
<1>13. CASE WorkerStops BY <1>13 DEF WorkerStops
<1>14. CASE BridgeSettles BY <1>3, <1>4, <1>14 DEF BridgeSettles, Posted
<1>15. CASE Dispatch
  <2>1. Posted' = Posted BY <1>15, DispatchQueues DEF Posted
  <2> QED BY <1>3, <1>4, <1>15, <2>1 DEF Dispatch
<1>16. CASE HandleAccepted
  <2>1. runtime' \in Held BY <1>16, EffectType DEF HandleAccepted
  <2> QED BY <1>2, <1>16, <2>1, HandleShows DEF HandleAccepted
<1>17. CASE HandleRefused
  <2>1. runtime \in Held BY DEF TypeOK
  <2> QED BY <1>2, <1>17, <2>1, HandleShows DEF HandleRefused
<1>18. CASE CatchFailure
  <2>1. NoProject \in Held BY DEF Held
  <2> QED BY <1>2, <1>18, <2>1, HandleShows DEF CatchFailure
<1>19. CASE UNCHANGED vars BY <1>3, <1>4, <1>19 DEF vars, Posted
<1> QED BY <1>5, <1>6, <1>7, <1>8, <1>9, <1>10, <1>11, <1>12, <1>13, <1>14, <1>15, <1>16, <1>17, <1>18, <1>19
        DEF Next, Receive, Handle

-----------------------------------------------------------------------------
(* What was applied.                                                       *)

\* Applying a request that was aimed at the project held lands where its
\* caller looked.
LEMMA AppliedWhereLooked ==
    ASSUME TypeOK, EditsAimed, awaiting # <<>>, Resumed \in Posted, Admitted(Resumed),
           Resumed.kind = "edit", ~Resumed.racing
    PROVE  runtime = Resumed.aim
<1>1. Resumed \in Request /\ Resumed.aim \in Held BY HandlerTypes DEF Request
<1>2. runtime \in Project BY DEF Admitted, TypeOK, Held
<1>3. Occurrence(Resumed.aim) = runtime.occurrence BY <1>2, NoProjectAssumption DEF EditsAimed, Occurrence
<1>4. runtime.occurrence # NoProject BY <1>2, CallsAssumption DEF Project
<1>5. Resumed.aim \in Project BY <1>1, <1>3, <1>4 DEF Occurrence, Held
<1>6. Resumed.aim.occurrence = runtime.occurrence
  BY <1>3, <1>5, NoProjectAssumption DEF Occurrence
<1>7. Resumed.aim.revision = runtime.revision BY DEF Admitted
<1> QED BY <1>2, <1>5, <1>6, <1>7 DEF Project

LEMMA NextEditsLand ==
    TypeOK /\ OrderInv /\ LiveInv /\ ShownInv /\ EditsLandWhereTheCallerLooked /\ [Next]_vars
        => EditsLandWhereTheCallerLooked'
<1> SUFFICES ASSUME TypeOK, OrderInv, LiveInv, ShownInv, EditsLandWhereTheCallerLooked, [Next]_vars
             PROVE  EditsLandWhereTheCallerLooked'
  OBVIOUS
<1>1. CASE applied' = applied BY <1>1 DEF EditsLandWhereTheCallerLooked
<1>2. CASE HandleAccepted /\ applied' = Append(applied, [request |-> Resumed, before |-> runtime])
  <2>1. Resumed \in Posted /\ Resumed \in Request
    BY <1>2, HandlerTypes, TakenQueue DEF HandleAccepted, TypeOK, Resumed, Resume, Posted
  <2>2. EditsAimed BY <1>2 DEF ShownInv, HandleAccepted
  <2>3. Resumed.kind = "edit" /\ ~Resumed.racing => runtime = Resumed.aim
    BY <1>2, <2>1, <2>2, AppliedWhereLooked DEF HandleAccepted
  <2>4. [request |-> Resumed, before |-> runtime] \in Application BY <2>1 DEF Application, TypeOK
  <2>5. ASSUME NEW i \in DOMAIN applied'
        PROVE  \/ i \in DOMAIN applied /\ applied'[i] = applied[i]
               \/ applied'[i] = [request |-> Resumed, before |-> runtime]
    BY <1>2, <2>4 DEF TypeOK
  <2> QED BY <2>3, <2>5 DEF EditsLandWhereTheCallerLooked
<1>3. applied' = applied \/ (HandleAccepted /\ applied' = Append(applied, [request |-> Resumed, before |-> runtime]))
  BY DEF Next, Call, PostThrows, Receive, IgnoreReply, SettleCall, RefusePreview, AcceptPreview,
         ErrorListener, Close, WorkerStops, BridgeSettles, Dispatch, Handle, HandleAccepted, HandleRefused,
         CatchFailure, vars, workerVars
<1> QED BY <1>1, <1>2, <1>3

\* AppliedInv, of one applied request.
Done(a) ==
    /\ phase[a.request.call] \in {"waiting", "resolved"}
    /\ \A m \in Posted : m.call # a.request.call
    /\ \A m \in Range(replies) : m.call = a.request.call => Tells(m)

LEMMA NextAppliedInv ==
    TypeOK /\ OrderInv /\ CallerInv /\ LiveInv /\ AppliedInv /\ [Next]_vars => AppliedInv'
<1> SUFFICES ASSUME TypeOK, OrderInv, CallerInv, LiveInv, AppliedInv, [Next]_vars, worker' = "running"
             PROVE  \A a \in Range(applied') : Done(a)'
  BY DEF AppliedInv, Done
<1> USE DEF pageVars, workerVars
<1>1. worker = "running" BY WorkerNeverRestarts
<1>2. /\ ~errorEvent /\ ~closed
      /\ \A m \in InFlight : m.id \in DOMAIN pending /\ phase[m.call] = "waiting"
      /\ \A a \in Range(applied) : Done(a)
  BY <1>1 DEF LiveInv, AppliedInv, Done
<1>3. \A a \in Range(applied) : a.request.call \in Calls BY QueueTypes DEF Application, Request
<1>4. ASSUME UNCHANGED applied, Posted' \subseteq Posted, Range(replies') \subseteq Range(replies),
             \A a \in Range(applied) : phase'[a.request.call] \in {"waiting", "resolved"}
      PROVE  \A a \in Range(applied') : Done(a)'
  BY <1>2, <1>4 DEF Done, Tells
<1>5. ASSUME NEW c \in Calls, NEW kind \in RequestKind, NEW stillPending, Send(c, kind, stillPending),
             UNCHANGED <<applied, awaiting>>, Range(replies') \subseteq Range(replies),
             \A a \in Range(applied) :
                a.request.call # c /\ phase'[a.request.call] \in {"waiting", "resolved"}
      PROVE  \A a \in Range(applied') : Done(a)'
  <2>1. Range(requests') \subseteq Range(requests) \union {NewRequest(c, kind)} BY <1>5, SendQueues
  <2>2. \A m \in Posted' : m \in Posted \/ m.call = c BY <1>5, <2>1 DEF Posted, NewRequest
  <2> QED BY <1>2, <1>5, <2>2 DEF Done, Tells
<1>6. ASSUME awaiting # <<>>, awaiting' = StillAwaiting, UNCHANGED <<requests, pageVars>>,
             NEW ok \in BOOLEAN, NEW held \in Held, Answer(Resumed, ok, held),
             \/ applied' = applied
             \/ /\ applied' = Append(applied, [request |-> Resumed, before |-> runtime])
                /\ ok /\ Resumed.kind # "preview"
      PROVE  \A a \in Range(applied') : Done(a)'
  <2>1. /\ Range(replies') = Range(replies) \union {NewReply(ok, held)}
        /\ Range(awaiting) = Range(awaiting') \union {Resumed}
    BY <1>6, HandleQueues
  <2>2. /\ Resumed \in Posted /\ Resumed \in InFlight
        /\ \A m \in Range(replies) \union Posted' : m.call # Resumed.call
    BY <1>1, <1>6, HandledAlone
  <2>3. Posted' \subseteq Posted BY <1>6, <2>1 DEF Posted
  <2>4. NewReply(ok, held).call = Resumed.call /\ NewReply(ok, held).ok = ok
        /\ NewReply(ok, held).kind = Resumed.kind
    BY DEF NewReply
  <2>5. ASSUME NEW a \in Range(applied) PROVE Done(a)'
    <3>1. Done(a) /\ a.request.call # Resumed.call BY <1>2, <2>2 DEF Done
    <3> QED BY <1>6, <2>1, <2>3, <2>4, <3>1 DEF Done, Tells
  <2>6. ASSUME NEW a, a.request = Resumed, ok, Resumed.kind # "preview" PROVE Done(a)'
    <3>1. phase'[Resumed.call] = "waiting" BY <1>2, <1>6, <2>2
    <3> QED BY <2>1, <2>2, <2>4, <2>6, <3>1 DEF Done, Tells
  <2>7. \/ applied' = applied
        \/ /\ Range(applied') = Range(applied) \union {[request |-> Resumed, before |-> runtime]}
           /\ ok /\ Resumed.kind # "preview"
    BY <1>6, AppliedOrder
  <2> QED BY <2>5, <2>6, <2>7
<1>7. ASSUME NEW c \in Calls, phase[c] = "idle" PROVE \A a \in Range(applied) : a.request.call # c
  BY <1>2, <1>7 DEF Done
<1>8. ASSUME NEW c \in Calls, Call(c) PROVE \A a \in Range(applied') : Done(a)'
  <2>1. FirstKind(c) \in RequestKind BY DEF FirstKind, RequestKind
  <2>2. \A a \in Range(applied) : a.request.call # c BY <1>7, <1>8 DEF Call
  <2>3. \A a \in Range(applied) : phase'[a.request.call] \in {"waiting", "resolved"}
    BY <1>2, <1>3, <1>8, <2>2 DEF Call, TypeOK, Done
  <2> QED BY <1>5, <1>8, <2>1, <2>2, <2>3 DEF Call
<1>9. ASSUME NEW c \in Opens, PostThrows(c) PROVE \A a \in Range(applied') : Done(a)'
  <2>1. c \in Calls BY DEF Calls
  <2>2. \A a \in Range(applied) : a.request.call # c BY <1>7, <1>9, <2>1 DEF PostThrows
  <2>3. \A a \in Range(applied) : phase'[a.request.call] \in {"waiting", "resolved"}
    BY <1>2, <1>3, <1>9, <2>2 DEF PostThrows, TypeOK, Done
  <2> QED BY <1>4, <1>9, <2>3 DEF PostThrows, Posted
<1>10. ASSUME replies # <<>>, ~Unclaimed(Head(replies)), replies' = Tail(replies)
       PROVE  /\ pending[Head(replies).id] = Head(replies).call /\ Head(replies).call \in Calls
              /\ Head(replies) \in Range(replies) /\ Range(replies') \subseteq Range(replies)
              /\ Head(replies) \in Reply
  BY <1>10, TakenQueue, ZenonT(30) DEF CallerInv, InFlight, Unclaimed, TypeOK
<1>11. CASE IgnoreReply
  <2>1. Range(replies') \subseteq Range(replies) BY <1>11, ReadQueues DEF IgnoreReply
  <2> QED BY <1>2, <1>4, <1>11, <2>1 DEF IgnoreReply, Posted, Done
<1>12. CASE SettleCall
  <2>1. ASSUME NEW a \in Range(applied) PROVE phase'[a.request.call] \in {"waiting", "resolved"}
    BY <1>2, <1>3, <1>10, <1>12, <2>1 DEF SettleCall, TypeOK, Done, Tells
  <2> QED BY <1>4, <1>10, <1>12, <2>1 DEF SettleCall, Posted
<1>13. CASE RefusePreview
  <2>1. ASSUME NEW a \in Range(applied) PROVE phase'[a.request.call] \in {"waiting", "resolved"}
    <3>1. a.request.call # Head(replies).call BY <1>2, <1>10, <1>13 DEF RefusePreview, Done, Tells
    <3> QED BY <1>2, <1>3, <1>10, <1>13, <3>1 DEF RefusePreview, TypeOK, Done
  <2> QED BY <1>4, <1>10, <1>13, <2>1 DEF RefusePreview, Posted
<1>14. CASE AcceptPreview
  <2> DEFINE c == pending[Head(replies).id]
  <2>1. c = Head(replies).call /\ c \in Calls /\ "install" \in RequestKind
    BY <1>10, <1>14 DEF AcceptPreview, RequestKind
  <2>2. \A a \in Range(applied) : a.request.call # c /\ phase'[a.request.call] \in {"waiting", "resolved"}
    BY <1>2, <1>10, <1>14, <2>1 DEF AcceptPreview, Done, Tells
  <2>3. Send(c, "install", Settled(Head(replies))) /\ UNCHANGED <<applied, awaiting>>
        /\ Range(replies') \subseteq Range(replies)
    BY <1>10, <1>14 DEF AcceptPreview
  <2> HIDE DEF c
  <2> QED BY <1>5, <2>1, <2>2, <2>3
<1>15. CASE ErrorListener BY <1>2, <1>15 DEF ErrorListener
<1>16. CASE Close BY <1>16 DEF Close
<1>17. CASE WorkerStops BY <1>17 DEF WorkerStops
<1>18. CASE BridgeSettles BY <1>2, <1>4, <1>18 DEF BridgeSettles, Posted, Done
<1>19. CASE Dispatch
  <2>1. Posted' = Posted BY <1>19, DispatchQueues DEF Posted
  <2> QED BY <1>2, <1>4, <1>19, <2>1 DEF Dispatch, Done
<1>20. CASE HandleAccepted
  <2>1. runtime' \in Held BY <1>20, EffectType DEF HandleAccepted
  <2>2. Resumed.kind = "preview" => applied' = applied BY <1>20 DEF HandleAccepted, Effect
  <2> QED BY <1>6, <1>20, <2>1, <2>2 DEF HandleAccepted
<1>21. CASE HandleRefused BY <1>6, <1>21 DEF HandleRefused, TypeOK
<1>22. CASE CatchFailure BY <1>6, <1>22 DEF CatchFailure, Held
<1>23. CASE UNCHANGED vars BY <1>2, <1>4, <1>23 DEF vars, Posted, Done
<1> QED BY <1>8, <1>9, <1>11, <1>12, <1>13, <1>14, <1>15, <1>16, <1>17, <1>18, <1>19, <1>20, <1>21, <1>22, <1>23
        DEF Next, Receive, Handle

-----------------------------------------------------------------------------
(* The theorems.                                                           *)

LEMMA TransportInvariant == Spec => []TransportInv
<1>1. Init => TransportInv
  BY InitTypeOK, EmptyQueue, CallsAssumption
     DEF Init, TransportInv, OrderInv, CallerInv, LiveInv, ShownInv, AppliedInv, RepliesTell, EditsAimed,
         InFlight, Posted, Precede, AppliedInPostingOrder, EditsLandWhereTheCallerLooked
<1>2. TransportInv /\ [Next]_vars => TransportInv'
  BY NextTypeOK, NextOrderInv, NextCallerInv, NextLiveInv, NextShownInv, NextAppliedInv, NextEditsLand
     DEF TransportInv
<1> QED BY <1>1, <1>2, PTL DEF Spec

\* The transport's state has its types.
THEOREM TransportTypes == Spec => []TypeOK
<1>1. TransportInv => TypeOK BY DEF TransportInv
<1> QED BY <1>1, TransportInvariant, PTL

\* A call is only settled by the reply to a request of its own (the "message"
\* listener and #pending), and the Worker applies requests in the order in
\* which they were posted.
THEOREM MessagesInOrder == Spec => []MessagesKeepTheirOrder
<1>1. TransportInv => MessagesKeepTheirOrder
  BY DEF TransportInv, CallerInv, OrderInv, MessagesKeepTheirOrder, AnswersReachTheirCaller
<1> QED BY <1>1, TransportInvariant, PTL

\* An edit that nothing of the caller's own raced lands on the project the
\* page showed, although it names a revision only (check_revision).
THEOREM EditsLand == Spec => []EditsLandWhereTheCallerLooked
<1>1. TransportInv => EditsLandWhereTheCallerLooked BY DEF TransportInv
<1> QED BY <1>1, TransportInvariant, PTL

\* While the Worker lives, a call that rejects has changed nothing.
THEOREM RefusalsAreHarmless == Spec => []RefusalsChangeNothing
<1>1. TransportInv => RefusalsChangeNothing
  BY DEF TransportInv, AppliedInv, RefusalsChangeNothing, TypeOK, WorkerStates, Range
<1> QED BY <1>1, TransportInvariant, PTL
=============================================================================

---------------------------- MODULE ObdTransport ----------------------------
(***************************************************************************)
(* The OBD transport: three threads around one BLE client.                 *)
(*                                                                         *)
(*  - the drive loop (Main...) submits operations, abandons them, and      *)
(*    closes the fence when it wants the link gone;                        *)
(*  - the transport task (Task...) takes requests from depth-1 queues,     *)
(*    claims the request epoch, runs the operation, and services the       *)
(*    priority control that carries a disconnect;                          *)
(*  - the NimBLE host (Host...) drops links and runs the client callbacks. *)
(*                                                                         *)
(* SUBSCRIBE and RSSI_READ pass through the queues like WRITE and are not  *)
(* modelled apart.  Addresses, payloads and error codes are left out.      *)
(***************************************************************************)
EXTENDS Naturals

CONSTANTS
    Ops,            \* the operations the session submits
    MaxId,          \* bound: request ids (the code's counter is unbounded)
    MaxGeneration,  \* bound: links made
    MaxAttempts,    \* MAX_COMMAND_ATTEMPTS
    MaxConfirms     \* MAX_CONFIRM_PASSES

ASSUME TransportAssumption ==
    /\ Ops \subseteq { "CONNECT", "DISCOVER", "WRITE" }
    /\ MaxId \in Nat /\ MaxGeneration \in Nat
    /\ MaxAttempts \in Nat \ {0} /\ MaxConfirms \in Nat \ {0}

None == [ op |-> "NONE", id |-> 0 ]

VARIABLES
    main,       \* the session's transport fields, see MainType
    requestQ,   \* requestQueue: depth 1
    controlQ,   \* controlQueue: depth 1, overwritten
    resultQ,    \* resultQueue: depth 1, overwritten
    epoch,      \* ObdTransportRequestEpoch without its claim bit
    pc,         \* where the transport task is in its loop
    job,        \* the request the task holds
    svc,        \* the control dispatcher's state, see SvcType
    lag,        \* a host callback was running when the task began its delay
    link,       \* the physical link: down, connecting, up or closing
    cb,         \* how far the disconnect callback has come
    gen,        \* activeLinkGeneration_
    downGen,    \* confirmedDownGeneration_
    fence,      \* linkDownFence_ pending
    handles,    \* generation of pTxChar_ and pRxChar_, 0 when null
    deleted     \* a bond delete was attempted since the fence closed

queues == << requestQ, controlQ, resultQ >>
client == << link, cb, gen, downGen, fence, handles >>
vars == << main, requestQ, controlQ, resultQ, epoch, pc, job, svc, lag,
           link, cb, gen, downGen, fence, handles, deleted >>

Ids == 0..MaxId
DataRequest == [ op : Ops, id : Ids, epoch : Ids ]
Control == [ op : { "DISCONNECT" }, id : Ids, del : BOOLEAN ]
Result == [ op : Ops \cup { "DISCONNECT" }, id : Ids, ok : BOOLEAN ]

MainType ==
    [ active : Ops \cup { "NONE" },   \* pendingTransportOp_
      id     : Ids,       \* pendingTransportRequestId_
      ready  : Ids,       \* id of readyTransportResult_, 0 when not ready
      next   : Ids,       \* nextTransportRequestId_
      fresh  : BOOLEAN,   \* no operation since the fence last closed
      disc   : BOOLEAN,   \* transportDisconnectPending_
      queued : BOOLEAN,   \* transportDisconnectQueued_
      del    : BOOLEAN,   \* pendingDisconnectDeleteBond_
      follow : BOOLEAN,   \* pendingDisconnectFollowupDeleteBond_
      discId : Ids,       \* pendingDisconnectRequestId_
      owed   : BOOLEAN ]  \* a bond delete was asked for since the fence closed

SvcType ==
    [ active : BOOLEAN, accepted : BOOLEAN, settled : 0..2,
      attempts : 0..MaxAttempts, confirms : 0..MaxConfirms,
      target : 0..MaxGeneration, id : Ids ]

IsConnected == link \in { "up", "closing" }
-----------------------------------------------------------------------------
(* The drive loop.                                                         *)

\* What the session sees of the queues: its own fields, the control queue it
\* writes and the result queue it reads.
View == [ m |-> main, control |-> controlQ, result |-> resultQ ]
Seen(x) == main' = x.m /\ controlQ' = x.control /\ resultQ' = x.result

Queue(x) ==
    [ x EXCEPT !.m.queued = TRUE,
               !.control = [ op |-> "DISCONNECT", id |-> x.m.discId,
                             del |-> x.m.del ] ]

Requeue(x) == IF x.m.disc /\ ~x.m.queued THEN Queue(x) ELSE x

\* A successful acknowledgement opens the fence, unless a bond delete asked
\* for meanwhile still has to follow.
Acknowledged(x) ==
    IF x.m.follow
    THEN Queue([ x EXCEPT !.m.follow = FALSE, !.m.del = TRUE,
                          !.m.next = x.m.next + 1, !.m.discId = x.m.next + 1 ])
    ELSE [ x EXCEPT !.m.disc = FALSE, !.m.queued = FALSE, !.m.del = FALSE,
                    !.m.discId = 0, !.m.fresh = TRUE ]

AcceptsAny(m, r) == m.active # "NONE"
Answers(m, r) == m.active # "NONE" /\ r.id = m.id

\* A refused disconnect leaves the fence closed and is queued again.
Refused(y) == [ y EXCEPT !.m.queued = FALSE ]

\* The answer of an operation becomes the result the session may take.
Completed(y, r) == [ y EXCEPT !.m.active = "NONE", !.m.id = 0, !.m.ready = r.id ]

Settling(m, r) == r.op = "DISCONNECT" /\ m.disc /\ r.id = m.discId

Received(x) ==
    LET r == x.result
        y == [ x EXCEPT !.result = None ]
    IN  IF Settling(x.m, r)
        THEN IF r.ok THEN Acknowledged(y) ELSE Refused(y)
        ELSE IF r.op \in Ops /\ Answers(x.m, r) THEN Completed(y, r) ELSE y

Pumped(x) == Received(Requeue(x))

MainPump ==
    /\ Seen(Pumped(View))
    /\ UNCHANGED << requestQ, epoch, pc, job, svc, lag, client, deleted >>

\* beginTransportRequest: the session connects only on a fresh fence and
\* submits the other operations only once it has a session to use them in.
MayBegin(m, op) == m.fresh <=> op = "CONNECT"

MainBegin(op) ==
    LET x == Pumped(View)
        id == x.m.next + 1
    IN  /\ ~main.disc              \* update returns early behind a closed fence
        /\ MayBegin(x.m, op)
        /\ x.m.next < MaxId
        /\ op = "CONNECT" => gen < MaxGeneration
        /\ CASE x.m.active # "NONE" ->
                    Seen(x) /\ UNCHANGED requestQ
             [] x.m.active = "NONE" /\ requestQ # None ->
                    /\ Seen([ x EXCEPT !.m.ready = 0, !.m.next = id ])
                    /\ UNCHANGED requestQ
             [] OTHER ->
                    /\ Seen([ x EXCEPT !.m.ready = 0, !.m.next = id,
                                       !.m.active = op, !.m.id = id,
                                       !.m.fresh = FALSE ])
                    /\ requestQ' = [ op |-> op, id |-> id, epoch |-> epoch ]
        /\ UNCHANGED << epoch, pc, job, svc, lag, client, deleted >>

MainTakeResult ==
    /\ main.ready # 0
    /\ main' = [ main EXCEPT !.ready = 0 ]
    /\ UNCHANGED << queues, epoch, pc, job, svc, lag, client, deleted >>

Cleared(m) == [ m EXCEPT !.active = "NONE", !.id = 0, !.ready = 0 ]

\* updateConnecting sees the link up before the CONNECT result arrives.
MainAbandonConnect ==
    /\ main.active = "CONNECT" /\ IsConnected
    /\ main' = Cleared(main)
    /\ UNCHANGED << queues, epoch, pc, job, svc, lag, client, deleted >>

\* disconnectBle with the fence open: the epoch is advanced first, and only
\* then (MainQueueDisconnect) is the control item queued.
MainCloseFence(del) ==
    /\ ~main.disc /\ main.next < MaxId
    /\ epoch' = epoch + 1
    /\ main' = [ Cleared(main) EXCEPT
                   !.disc = TRUE, !.queued = FALSE, !.del = del,
                   !.follow = FALSE, !.next = main.next + 1,
                   !.discId = main.next + 1, !.owed = del ]
    /\ deleted' = FALSE
    /\ UNCHANGED << queues, pc, job, svc, lag, client >>

MainQueueDisconnect ==
    /\ main.disc /\ ~main.queued
    /\ Seen(Queue(View))
    /\ UNCHANGED << requestQ, epoch, pc, job, svc, lag, client, deleted >>

\* disconnectBle while the fence is closed.
MainDisconnectAgain(del) ==
    /\ main.disc
    /\ LET asks == del /\ ~main.del
           m == [ Cleared(main) EXCEPT
                    !.owed = main.owed \/ asks,
                    !.follow = main.follow \/ (asks /\ main.queued),
                    !.del = main.del \/ (asks /\ ~main.queued) ]
       IN  /\ m.follow => m.next < MaxId
           /\ Seen(Requeue([ View EXCEPT !.m = m ]))
    /\ UNCHANGED << requestQ, epoch, pc, job, svc, lag, client, deleted >>

MainStep ==
    \/ MainPump \/ MainTakeResult \/ MainAbandonConnect \/ MainQueueDisconnect
    \/ \E op \in Ops : MainBegin(op)
    \/ \E del \in BOOLEAN : MainCloseFence(del) \/ MainDisconnectAgain(del)
-----------------------------------------------------------------------------
(* The transport task.                                                     *)

ClearedHandles == 0

\* serviceDeferredLinkState
Deferred == /\ fence' = FALSE
            /\ handles' = IF fence THEN ClearedHandles ELSE handles

IdleSvc == [ active |-> FALSE, accepted |-> FALSE, settled |-> 0, attempts |-> 0,
             confirms |-> 0, target |-> 0, id |-> 0 ]

\* A new control purges the queued request and deletes the bond once.
Activate ==
    IF svc.active
    THEN UNCHANGED << controlQ, requestQ, deleted >>
    ELSE /\ controlQ # None
         /\ controlQ' = None /\ requestQ' = None
         /\ deleted' = (deleted \/ controlQ.del)
Activated ==
    IF svc.active THEN svc
    ELSE [ IdleSvc EXCEPT !.active = TRUE, !.target = gen, !.id = controlQ.id ]

Ack(ok) ==
    /\ resultQ' = [ op |-> "DISCONNECT", id |-> Activated.id, ok |-> ok ]
    /\ svc' = IdleSvc
Pending(s) == svc' = s /\ UNCHANGED resultQ

\* disconnect() on a link that is already gone.
CommandOnDownLink ==
    LET s == Activated
    IN  /\ ~s.accepted /\ link = "down"
        /\ downGen' = gen /\ handles' = ClearedHandles /\ fence' = FALSE
        /\ Pending([ s EXCEPT !.accepted = TRUE ])
        /\ UNCHANGED << link, cb, gen >>

CommandAccepted ==
    LET s == Activated
    IN  /\ ~s.accepted /\ IsConnected
        /\ link' = "closing" /\ handles' = ClearedHandles /\ fence' = FALSE
        /\ Pending([ s EXCEPT !.accepted = TRUE ])
        /\ UNCHANGED << cb, gen, downGen >>

CommandRejected ==
    LET s == Activated
    IN  /\ ~s.accepted /\ IsConnected
        /\ IF s.attempts + 1 >= MaxAttempts
           THEN Ack(FALSE)
           ELSE Pending([ s EXCEPT !.attempts = s.attempts + 1 ])
        /\ Deferred
        /\ UNCHANGED << link, cb, gen, downGen >>

BelievesAccepted(s) == s.accepted
LinkDownConfirmed(s) == downGen = s.target /\ link = "down"

OnePass == 1
SettledPasses == 2

Confirm ==
    LET s == Activated
    IN  /\ s.accepted
        /\ CASE ~LinkDownConfirmed(s) /\ s.confirms + 1 >= MaxConfirms -> Ack(FALSE)
             [] ~LinkDownConfirmed(s) /\ s.confirms + 1 < MaxConfirms ->
                    Pending([ s EXCEPT !.settled = 0, !.confirms = s.confirms + 1 ])
             [] LinkDownConfirmed(s) /\ s.settled + 1 < SettledPasses ->
                    Pending([ s EXCEPT !.settled = s.settled + 1 ])
             [] OTHER -> Ack(TRUE)
        /\ Deferred
        /\ UNCHANGED << link, cb, gen, downGen >>

\* One pass of the dispatcher, at either place the task calls it.  The pass
\* drops the request the task holds and ends in a delay long enough for a host
\* callback that was already running to finish (lag).
HasControl == svc.active \/ controlQ # None
Pass(how) ==
    /\ pc \in { "top", "received" } /\ HasControl
    /\ Activate /\ how
    /\ pc' = "delay" /\ job' = None
    /\ lag' = (cb # "none")
    /\ UNCHANGED << main, epoch >>

TaskCommandOnDownLink == Pass(CommandOnDownLink)
TaskCommandAccepted == Pass(CommandAccepted)
TaskCommandRejected == Pass(CommandRejected)
TaskConfirm == Pass(Confirm)

TaskWake ==
    /\ pc = "delay" /\ ~lag
    /\ pc' = "top"
    /\ UNCHANGED << main, queues, epoch, job, svc, lag, client, deleted >>

TaskReceive ==
    /\ pc = "top" /\ ~HasControl
    /\ pc' = "receive"
    /\ Deferred
    /\ UNCHANGED << main, queues, epoch, job, svc, lag, link, cb, gen, downGen,
                    deleted >>

TaskTake ==
    /\ pc = "receive"
    /\ job' = requestQ /\ requestQ' = None
    /\ pc' = IF requestQ = None THEN "top" ELSE "received"
    /\ Deferred
    /\ UNCHANGED << main, controlQ, resultQ, epoch, svc, lag, link, cb, gen,
                    downGen, deleted >>

TaskNoControl ==
    /\ pc = "received" /\ ~HasControl
    /\ pc' = "claim"
    /\ Deferred
    /\ UNCHANGED << main, queues, epoch, job, svc, lag, link, cb, gen, downGen,
                    deleted >>

\* tryClaim is the linearization point of a request.
Claims == job.epoch = epoch

TaskClaim ==
    /\ pc = "claim"
    /\ IF Claims THEN pc' = "run" /\ UNCHANGED job
                 ELSE pc' = "top" /\ job' = None
    /\ UNCHANGED << main, queues, epoch, svc, lag, client, deleted >>

Publishes(ok) ==
    /\ pc' = "publish"
    /\ job' = [ op |-> job.op, id |-> job.id, ok |-> ok ]
KeepsJob == UNCHANGED << main, queues, epoch, svc, lag, deleted >>

TaskConnect ==
    /\ pc = "run" /\ job.op = "CONNECT"
    /\ IF IsConnected
       THEN Publishes(TRUE) /\ UNCHANGED client
       ELSE /\ gen' = gen + 1 /\ link' = "connecting"
            /\ fence' = FALSE /\ handles' = ClearedHandles
            /\ pc' = "busy" /\ UNCHANGED << job, cb, downGen >>
    /\ KeepsJob

TaskStart ==
    /\ pc = "run" /\ job.op # "CONNECT"
    /\ Deferred
    /\ IF IsConnected /\ (job.op = "WRITE" => handles' # 0)
       THEN pc' = "busy" /\ UNCHANGED job
       ELSE Publishes(FALSE)
    /\ KeepsJob /\ UNCHANGED << link, cb, gen, downGen >>

\* The connect call returns; a failed attempt may also run onConnectFail.
TaskConnected ==
    /\ pc = "busy" /\ job.op = "CONNECT" /\ link = "up"
    /\ Publishes(TRUE) /\ KeepsJob /\ UNCHANGED client

TaskConnectFailed ==
    /\ pc = "busy" /\ job.op = "CONNECT" /\ link \in { "connecting", "down" }
    /\ Publishes(FALSE) /\ KeepsJob
    /\ link' = "down" /\ downGen' = gen
    /\ cb' \in IF cb = "none" THEN { "none", "notify" } ELSE { cb }
    /\ UNCHANGED << gen, fence, handles >>

TaskDiscovered ==
    /\ pc = "busy" /\ job.op = "DISCOVER"
    /\ \E found, service \in BOOLEAN :
          /\ found => service
          /\ handles' = IF found THEN gen ELSE IF service THEN 0 ELSE handles
          /\ Publishes(found /\ ~fence)
    /\ KeepsJob /\ UNCHANGED << link, cb, gen, downGen, fence >>

TaskWritten ==
    /\ pc = "busy" /\ job.op = "WRITE"
    /\ \E ok \in BOOLEAN : Publishes(ok /\ ~fence)
    /\ KeepsJob /\ UNCHANGED client

TaskPublish ==
    /\ pc = "publish"
    /\ resultQ' = job
    /\ job' = None /\ pc' = "top"
    /\ Deferred
    /\ UNCHANGED << main, requestQ, controlQ, epoch, svc, lag, link, cb, gen,
                    downGen, deleted >>

TaskStep ==
    \/ TaskCommandOnDownLink \/ TaskCommandAccepted \/ TaskCommandRejected
    \/ TaskConfirm \/ TaskWake \/ TaskReceive \/ TaskTake \/ TaskNoControl
    \/ TaskClaim \/ TaskConnect \/ TaskStart \/ TaskConnected
    \/ TaskConnectFailed \/ TaskDiscovered \/ TaskWritten \/ TaskPublish
-----------------------------------------------------------------------------
(* The NimBLE host task.  A link is gone before its callback runs, and the *)
(* callback confirms the generation before it publishes the fence.         *)

HostKeeps == UNCHANGED << main, queues, epoch, pc, job, svc, deleted, gen, handles >>

HostConnected ==
    /\ link = "connecting"
    /\ link' = "up"
    /\ HostKeeps /\ UNCHANGED << lag, cb, downGen, fence >>

HostLinkLost ==
    /\ IsConnected /\ cb = "none"
    /\ link' = "down" /\ cb' = "notify"
    /\ HostKeeps /\ UNCHANGED << lag, downGen, fence >>

HostConfirm ==
    /\ cb = "notify"
    /\ cb' = "confirmed" /\ downGen' = gen
    /\ HostKeeps /\ UNCHANGED << lag, link, fence >>

HostPublish ==
    /\ cb = "confirmed"
    /\ cb' = "none" /\ fence' = TRUE /\ lag' = FALSE
    /\ HostKeeps /\ UNCHANGED << link, downGen >>

HostStep == HostConnected \/ HostLinkLost \/ HostConfirm \/ HostPublish
-----------------------------------------------------------------------------
Init ==
    /\ main = [ active |-> "NONE", id |-> 0, ready |-> 0, next |-> 0,
                fresh |-> TRUE, disc |-> FALSE, queued |-> FALSE, del |-> FALSE,
                follow |-> FALSE, discId |-> 0, owed |-> FALSE ]
    /\ requestQ = None /\ controlQ = None /\ resultQ = None
    /\ epoch = 0
    /\ pc = "top" /\ job = None
    /\ svc = IdleSvc /\ lag = FALSE
    /\ link = "down" /\ cb = "none"
    /\ gen = 0 /\ downGen = 0
    /\ fence = FALSE /\ handles = 0
    /\ deleted = FALSE

Next == MainStep \/ TaskStep \/ HostStep

Spec == Init /\ [][Next]_vars

\* The loop pumps and queues every tick; the task and the host run their work
\* to its end; the host does not reject every terminate request for ever.
Fairness ==
    /\ WF_vars(MainPump) /\ WF_vars(MainQueueDisconnect)
    /\ WF_vars(TaskStep) /\ SF_vars(TaskCommandAccepted)
    /\ WF_vars(link = "closing" /\ HostLinkLost)
    /\ WF_vars(HostConfirm) /\ WF_vars(HostPublish)

FairSpec == Spec /\ Fairness
-----------------------------------------------------------------------------
(* Properties.                                                             *)

\* Every variable keeps its type (the field types of obd_runtime_module.h and
\* obd_transport_control_dispatch.h; ids and epochs stay below their bound).
TypeOK ==
    /\ main \in MainType
    /\ requestQ \in DataRequest \cup { None }
    /\ controlQ \in Control \cup { None }
    /\ resultQ \in Result \cup { None }
    /\ epoch \in Ids
    /\ pc \in { "top", "delay", "receive", "received", "claim", "run", "busy",
               "publish" }
    /\ job \in DataRequest \cup Result \cup { None }
    /\ svc \in SvcType /\ lag \in BOOLEAN
    /\ link \in { "down", "connecting", "up", "closing" }
    /\ cb \in { "none", "notify", "confirmed" }
    /\ gen \in 0..MaxGeneration /\ downGen \in 0..MaxGeneration
    /\ fence \in BOOLEAN /\ handles \in 0..MaxGeneration
    /\ deleted \in BOOLEAN

Running == pc \in { "run", "busy", "publish" }
Quiet == /\ link = "down" /\ cb = "none" /\ ~fence /\ handles = 0
         /\ ~Running /\ requestQ = None

\* When the session sees its disconnect acknowledged, the link is down, its
\* callback is over, no handle of the old link is left and no operation is
\* queued or running (the dispatcher acknowledges after two settled passes).
AckMeansQuietStep == main.disc /\ ~main.disc' => Quiet'

\* No operation submitted before a disconnect starts after it, whatever the
\* order of epoch, queues and the task's checks (obdTransportTaskEntry claims
\* the epoch the request was submitted in).
NoStaleStartStep == ~Running /\ Running' => ~main.disc /\ job.id = main.next

\* A result the session may take answers the last operation it submitted,
\* never one it had abandoned or withdrawn (pumpTransportResults by id).
ResultIsLatest ==
    main.ready # 0 => main.ready = main.next /\ ~main.disc /\ main.active = "NONE"

\* The task writes only through characteristics discovered on the current
\* link, although the callback that retires them runs on another thread.
HandlesLive ==
    /\ handles \in { 0, gen }
    /\ pc = "busy" /\ job.op = "WRITE" => handles = gen

\* A live link is never taken for one confirmed down: the callback of an
\* earlier link cannot confirm the generation of a later one.
NoFalseDown == link \in { "connecting", "up" } /\ cb = "none" => downGen # gen

\* A bond delete asked for at any moment of a disconnect, even after its
\* control was queued, was tried by the time the fence opens.
BondDeleteKeptStep == main.disc /\ ~main.disc' /\ main.owed => deleted

\* Every disconnect is acknowledged in the end, with rejected terminate
\* requests, confirmation time-outs and late callbacks on the way.
FenceReopens == main.disc ~> ~main.disc

\* Every submitted operation is answered or withdrawn.
RequestsAnswered == main.active # "NONE" ~> main.active = "NONE"

\* The transport implements the fence the session relies on.
Fence == INSTANCE ObdFence WITH
    open <- ~main.disc,
    waiting <- \/ requestQ # None /\ requestQ.epoch = epoch
               \/ pc \in { "received", "claim" } /\ job.epoch = epoch,
    running <- Running,
    up <- link # "down"

ImplementsFence == Fence!Spec

\* One link, and what belongs to it: types, results, handles and what is
\* confirmed down.
OneLink == TypeOK /\ ResultIsLatest /\ HandlesLive /\ NoFalseDown

\* A disconnect is acknowledged on a quiet radio and after the bond deletion it
\* owes, and nothing starts before that (obd_transport_control_dispatch.h).
DisconnectsSettle == [][AckMeansQuietStep /\ NoStaleStartStep /\ BondDeleteKeptStep]_vars
=============================================================================

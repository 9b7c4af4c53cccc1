-------------------------- MODULE ObdTransportProofs --------------------------
(***************************************************************************)
(* The transport of an OBD adapter, for any bounds and any choice of the   *)
(* operations: what the session may rely on (OneLink, DisconnectsSettle)   *)
(* and that it is the fence of ObdFence.                                   *)
(*                                                                         *)
(* What is not inductive about them is where a disconnect is: asked for,   *)
(* queued, at the dispatcher or answered, one of them at a time, and what  *)
(* of the link is gone by then; and that requests have an order, in which  *)
(* the result queue, the task and the request queue hold them.             *)
(***************************************************************************)
EXTENDS ObdTransport, TLAPS

(* What the task holds, depending on where it is.                          *)
Waits == pc \in { "top", "delay", "receive" }
Taken == pc \in { "received", "claim" }
JobFits ==
    /\ Waits => job = None
    /\ Taken \/ pc \in { "run", "busy" } => job \in DataRequest
    /\ pc = "publish" => job \in Result /\ job.op \in Ops

(* Requests are numbered in the order in which they move on.               *)
Numbered ==
    /\ requestQ # None => requestQ.id <= main.next /\ requestQ.id # 0 /\ ~Taken
    /\ job # None => job.id <= main.next /\ job.id # 0
    /\ resultQ.op \in Ops => resultQ.id <= main.next /\ resultQ.id # 0
    /\ requestQ # None /\ job # None => job.id < requestQ.id
    /\ requestQ # None /\ resultQ.op \in Ops => resultQ.id < requestQ.id
    /\ job # None /\ resultQ.op \in Ops => resultQ.id < job.id

(* The session waits for its last operation, with the fence open.          *)
SessionFits ==
    /\ main.active # "NONE" => ~main.disc /\ main.id = main.next /\ ~main.fresh
                               /\ main.ready = 0
    /\ main.follow => main.disc /\ main.next < MaxId
    /\ main.queued => main.disc
    /\ epoch <= main.next

(* An operation that has not started is the one the session waits for, or  *)
(* the epoch has moved on.                                                 *)
Unstarted(r) ==
    /\ main.disc => r.epoch < epoch
    /\ ~main.disc => r.epoch = epoch /\ main.active = r.op /\ main.id = r.id
AllUnstarted ==
    /\ requestQ # None => Unstarted(requestQ)
    /\ Taken => Unstarted(job)

(* A disconnect is in one place.                                           *)
Answered == resultQ.op = "DISCONNECT"
Disconnects ==
    /\ controlQ # None => main.disc /\ main.queued /\ controlQ.id = main.discId
                          /\ ~svc.active /\ ~Answered
    /\ svc.active => /\ main.disc /\ main.queued /\ svc.id = main.discId
                     /\ pc \in { "top", "delay" } /\ requestQ = None /\ ~Answered
                     /\ svc.target = gen
    /\ Answered => /\ main.disc /\ main.queued /\ resultQ.id = main.discId
                   /\ Waits /\ requestQ = None

(* The radio: a callback belongs to the last link.                         *)
Gone == link = "down" /\ cb = "none"
Radio ==
    /\ link = "connecting" => pc = "busy" /\ job.op = "CONNECT"
    /\ link # "down" => cb = "none"
    /\ link \in { "connecting", "up" } => downGen < gen
    /\ downGen <= gen

(* Two settled passes: the first on a link that is down, and the task then *)
(* sleeps until a callback that was running is over.                       *)
Settles ==
    /\ svc.accepted => svc.active /\ handles = 0
    /\ svc.settled # 0 => /\ svc.accepted /\ svc.settled = 1 /\ link = "down"
                          /\ cb # "none" => pc = "delay" /\ lag
    /\ Answered /\ resultQ.ok => Gone /\ ~fence /\ handles = 0

(* A connection is made on a quiet radio.                                  *)
Starts(r) == r.op = "CONNECT" /\ r.epoch = epoch
ConnectsFirst ==
    /\ main.fresh /\ ~main.disc => Gone /\ ~fence /\ handles = 0 /\ Waits /\ requestQ = None
    /\ requestQ # None /\ Starts(requestQ) => Gone /\ Waits /\ gen < MaxGeneration
    /\ Taken /\ Starts(job) => Gone /\ gen < MaxGeneration
    /\ pc = "run" /\ job.op = "CONNECT" => Gone /\ gen < MaxGeneration

(* A bond delete that is owed is still going to be asked for.              *)
BondOwed ==
    main.disc /\ main.owed /\ ~deleted =>
        main.follow \/ (~main.queued /\ main.del) \/ (controlQ # None /\ controlQ.del)

IInv ==
    /\ TypeOK /\ JobFits /\ Numbered /\ SessionFits /\ ResultIsLatest /\ AllUnstarted
    /\ Disconnects /\ Radio /\ HandlesLive /\ Settles /\ ConnectsFirst /\ BondOwed
-----------------------------------------------------------------------------
USE TransportAssumption

(* The NimBLE host: a link is up, lost, confirmed down, its fence published. *)

LEMMA HostLeaves ==
    ASSUME IInv, HostKeeps
    PROVE  JobFits' /\ Numbered' /\ SessionFits' /\ ResultIsLatest' /\ AllUnstarted'
           /\ Disconnects' /\ HandlesLive' /\ BondOwed'
<1> USE DEF IInv, HostKeeps, queues
<1>1. JobFits' /\ Numbered' /\ SessionFits' /\ ResultIsLatest' /\ AllUnstarted'
  BY DEF JobFits, Numbered, SessionFits, ResultIsLatest, AllUnstarted, Waits, Taken, Unstarted
<1>2. Disconnects' /\ HandlesLive' /\ BondOwed'
  BY DEF Disconnects, HandlesLive, BondOwed, Answered, Waits
<1> QED
  BY <1>1, <1>2

LEMMA HostConnectedKeeps == IInv /\ HostConnected => IInv'
<1> SUFFICES ASSUME IInv, HostConnected PROVE IInv'
  OBVIOUS
<1>1. HostKeeps
  BY DEF HostConnected
<1> USE DEF IInv, HostConnected, HostKeeps, queues, IsConnected
<1>2. TypeOK'
  BY DEF TypeOK
<1>3. Radio'
  BY DEF Radio, TypeOK
<1>4. Settles'
  BY DEF Settles, Gone, Answered
<1>5. ConnectsFirst'
  BY DEF ConnectsFirst, Gone, Starts, Waits, Taken, Radio, JobFits
<1> QED
  BY <1>1, <1>2, <1>3, <1>4, <1>5, HostLeaves

LEMMA HostLinkLostKeeps == IInv /\ HostLinkLost => IInv'
<1> SUFFICES ASSUME IInv, HostLinkLost PROVE IInv'
  OBVIOUS
<1>1. HostKeeps
  BY DEF HostLinkLost
<1> USE DEF IInv, HostLinkLost, HostKeeps, queues, IsConnected
<1>2. TypeOK'
  BY DEF TypeOK
<1>3. Radio'
  BY DEF Radio, TypeOK
<1>4. Settles'
  BY DEF Settles, Gone, Answered
<1>5. ConnectsFirst'
  BY DEF ConnectsFirst, Gone, Starts, Waits, Taken, Radio, JobFits
<1> QED
  BY <1>1, <1>2, <1>3, <1>4, <1>5, HostLeaves

LEMMA HostConfirmKeeps == IInv /\ HostConfirm => IInv'
<1> SUFFICES ASSUME IInv, HostConfirm PROVE IInv'
  OBVIOUS
<1>1. HostKeeps
  BY DEF HostConfirm
<1> USE DEF IInv, HostConfirm, HostKeeps, queues, IsConnected
<1>2. TypeOK'
  BY DEF TypeOK
<1>3. Radio'
  BY DEF Radio, TypeOK
<1>4. Settles'
  BY DEF Settles, Gone, Answered
<1>5. ConnectsFirst'
  BY DEF ConnectsFirst, Gone, Starts, Waits, Taken, Radio, JobFits
<1> QED
  BY <1>1, <1>2, <1>3, <1>4, <1>5, HostLeaves

LEMMA HostPublishKeeps == IInv /\ HostPublish => IInv'
<1> SUFFICES ASSUME IInv, HostPublish PROVE IInv'
  OBVIOUS
<1>1. HostKeeps
  BY DEF HostPublish
<1> USE DEF IInv, HostPublish, HostKeeps, queues, IsConnected
<1>2. TypeOK'
  BY DEF TypeOK
<1>3. Radio'
  BY DEF Radio, TypeOK
<1>4. Settles'
  BY DEF Settles, Gone, Answered
<1>5. ConnectsFirst'
  BY DEF ConnectsFirst, Gone, Starts, Waits, Taken, Radio, JobFits
<1> QED
  BY <1>1, <1>2, <1>3, <1>4, <1>5, HostLeaves

-----------------------------------------------------------------------------
(* The transport task: what it takes, claims, runs and publishes.           *)

LEMMA DeferredTypes == TypeOK /\ Deferred => fence' = FALSE /\ handles' \in 0..MaxGeneration
  BY DEF TypeOK, Deferred, ClearedHandles

LEMMA Publishing ==
    ASSUME NEW ok \in BOOLEAN, job \in DataRequest, Publishes(ok)
    PROVE  job' \in Result /\ job'.op = job.op /\ job'.id = job.id /\ job'.op \in Ops
  BY DEF DataRequest, Result, Publishes

LEMMA TaskWakeKeeps == IInv /\ TaskWake => IInv'
<1> SUFFICES ASSUME IInv, TaskWake PROVE IInv'
  OBVIOUS
<1> USE DEF IInv, TaskWake, queues, client
<1>1. TypeOK'
  BY DEF TypeOK, JobFits, Taken, Waits, ConnectsFirst, DataRequest, Result, Running
<1>2. JobFits'
  BY DEF JobFits, Waits, Taken, TypeOK, DataRequest, Result, None
<1>3. Numbered'
  BY DEF Numbered, JobFits, Waits, Taken, TypeOK, DataRequest, Result, Control, MainType, Ids, None
<1>4. SessionFits' /\ ResultIsLatest' /\ BondOwed'
  BY DEF SessionFits, ResultIsLatest, BondOwed
<1>5. AllUnstarted'
  BY DEF AllUnstarted, Unstarted, Taken, JobFits, Waits, Numbered
<1>6. Disconnects'
  BY DEF Disconnects, Answered, Waits, Taken, JobFits, None
<1>7. Radio' /\ HandlesLive'
  BY DEF Radio, HandlesLive, TypeOK, JobFits, ConnectsFirst, Gone, Taken, Waits
<1>8. Settles'
  BY DEF Settles, Gone, Answered, Disconnects, Waits, JobFits
<1>9. ConnectsFirst'
  BY DEF ConnectsFirst, Gone, Starts, Waits, Taken, Radio, JobFits, AllUnstarted, Unstarted, SessionFits
<1> QED
  BY <1>1, <1>2, <1>3, <1>4, <1>5, <1>6, <1>7, <1>8, <1>9

LEMMA TaskReceiveTypes == IInv /\ TaskReceive => TypeOK'
<1> SUFFICES ASSUME IInv, TaskReceive PROVE TypeOK'
  OBVIOUS
<1>1. fence' = FALSE /\ handles' \in 0..MaxGeneration
  BY DeferredTypes DEF IInv, TaskReceive
<1>2. job \in DataRequest \cup Result \cup {None}
  BY DEF IInv, TypeOK
<1>3. pc = "publish" => job \in Result
  BY DEF IInv, JobFits
<1> QED
  BY <1>1, <1>2, <1>3 DEF IInv, TypeOK, TaskReceive, queues

LEMMA TaskReceiveKeeps == IInv /\ TaskReceive => IInv'
<1> SUFFICES ASSUME IInv, TaskReceive PROVE IInv'
  OBVIOUS
<1> USE DEF IInv, TaskReceive, Deferred, ClearedHandles, HasControl, queues, client
<1>1. TypeOK'
  BY TaskReceiveTypes
<1>2. JobFits'
  BY DEF JobFits, Waits, Taken, TypeOK, DataRequest, Result, None
<1>3. Numbered'
  BY DEF Numbered, JobFits, Waits, Taken, TypeOK, DataRequest, Result, Control, MainType, Ids, None
<1>4. SessionFits' /\ ResultIsLatest' /\ BondOwed'
  BY DEF SessionFits, ResultIsLatest, BondOwed
<1>5. AllUnstarted'
  BY DEF AllUnstarted, Unstarted, Taken, JobFits, Waits, Numbered
<1>6. Disconnects'
  BY DEF Disconnects, Answered, Waits, Taken, JobFits, None
<1>7. Radio' /\ HandlesLive'
  BY DEF Radio, HandlesLive, TypeOK, JobFits, ConnectsFirst, Gone, Taken, Waits
<1>8. Settles'
  BY DEF Settles, Gone, Answered, Disconnects, Waits, JobFits
<1>9. ConnectsFirst'
  BY DEF ConnectsFirst, Gone, Starts, Waits, Taken, Radio, JobFits, AllUnstarted, Unstarted, SessionFits
<1> QED
  BY <1>1, <1>2, <1>3, <1>4, <1>5, <1>6, <1>7, <1>8, <1>9

LEMMA TaskTakeTypes == IInv /\ TaskTake => TypeOK'
<1> SUFFICES ASSUME IInv, TaskTake PROVE TypeOK'
  OBVIOUS
<1>1. fence' = FALSE /\ handles' \in 0..MaxGeneration
  BY DeferredTypes DEF IInv, TaskTake
<1>2. job \in DataRequest \cup Result \cup {None}
  BY DEF IInv, TypeOK
<1>3. pc = "publish" => job \in Result
  BY DEF IInv, JobFits
<1> QED
  BY <1>1, <1>2, <1>3 DEF IInv, TypeOK, TaskTake, queues

LEMMA TaskTakeKeeps == IInv /\ TaskTake => IInv'
<1> SUFFICES ASSUME IInv, TaskTake PROVE IInv'
  OBVIOUS
<1> USE DEF IInv, TaskTake, Deferred, ClearedHandles, queues, client
<1>1. TypeOK'
  BY TaskTakeTypes
<1>2. JobFits'
  BY DEF JobFits, Waits, Taken, TypeOK, DataRequest, Result, None
<1>3. Numbered'
  BY DEF Numbered, JobFits, Waits, Taken, TypeOK, DataRequest, Result, Control, MainType, Ids, None
<1>4. SessionFits' /\ ResultIsLatest' /\ BondOwed'
  BY DEF SessionFits, ResultIsLatest, BondOwed
<1>5. AllUnstarted'
  BY DEF AllUnstarted, Unstarted, Taken, JobFits, Waits, Numbered
<1>6. Disconnects'
  BY DEF Disconnects, Answered, Waits, Taken, JobFits, None
<1>7. Radio' /\ HandlesLive'
  BY DEF Radio, HandlesLive, TypeOK, JobFits, ConnectsFirst, Gone, Taken, Waits
<1>8. Settles'
  BY DEF Settles, Gone, Answered, Disconnects, Waits, JobFits
<1>9. ConnectsFirst'
  BY DEF ConnectsFirst, Gone, Starts, Waits, Taken, Radio, JobFits, AllUnstarted, Unstarted, SessionFits
<1> QED
  BY <1>1, <1>2, <1>3, <1>4, <1>5, <1>6, <1>7, <1>8, <1>9

LEMMA TaskNoControlTypes == IInv /\ TaskNoControl => TypeOK'
<1> SUFFICES ASSUME IInv, TaskNoControl PROVE TypeOK'
  OBVIOUS
<1>1. fence' = FALSE /\ handles' \in 0..MaxGeneration
  BY DeferredTypes DEF IInv, TaskNoControl
<1>2. job \in DataRequest \cup Result \cup {None}
  BY DEF IInv, TypeOK
<1>3. pc = "publish" => job \in Result
  BY DEF IInv, JobFits
<1> QED
  BY <1>1, <1>2, <1>3 DEF IInv, TypeOK, TaskNoControl, queues

LEMMA TaskNoControlKeeps == IInv /\ TaskNoControl => IInv'
<1> SUFFICES ASSUME IInv, TaskNoControl PROVE IInv'
  OBVIOUS
<1> USE DEF IInv, TaskNoControl, Deferred, ClearedHandles, HasControl, queues, client
<1>1. TypeOK'
  BY TaskNoControlTypes
<1>2. JobFits'
  BY DEF JobFits, Waits, Taken, TypeOK, DataRequest, Result, None
<1>3. Numbered'
  BY DEF Numbered, JobFits, Waits, Taken, TypeOK, DataRequest, Result, Control, MainType, Ids, None
<1>4. SessionFits' /\ ResultIsLatest' /\ BondOwed'
  BY DEF SessionFits, ResultIsLatest, BondOwed
<1>5. AllUnstarted'
  BY DEF AllUnstarted, Unstarted, Taken, JobFits, Waits, Numbered
<1>6. Disconnects'
  BY DEF Disconnects, Answered, Waits, Taken, JobFits, None
<1>7. Radio' /\ HandlesLive'
  BY DEF Radio, HandlesLive, TypeOK, JobFits, ConnectsFirst, Gone, Taken, Waits
<1>8. Settles'
  BY DEF Settles, Gone, Answered, Disconnects, Waits, JobFits
<1>9. ConnectsFirst'
  BY DEF ConnectsFirst, Gone, Starts, Waits, Taken, Radio, JobFits, AllUnstarted, Unstarted, SessionFits
<1> QED
  BY <1>1, <1>2, <1>3, <1>4, <1>5, <1>6, <1>7, <1>8, <1>9

LEMMA TaskClaimKeeps == IInv /\ TaskClaim => IInv'
<1> SUFFICES ASSUME IInv, TaskClaim PROVE IInv'
  OBVIOUS
<1> USE DEF IInv, TaskClaim, Claims, queues, client
<1>1. TypeOK'
  BY DEF TypeOK, JobFits, Taken, Waits, ConnectsFirst, DataRequest, Result, Running
<1>2. JobFits'
  BY DEF JobFits, Waits, Taken, TypeOK, DataRequest, Result, None
<1>3. Numbered'
  BY DEF Numbered, JobFits, Waits, Taken, TypeOK, DataRequest, Result, Control, MainType, Ids, None
<1>4. SessionFits' /\ ResultIsLatest' /\ BondOwed'
  BY DEF SessionFits, ResultIsLatest, BondOwed
<1>5. AllUnstarted'
  BY DEF AllUnstarted, Unstarted, Taken, JobFits, Waits, Numbered
<1>6. Disconnects'
  BY DEF Disconnects, Answered, Waits, Taken, JobFits, None
<1>7. Radio' /\ HandlesLive'
  BY DEF Radio, HandlesLive, TypeOK, JobFits, ConnectsFirst, Gone, Taken, Waits
<1>8. Settles'
  BY DEF Settles, Gone, Answered, Disconnects, Waits, JobFits
<1>9. ConnectsFirst'
  BY DEF ConnectsFirst, Gone, Starts, Waits, Taken, Radio, JobFits, AllUnstarted, Unstarted, SessionFits
<1> QED
  BY <1>1, <1>2, <1>3, <1>4, <1>5, <1>6, <1>7, <1>8, <1>9

LEMMA TaskConnectTypes == IInv /\ TaskConnect => TypeOK' /\ JobFits'
<1> SUFFICES ASSUME IInv, TaskConnect PROVE TypeOK' /\ JobFits'
  OBVIOUS
<1>1. job \in DataRequest
  BY DEF IInv, JobFits, TaskConnect
<1>2. CASE IsConnected
  <2>1. Publishes(TRUE) /\ UNCHANGED client
    BY <1>2 DEF TaskConnect
  <2>2. job' \in Result /\ job'.op \in Ops
    BY <2>1, <1>1, Publishing
  <2> QED
    BY <2>1, <2>2 DEF IInv, TypeOK, JobFits, TaskConnect, KeepsJob, queues, client, Publishes, Waits, Taken
<1>3. CASE ~IsConnected
  <2>1. gen' \in 0..MaxGeneration
    BY <1>3 DEF IInv, TypeOK, ConnectsFirst, TaskConnect
  <2>2. /\ link' = "connecting" /\ pc' = "busy" /\ handles' = 0 /\ fence' = FALSE
        /\ UNCHANGED << main, requestQ, controlQ, resultQ, epoch, svc, lag, deleted, job, cb, downGen >>
    BY <1>3 DEF TaskConnect, KeepsJob, ClearedHandles, queues
  <2>3. JobFits'
    BY <1>1, <2>2 DEF JobFits, Waits, Taken
  <2>4. handles' \in 0..MaxGeneration /\ link' \in { "down", "connecting", "up", "closing" }
    BY <2>2
  <2>5. fence' \in BOOLEAN
    BY <2>2
  <2>6. TypeOK'
    <3>1. TypeOK
      BY DEF IInv
    <3> QED
      BY <2>1, <2>2, <2>4, <2>5, <3>1 DEF TypeOK
  <2> QED
    BY <2>3, <2>6
<1> QED
  BY <1>2, <1>3

LEMMA TaskConnectKeeps == IInv /\ TaskConnect => IInv'
<1> SUFFICES ASSUME IInv, TaskConnect PROVE IInv'
  OBVIOUS
<1> USE DEF IInv, TaskConnect, Publishes, KeepsJob, ClearedHandles, IsConnected, queues, client
<1>1. TypeOK' /\ JobFits'
  BY TaskConnectTypes
<1>3. Numbered'
  BY DEF Numbered, JobFits, Waits, Taken, TypeOK, DataRequest, Result, Control, MainType, Ids, None
<1>4. SessionFits' /\ ResultIsLatest' /\ BondOwed'
  BY DEF SessionFits, ResultIsLatest, BondOwed
<1>5. AllUnstarted'
  BY DEF AllUnstarted, Unstarted, Taken, JobFits, Waits, Numbered
<1>6. Disconnects'
  BY DEF Disconnects, Answered, Waits, Taken, JobFits, None
<1>7. Radio' /\ HandlesLive'
  BY DEF Radio, HandlesLive, TypeOK, JobFits, ConnectsFirst, Gone, Taken, Waits
<1>8. Settles'
  BY DEF Settles, Gone, Answered, Disconnects, Waits, JobFits
<1>9. ConnectsFirst'
  BY DEF ConnectsFirst, Gone, Starts, Waits, Taken, Radio, JobFits, AllUnstarted, Unstarted, SessionFits
<1> QED
  BY <1>1, <1>3, <1>4, <1>5, <1>6, <1>7, <1>8, <1>9

LEMMA TaskStartTypes == IInv /\ TaskStart => TypeOK' /\ JobFits'
<1> SUFFICES ASSUME IInv, TaskStart PROVE TypeOK' /\ JobFits'
  OBVIOUS
<1>1. job \in DataRequest
  BY DEF IInv, JobFits, TaskStart
<1>2. fence' = FALSE /\ handles' \in 0..MaxGeneration
  BY DeferredTypes DEF IInv, TaskStart
<1>3. CASE pc' = "busy" /\ UNCHANGED job
  BY <1>1, <1>2, <1>3 DEF IInv, TypeOK, JobFits, TaskStart, KeepsJob, queues, client, Waits, Taken
<1>4. CASE Publishes(FALSE)
  <2>1. job' \in Result /\ job'.op \in Ops
    BY <1>1, <1>4, Publishing
  <2> QED
    BY <1>2, <1>4, <2>1 DEF IInv, TypeOK, JobFits, TaskStart, KeepsJob, queues, Publishes, Waits, Taken
<1> QED
  BY <1>3, <1>4 DEF TaskStart

LEMMA TaskStartKeeps == IInv /\ TaskStart => IInv'
<1> SUFFICES ASSUME IInv, TaskStart PROVE IInv'
  OBVIOUS
<1> USE DEF IInv, TaskStart, Publishes, KeepsJob, Deferred, ClearedHandles, IsConnected, queues, client
<1>1. TypeOK' /\ JobFits'
  BY TaskStartTypes
<1>3. Numbered'
  BY DEF Numbered, JobFits, Waits, Taken, TypeOK, DataRequest, Result, Control, MainType, Ids, None
<1>4. SessionFits' /\ ResultIsLatest' /\ BondOwed'
  BY DEF SessionFits, ResultIsLatest, BondOwed
<1>5. AllUnstarted'
  BY DEF AllUnstarted, Unstarted, Taken, JobFits, Waits, Numbered
<1>6. Disconnects'
  BY DEF Disconnects, Answered, Waits, Taken, JobFits, None
<1>7. Radio' /\ HandlesLive'
  BY DEF Radio, HandlesLive, TypeOK, JobFits, ConnectsFirst, Gone, Taken, Waits
<1>8. Settles'
  BY DEF Settles, Gone, Answered, Disconnects, Waits, JobFits
<1>9. ConnectsFirst'
  BY DEF ConnectsFirst, Gone, Starts, Waits, Taken, Radio, JobFits, AllUnstarted, Unstarted, SessionFits
<1> QED
  BY <1>1, <1>3, <1>4, <1>5, <1>6, <1>7, <1>8, <1>9

LEMMA TaskConnectedKeeps == IInv /\ TaskConnected => IInv'
<1> SUFFICES ASSUME IInv, TaskConnected PROVE IInv'
  OBVIOUS
<1> USE DEF IInv, TaskConnected, Publishes, KeepsJob, queues, client
<1>1. TypeOK'
  BY DEF TypeOK, JobFits, Taken, Waits, ConnectsFirst, DataRequest, Result, Running
<1>2. JobFits'
  BY DEF JobFits, Waits, Taken, TypeOK, DataRequest, Result, None
<1>3. Numbered'
  BY DEF Numbered, JobFits, Waits, Taken, TypeOK, DataRequest, Result, Control, MainType, Ids, None
<1>4. SessionFits' /\ ResultIsLatest' /\ BondOwed'
  BY DEF SessionFits, ResultIsLatest, BondOwed
<1>5. AllUnstarted'
  BY DEF AllUnstarted, Unstarted, Taken, JobFits, Waits, Numbered
<1>6. Disconnects'
  BY DEF Disconnects, Answered, Waits, Taken, JobFits, None
<1>7. Radio' /\ HandlesLive'
  BY DEF Radio, HandlesLive, TypeOK, JobFits, ConnectsFirst, Gone, Taken, Waits
<1>8. Settles'
  BY DEF Settles, Gone, Answered, Disconnects, Waits, JobFits
<1>9. ConnectsFirst'
  BY DEF ConnectsFirst, Gone, Starts, Waits, Taken, Radio, JobFits, AllUnstarted, Unstarted, SessionFits
<1> QED
  BY <1>1, <1>2, <1>3, <1>4, <1>5, <1>6, <1>7, <1>8, <1>9

LEMMA TaskConnectFailedKeeps == IInv /\ TaskConnectFailed => IInv'
<1> SUFFICES ASSUME IInv, TaskConnectFailed PROVE IInv'
  OBVIOUS
<1> USE DEF IInv, TaskConnectFailed, Publishes, KeepsJob, queues, client
<1>1. TypeOK'
  BY DEF TypeOK, JobFits, Taken, Waits, ConnectsFirst, DataRequest, Result, Running
<1>2. JobFits'
  BY DEF JobFits, Waits, Taken, TypeOK, DataRequest, Result, None
<1>3. Numbered'
  BY DEF Numbered, JobFits, Waits, Taken, TypeOK, DataRequest, Result, Control, MainType, Ids, None
<1>4. SessionFits' /\ ResultIsLatest' /\ BondOwed'
  BY DEF SessionFits, ResultIsLatest, BondOwed
<1>5. AllUnstarted'
  BY DEF AllUnstarted, Unstarted, Taken, JobFits, Waits, Numbered
<1>6. Disconnects'
  BY DEF Disconnects, Answered, Waits, Taken, JobFits, None
<1>7. Radio' /\ HandlesLive'
  BY DEF Radio, HandlesLive, TypeOK, JobFits, ConnectsFirst, Gone, Taken, Waits
<1>8. Settles'
  BY DEF Settles, Gone, Answered, Disconnects, Waits, JobFits
<1>9. ConnectsFirst'
  BY DEF ConnectsFirst, Gone, Starts, Waits, Taken, Radio, JobFits, AllUnstarted, Unstarted, SessionFits
<1> QED
  BY <1>1, <1>2, <1>3, <1>4, <1>5, <1>6, <1>7, <1>8, <1>9

LEMMA TaskDiscoveredKeeps == IInv /\ TaskDiscovered => IInv'
<1> SUFFICES ASSUME IInv, TaskDiscovered PROVE IInv'
  OBVIOUS
<1> USE DEF IInv, TaskDiscovered, Publishes, KeepsJob, queues, client
<1>1. TypeOK'
  BY DEF TypeOK, JobFits, Taken, Waits, ConnectsFirst, DataRequest, Result, Running
<1>2. JobFits'
  BY DEF JobFits, Waits, Taken, TypeOK, DataRequest, Result, None
<1>3. Numbered'
  BY DEF Numbered, JobFits, Waits, Taken, TypeOK, DataRequest, Result, Control, MainType, Ids, None
<1>4. SessionFits' /\ ResultIsLatest' /\ BondOwed'
  BY DEF SessionFits, ResultIsLatest, BondOwed
<1>5. AllUnstarted'
  BY DEF AllUnstarted, Unstarted, Taken, JobFits, Waits, Numbered
<1>6. Disconnects'
  BY DEF Disconnects, Answered, Waits, Taken, JobFits, None
<1>7. Radio' /\ HandlesLive'
  BY DEF Radio, HandlesLive, TypeOK, JobFits, ConnectsFirst, Gone, Taken, Waits
<1>8. Settles'
  BY DEF Settles, Gone, Answered, Disconnects, Waits, JobFits
<1>9. ConnectsFirst'
  BY DEF ConnectsFirst, Gone, Starts, Waits, Taken, Radio, JobFits, AllUnstarted, Unstarted, SessionFits
<1> QED
  BY <1>1, <1>2, <1>3, <1>4, <1>5, <1>6, <1>7, <1>8, <1>9

LEMMA TaskWrittenKeeps == IInv /\ TaskWritten => IInv'
<1> SUFFICES ASSUME IInv, TaskWritten PROVE IInv'
  OBVIOUS
<1> USE DEF IInv, TaskWritten, Publishes, KeepsJob, queues, client
<1>1. TypeOK'
  BY DEF TypeOK, JobFits, Taken, Waits, ConnectsFirst, DataRequest, Result, Running
<1>2. JobFits'
  BY DEF JobFits, Waits, Taken, TypeOK, DataRequest, Result, None
<1>3. Numbered'
  BY DEF Numbered, JobFits, Waits, Taken, TypeOK, DataRequest, Result, Control, MainType, Ids, None
<1>4. SessionFits' /\ ResultIsLatest' /\ BondOwed'
  BY DEF SessionFits, ResultIsLatest, BondOwed
<1>5. AllUnstarted'
  BY DEF AllUnstarted, Unstarted, Taken, JobFits, Waits, Numbered
<1>6. Disconnects'
  BY DEF Disconnects, Answered, Waits, Taken, JobFits, None
<1>7. Radio' /\ HandlesLive'
  BY DEF Radio, HandlesLive, TypeOK, JobFits, ConnectsFirst, Gone, Taken, Waits
<1>8. Settles'
  BY DEF Settles, Gone, Answered, Disconnects, Waits, JobFits
<1>9. ConnectsFirst'
  BY DEF ConnectsFirst, Gone, Starts, Waits, Taken, Radio, JobFits, AllUnstarted, Unstarted, SessionFits
<1> QED
  BY <1>1, <1>2, <1>3, <1>4, <1>5, <1>6, <1>7, <1>8, <1>9

LEMMA TaskPublishTypes == IInv /\ TaskPublish => TypeOK'
<1> SUFFICES ASSUME IInv, TaskPublish PROVE TypeOK'
  OBVIOUS
<1>1. fence' = FALSE /\ handles' \in 0..MaxGeneration
  BY DeferredTypes DEF IInv, TaskPublish
<1>2. job \in DataRequest \cup Result \cup {None}
  BY DEF IInv, TypeOK
<1>3. pc = "publish" => job \in Result
  BY DEF IInv, JobFits
<1> QED
  BY <1>1, <1>2, <1>3 DEF IInv, TypeOK, TaskPublish, queues

LEMMA TaskPublishKeeps == IInv /\ TaskPublish => IInv'
<1> SUFFICES ASSUME IInv, TaskPublish PROVE IInv'
  OBVIOUS
<1> USE DEF IInv, TaskPublish, Deferred, ClearedHandles, queues, client
<1>1. TypeOK'
  BY TaskPublishTypes
<1>2. JobFits'
  BY DEF JobFits, Waits, Taken, TypeOK, DataRequest, Result, None
<1>3. Numbered'
  BY DEF Numbered, JobFits, Waits, Taken, TypeOK, DataRequest, Result, Control, MainType, Ids, None
<1>4. SessionFits' /\ ResultIsLatest' /\ BondOwed'
  BY DEF SessionFits, ResultIsLatest, BondOwed
<1>5. AllUnstarted'
  BY DEF AllUnstarted, Unstarted, Taken, JobFits, Waits, Numbered
<1>6. Disconnects'
  BY DEF Disconnects, Answered, Waits, Taken, JobFits, None
<1>7. Radio' /\ HandlesLive'
  BY DEF Radio, HandlesLive, TypeOK, JobFits, ConnectsFirst, Gone, Taken, Waits
<1>8. Settles'
  BY DEF Settles, Gone, Answered, Disconnects, Waits, JobFits
<1>9. ConnectsFirst'
  BY DEF ConnectsFirst, Gone, Starts, Waits, Taken, Radio, JobFits, AllUnstarted, Unstarted, SessionFits
<1> QED
  BY <1>1, <1>2, <1>3, <1>4, <1>5, <1>6, <1>7, <1>8, <1>9

-----------------------------------------------------------------------------
(* The dispatcher of the priority control.                                  *)

(* A pass of the dispatcher leaves the queues and the task empty-handed, at *)
(* a disconnect the session waits for.                                      *)
LEMMA PassEffect ==
    ASSUME IInv, Pass(TRUE)
    PROVE  /\ controlQ' = None /\ requestQ' = None /\ job' = None
           /\ pc' = "delay" /\ lag' = (cb # "none") /\ UNCHANGED << main, epoch >>
           /\ deleted' \in BOOLEAN /\ lag' \in BOOLEAN
           /\ (deleted \/ (controlQ # None /\ controlQ.del)) => deleted'
           /\ main.disc /\ main.queued /\ ~Answered /\ link # "connecting"
<1> USE DEF IInv, Pass
<1>1. pc \in { "top", "received" } /\ HasControl /\ Activate /\ pc' = "delay" /\ job' = None
      /\ lag' = (cb # "none") /\ UNCHANGED << main, epoch >>
  OBVIOUS
<1>2. lag' \in BOOLEAN
  BY <1>1, Zenon
<1>3. link # "connecting"
  BY <1>1 DEF Radio
<1>4. CASE svc.active
  BY <1>1, <1>2, <1>3, <1>4 DEF Activate, Disconnects, TypeOK
<1>5. CASE ~svc.active
  <2>1. controlQ # None /\ controlQ' = None /\ requestQ' = None /\ deleted' = (deleted \/ controlQ.del)
    BY <1>1, <1>5 DEF Activate
  <2>2. controlQ.del \in BOOLEAN
    BY <2>1 DEF TypeOK, Control
  <2> QED
    BY <1>1, <1>2, <1>3, <2>1, <2>2 DEF Disconnects
<1> QED
  BY <1>4, <1>5

LEMMA ActivatedIs ==
    ASSUME IInv, Pass(TRUE)
    PROVE  /\ Activated \in SvcType
           /\ Activated.active /\ Activated.id = main.discId /\ Activated.target = gen
           /\ Activated.accepted => handles = 0
           /\ Activated.settled # 0 => /\ Activated.accepted /\ Activated.settled = 1
                                       /\ link = "down" /\ cb = "none"
<1> USE DEF IInv, Pass
<1>1. pc \in { "top", "received" } /\ HasControl /\ Activate
  OBVIOUS
<1>2. CASE svc.active
  <2>1. Activated = svc
    BY <1>2 DEF Activated
  <2> QED
    BY <1>1, <1>2, <2>1 DEF Disconnects, Settles, TypeOK
<1>3. CASE ~svc.active
  <2>1. controlQ # None
    BY <1>1, <1>3 DEF Activate
  <2>2. controlQ.id \in Ids /\ controlQ.id = main.discId
    BY <2>1 DEF TypeOK, Control, Disconnects
  <2>3. gen \in 0..MaxGeneration
    BY DEF TypeOK
  <2>4. Activated = [ active |-> TRUE, accepted |-> FALSE, settled |-> 0, attempts |-> 0,
                      confirms |-> 0, target |-> gen, id |-> controlQ.id ]
    BY <1>3 DEF Activated, IdleSvc
  <2> QED
    BY <2>2, <2>3, <2>4 DEF SvcType
<1> QED
  BY <1>2, <1>3

LEMMA IdleIs ==
    /\ IdleSvc \in SvcType /\ ~IdleSvc.active /\ ~IdleSvc.accepted /\ IdleSvc.settled = 0
  BY DEF IdleSvc, SvcType, Ids

(* What a pass leaves is right whatever the dispatcher decided.            *)
LEMMA PassLeaves ==
    ASSUME IInv, Pass(TRUE), resultQ' = resultQ \/ resultQ'.op = "DISCONNECT"
    PROVE  JobFits' /\ Numbered' /\ SessionFits' /\ ResultIsLatest' /\ AllUnstarted'
           /\ BondOwed' /\ ConnectsFirst'
<1> USE PassEffect DEF IInv
<1>1. JobFits' /\ SessionFits' /\ ResultIsLatest' /\ AllUnstarted'
  BY DEF JobFits, SessionFits, ResultIsLatest, AllUnstarted, Waits, Taken
<1>2. Numbered'
  BY DEF Numbered, Taken
<1>3. BondOwed' /\ ConnectsFirst'
  BY DEF BondOwed, ConnectsFirst, Waits, Taken
<1> QED
  BY <1>1, <1>2, <1>3

(* The dispatcher goes on, or it answers.                                  *)
LEMMA PendingKeeps ==
    ASSUME IInv, Pass(TRUE), NEW t \in SvcType, Pending(t),
           t.active, t.id = main.discId, t.target = gen, gen' = gen
    PROVE  svc' \in SvcType /\ resultQ' = resultQ /\ Disconnects'
  BY PassEffect DEF Pending, Disconnects, Answered

LEMMA AckKeeps ==
    ASSUME IInv, Pass(TRUE), NEW ok \in BOOLEAN, Ack(ok)
    PROVE  /\ svc' = IdleSvc /\ resultQ' \in Result /\ resultQ'.op = "DISCONNECT" /\ resultQ'.ok = ok
           /\ Disconnects'
<1>1. Activated.id \in Ids /\ Activated.id = main.discId
  BY ActivatedIs DEF SvcType
<1>2. svc' = IdleSvc /\ resultQ' \in Result /\ resultQ'.op = "DISCONNECT" /\ resultQ'.ok = ok
      /\ resultQ'.id = main.discId
  BY <1>1 DEF Ack, Result
<1> QED
  BY <1>2, PassEffect, IdleIs DEF Disconnects, Answered, Waits

LEMMA TaskCommandOnDownLinkKeeps == IInv /\ TaskCommandOnDownLink => IInv'
<1> SUFFICES ASSUME IInv, TaskCommandOnDownLink PROVE IInv'
  OBVIOUS
<1> DEFINE t == [ Activated EXCEPT !.accepted = TRUE ]
<1>1. Pass(TRUE) /\ CommandOnDownLink
  BY DEF TaskCommandOnDownLink, Pass
<1>2. t \in SvcType /\ t.active /\ t.id = main.discId /\ t.target = gen /\ t.settled = 0 /\ t.accepted
  BY <1>1, ActivatedIs DEF SvcType, CommandOnDownLink
<1>3. /\ link = "down" /\ downGen' = gen /\ handles' = 0 /\ fence' = FALSE
      /\ Pending(t) /\ UNCHANGED << link, cb, gen >>
  BY <1>1 DEF CommandOnDownLink, ClearedHandles
<1> HIDE DEF t
<1>4. svc' \in SvcType /\ resultQ' = resultQ /\ Disconnects' /\ svc' = t
  BY <1>1, <1>2, <1>3, PendingKeeps DEF Pending
<1>5. JobFits' /\ Numbered' /\ SessionFits' /\ ResultIsLatest' /\ AllUnstarted' /\ BondOwed' /\ ConnectsFirst'
  BY <1>1, <1>4, PassLeaves
<1>6. TypeOK'
  <2>1. handles' \in 0..MaxGeneration
    BY <1>3
  <2>2. fence' \in BOOLEAN
    BY <1>3
  <2> QED
    BY <2>1, <2>2, <1>1, <1>3, <1>4, PassEffect DEF TypeOK, IInv
<1>7. Radio' /\ HandlesLive'
  BY <1>1, <1>3, PassEffect DEF IInv, TypeOK, Radio, HandlesLive
<1>8. Settles'
  BY <1>1, <1>2, <1>3, <1>4, PassEffect DEF Settles, Answered
<1> QED
  BY <1>4, <1>5, <1>6, <1>7, <1>8 DEF IInv

LEMMA TaskCommandAcceptedKeeps == IInv /\ TaskCommandAccepted => IInv'
<1> SUFFICES ASSUME IInv, TaskCommandAccepted PROVE IInv'
  OBVIOUS
<1> DEFINE t == [ Activated EXCEPT !.accepted = TRUE ]
<1>1. Pass(TRUE) /\ CommandAccepted
  BY DEF TaskCommandAccepted, Pass
<1>2. t \in SvcType /\ t.active /\ t.id = main.discId /\ t.target = gen /\ t.settled = 0 /\ t.accepted
  BY <1>1, ActivatedIs DEF SvcType, CommandAccepted
<1>3. /\ IsConnected /\ link' = "closing" /\ handles' = 0 /\ fence' = FALSE
      /\ Pending(t) /\ UNCHANGED << cb, gen, downGen >>
  BY <1>1 DEF CommandAccepted, ClearedHandles
<1> HIDE DEF t
<1>4. svc' \in SvcType /\ resultQ' = resultQ /\ Disconnects' /\ svc' = t
  BY <1>1, <1>2, <1>3, PendingKeeps DEF Pending
<1>5. JobFits' /\ Numbered' /\ SessionFits' /\ ResultIsLatest' /\ AllUnstarted' /\ BondOwed' /\ ConnectsFirst'
  BY <1>1, <1>4, PassLeaves
<1>6. TypeOK'
  <2>1. handles' \in 0..MaxGeneration
    BY <1>3
  <2>2. fence' \in BOOLEAN
    BY <1>3
  <2> QED
    BY <2>1, <2>2, <1>1, <1>3, <1>4, PassEffect DEF TypeOK, IInv
<1>7. Radio' /\ HandlesLive'
  BY <1>1, <1>3, PassEffect DEF IInv, TypeOK, Radio, HandlesLive, IsConnected
<1>8. Settles'
  BY <1>1, <1>2, <1>3, <1>4, PassEffect DEF Settles, Answered
<1> QED
  BY <1>4, <1>5, <1>6, <1>7, <1>8 DEF IInv


LEMMA TaskCommandRejectedKeeps == IInv /\ TaskCommandRejected => IInv'
<1> SUFFICES ASSUME IInv, TaskCommandRejected PROVE IInv'
  OBVIOUS
<1> DEFINE t == [ Activated EXCEPT !.attempts = Activated.attempts + 1 ]
<1>1. Pass(TRUE) /\ CommandRejected
  BY DEF TaskCommandRejected, Pass
<1>2. ASSUME Activated.attempts + 1 < MaxAttempts
      PROVE  /\ t \in SvcType /\ t.active /\ t.id = main.discId /\ t.target = gen
             /\ t.settled = 0 /\ ~t.accepted
  BY <1>1, <1>2, ActivatedIs DEF SvcType, CommandRejected
<1>3. /\ IF Activated.attempts + 1 >= MaxAttempts THEN Ack(FALSE) ELSE Pending(t)
      /\ UNCHANGED << link, cb, gen, downGen >>
  BY <1>1 DEF CommandRejected
<1>4. fence' = FALSE /\ handles' \in 0..MaxGeneration /\ handles' \in { 0, handles }
  BY <1>1, DeferredTypes DEF CommandRejected, Deferred, ClearedHandles, IInv
<1> HIDE DEF t
<1>5. /\ svc' \in SvcType /\ resultQ' \in Result \cup { None } /\ Disconnects'
      /\ ~svc'.accepted /\ svc'.settled = 0
      /\ resultQ' = resultQ \/ (resultQ'.op = "DISCONNECT" /\ ~resultQ'.ok)
  <2>1. CASE Activated.attempts + 1 >= MaxAttempts
    BY <1>1, <1>3, <2>1, AckKeeps, IdleIs
  <2>2. CASE Activated.attempts + 1 < MaxAttempts
    <3>1. Activated.attempts \in Nat
      BY <1>1, ActivatedIs DEF SvcType
    <3>2. ~(Activated.attempts + 1 >= MaxAttempts)
      BY <2>2, <3>1
    <3>3. Pending(t)
      BY <1>3, <3>2, Zenon
    <3> QED
      BY <1>1, <1>2, <1>3, <2>2, <3>3, PendingKeeps DEF Pending, IInv, TypeOK
  <2> QED
    BY <1>1, <2>1, <2>2, ActivatedIs DEF SvcType
<1>6. JobFits' /\ Numbered' /\ SessionFits' /\ ResultIsLatest' /\ AllUnstarted' /\ BondOwed' /\ ConnectsFirst'
  BY <1>1, <1>5, PassLeaves
<1>7. TypeOK'
  BY <1>1, <1>3, <1>4, <1>5, PassEffect DEF TypeOK, IInv
<1>8. Radio' /\ HandlesLive'
  BY <1>1, <1>3, <1>4, PassEffect DEF IInv, Radio, HandlesLive
<1>9. Settles'
  BY <1>1, <1>5, PassEffect DEF Settles, Answered
<1> QED
  BY <1>5, <1>6, <1>7, <1>8, <1>9 DEF IInv

LEMMA TaskConfirmKeeps == IInv /\ TaskConfirm => IInv'
<1> SUFFICES ASSUME IInv, TaskConfirm PROVE IInv'
  OBVIOUS
<1> DEFINE s == Activated
           again == [ s EXCEPT !.settled = 0, !.confirms = s.confirms + 1 ]
           once == [ s EXCEPT !.settled = s.settled + 1 ]
<1>1. Pass(TRUE) /\ Confirm
  BY DEF TaskConfirm, Pass
<1>0. s \in SvcType /\ s.active /\ s.id = main.discId /\ s.target = gen
  BY <1>1, ActivatedIs
<1>2. s.accepted /\ UNCHANGED << link, cb, gen, downGen >> /\ handles = 0
  BY <1>1, ActivatedIs DEF Confirm
<1>3. fence' = FALSE /\ handles' \in 0..MaxGeneration /\ handles' = 0
  BY <1>1, <1>2, DeferredTypes DEF Confirm, Deferred, ClearedHandles, IInv
<1> HIDE DEF s
<1>4. ASSUME s.confirms + 1 < MaxConfirms
      PROVE  /\ again \in SvcType /\ again.active /\ again.id = main.discId /\ again.target = gen
             /\ again.settled = 0
  <2>1. s.confirms + 1 \in 0..MaxConfirms
    BY <1>0, <1>4 DEF SvcType
  <2>2. PICK z \in 0..2 : z = 0
    OBVIOUS
  <2>3. again = [ s EXCEPT !.settled = z, !.confirms = s.confirms + 1 ]
    BY <2>2
  <2>4. again \in SvcType /\ again.settled = z
    BY <1>0, <2>1, <2>3 DEF SvcType
  <2> QED
    BY <1>0, <2>2, <2>3, <2>4 DEF SvcType
<1>5. ASSUME s.settled = 0
      PROVE  /\ once \in SvcType /\ once.active /\ once.id = main.discId /\ once.target = gen
             /\ once.settled = 1 /\ once.accepted
  BY <1>0, <1>2, <1>5 DEF SvcType
<1>6. \/ ~LinkDownConfirmed(s) /\ Ack(FALSE)
      \/ s.confirms + 1 < MaxConfirms /\ Pending(again)
      \/ LinkDownConfirmed(s) /\ s.settled = 0 /\ Pending(once)
      \/ LinkDownConfirmed(s) /\ s.settled # 0 /\ Ack(TRUE)
  <2>1. s.settled \in { 0, 1 } /\ s.confirms \in Nat
    BY <1>1, ActivatedIs DEF SvcType, s
  <2>2. s.confirms + 1 >= MaxConfirms <=> ~(s.confirms + 1 < MaxConfirms)
    BY <2>1
  <2>3. s.settled + 1 < SettledPasses <=> s.settled = 0
    BY <2>1 DEF SettledPasses
  <2>4. CASE ~LinkDownConfirmed(s)
    BY <1>1, <2>2, <2>4, Zenon DEF Confirm, s, again, once
  <2>5. CASE LinkDownConfirmed(s)
    BY <1>1, <2>3, <2>5, Zenon DEF Confirm, s, again, once
  <2> QED
    BY <2>4, <2>5
<1> HIDE DEF again, once
<1>7. /\ svc' \in SvcType /\ resultQ' \in Result \cup { None } /\ Disconnects'
      /\ resultQ' = resultQ \/ resultQ'.op = "DISCONNECT"
  BY <1>1, <1>2, <1>4, <1>5, <1>6, AckKeeps, PendingKeeps, IdleIs DEF IInv, TypeOK
<1>8. JobFits' /\ Numbered' /\ SessionFits' /\ ResultIsLatest' /\ AllUnstarted' /\ BondOwed' /\ ConnectsFirst'
  BY <1>1, <1>7, PassLeaves
<1>9. TypeOK'
  BY <1>1, <1>2, <1>3, <1>7, PassEffect DEF TypeOK, IInv
<1>10. Radio' /\ HandlesLive'
  BY <1>1, <1>2, <1>3, PassEffect DEF IInv, Radio, HandlesLive
<1>11. Settles'
  <2>1. lag' = (cb # "none") /\ pc' = "delay" /\ ~Answered
    BY <1>1, PassEffect
  <2>2. CASE Ack(FALSE)
    BY <1>1, <1>2, <1>3, <2>1, <2>2, AckKeeps, IdleIs DEF Settles, Answered
  <2>3. CASE s.confirms + 1 < MaxConfirms /\ Pending(again)
    BY <1>2, <1>3, <1>4, <2>1, <2>3 DEF Settles, Answered, Pending
  <2>4. CASE LinkDownConfirmed(s) /\ s.settled = 0 /\ Pending(once)
    BY <1>2, <1>3, <1>5, <2>1, <2>4 DEF Settles, Answered, Pending, LinkDownConfirmed
  <2>5. CASE LinkDownConfirmed(s) /\ s.settled # 0 /\ Ack(TRUE)
    <3>1. Gone
      BY <1>1, <2>5, ActivatedIs DEF s, Gone
    <3> QED
      BY <1>1, <1>2, <1>3, <2>1, <2>5, <3>1, AckKeeps, IdleIs DEF Settles, Answered, Gone
  <2> QED
    BY <1>6, <2>2, <2>3, <2>4, <2>5
<1> QED
  BY <1>7, <1>8, <1>9, <1>10, <1>11 DEF IInv

-----------------------------------------------------------------------------
(* The session: what it does with its disconnect and its operation.         *)

(* The disconnect is queued, for the first time or after a refusal. *)
LEMMA QueueKeeps ==
    ASSUME IInv, main.disc, ~main.queued, main' = [ main EXCEPT !.queued = TRUE ],
           controlQ' = [ op |-> "DISCONNECT", id |-> main.discId, del |-> main.del ],
           resultQ' \in { None, resultQ },
           UNCHANGED << requestQ, epoch, pc, job, svc, lag, client, deleted >>
    PROVE  IInv'
<1> USE DEF IInv, client
<1>0. 0 \in Ids
  BY DEF Ids
<1>1. /\ main' \in MainType
      /\ main'.queued /\ controlQ' \in Control /\ controlQ'.id = main.discId /\ controlQ'.del = main.del
      /\ main'.active = main.active /\ main'.id = main.id /\ main'.ready = main.ready /\ main'.next = main.next
      /\ main'.fresh = main.fresh /\ main'.disc = main.disc /\ main'.del = main.del /\ main'.follow = main.follow
      /\ main'.discId = main.discId /\ main'.owed = main.owed
  BY <1>0 DEF TypeOK, MainType, Control
<1>2. TypeOK'
  BY <1>1 DEF TypeOK
<1>3. JobFits' /\ SessionFits' /\ ResultIsLatest'
  BY <1>1 DEF JobFits, SessionFits, ResultIsLatest, Waits, Taken
<1>4. Numbered'
  BY <1>1 DEF Numbered, Taken, None
<1>5. AllUnstarted'
  BY <1>1 DEF AllUnstarted, Unstarted, Taken
<1>6. Disconnects'
  BY <1>1 DEF Disconnects, Answered, None, Waits, Taken, Control
<1>7. Radio' /\ HandlesLive' /\ Settles'
  BY <1>1 DEF Radio, HandlesLive, Settles, Gone, Answered, None
<1>8. ConnectsFirst'
  BY <1>1 DEF ConnectsFirst, Gone, Waits, Taken, Starts
<1>9. BondOwed'
  BY <1>1 DEF BondOwed, Disconnects, Control, None
<1> QED
  BY <1>2, <1>3, <1>4, <1>5, <1>6, <1>7, <1>8, <1>9

(* The acknowledgement opens the fence. *)
LEMMA AcknowledgedKeeps ==
    ASSUME IInv, Answered, resultQ.ok, ~main.follow,
           main' = [ main EXCEPT !.disc = FALSE, !.queued = FALSE, !.del = FALSE, !.discId = 0, !.fresh = TRUE ],
           controlQ' = controlQ, resultQ' = None,
           UNCHANGED << requestQ, epoch, pc, job, svc, lag, client, deleted >>
    PROVE  IInv'
<1> USE DEF IInv, client
<1>0. 0 \in Ids
  BY DEF Ids
<1>1. /\ main' \in MainType
      /\ ~main'.disc /\ ~main'.queued /\ ~main'.del /\ main'.discId = 0 /\ main'.fresh
      /\ main'.active = main.active /\ main'.id = main.id /\ main'.ready = main.ready /\ main'.next = main.next
      /\ main'.follow = main.follow /\ main'.owed = main.owed
  BY <1>0 DEF TypeOK, MainType
<1>2. TypeOK'
  BY <1>1 DEF TypeOK
<1>3. JobFits' /\ SessionFits' /\ ResultIsLatest'
  BY <1>1 DEF JobFits, SessionFits, ResultIsLatest, Waits, Taken, Disconnects, Answered
<1>4. Numbered'
  BY <1>1 DEF Numbered, Taken, None
<1>5. AllUnstarted'
  BY <1>1 DEF AllUnstarted, Unstarted, Taken, Disconnects, Waits
<1>6. Disconnects'
  BY <1>1 DEF Disconnects, Answered, None, Waits, Taken
<1>7. Radio' /\ HandlesLive' /\ Settles'
  BY <1>1 DEF Radio, HandlesLive, Settles, Gone, Answered, None
<1>8. ConnectsFirst'
  BY <1>1 DEF ConnectsFirst, Gone, Waits, Taken, Starts, Settles, Disconnects, Answered
<1>9. BondOwed'
  BY <1>1 DEF BondOwed, Disconnects
<1> QED
  BY <1>2, <1>3, <1>4, <1>5, <1>6, <1>7, <1>8, <1>9

(* A refused disconnect has to be queued again. *)
LEMMA RefusedKeeps ==
    ASSUME IInv, Answered, ~resultQ.ok, main' = [ main EXCEPT !.queued = FALSE ],
           controlQ' = controlQ, resultQ' = None,
           UNCHANGED << requestQ, epoch, pc, job, svc, lag, client, deleted >>
    PROVE  IInv'
<1> USE DEF IInv, client
<1>0. 0 \in Ids
  BY DEF Ids
<1>1. /\ main' \in MainType
      /\ ~main'.queued
      /\ main'.active = main.active /\ main'.id = main.id /\ main'.ready = main.ready /\ main'.next = main.next
      /\ main'.fresh = main.fresh /\ main'.disc = main.disc /\ main'.del = main.del /\ main'.follow = main.follow
      /\ main'.discId = main.discId /\ main'.owed = main.owed
  BY <1>0 DEF TypeOK, MainType
<1>2. TypeOK'
  BY <1>1 DEF TypeOK
<1>3. JobFits' /\ SessionFits' /\ ResultIsLatest'
  BY <1>1 DEF JobFits, SessionFits, ResultIsLatest, Waits, Taken
<1>4. Numbered'
  BY <1>1 DEF Numbered, Taken, None
<1>5. AllUnstarted'
  BY <1>1 DEF AllUnstarted, Unstarted, Taken
<1>6. Disconnects'
  BY <1>1 DEF Disconnects, Answered, None, Waits, Taken
<1>7. Radio' /\ HandlesLive' /\ Settles'
  BY <1>1 DEF Radio, HandlesLive, Settles, Gone, Answered, None
<1>8. ConnectsFirst'
  BY <1>1 DEF ConnectsFirst, Gone, Waits, Taken, Starts
<1>9. BondOwed'
  BY <1>1 DEF BondOwed, Disconnects
<1> QED
  BY <1>2, <1>3, <1>4, <1>5, <1>6, <1>7, <1>8, <1>9

(* An operation with an answer is neither queued nor unclaimed.            *)
LEMMA SubmittedIsOver ==
    ASSUME IInv, resultQ.op \in Ops, main.active # "NONE", resultQ.id = main.id
    PROVE  requestQ = None /\ ~Taken
<1> USE DEF IInv
<1>1. requestQ # None => requestQ.id \in Ids /\ resultQ.id \in Ids /\ requestQ.id = main.id
  BY DEF TypeOK, DataRequest, Result, None, AllUnstarted, Unstarted, SessionFits
<1>2. Taken => job # None /\ job.id \in Ids /\ resultQ.id \in Ids /\ job.id = main.id
  BY DEF TypeOK, DataRequest, Result, None, AllUnstarted, Unstarted, SessionFits, JobFits
<1> QED
  BY <1>1, <1>2 DEF Numbered, Ids

(* The answer of the operation the session waits for. *)
LEMMA CompletedKeeps ==
    ASSUME IInv, resultQ.op \in Ops, main.active # "NONE", resultQ.id = main.id,
           main' = [ main EXCEPT !.active = "NONE", !.id = 0, !.ready = main.id ],
           controlQ' = controlQ, resultQ' = None,
           UNCHANGED << requestQ, epoch, pc, job, svc, lag, client, deleted >>
    PROVE  IInv'
<1> USE DEF IInv, client
<1>0. 0 \in Ids
  BY DEF Ids
<1>1. /\ main' \in MainType
      /\ main'.active = "NONE" /\ main'.id = 0 /\ main'.ready = main.id
      /\ main'.next = main.next /\ main'.fresh = main.fresh /\ main'.disc = main.disc /\ main'.queued = main.queued
      /\ main'.del = main.del /\ main'.follow = main.follow /\ main'.discId = main.discId /\ main'.owed = main.owed
  BY <1>0 DEF TypeOK, MainType
<1>2. TypeOK'
  BY <1>1 DEF TypeOK
<1>3. JobFits' /\ SessionFits' /\ ResultIsLatest'
  BY <1>1 DEF JobFits, SessionFits, ResultIsLatest, Waits, Taken
<1>4. Numbered'
  BY <1>1 DEF Numbered, Taken, None
<1>5. AllUnstarted'
  BY <1>1, SubmittedIsOver DEF AllUnstarted, Unstarted, Taken
<1>6. Disconnects'
  BY <1>1 DEF Disconnects, Answered, None, Waits, Taken
<1>7. Radio' /\ HandlesLive' /\ Settles'
  BY <1>1 DEF Radio, HandlesLive, Settles, Gone, Answered, None
<1>8. ConnectsFirst'
  BY <1>1 DEF ConnectsFirst, Gone, Waits, Taken, Starts
<1>9. BondOwed'
  BY <1>1 DEF BondOwed, Disconnects
<1> QED
  BY <1>2, <1>3, <1>4, <1>5, <1>6, <1>7, <1>8, <1>9

(* Any other result is dropped. *)
LEMMA DroppedKeeps ==
    ASSUME IInv, ~Answered, main' = main,
           controlQ' = controlQ, resultQ' = None,
           UNCHANGED << requestQ, epoch, pc, job, svc, lag, client, deleted >>
    PROVE  IInv'
<1> USE DEF IInv, client
<1>0. 0 \in Ids
  BY DEF Ids
<1>1. /\ main' \in MainType

      /\ main'.active = main.active /\ main'.id = main.id /\ main'.ready = main.ready /\ main'.next = main.next
      /\ main'.fresh = main.fresh /\ main'.disc = main.disc /\ main'.queued = main.queued /\ main'.del = main.del
      /\ main'.follow = main.follow /\ main'.discId = main.discId /\ main'.owed = main.owed
  BY <1>0 DEF TypeOK, MainType
<1>2. TypeOK'
  BY <1>1 DEF TypeOK
<1>3. JobFits' /\ SessionFits' /\ ResultIsLatest'
  BY <1>1 DEF JobFits, SessionFits, ResultIsLatest, Waits, Taken
<1>4. Numbered'
  BY <1>1 DEF Numbered, Taken, None
<1>5. AllUnstarted'
  BY <1>1 DEF AllUnstarted, Unstarted, Taken
<1>6. Disconnects'
  BY <1>1 DEF Disconnects, Answered, None, Waits, Taken
<1>7. Radio' /\ HandlesLive' /\ Settles'
  BY <1>1 DEF Radio, HandlesLive, Settles, Gone, Answered, None
<1>8. ConnectsFirst'
  BY <1>1 DEF ConnectsFirst, Gone, Waits, Taken, Starts
<1>9. BondOwed'
  BY <1>1 DEF BondOwed, Disconnects
<1> QED
  BY <1>2, <1>3, <1>4, <1>5, <1>6, <1>7, <1>8, <1>9

(* The result is taken, or its operation is given up.                      *)
LEMMA TakeKeeps ==
    ASSUME IInv, main' = [ main EXCEPT !.ready = 0 ], UNCHANGED queues,
           UNCHANGED << epoch, pc, job, svc, lag, client, deleted >>
    PROVE  IInv'
<1> USE DEF IInv, client, queues
<1>0. 0 \in Ids
  BY DEF Ids
<1>1. /\ main' \in MainType
      /\ main'.ready = 0
      /\ main'.active = main.active /\ main'.id = main.id /\ main'.next = main.next /\ main'.fresh = main.fresh
      /\ main'.disc = main.disc /\ main'.queued = main.queued /\ main'.del = main.del /\ main'.follow = main.follow
      /\ main'.discId = main.discId /\ main'.owed = main.owed
  BY <1>0 DEF TypeOK, MainType
<1>2. TypeOK'
  BY <1>1 DEF TypeOK
<1>3. JobFits' /\ SessionFits' /\ ResultIsLatest'
  BY <1>1 DEF JobFits, SessionFits, ResultIsLatest, Waits, Taken
<1>4. Numbered'
  BY <1>1 DEF Numbered, Taken, None
<1>5. AllUnstarted'
  BY <1>1 DEF AllUnstarted, Unstarted, Taken
<1>6. Disconnects'
  BY <1>1 DEF Disconnects, Answered, None, Waits, Taken
<1>7. Radio' /\ HandlesLive' /\ Settles'
  BY <1>1 DEF Radio, HandlesLive, Settles, Gone, Answered, None
<1>8. ConnectsFirst'
  BY <1>1 DEF ConnectsFirst, Gone, Waits, Taken, Starts
<1>9. BondOwed'
  BY <1>1 DEF BondOwed, Disconnects
<1> QED
  BY <1>2, <1>3, <1>4, <1>5, <1>6, <1>7, <1>8, <1>9

LEMMA MainAbandonConnectKeeps ==
    ASSUME IInv, MainAbandonConnect
    PROVE  IInv' /\ main'.disc = main.disc
<1> USE DEF IInv, client, queues, MainAbandonConnect, IsConnected
<1>0. 0 \in Ids
  BY DEF Ids
<1>1. /\ main' \in MainType
      /\ main'.active = "NONE" /\ main'.id = 0 /\ main'.ready = 0
      /\ main'.next = main.next /\ main'.fresh = main.fresh /\ main'.disc = main.disc /\ main'.queued = main.queued
      /\ main'.del = main.del /\ main'.follow = main.follow /\ main'.discId = main.discId /\ main'.owed = main.owed
  BY <1>0 DEF TypeOK, MainType, Cleared
<1>2. TypeOK'
  BY <1>1 DEF TypeOK
<1>3. JobFits' /\ SessionFits' /\ ResultIsLatest'
  BY <1>1 DEF JobFits, SessionFits, ResultIsLatest, Waits, Taken
<1>4. Numbered'
  BY <1>1 DEF Numbered, Taken, None
<1>5. AllUnstarted'
  BY <1>1 DEF AllUnstarted, Unstarted, Taken, ConnectsFirst, Gone, Starts
<1>6. Disconnects'
  BY <1>1 DEF Disconnects, Answered, None, Waits, Taken
<1>7. Radio' /\ HandlesLive' /\ Settles'
  BY <1>1 DEF Radio, HandlesLive, Settles, Gone, Answered, None
<1>8. ConnectsFirst'
  BY <1>1 DEF ConnectsFirst, Gone, Waits, Taken, Starts
<1>9. BondOwed'
  BY <1>1 DEF BondOwed, Disconnects
<1> QED
  BY <1>1, <1>2, <1>3, <1>4, <1>5, <1>6, <1>7, <1>8, <1>9

(* The session submits an operation, and takes the answer of an earlier one. *)
LEMMA SubmitKeeps ==
    ASSUME IInv, NEW op \in Ops, ~main.disc, requestQ = None, ~Taken, main.fresh <=> op = "CONNECT",
           op = "CONNECT" => gen < MaxGeneration,
           NEW id \in Ids, id = main.next + 1, main' \in MainType, main'.active = op, main'.id = id, main'.ready = 0, main'.next = id,
           main'.fresh = FALSE, main'.disc = main.disc, main'.queued = main.queued, main'.del = main.del,
           main'.follow = main.follow, main'.discId = main.discId, main'.owed = main.owed,
           controlQ' = controlQ, resultQ' = None, requestQ' = [ op |-> op, id |-> id, epoch |-> epoch ],
           UNCHANGED << epoch, pc, job, svc, lag, client, deleted >>
    PROVE  IInv'
<1> USE DEF IInv, client
<1>0. 0 \in Ids
  BY DEF Ids
<1>1. /\ main' \in MainType
      /\ main.next \in Nat /\ epoch \in Nat /\ epoch \in Ids /\ op # "NONE"
      /\ main'.disc = main.disc /\ main'.queued = main.queued /\ main'.del = main.del /\ main'.follow = main.follow
      /\ main'.discId = main.discId /\ main'.owed = main.owed
  BY <1>0 DEF TypeOK, MainType, Ids
<1>2. TypeOK'
  BY <1>1 DEF TypeOK, DataRequest
<1>3. JobFits' /\ SessionFits' /\ ResultIsLatest'
  BY <1>1 DEF JobFits, SessionFits, ResultIsLatest, Waits, Taken
<1>4. Numbered'
  BY <1>1 DEF Numbered, Taken, None, TypeOK, MainType, DataRequest, Result, Ids
<1>5. AllUnstarted'
  BY <1>1 DEF AllUnstarted, Unstarted, Taken
<1>6. Disconnects'
  BY <1>1 DEF Disconnects, Answered, None, Waits, Taken, SessionFits
<1>7. Radio' /\ HandlesLive' /\ Settles'
  BY <1>1 DEF Radio, HandlesLive, Settles, Gone, Answered, None
<1>8. ConnectsFirst'
  BY <1>1 DEF ConnectsFirst, Gone, Waits, Taken, Starts, JobFits
<1>9. BondOwed'
  BY <1>1 DEF BondOwed, Disconnects
<1> QED
  BY <1>2, <1>3, <1>4, <1>5, <1>6, <1>7, <1>8, <1>9

(* Asked again while the disconnect is queued. *)
LEMMA AskedKeeps ==
    ASSUME IInv, NEW owed \in BOOLEAN, NEW follow \in BOOLEAN, NEW del \in BOOLEAN, main.disc,
           main'.active = "NONE", main'.id = 0, main'.ready = 0, main'.next = main.next, main'.fresh = main.fresh,
           main'.disc = main.disc, main'.discId = main.discId,
           main'.owed = owed, main'.follow = follow, main'.del = del, main' \in MainType,
           follow => main.next < MaxId, main.follow => follow, resultQ' = resultQ,
           main.queued, main'.queued = main.queued, owed => main.owed \/ follow, controlQ' = controlQ,
           UNCHANGED << requestQ, epoch, pc, job, svc, lag, client, deleted >>
    PROVE  IInv'
<1> USE DEF IInv, client
<1>0. 0 \in Ids
  BY DEF Ids
<1>1. /\ main' \in MainType
      /\ main.active = "NONE" /\ main.ready = 0
      /\ main'.next = main.next /\ main'.fresh = main.fresh /\ main'.disc = main.disc /\ main'.queued = main.queued
      /\ main'.discId = main.discId
  BY <1>0 DEF TypeOK, MainType, SessionFits, ResultIsLatest
<1>2. TypeOK'
  BY <1>1 DEF TypeOK
<1>3. JobFits' /\ SessionFits' /\ ResultIsLatest'
  BY <1>1 DEF JobFits, SessionFits, ResultIsLatest, Waits, Taken
<1>4. Numbered'
  BY <1>1 DEF Numbered, Taken, None
<1>5. AllUnstarted'
  BY <1>1 DEF AllUnstarted, Unstarted, Taken
<1>6. Disconnects'
  BY <1>1 DEF Disconnects, Answered, None, Waits, Taken
<1>7. Radio' /\ HandlesLive' /\ Settles'
  BY <1>1 DEF Radio, HandlesLive, Settles, Gone, Answered, None
<1>8. ConnectsFirst'
  BY <1>1 DEF ConnectsFirst, Gone, Waits, Taken, Starts
<1>9. BondOwed'
  BY <1>1 DEF BondOwed, Disconnects
<1> QED
  BY <1>2, <1>3, <1>4, <1>5, <1>6, <1>7, <1>8, <1>9

(* Asked again while the disconnect is not queued. *)
LEMMA AskedAndQueuedKeeps ==
    ASSUME IInv, NEW owed \in BOOLEAN, NEW follow \in BOOLEAN, NEW del \in BOOLEAN, main.disc,
           main'.active = "NONE", main'.id = 0, main'.ready = 0, main'.next = main.next, main'.fresh = main.fresh,
           main'.disc = main.disc, main'.discId = main.discId,
           main'.owed = owed, main'.follow = follow, main'.del = del, main' \in MainType,
           follow => main.next < MaxId, main.follow => follow, resultQ' = resultQ,
           ~main.queued, main'.queued, owed => main.owed \/ del, main.del => del,
           controlQ' = [ op |-> "DISCONNECT", id |-> main'.discId, del |-> main'.del ],
           UNCHANGED << requestQ, epoch, pc, job, svc, lag, client, deleted >>
    PROVE  IInv'
<1> USE DEF IInv, client
<1>0. 0 \in Ids
  BY DEF Ids
<1>1. /\ main' \in MainType
      /\ main.active = "NONE" /\ main.ready = 0 /\ controlQ' \in Control /\ controlQ'.id = main.discId /\ controlQ'.del = del
      /\ main'.next = main.next /\ main'.fresh = main.fresh /\ main'.disc = main.disc /\ main'.discId = main.discId
  BY <1>0 DEF TypeOK, MainType, SessionFits, ResultIsLatest, Control
<1>2. TypeOK'
  BY <1>1 DEF TypeOK
<1>3. JobFits' /\ SessionFits' /\ ResultIsLatest'
  BY <1>1 DEF JobFits, SessionFits, ResultIsLatest, Waits, Taken
<1>4. Numbered'
  BY <1>1 DEF Numbered, Taken, None
<1>5. AllUnstarted'
  BY <1>1 DEF AllUnstarted, Unstarted, Taken
<1>6. Disconnects'
  BY <1>1 DEF Disconnects, Answered, None, Waits, Taken, Control
<1>7. Radio' /\ HandlesLive' /\ Settles'
  BY <1>1 DEF Radio, HandlesLive, Settles, Gone, Answered, None
<1>8. ConnectsFirst'
  BY <1>1 DEF ConnectsFirst, Gone, Waits, Taken, Starts
<1>9. BondOwed'
  BY <1>1 DEF BondOwed, Disconnects, Control, None
<1> QED
  BY <1>2, <1>3, <1>4, <1>5, <1>6, <1>7, <1>8, <1>9

LEMMA ViewIs ==
    View.m = main /\ View.control = controlQ /\ View.result = resultQ /\ DOMAIN View = { "m", "control", "result" }
  BY DEF View

LEMMA QueueIs ==
    /\ Queue(View).m = [ main EXCEPT !.queued = TRUE ]
    /\ Queue(View).control = [ op |-> "DISCONNECT", id |-> main.discId, del |-> main.del ]
    /\ Queue(View).result = resultQ
    /\ DOMAIN Queue(View) = { "m", "control", "result" }
  BY DEF Queue, View

LEMMA PumpedQueues ==
    ASSUME main \in MainType, main.disc, ~main.queued, ~Answered, main.active = "NONE"
    PROVE  /\ Pumped(View).m = [ main EXCEPT !.queued = TRUE ]
           /\ Pumped(View).control = [ op |-> "DISCONNECT", id |-> main.discId, del |-> main.del ]
           /\ Pumped(View).result = None
<1> DEFINE q == Queue(View)
<1>1. Requeue(View) = q
  BY DEF Requeue, View
<1>2. q.m = [ main EXCEPT !.queued = TRUE ] /\ q.result = resultQ
      /\ q.control = [ op |-> "DISCONNECT", id |-> main.discId, del |-> main.del ]
      /\ DOMAIN q = { "m", "control", "result" }
  BY QueueIs
<1>3. q.m.active = "NONE"
  BY <1>2 DEF MainType
<1> HIDE DEF q
<1>4. Received(q) = [ q EXCEPT !.result = None ]
  BY <1>2, <1>3, Zenon DEF Received, Answers, Settling, Answered
<1> QED
  BY <1>1, <1>2, <1>4 DEF Pumped

LEMMA PumpedFollows ==
    ASSUME main \in MainType, main.disc, main.queued, Answered, resultQ.id = main.discId, resultQ.ok, main.follow
    PROVE  /\ Pumped(View).m.active = main.active /\ Pumped(View).m.id = main.id
           /\ Pumped(View).m.ready = main.ready /\ Pumped(View).m.next = main.next + 1
           /\ Pumped(View).m.fresh = main.fresh /\ Pumped(View).m.disc = main.disc
           /\ Pumped(View).m.queued = TRUE /\ Pumped(View).m.del = TRUE
           /\ Pumped(View).m.follow = FALSE /\ Pumped(View).m.discId = main.next + 1
           /\ Pumped(View).m.owed = main.owed
           /\ main.next + 1 \in Ids => Pumped(View).m \in MainType
           /\ Pumped(View).control = [ op |-> "DISCONNECT", id |-> main.next + 1, del |-> TRUE ]
           /\ Pumped(View).result = None
<1> DEFINE y == [ View EXCEPT !.result = None ]
           f == [ y EXCEPT !.m.follow = FALSE, !.m.del = TRUE,
                           !.m.next = y.m.next + 1, !.m.discId = y.m.next + 1 ]
<1>1. Requeue(View) = View
  BY DEF Requeue, View
<1>2. Received(View) = Acknowledged(y)
  BY ViewIs, Zenon DEF Received, Settling, Answered
<1>3. y.m = main /\ y.control = controlQ /\ y.result = None /\ DOMAIN y = { "m", "control", "result" }
  BY DEF View
<1>4. Acknowledged(y) = Queue(f)
  BY <1>3, Zenon DEF Acknowledged
<1> HIDE DEF y
<1>5. f.m = [ main EXCEPT !.follow = FALSE, !.del = TRUE, !.next = main.next + 1, !.discId = main.next + 1 ]
      /\ f.control = controlQ /\ f.result = None /\ DOMAIN f = { "m", "control", "result" }
  BY <1>3
<1> HIDE DEF f
<1> DEFINE n == main.next + 1
<1>6. f.m = [ main EXCEPT !.follow = FALSE, !.del = TRUE, !.next = n, !.discId = n ]
  BY <1>5
<1> HIDE DEF n
<1>7. /\ f.m.active = main.active /\ f.m.id = main.id /\ f.m.ready = main.ready
       /\ f.m.fresh = main.fresh /\ f.m.disc = main.disc /\ f.m.owed = main.owed
  BY <1>6 DEF MainType
<1>8. f.m.next = n
  BY <1>6 DEF MainType
<1>9. f.m.discId = n
  BY <1>6 DEF MainType
<1>10. f.m.del = TRUE /\ f.m.follow = FALSE /\ DOMAIN f.m = DOMAIN main
  BY <1>6 DEF MainType
<1>11. /\ f.m.active = main.active /\ f.m.id = main.id /\ f.m.ready = main.ready /\ f.m.next = n
      /\ f.m.fresh = main.fresh /\ f.m.disc = main.disc /\ f.m.discId = n /\ f.m.owed = main.owed
      /\ f.m.del = TRUE /\ f.m.follow = FALSE /\ DOMAIN f.m = DOMAIN main
  BY <1>7, <1>8, <1>9, <1>10, Zenon
<1>12. n \in Ids => f.m \in MainType
  <2> DEFINE g == [ main EXCEPT !.follow = FALSE, !.del = TRUE ]
  <2>1. g \in MainType
    BY DEF MainType
  <2>2. f.m = [ g EXCEPT !.next = n, !.discId = n ]
    BY <1>6
  <2> HIDE DEF g
  <2> QED
    BY <2>1, <2>2 DEF MainType
<1>13. Queue(f).m = [ f.m EXCEPT !.queued = TRUE ] /\ Queue(f).control = [ op |-> "DISCONNECT", id |-> f.m.discId, del |-> f.m.del ]
      /\ Queue(f).result = f.result
  BY <1>5 DEF Queue
<1>14. Pumped(View) = Queue(f)
  BY <1>1, <1>2, <1>4 DEF Pumped
<1> DEFINE q == Queue(f)
<1>15. DOMAIN f.m = { "active", "id", "ready", "next", "fresh", "disc", "queued", "del", "follow", "discId", "owed" }
  BY <1>11 DEF MainType
<1> HIDE DEF q
<1>16. /\ q.m.active = main.active /\ q.m.id = main.id /\ q.m.ready = main.ready /\ q.m.next = n
      /\ q.m.fresh = main.fresh /\ q.m.disc = main.disc /\ q.m.del = TRUE /\ q.m.follow = FALSE
      /\ q.m.discId = n /\ q.m.owed = main.owed /\ q.m.queued = TRUE
  BY <1>11, <1>13, <1>15 DEF q
<1>17. n \in Ids => q.m \in MainType
  BY <1>12, <1>13 DEF q, MainType
<1>18. q.control = [ op |-> "DISCONNECT", id |-> n, del |-> TRUE ] /\ q.result = None
  BY <1>5, <1>11, <1>13 DEF q
<1> QED
  BY <1>14, <1>16, <1>17, <1>18 DEF n, q

LEMMA PumpedOpens ==
    ASSUME main \in MainType, main.disc, main.queued, Answered, resultQ.id = main.discId, resultQ.ok, ~main.follow
    PROVE  /\ Pumped(View).m = [ main EXCEPT !.disc = FALSE, !.queued = FALSE, !.del = FALSE,
                                             !.discId = 0, !.fresh = TRUE ]
           /\ Pumped(View).control = controlQ /\ Pumped(View).result = None
<1> DEFINE y == [ View EXCEPT !.result = None ]
<1>1. Requeue(View) = View
  BY DEF Requeue, View
<1>2. Received(View) = Acknowledged(y)
  BY ViewIs, Zenon DEF Received, Settling, Answered
<1>3. y.m = main /\ y.control = controlQ /\ y.result = None /\ DOMAIN y = { "m", "control", "result" }
  BY DEF View
<1> HIDE DEF y
<1>4. Acknowledged(y) = [ y EXCEPT !.m.disc = FALSE, !.m.queued = FALSE, !.m.del = FALSE,
                                   !.m.discId = 0, !.m.fresh = TRUE ]
  BY <1>3, Zenon DEF Acknowledged
<1> QED
  BY <1>1, <1>2, <1>3, <1>4 DEF Pumped

LEMMA PumpedRefuses ==
    ASSUME main \in MainType, main.disc, main.queued, Answered, resultQ.id = main.discId, ~resultQ.ok
    PROVE  /\ Pumped(View).m = [ main EXCEPT !.queued = FALSE ]
           /\ Pumped(View).control = controlQ /\ Pumped(View).result = None
<1> DEFINE y == [ View EXCEPT !.result = None ]
<1>1. Requeue(View) = View
  BY DEF Requeue, View
<1>2. Received(View) = Refused(y)
  BY ViewIs, Zenon DEF Received, Settling, Answered
<1>3. y.m = main /\ y.control = controlQ /\ y.result = None /\ DOMAIN y = { "m", "control", "result" }
  BY DEF View
<1> HIDE DEF y
<1> QED
  BY <1>1, <1>2, <1>3 DEF Pumped, Refused

LEMMA PumpedCompletes ==
    ASSUME main \in MainType, main.disc => main.queued, resultQ.op \in Ops, main.active # "NONE", resultQ.id = main.id
    PROVE  /\ Pumped(View).m = [ main EXCEPT !.active = "NONE", !.id = 0, !.ready = main.id ]
           /\ Pumped(View).control = controlQ /\ Pumped(View).result = None
<1> DEFINE y == [ View EXCEPT !.result = None ]
<1>1. Requeue(View) = View
  BY DEF Requeue, View
<1>2. resultQ.op # "DISCONNECT"
  OBVIOUS
<1>3. Received(View) = Completed(y, resultQ)
  BY <1>2, ViewIs, Zenon DEF Received, Answers, Settling
<1>4. y.m = main /\ y.control = controlQ /\ y.result = None /\ DOMAIN y = { "m", "control", "result" }
  BY DEF View
<1> HIDE DEF y
<1> QED
  BY <1>1, <1>3, <1>4 DEF Pumped, Completed

LEMMA PumpedDrops ==
    ASSUME main \in MainType, main.disc => main.queued, ~Settling(main, resultQ),
           ~(resultQ.op \in Ops /\ main.active # "NONE" /\ resultQ.id = main.id)
    PROVE  Pumped(View).m = main /\ Pumped(View).control = controlQ /\ Pumped(View).result = None
<1>1. Requeue(View) = View
  BY DEF Requeue, View
<1>2. Received(View) = [ View EXCEPT !.result = None ]
  BY ViewIs, Zenon DEF Received, Answers
<1> QED
  BY <1>1, <1>2 DEF Pumped, View

(* A bond deletion asked for meanwhile makes another disconnect. *)
LEMMA FollowsKeeps ==
    ASSUME IInv, Answered, main.follow, main'.active = main.active, main'.id = main.id, main'.ready = main.ready,
           main'.next = main.next + 1, main'.fresh = main.fresh, main'.disc = main.disc, main'.queued = TRUE, main'.del = TRUE,
           main'.follow = FALSE, main'.discId = main.next + 1, main'.owed = main.owed, main' \in MainType, main.next + 1 \in Ids,
           controlQ' = [ op |-> "DISCONNECT", id |-> main.next + 1, del |-> TRUE ], resultQ' = None,
           UNCHANGED << requestQ, epoch, pc, job, svc, lag, client, deleted >>
    PROVE  IInv'
<1> USE DEF IInv, client
<1>0. 0 \in Ids
  BY DEF Ids
<1>1. /\ main' \in MainType
      /\ main'.next = main.next + 1 /\ main.next \in Nat /\ epoch \in Nat /\ controlQ' \in Control /\ controlQ'.id = main'.discId /\ controlQ'.del = TRUE
      /\ main'.active = main.active /\ main'.id = main.id /\ main'.ready = main.ready /\ main'.fresh = main.fresh
      /\ main'.disc = main.disc /\ main'.owed = main.owed
  BY <1>0 DEF TypeOK, MainType, Control, Ids
<1>2. TypeOK'
  BY <1>1 DEF TypeOK
<1>3. JobFits' /\ SessionFits' /\ ResultIsLatest'
  BY <1>1 DEF JobFits, SessionFits, ResultIsLatest, Waits, Taken
<1>4. Numbered'
  BY <1>1 DEF Numbered, Taken, None, TypeOK, MainType, DataRequest, Result, Ids
<1>5. AllUnstarted'
  BY <1>1 DEF AllUnstarted, Unstarted, Taken
<1>6. Disconnects'
  BY <1>1 DEF Disconnects, Answered, None, Waits, Taken, Control
<1>7. Radio' /\ HandlesLive' /\ Settles'
  BY <1>1 DEF Radio, HandlesLive, Settles, Gone, Answered, None
<1>8. ConnectsFirst'
  BY <1>1 DEF ConnectsFirst, Gone, Waits, Taken, Starts
<1>9. BondOwed'
  BY <1>1 DEF BondOwed, Disconnects, Control, None
<1> QED
  BY <1>2, <1>3, <1>4, <1>5, <1>6, <1>7, <1>8, <1>9

(* The session sees its disconnect acknowledged, and none is to follow.     *)
Acks == main.disc /\ Answered /\ resultQ.ok /\ ~main.follow

LEMMA MainPumpKeeps == IInv /\ MainPump => IInv' /\ (Acks \/ main'.disc = main.disc)
<1> SUFFICES ASSUME IInv, MainPump PROVE IInv' /\ (Acks \/ main'.disc = main.disc)
  OBVIOUS
<1>1. main \in MainType /\ (Answered => main.disc /\ main.queued /\ resultQ.id = main.discId)
  BY DEF IInv, TypeOK, Disconnects
<1>2. /\ main' = Pumped(View).m /\ controlQ' = Pumped(View).control /\ resultQ' = Pumped(View).result
      /\ UNCHANGED << requestQ, epoch, pc, job, svc, lag, client, deleted >>
  BY DEF MainPump, Seen
<1>3. CASE main.disc /\ ~main.queued
  <2>1. ~Answered /\ main.active = "NONE"
    BY <1>3 DEF IInv, Disconnects, SessionFits
  <2> QED
    BY <1>1, <1>2, <1>3, <2>1, PumpedQueues, QueueKeeps DEF MainType
<1>4. CASE Answered /\ resultQ.ok /\ main.follow
  <2>1. main.next + 1 \in Ids
    BY <1>1, <1>4 DEF IInv, SessionFits, MainType, Ids
  <2> QED
    BY <1>1, <1>2, <1>4, <2>1, PumpedFollows, FollowsKeeps
<1>5. CASE Answered /\ resultQ.ok /\ ~main.follow
  BY <1>1, <1>2, <1>5, PumpedOpens, AcknowledgedKeeps DEF Acks
<1>6. CASE Answered /\ ~resultQ.ok
  BY <1>1, <1>2, <1>6, PumpedRefuses, RefusedKeeps DEF MainType
<1>7. CASE ~Answered /\ (main.disc => main.queued)
  <2>1. CASE resultQ.op \in Ops /\ main.active # "NONE" /\ resultQ.id = main.id
    BY <1>1, <1>2, <1>7, <2>1, PumpedCompletes, CompletedKeeps DEF MainType
  <2>2. CASE ~(resultQ.op \in Ops /\ main.active # "NONE" /\ resultQ.id = main.id)
    <3>1. ~Settling(main, resultQ)
      BY <1>7 DEF Settling, Answered
    <3> QED
      BY <1>1, <1>2, <1>7, <2>2, <3>1, PumpedDrops, DroppedKeeps
  <2> QED
    BY <2>1, <2>2
<1> QED
  BY <1>3, <1>4, <1>5, <1>6, <1>7

LEMMA MainQueueDisconnectKeeps == IInv /\ MainQueueDisconnect => IInv' /\ main'.disc = main.disc
<1> SUFFICES ASSUME IInv, MainQueueDisconnect PROVE IInv' /\ main'.disc = main.disc
  OBVIOUS
<1>1. main' = [ main EXCEPT !.queued = TRUE ] /\ main \in MainType
  BY QueueIs DEF MainQueueDisconnect, Seen, IInv, TypeOK
<1>2. main'.disc = main.disc
  BY <1>1 DEF MainType
<1>3. IInv'
  BY QueueIs, QueueKeeps DEF MainQueueDisconnect, Seen
<1> QED
  BY <1>2, <1>3

(* What the session sees before it submits: its last operation is either   *)
(* under way or nothing that has not started is left of it.                *)
LEMMA PumpedOpen ==
    ASSUME IInv, ~main.disc
    PROVE  LET x == Pumped(View) IN
           /\ x.m \in MainType /\ x.control = controlQ /\ x.result = None
           /\ DOMAIN x = { "m", "control", "result" }
           /\ x.m.next = main.next /\ x.m.fresh = main.fresh /\ x.m.disc = main.disc /\ x.m.queued = main.queued
           /\ x.m.del = main.del /\ x.m.follow = main.follow /\ x.m.discId = main.discId /\ x.m.owed = main.owed
           /\ x.m.active # "NONE" => x.m = main
           /\ x.m.active = "NONE" => requestQ = None /\ ~Taken
<1>1. main \in MainType /\ ~Answered
  BY DEF IInv, TypeOK, Disconnects
<1>4. DOMAIN Pumped(View) = { "m", "control", "result" }
  <2> DEFINE y == [ View EXCEPT !.result = None ]
  <2>1. Requeue(View) = View
    BY DEF Requeue, View
  <2>2. Received(View) \in { y, Completed(y, resultQ) }
    BY ViewIs, Zenon DEF Received, Settling
  <2>3. DOMAIN y = { "m", "control", "result" }
    BY DEF View
  <2> HIDE DEF y
  <2> QED
    BY <2>1, <2>2, <2>3 DEF Pumped, Completed
<1>2. CASE resultQ.op \in Ops /\ main.active # "NONE" /\ resultQ.id = main.id
  <2>1. Pumped(View).m = [ main EXCEPT !.active = "NONE", !.id = 0, !.ready = main.id ]
        /\ Pumped(View).control = controlQ /\ Pumped(View).result = None
    BY <1>1, <1>2, PumpedCompletes
  <2>2. 0 \in Ids
    BY DEF Ids
  <2>3. requestQ = None /\ ~Taken
    BY <1>2, SubmittedIsOver
  <2> HIDE DEF IInv
  <2> DEFINE x == Pumped(View)
  <2> HIDE DEF x
  <2>4. x.m = [ main EXCEPT !.active = "NONE", !.id = 0, !.ready = main.id ] /\ x.control = controlQ
        /\ x.result = None /\ DOMAIN x = { "m", "control", "result" }
    BY <1>4, <2>1 DEF x
  <2>5. x.m.next = main.next /\ x.m.fresh = main.fresh /\ x.m.disc = main.disc /\ x.m.queued = main.queued
        /\ x.m.del = main.del /\ x.m.follow = main.follow /\ x.m.discId = main.discId /\ x.m.owed = main.owed
        /\ x.m.active = "NONE"
    BY <1>1, <2>4 DEF MainType
  <2>6. x.m \in MainType
    BY <1>1, <2>2, <2>4 DEF MainType
  <2> QED
    BY <2>3, <2>4, <2>5, <2>6 DEF x
<1>3. CASE ~(resultQ.op \in Ops /\ main.active # "NONE" /\ resultQ.id = main.id)
  <2>1. Pumped(View).m = main /\ Pumped(View).control = controlQ /\ Pumped(View).result = None
    BY <1>1, <1>3, PumpedDrops DEF Settling
  <2>2. main.active = "NONE" => requestQ = None /\ ~Taken
    BY DEF IInv, AllUnstarted, Unstarted, JobFits, TypeOK, DataRequest
  <2> QED
    BY <1>1, <1>4, <2>1, <2>2
<1> QED
  BY <1>2, <1>3

LEMMA MainBeginKeeps ==
    ASSUME IInv, NEW op \in Ops, MainBegin(op)
    PROVE  /\ IInv' /\ main'.disc = main.disc
           /\ \/ requestQ' = requestQ
              \/ requestQ = None /\ ~Taken /\ requestQ' # None /\ requestQ'.epoch = epoch
<1> DEFINE x == Pumped(View)
           id == x.m.next + 1
           y == [ x EXCEPT !.m.ready = 0, !.m.next = id, !.m.active = op, !.m.id = id, !.m.fresh = FALSE ]
<1>1. ~main.disc /\ MayBegin(x.m, op) /\ x.m.next < MaxId /\ (op = "CONNECT" => gen < MaxGeneration)
      /\ UNCHANGED << epoch, pc, job, svc, lag, client, deleted >>
  BY DEF MainBegin
<1>2. CASE x.m.active # "NONE"
  <2>1. Seen(x) /\ UNCHANGED requestQ
    BY <1>2, Zenon DEF MainBegin
  <2>2. MainPump
    BY <1>1, <2>1 DEF MainPump
  <2> QED
    BY <1>1, <2>1, <2>2, MainPumpKeeps DEF Acks
<1>3. CASE x.m.active = "NONE"
  <2>1. requestQ = None /\ ~Taken
    BY <1>1, <1>3, PumpedOpen
  <2>2. Seen(y) /\ requestQ' = [ op |-> op, id |-> id, epoch |-> epoch ]
    BY <1>3, <2>1, Zenon DEF MainBegin
  <2>3. /\ x.m \in MainType /\ x.control = controlQ /\ x.result = None
        /\ DOMAIN x = { "m", "control", "result" }
        /\ x.m.next = main.next /\ x.m.fresh = main.fresh /\ x.m.disc = main.disc /\ x.m.queued = main.queued
        /\ x.m.del = main.del /\ x.m.follow = main.follow /\ x.m.discId = main.discId /\ x.m.owed = main.owed
    BY <1>1, PumpedOpen
  <2> HIDE DEF x
  <2>4. y.m = [ x.m EXCEPT !.ready = 0, !.next = id, !.active = op, !.id = id, !.fresh = FALSE ]
        /\ y.control = controlQ /\ y.result = None
    BY <2>3
  <2>5. id \in Ids /\ 0 \in Ids /\ id = main.next + 1 /\ id # 0 /\ main.next \in Nat /\ epoch \in Ids
    BY <1>1, <2>3 DEF MainType, Ids, IInv, TypeOK
  <2> HIDE DEF id, y
  <2>6. y.m \in MainType
    <3>1. PICK zero \in Ids, no \in BOOLEAN : zero = 0 /\ no = FALSE
      BY <2>5
    <3> DEFINE a == [ x.m EXCEPT !.ready = zero, !.next = id, !.id = id ]
               b == [ a EXCEPT !.active = op ]
    <3>2. a \in MainType
      BY <2>3, <2>5 DEF MainType
    <3>3. y.m = [ x.m EXCEPT !.ready = zero, !.next = id, !.active = op, !.id = id, !.fresh = no ]
      BY <2>4, <3>1
    <3>4. y.m = [ b EXCEPT !.fresh = no ]
      BY <2>3, <3>3 DEF MainType
    <3> HIDE DEF a
    <3>5. b \in MainType
      BY <3>2 DEF MainType
    <3> HIDE DEF b
    <3> QED
      BY <3>4, <3>5 DEF MainType
  <2>7. /\ y.m.ready = 0 /\ y.m.active = op /\ y.m.fresh = FALSE
        /\ y.m.disc = main.disc /\ y.m.queued = main.queued /\ y.m.del = main.del /\ y.m.follow = main.follow
        /\ y.m.discId = main.discId /\ y.m.owed = main.owed
    BY <2>3, <2>4 DEF MainType
  <2>8. y.m.next = id
    BY <2>3, <2>4 DEF MainType
  <2>9. y.m.id = id
    BY <2>3, <2>4 DEF MainType
  <2>10. main' = y.m /\ controlQ' = controlQ /\ resultQ' = None
    BY <2>2, <2>4 DEF Seen
  <2>11. requestQ' # None /\ requestQ'.epoch = epoch
    BY <2>2, <2>5 DEF None
  <2>12. main.fresh <=> op = "CONNECT"
    BY <1>1, <2>3 DEF MayBegin
  <2> QED
    BY <1>1, <2>1, <2>2, <2>5, <2>6, <2>7, <2>8, <2>9, <2>10, <2>11, <2>12, SubmitKeeps
<1> QED
  BY <1>2, <1>3


LEMMA MainTakeResultKeeps == IInv /\ MainTakeResult => IInv' /\ main'.disc = main.disc
  BY TakeKeeps DEF MainTakeResult, IInv, TypeOK, MainType

LEMMA MainCloseFenceKeeps == ASSUME IInv, NEW del \in BOOLEAN, MainCloseFence(del) PROVE IInv' /\ main'.disc
<1> DEFINE n == main.next + 1
           a == [ main EXCEPT !.active = "NONE", !.id = 0, !.ready = 0 ]
           b == [ a EXCEPT !.disc = TRUE, !.queued = FALSE, !.del = del, !.follow = FALSE, !.owed = del ]
<1>1. /\ ~main.disc /\ main.next < MaxId /\ epoch' = epoch + 1 /\ deleted' = FALSE
      /\ main' = [ Cleared(main) EXCEPT !.disc = TRUE, !.queued = FALSE, !.del = del, !.follow = FALSE,
                                        !.next = n, !.discId = n, !.owed = del ]
      /\ UNCHANGED << requestQ, controlQ, resultQ, pc, job, svc, lag, link, cb, gen, downGen, fence, handles >>
  BY DEF MainCloseFence, queues, client
<1>2. main \in MainType /\ 0 \in Ids /\ n \in Ids /\ main.next \in Nat /\ n = main.next + 1
  BY <1>1 DEF IInv, TypeOK, MainType, Ids
<1> HIDE DEF n
<1>3. a \in MainType /\ a = Cleared(main)
  BY <1>2 DEF MainType, Cleared
<1>4. /\ a.active = "NONE" /\ a.id = 0 /\ a.ready = 0 /\ a.next = main.next /\ a.fresh = main.fresh
  BY <1>2 DEF MainType
<1> HIDE DEF a
<1>5. b \in MainType
  <2>1. PICK yes \in BOOLEAN, no \in BOOLEAN : yes = TRUE /\ no = FALSE
    OBVIOUS
  <2> DEFINE e == [ a EXCEPT !.disc = yes, !.queued = no, !.follow = no ]
  <2>2. e \in MainType
    BY <1>3 DEF MainType
  <2>3. b = [ e EXCEPT !.del = del, !.owed = del ]
    BY <1>3, <2>1 DEF MainType
  <2> HIDE DEF b, e
  <2> QED
    BY <2>2, <2>3 DEF MainType
<1>6. /\ b.active = "NONE" /\ b.id = 0 /\ b.ready = 0 /\ b.fresh = main.fresh
      /\ b.disc /\ ~b.queued /\ b.del = del /\ ~b.follow /\ b.owed = del
  BY <1>3, <1>4 DEF MainType
<1>7. main' = [ b EXCEPT !.next = n, !.discId = n ]
  BY <1>1, <1>3 DEF MainType
<1> HIDE DEF b
<1>8. main' \in MainType
  BY <1>2, <1>5, <1>7 DEF MainType
<1>9. /\ main'.active = "NONE" /\ main'.id = 0 /\ main'.ready = 0 /\ main'.fresh = main.fresh
      /\ main'.disc /\ ~main'.queued /\ main'.del = del /\ ~main'.follow /\ main'.owed = del
      /\ main'.next = n /\ main'.discId = n
  BY <1>5, <1>6, <1>7 DEF MainType
<1> USE DEF IInv
<1>10. TypeOK'
  <2>1. epoch' \in Ids
    BY <1>1, <1>2 DEF TypeOK, SessionFits, Ids
  <2>2. deleted' \in BOOLEAN
    BY <1>1
  <2> QED
    BY <1>1, <1>8, <2>1, <2>2 DEF TypeOK
<1>11. JobFits' /\ SessionFits' /\ ResultIsLatest'
  BY <1>1, <1>2, <1>9 DEF JobFits, SessionFits, ResultIsLatest, Waits, Taken, TypeOK, Ids
<1>12. Numbered'
  BY <1>1, <1>2, <1>9 DEF Numbered, Taken, None, TypeOK, DataRequest, Result, Ids
<1>13. AllUnstarted'
  BY <1>1, <1>9 DEF AllUnstarted, Unstarted, Taken, TypeOK, Ids
<1>14. Disconnects' /\ BondOwed'
  BY <1>1, <1>9 DEF Disconnects, Answered, Waits, BondOwed
<1>15. Radio' /\ HandlesLive' /\ Settles'
  BY <1>1 DEF Radio, HandlesLive, Settles, Gone, Answered
<1>16. ConnectsFirst'
  BY <1>1, <1>9, <1>13 DEF ConnectsFirst, Gone, Waits, Taken, Starts, AllUnstarted, Unstarted, TypeOK, Ids, DataRequest, JobFits
<1> QED
  BY <1>9, <1>10, <1>11, <1>12, <1>13, <1>14, <1>15, <1>16

LEMMA MainDisconnectAgainKeeps == ASSUME IInv, NEW del \in BOOLEAN, MainDisconnectAgain(del) PROVE IInv' /\ main'.disc = main.disc
<1> DEFINE asks == del /\ ~main.del
           owed == main.owed \/ asks
           follow == main.follow \/ (asks /\ main.queued)
           d == main.del \/ (asks /\ ~main.queued)
           m == [ Cleared(main) EXCEPT !.owed = owed, !.follow = follow, !.del = d ]
           x == [ View EXCEPT !.m = m ]
<1>1. /\ main.disc /\ (m.follow => m.next < MaxId) /\ Seen(Requeue(x))
      /\ UNCHANGED << requestQ, epoch, pc, job, svc, lag, client, deleted >>
  BY DEF MainDisconnectAgain
<1>2. main \in MainType /\ main.active = "NONE" /\ main.ready = 0 /\ main.next \in Nat /\ 0 \in Ids
  BY <1>1 DEF IInv, TypeOK, SessionFits, ResultIsLatest, MainType, Ids
<1>3. owed \in BOOLEAN /\ follow \in BOOLEAN /\ d \in BOOLEAN
  OBVIOUS
<1> DEFINE c == Cleared(main)
<1>4. c \in MainType /\ c.active = "NONE" /\ c.id = 0 /\ c.ready = 0 /\ c.next = main.next /\ c.fresh = main.fresh
      /\ c.disc = main.disc /\ c.queued = main.queued /\ c.discId = main.discId
  BY <1>2 DEF MainType, Cleared
<1> HIDE DEF owed, follow, d, c
<1>5. m = [ c EXCEPT !.owed = owed, !.follow = follow, !.del = d ]
  BY DEF c
<1> HIDE DEF m
<1>6. /\ m \in MainType
      /\ m.active = "NONE" /\ m.id = 0 /\ m.ready = 0 /\ m.next = main.next /\ m.fresh = main.fresh
      /\ m.disc = main.disc /\ m.queued = main.queued /\ m.discId = main.discId
      /\ m.owed = owed /\ m.follow = follow /\ m.del = d
  BY <1>3, <1>4, <1>5 DEF MainType
<1>7. x.m = m /\ x.control = controlQ /\ x.result = resultQ /\ DOMAIN x = { "m", "control", "result" }
  BY DEF View
<1> HIDE DEF x
<1>8. CASE main.queued
  <2>1. Requeue(x) = x
    BY <1>6, <1>7, <1>8 DEF Requeue
  <2>2. main' = m /\ controlQ' = controlQ /\ resultQ' = resultQ
    BY <1>1, <1>7, <2>1 DEF Seen
  <2>3. follow => main.next < MaxId
    BY <1>1, <1>6
  <2>4. main.owed => owed
    BY DEF owed
  <2>5. owed => main.owed \/ follow
    BY <1>8 DEF owed, follow
  <2>6. main.follow => follow
    BY DEF follow
  <2> QED
    BY <1>1, <1>3, <1>6, <1>8, <2>2, <2>3, <2>5, <2>6, AskedKeeps
<1>9. CASE ~main.queued
  <2>1. Requeue(x) = Queue(x)
    BY <1>1, <1>6, <1>7, <1>9 DEF Requeue
  <2>2. /\ main' = [ m EXCEPT !.queued = TRUE ] /\ resultQ' = resultQ
        /\ controlQ' = [ op |-> "DISCONNECT", id |-> m.discId, del |-> m.del ]
    BY <1>1, <1>7, <2>1 DEF Seen, Queue
  <2>3. follow => main.next < MaxId
    BY <1>1, <1>6
  <2>4. owed => main.owed \/ d
    BY <1>9 DEF owed, d
  <2>5. main.del => d
    BY DEF d
  <2>6. main.follow => follow
    BY DEF follow
  <2>7. main' \in MainType /\ main'.queued
        /\ main'.active = "NONE" /\ main'.id = 0 /\ main'.ready = 0 /\ main'.next = main.next /\ main'.fresh = main.fresh
        /\ main'.disc = main.disc /\ main'.discId = main.discId
        /\ main'.owed = owed /\ main'.follow = follow /\ main'.del = d
    BY <1>6, <2>2 DEF MainType
  <2> QED
    BY <1>1, <1>3, <1>6, <1>9, <2>2, <2>3, <2>4, <2>5, <2>6, <2>7, AskedAndQueuedKeeps
<1> QED
  BY <1>8, <1>9

-----------------------------------------------------------------------------
(* The invariant, and what it gives the session.                            *)

LEMMA InitIs == Init => IInv
<1> SUFFICES ASSUME Init PROVE IInv
  OBVIOUS
<1>1. 0 \in Ids /\ 0 \in 0..MaxGeneration
  BY DEF Ids
<1>2. TypeOK
  <2>1. main \in MainType
    <3>1. PICK zero \in Ids, yes \in BOOLEAN, no \in BOOLEAN : zero = 0 /\ yes = TRUE /\ no = FALSE
      BY <1>1
    <3>2. main = [ active |-> "NONE", id |-> zero, ready |-> zero, next |-> zero,
                   fresh |-> yes, disc |-> no, queued |-> no, del |-> no,
                   follow |-> no, discId |-> zero, owed |-> no ]
      BY <3>1 DEF Init
    <3> QED
      BY <3>2 DEF MainType
  <2> QED
    BY <1>1, <2>1, IdleIs DEF Init, TypeOK
<1>3. JobFits /\ Numbered /\ AllUnstarted
  BY DEF Init, JobFits, Numbered, AllUnstarted, Taken, None
<1>4. SessionFits /\ ResultIsLatest /\ BondOwed
  BY DEF Init, SessionFits, ResultIsLatest, BondOwed
<1>5. Disconnects /\ Settles
  BY IdleIs DEF Init, Disconnects, Settles, Answered, None
<1>6. Radio /\ HandlesLive /\ ConnectsFirst
  BY DEF Init, Radio, HandlesLive, ConnectsFirst, Gone, Waits, Taken
<1> QED
  BY <1>2, <1>3, <1>4, <1>5, <1>6 DEF IInv

LEMMA NextKeeps == IInv /\ [Next]_vars => IInv'
<1> SUFFICES ASSUME IInv, [Next]_vars PROVE IInv'
  OBVIOUS
<1>1. CASE MainStep
  BY <1>1, MainPumpKeeps, MainTakeResultKeeps, MainAbandonConnectKeeps, MainQueueDisconnectKeeps,
     MainBeginKeeps, MainCloseFenceKeeps, MainDisconnectAgainKeeps DEF MainStep
<1>2. CASE TaskStep
  BY <1>2, TaskCommandOnDownLinkKeeps, TaskCommandAcceptedKeeps, TaskCommandRejectedKeeps,
     TaskConfirmKeeps, TaskWakeKeeps, TaskReceiveKeeps, TaskTakeKeeps, TaskNoControlKeeps,
     TaskClaimKeeps, TaskConnectKeeps, TaskStartKeeps, TaskConnectedKeeps, TaskConnectFailedKeeps,
     TaskDiscoveredKeeps, TaskWrittenKeeps, TaskPublishKeeps DEF TaskStep
<1>3. CASE HostStep
  BY <1>3, HostConnectedKeeps, HostLinkLostKeeps, HostConfirmKeeps, HostPublishKeeps DEF HostStep
<1>4. CASE UNCHANGED vars
  <2> USE <1>4 DEF IInv, vars
  <2>1. TypeOK' /\ JobFits' /\ Numbered' /\ SessionFits' /\ ResultIsLatest' /\ AllUnstarted'
    BY DEF TypeOK, JobFits, Numbered, SessionFits, ResultIsLatest, AllUnstarted, Unstarted, Waits, Taken
  <2>2. Disconnects' /\ Radio' /\ HandlesLive' /\ Settles' /\ ConnectsFirst' /\ BondOwed'
    BY DEF Disconnects, Radio, HandlesLive, Settles, ConnectsFirst, BondOwed, Answered, Gone, Starts, Waits, Taken
  <2> QED
    BY <2>1, <2>2
<1> QED
  BY <1>1, <1>2, <1>3, <1>4 DEF Next

THEOREM Invariant == Spec => []IInv
<1>1. Init => IInv
  BY InitIs
<1>2. IInv /\ [Next]_vars => IInv'
  BY NextKeeps
<1> QED
  BY <1>1, <1>2, PTL DEF Spec

LEMMA IInvIsOneLink == IInv => OneLink
<1>1. IInv => NoFalseDown
  BY DEF IInv, Radio, NoFalseDown, TypeOK
<1> QED
  BY <1>1 DEF IInv, OneLink

(* Types, results, handles and confirmations of the transport, for any      *)
(* bounds: a result is the answer of the session's last operation, handles  *)
(* are of the live link, a live link is not confirmed down.                 *)
THEOREM OneLinkAlways == Spec => []OneLink
  BY Invariant, IInvIsOneLink, PTL

-----------------------------------------------------------------------------
(* Disconnects.                                                             *)

LEMMA AckIsSettled ==
    ASSUME IInv, Acks
    PROVE  /\ Gone /\ ~fence /\ handles = 0 /\ Waits /\ requestQ = None
           /\ main.owed => deleted
<1> USE DEF IInv, Acks
<1>1. Gone /\ ~fence /\ handles = 0
  BY DEF Settles
<1>2. Waits /\ requestQ = None /\ controlQ = None /\ main.queued
  BY DEF Disconnects
<1>3. main.owed => deleted
  BY <1>2 DEF BondOwed
<1> QED
  BY <1>1, <1>2, <1>3

(* Only a claim starts an operation.                                        *)
LEMMA StartIsClaim == Next /\ ~Running /\ Running' => TaskClaim /\ Claims
<1> USE DEF Running
<1>1. MainStep \/ HostStep => pc' = pc
  <2>1. MainPump \/ MainTakeResult \/ MainAbandonConnect \/ MainQueueDisconnect => pc' = pc
    BY DEF MainPump, MainTakeResult, MainAbandonConnect, MainQueueDisconnect
  <2>2. ASSUME NEW op \in Ops, MainBegin(op) PROVE pc' = pc
    BY <2>2 DEF MainBegin
  <2>3. ASSUME NEW del \in BOOLEAN, MainCloseFence(del) PROVE pc' = pc
    BY <2>3 DEF MainCloseFence
  <2>4. ASSUME NEW del \in BOOLEAN, MainDisconnectAgain(del) PROVE pc' = pc
    BY <2>4 DEF MainDisconnectAgain
  <2>5. HostStep => pc' = pc
    BY DEF HostStep, HostConnected, HostLinkLost, HostConfirm, HostPublish, HostKeeps
  <2> QED
    BY <2>1, <2>2, <2>3, <2>4, <2>5 DEF MainStep
<1>2. TaskStep /\ ~Running /\ Running' => TaskClaim /\ Claims
  BY DEF TaskStep, TaskCommandOnDownLink, TaskCommandAccepted, TaskCommandRejected, TaskConfirm, Pass,
     TaskWake, TaskReceive, TaskTake, TaskNoControl, TaskClaim, TaskConnect, TaskStart, TaskConnected,
     TaskConnectFailed, TaskDiscovered, TaskWritten, TaskPublish
<1> QED
  BY <1>1, <1>2 DEF Next

(* Only the pump opens the fence.                                           *)
LEMMA OpensByAck == IInv /\ [Next]_vars /\ main.disc /\ ~main.disc' => MainPump /\ Acks
<1>1. TaskStep \/ HostStep \/ UNCHANGED vars => main' = main
  BY DEF TaskStep, TaskCommandOnDownLink, TaskCommandAccepted, TaskCommandRejected, TaskConfirm, Pass,
     TaskWake, TaskReceive, TaskTake, TaskNoControl, TaskClaim, TaskConnect, TaskStart, TaskConnected,
     TaskConnectFailed, TaskDiscovered, TaskWritten, TaskPublish, KeepsJob,
     HostStep, HostConnected, HostLinkLost, HostConfirm, HostPublish, HostKeeps, vars
<1>2. IInv /\ MainStep /\ main.disc /\ ~main.disc' => MainPump /\ Acks
  <2> SUFFICES ASSUME IInv, MainStep, main.disc, ~main.disc' PROVE MainPump /\ Acks
    OBVIOUS
  <2>1. main.disc' = main'.disc
    OBVIOUS
  <2> QED
    BY <2>1, MainPumpKeeps, MainTakeResultKeeps, MainAbandonConnectKeeps, MainQueueDisconnectKeeps,
       MainBeginKeeps, MainCloseFenceKeeps, MainDisconnectAgainKeeps DEF MainStep
<1> QED
  BY <1>1, <1>2 DEF Next

LEMMA StepSettles ==
    IInv /\ [Next]_vars => [AckMeansQuietStep /\ NoStaleStartStep /\ BondDeleteKeptStep]_vars
<1> SUFFICES ASSUME IInv, [Next]_vars
             PROVE  (AckMeansQuietStep /\ NoStaleStartStep /\ BondDeleteKeptStep) \/ UNCHANGED vars
  OBVIOUS
<1>1. ASSUME main.disc, ~main.disc' PROVE Quiet' /\ (main.owed => deleted)
  <2>1. MainPump /\ Acks
    BY <1>1, OpensByAck
  <2>2. UNCHANGED << requestQ, pc, link, cb, fence, handles >>
    BY <2>1 DEF MainPump, client
  <2> QED
    BY <2>1, <2>2, AckIsSettled DEF Quiet, Gone, Waits, Running
<1>2. ASSUME ~Running, Running', Next PROVE ~main.disc /\ job.id = main.next
  <2>1. pc = "claim" /\ job.epoch = epoch
    BY <1>2, StartIsClaim DEF TaskClaim, Claims
  <2>2. Unstarted(job) /\ job \in DataRequest /\ epoch \in Nat
    BY <2>1 DEF IInv, AllUnstarted, Taken, JobFits, TypeOK, Ids
  <2> QED
    BY <2>1, <2>2 DEF Unstarted, IInv, SessionFits, DataRequest
<1> QED
  BY <1>1, <1>2 DEF AckMeansQuietStep, NoStaleStartStep, BondDeleteKeptStep

(* A disconnect is acknowledged on a quiet radio and after the bond         *)
(* deletion it owes, and no operation starts on a closed fence              *)
(* (serviceObdTransportControl, obdTransportTaskEntry).                     *)
THEOREM DisconnectsSettleAlways == Spec => DisconnectsSettle
<1>1. IInv /\ [Next]_vars => [AckMeansQuietStep /\ NoStaleStartStep /\ BondDeleteKeptStep]_vars
  BY StepSettles
<1> QED
  BY <1>1, Invariant, PTL DEF Spec, DisconnectsSettle

-----------------------------------------------------------------------------
(* The fence.                                                               *)

Waiting == \/ requestQ # None /\ requestQ.epoch = epoch
           \/ pc \in { "received", "claim" } /\ job.epoch = epoch

LEMMA FenceStutters ==
    ASSUME main'.disc = main.disc, Waiting' <=> Waiting, Running' <=> Running,
           link' = "down" <=> link = "down"
    PROVE  UNCHANGED Fence!vars
  BY Zenon DEF Fence!vars, Waiting

LEMMA FenceSubmit ==
    ASSUME ~main.disc, main'.disc = main.disc, ~Waiting, Waiting', Running' <=> Running, link' = link
    PROVE  Fence!Submit
  BY Zenon DEF Fence!Submit, Waiting

LEMMA FenceStart ==
    ASSUME ~main.disc, main'.disc = main.disc, Waiting, ~Waiting', ~Running, Running', link' = link
    PROVE  Fence!Start
  BY Zenon DEF Fence!Start, Waiting

LEMMA FenceLinkUp ==
    ASSUME main'.disc = main.disc, Waiting' <=> Waiting, Running, Running', link' # "down"
    PROVE  Fence!LinkUp
  BY Zenon DEF Fence!LinkUp, Waiting

LEMMA FenceLinkDown ==
    ASSUME main'.disc = main.disc, Waiting' <=> Waiting, Running' <=> Running, link' = "down"
    PROVE  Fence!LinkDown
  BY Zenon DEF Fence!LinkDown, Waiting

LEMMA FenceFinish ==
    ASSUME main'.disc = main.disc, Waiting' <=> Waiting, Running, ~Running', link' = link
    PROVE  Fence!Finish
<1>1. (link' # "down") = (link # "down")
  OBVIOUS
<1>2. (link' # "down") \in { link # "down", FALSE }
  BY <1>1
<1>3. Running' = FALSE
  OBVIOUS
<1>4. (~main'.disc) = ~main.disc
  OBVIOUS
<1>5. Waiting' = Waiting
  BY Zenon DEF Waiting
<1> QED
  BY <1>2, <1>3, <1>4, <1>5, Zenon DEF Fence!Finish, Waiting

LEMMA FenceClose ==
    ASSUME ~main.disc, main'.disc, ~Waiting', Running' <=> Running, link' = link
    PROVE  Fence!Close
  BY Zenon DEF Fence!Close, Waiting

LEMMA FenceReopen ==
    ASSUME main.disc, ~main'.disc, ~Running, ~Running', link = "down", link' = link, Waiting' <=> Waiting
    PROVE  Fence!Reopen
<1>1. (link' # "down") = (link # "down")
  OBVIOUS
<1>2. (~main'.disc) = TRUE /\ ~(link # "down")
  OBVIOUS
<1>3. Running' = Running
  BY DEF Running
<1>4. Waiting' = Waiting
  BY Zenon DEF Waiting
<1> QED
  BY <1>1, <1>2, <1>3, <1>4, Zenon DEF Fence!Reopen, Waiting

LEMMA ClosedIsWithdrawn == IInv /\ main.disc => ~Waiting
  BY DEF IInv, AllUnstarted, Unstarted, Waiting, Taken, TypeOK, Ids

LEMMA MainImplements == IInv /\ MainStep => [Fence!Next]_Fence!vars
<1> SUFFICES ASSUME IInv, MainStep PROVE Fence!Next \/ UNCHANGED Fence!vars
  OBVIOUS
<1>1. ASSUME MainPump PROVE Fence!Reopen \/ UNCHANGED Fence!vars
  <2>1. UNCHANGED << requestQ, epoch, pc, job, link >>
    BY <1>1 DEF MainPump, client
  <2>2. (Waiting' <=> Waiting) /\ (Running' <=> Running)
    BY <2>1 DEF Waiting, Running
  <2>3. CASE main'.disc = main.disc
    BY <2>1, <2>2, <2>3, FenceStutters
  <2>4. CASE Acks /\ main'.disc # main.disc
    <3>1. main.disc /\ link = "down" /\ ~Running
      BY <2>4, AckIsSettled DEF Acks, Gone, Waits, Running
    <3>2. ~main'.disc
      BY <1>1, <2>4, <3>1, MainPumpKeeps DEF IInv, TypeOK, MainType
    <3> QED
      BY <2>1, <2>2, <3>1, <3>2, FenceReopen
  <2> QED
    BY <1>1, <2>3, <2>4, MainPumpKeeps
<1>2. ASSUME MainTakeResult \/ MainAbandonConnect \/ MainQueueDisconnect PROVE UNCHANGED Fence!vars
  <2>1. UNCHANGED << requestQ, epoch, pc, job, link >>
    BY <1>2 DEF MainTakeResult, MainAbandonConnect, MainQueueDisconnect, client, queues
  <2>2. (Waiting' <=> Waiting) /\ (Running' <=> Running)
    BY <2>1 DEF Waiting, Running
  <2>3. main'.disc = main.disc
    BY <1>2, MainTakeResultKeeps, MainAbandonConnectKeeps, MainQueueDisconnectKeeps
  <2> QED
    BY <2>1, <2>2, <2>3, FenceStutters
<1>3. ASSUME NEW op \in Ops, MainBegin(op) PROVE Fence!Submit \/ UNCHANGED Fence!vars
  <2>1. UNCHANGED << epoch, pc, job, link >> /\ ~main.disc
    BY <1>3 DEF MainBegin, client
  <2>2. main'.disc = main.disc
    BY <1>3, MainBeginKeeps
  <2>3. Running' <=> Running
    BY <2>1 DEF Running
  <2>4. CASE requestQ' = requestQ
    <3>1. Waiting' <=> Waiting
      BY <2>1, <2>4 DEF Waiting
    <3> QED
      BY <2>1, <2>2, <2>3, <3>1, FenceStutters
  <2>5. CASE requestQ = None /\ ~Taken /\ requestQ' # None /\ requestQ'.epoch = epoch
    <3>1. ~Waiting /\ Waiting'
      BY <2>1, <2>5 DEF Waiting, Taken
    <3> QED
      BY <2>1, <2>2, <2>3, <3>1, FenceSubmit
  <2> QED
    BY <1>3, <2>4, <2>5, MainBeginKeeps
<1>4. ASSUME NEW del \in BOOLEAN, MainCloseFence(del) PROVE Fence!Close
  <2>1. UNCHANGED << pc, link >> /\ ~main.disc
    BY <1>4 DEF MainCloseFence, client
  <2>2. IInv' /\ main'.disc
    BY <1>4, MainCloseFenceKeeps
  <2>3. ~Waiting'
    BY <2>2 DEF IInv, AllUnstarted, Unstarted, Waiting, Taken, TypeOK, Ids
  <2>4. Running' <=> Running
    BY <2>1 DEF Running
  <2> QED
    BY <2>1, <2>2, <2>3, <2>4, FenceClose
<1>5. ASSUME NEW del \in BOOLEAN, MainDisconnectAgain(del) PROVE UNCHANGED Fence!vars
  <2>1. UNCHANGED << requestQ, epoch, pc, job, link >>
    BY <1>5 DEF MainDisconnectAgain, client
  <2>2. (Waiting' <=> Waiting) /\ (Running' <=> Running)
    BY <2>1 DEF Waiting, Running
  <2>3. main'.disc = main.disc
    BY <1>5, MainDisconnectAgainKeeps
  <2> QED
    BY <2>1, <2>2, <2>3, FenceStutters
<1> QED
  BY <1>1, <1>2, <1>3, <1>4, <1>5 DEF MainStep, Fence!Next

LEMMA PassImplements == IInv /\ Pass(TRUE) /\ (link' = "down" <=> link = "down") => UNCHANGED Fence!vars
<1> SUFFICES ASSUME IInv, Pass(TRUE), link' = "down" <=> link = "down" PROVE UNCHANGED Fence!vars
  OBVIOUS
<1>1. main.disc /\ main' = main /\ requestQ' = None /\ pc' = "delay"
  BY PassEffect
<1>2. pc \in { "top", "received" }
  BY DEF Pass
<1>3. ~Waiting /\ ~Waiting'
  BY <1>1, ClosedIsWithdrawn DEF Waiting
<1>4. ~Running /\ ~Running'
  BY <1>1, <1>2 DEF Running
<1> QED
  BY <1>1, <1>3, <1>4, FenceStutters

LEMMA TaskImplements == IInv /\ TaskStep => [Fence!Next]_Fence!vars
<1> SUFFICES ASSUME IInv, TaskStep PROVE Fence!Next \/ UNCHANGED Fence!vars
  OBVIOUS
<1>1. ASSUME TaskCommandOnDownLink \/ TaskCommandAccepted \/ TaskCommandRejected \/ TaskConfirm
      PROVE  UNCHANGED Fence!vars
  <2>1. Pass(TRUE) /\ (link' = "down" <=> link = "down")
    BY <1>1 DEF TaskCommandOnDownLink, TaskCommandAccepted, TaskCommandRejected, TaskConfirm, Pass,
       CommandOnDownLink, CommandAccepted, CommandRejected, Confirm, IsConnected
  <2> QED
    BY <2>1, PassImplements
<1>2. ASSUME TaskWake \/ TaskReceive \/ TaskNoControl PROVE UNCHANGED Fence!vars
  <2>1. UNCHANGED << main, requestQ, epoch, job, link >> /\ (pc' = pc \/ (~Running /\ ~Running'))
    BY <1>2 DEF TaskWake, TaskReceive, TaskNoControl, queues, client, Running
  <2>2. Waiting' <=> Waiting
    BY <1>2, <2>1 DEF TaskWake, TaskReceive, TaskNoControl, Waiting
  <2> QED
    BY <2>1, <2>2, FenceStutters DEF Running
<1>3. ASSUME TaskTake PROVE UNCHANGED Fence!vars
  <2>1. UNCHANGED << main, epoch, link >> /\ ~Running /\ ~Running'
    BY <1>3 DEF TaskTake, Running
  <2>2. Waiting' <=> Waiting
    BY <1>3 DEF TaskTake, Waiting
  <2> QED
    BY <2>1, <2>2, FenceStutters
<1>4. ASSUME TaskClaim PROVE Fence!Start \/ UNCHANGED Fence!vars
  <2>1. UNCHANGED << main, requestQ, epoch, link >> /\ ~Running /\ pc = "claim"
    BY <1>4 DEF TaskClaim, queues, client, Running
  <2>2. requestQ = None
    BY <2>1 DEF IInv, Numbered, Taken
  <2>3. CASE Claims
    <3>1. pc' = "run" /\ Waiting /\ ~Waiting' /\ Running'
      BY <1>4, <2>1, <2>2, <2>3 DEF TaskClaim, Claims, Waiting, Running
    <3>2. ~main.disc
      BY <3>1, ClosedIsWithdrawn
    <3> QED
      BY <2>1, <3>1, <3>2, FenceStart
  <2>4. CASE ~Claims
    <3>1. pc' = "top" /\ ~Waiting /\ ~Waiting' /\ ~Running'
      BY <1>4, <2>1, <2>2, <2>4 DEF TaskClaim, Claims, Waiting, Running
    <3> QED
      BY <2>1, <3>1, FenceStutters
  <2> QED
    BY <2>3, <2>4
<1>5. ASSUME TaskConnect PROVE Fence!LinkUp \/ UNCHANGED Fence!vars
  <2>1. UNCHANGED << main, requestQ, epoch >> /\ Running /\ Running' /\ (link' = link \/ link' = "connecting")
    BY <1>5 DEF TaskConnect, KeepsJob, queues, client, Publishes, Running
  <2>2. Waiting' <=> Waiting
    BY <2>1 DEF Waiting, Running
  <2> QED
    BY <2>1, <2>2, FenceLinkUp, FenceStutters
<1>6. ASSUME TaskStart \/ TaskConnected \/ TaskDiscovered \/ TaskWritten PROVE UNCHANGED Fence!vars
  <2>1. UNCHANGED << main, requestQ, epoch, link >> /\ Running /\ Running'
    BY <1>6 DEF TaskStart, TaskConnected, TaskDiscovered, TaskWritten, KeepsJob, queues, client, Publishes, Running
  <2>2. Waiting' <=> Waiting
    BY <2>1 DEF Waiting, Running
  <2> QED
    BY <2>1, <2>2, FenceStutters
<1>7. ASSUME TaskConnectFailed PROVE Fence!LinkDown
  <2>1. UNCHANGED << main, requestQ, epoch >> /\ Running /\ Running' /\ link' = "down"
    BY <1>7 DEF TaskConnectFailed, KeepsJob, queues, Publishes, Running
  <2>2. Waiting' <=> Waiting
    BY <2>1 DEF Waiting, Running
  <2> QED
    BY <2>1, <2>2, FenceLinkDown
<1>8. ASSUME TaskPublish PROVE Fence!Finish
  <2>1. UNCHANGED << main, requestQ, epoch, link >> /\ Running /\ ~Running' /\ pc' = "top"
    BY <1>8 DEF TaskPublish, Running
  <2>2. Waiting' <=> Waiting
    BY <2>1 DEF Waiting, Running
  <2> QED
    BY <2>1, <2>2, FenceFinish
<1> QED
  BY <1>1, <1>2, <1>3, <1>4, <1>5, <1>6, <1>7, <1>8 DEF TaskStep, Fence!Next

LEMMA HostImplements == IInv /\ HostStep => [Fence!Next]_Fence!vars
<1> SUFFICES ASSUME IInv, HostStep PROVE Fence!Next \/ UNCHANGED Fence!vars
  OBVIOUS
<1>1. UNCHANGED << main, requestQ, epoch, pc, job >> /\ ((link' = "down" <=> link = "down") \/ link' = "down")
  BY DEF HostStep, HostConnected, HostLinkLost, HostConfirm, HostPublish, HostKeeps, queues
<1>2. (Waiting' <=> Waiting) /\ (Running' <=> Running)
  BY <1>1 DEF Waiting, Running
<1> QED
  BY <1>1, <1>2, FenceLinkDown, FenceStutters DEF Fence!Next

(* The transport is the fence the session relies on: a submission is        *)
(* withdrawn by closing it, and it opens again on a link that is down.      *)
THEOREM ImplementsFenceAlways == Spec => ImplementsFence
<1>1. Init => Fence!Init
  <2> SUFFICES ASSUME Init PROVE Fence!Init
    OBVIOUS
  <2>1. (~main.disc) = TRUE /\ Waiting = FALSE /\ Running = FALSE /\ (link # "down") = FALSE
    <3>1. ~main.disc /\ ~Waiting /\ ~Running /\ ~(link # "down")
      BY DEF Init, Waiting, Running
    <3> QED
      BY <3>1
  <2> QED
    BY <2>1, Zenon DEF Fence!Init, Waiting
<1>2. IInv /\ [Next]_vars => [Fence!Next]_Fence!vars
  <2>1. UNCHANGED vars => UNCHANGED Fence!vars
    <3> SUFFICES ASSUME UNCHANGED vars PROVE UNCHANGED Fence!vars
      OBVIOUS
    <3>1. main' = main /\ (Waiting' <=> Waiting) /\ (Running' <=> Running) /\ link' = link
      BY DEF vars, Waiting, Running
    <3> QED
      BY <3>1, FenceStutters
  <2> QED
    BY <2>1, MainImplements, TaskImplements, HostImplements DEF Next
<1> QED
  BY <1>1, <1>2, Invariant, PTL DEF Spec, ImplementsFence, Fence!Spec

=============================================================================

----------------------------- MODULE V1LinkProofs ----------------------------
(***************************************************************************)
(* The detector's BLE session, for any thresholds, any number of sessions  *)
(* and any order of the main loop, the callbacks and the worker: LinkSafe. *)
(*                                                                         *)
(* What is not inductive about it is how far a session has come: which     *)
(* attempt owns the radio, what an answered connection leaves until its    *)
(* disconnect callback, and which result a subscription step may find.     *)
(***************************************************************************)
EXTENDS V1Link, TLAPS

(* Attempts and failures stay below the thresholds that end them.          *)
Retiring == ble.st \in { "QUIESCING", "RESTARTED" }
Counted ==
    /\ ble.st = "CONNECTING" => ble.attempts < MaxAttempts
    /\ ble.fails = HardResetAt => ble.hard /\ Retiring

(* A session that retires is closed and not shown.                         *)
Publishing == pc \in { "publish", "claim" }
Shows == pub.connected \/ (pc = "edge" /\ ble.read) \/ Publishing
Closes == Retiring => ~pub.accept /\ ~Shows

(* A connection under way is the one the loop waits for or cancels, and a  *)
(* callback runs on the link it is about.                                  *)
Arriving == radio.link = "connecting" \/ host.at \in { "connect", "connected" }
Attempts ==
    /\ Arriving => /\ pub.pend /\ ~pub.succ
                   /\ \/ ble.st \in { "CONNECTING_WAIT", "RESTARTED" }
                      \/ ble.st = "QUIESCING" /\ ble.cancelWait
    /\ host.at # "idle" => radio.link = "up"
    /\ host.at = "connected" => host.gen <= ble.gen

(* An answered connection has its link, and that link's handle, until the  *)
(* disconnect callback closes the session.                                 *)
Linked == radio.link = "up" /\ pub.active = radio.id /\ host.at \in { "idle", "lost", "close" }
Sessions == { "DISCOVERING", "SUBSCRIBING", "SUBSCRIBE_YIELD", "CONNECTED" }
Opens == pub.accept /\ (pub.succ \/ pub.edge # 0 \/ ble.st \in Sessions) => Linked

(* What is shown has its link, is about to be withdrawn, or is cleaned up. *)
Visible ==
    Shows /\ ~pub.cleanup =>
        radio.link = "up" /\ ((pub.accept /\ Linked) \/ host.at \in { "down", "notify" })

(* The worker: its attributes, and the link of the command it carries.     *)
Holds ==
    /\ WorkerOwnsItsHandles
    /\ worker.at \in { "command", "write" } => radio.id = ble.cmd.link /\ radio.link # "connecting"

(* A subscription step finds its own result, and has subscribed this link. *)
Subscribes == { "SUBSCRIBING", "SUBSCRIBE_YIELD" }
Subscribed ==
    /\ ble.st \notin Subscribes \cup { "CONNECTED" } => Retiring \/ ble.step = "service"
    /\ ble.st \in Subscribes /\ ble.step = "service" => ~Running /\ ~worker.done
    /\ ble.st \in Subscribes /\ ble.step = "short" =>
         /\ worker.at \in { "idle", "short", "subscribe", "command", "write" }
         /\ worker.done /\ worker.ok => radio.id \in subs
    /\ ble.st \in Subscribes /\ ble.step \in { "long", "complete" } => radio.id \in subs
    /\ ble.st = "CONNECTED" => ble.step = "complete"

(* The edge of a session is used up before the session is published.       *)
Published ==
    /\ Publishing => ble.st = "SUBSCRIBING" /\ ble.step = "complete" /\ ble.gen = ble.actGen
    /\ ble.st = "CONNECTED" => ble.gen = ble.actGen
    /\ ble.st = "DISCOVERING" /\ pc # "apply" => pub.edge = 0
    /\ ble.st \in Subscribes \cup { "CONNECTED" } => pub.edge = 0 /\ pc # "edge"

IInv ==
    /\ TypeOK /\ Counted /\ Closes /\ Attempts /\ Opens /\ Visible /\ Holds /\ Subscribed /\ Published
    /\ ConnectedIsOpen
-----------------------------------------------------------------------------
USE ClientAssumption

(* beginClientQuiesce closes the session and keeps the rest.               *)

\* What a retirement may be handed: the members and atomics of the loop, but
\* for counters and for what the disconnect callback asked to clean up.
Handed(b, p, hard) ==
    /\ b \in MembersType /\ p \in AtomicsType /\ hard \in BOOLEAN
    /\ b.st = ble.st /\ b.gen = ble.gen /\ b.cancelWait = ble.cancelWait /\ b.hard = ble.hard
    /\ b.step = ble.step /\ b.actGen = ble.actGen /\ b.read = ble.read /\ b.cmd = ble.cmd
    /\ b.fails = HardResetAt => hard \/ (b.hard /\ Retiring)
    /\ p.accept = pub.accept /\ p.gate = pub.gate /\ p.pend = pub.pend /\ p.succ = pub.succ
    /\ p.edge = pub.edge /\ p.active = pub.active /\ (p.connected => pub.connected)

LEMMA QuiescedMembers ==
    ASSUME IInv, NEW b, NEW p, NEW hard, Handed(b, p, hard), QuiesceFrom(b, p, hard)
    PROVE  /\ ble' \in MembersType /\ ble'.st = "QUIESCING" /\ ble'.gen >= ble.gen
           /\ ble'.cmd = ble.cmd /\ (ble'.fails = HardResetAt => ble'.hard)
           /\ pub.pend => ble'.cancelWait
<1> USE DEF QuiesceFrom, Handed, Retiring
<1>1. ble' = [ b EXCEPT !.st = "QUIESCING", !.hard = b.hard \/ hard,
                        !.gen = IF b.st # "QUIESCING" THEN b.gen + 1 ELSE b.gen,
                        !.cancelWait = b.cancelWait \/ p.pend,
                        !.late = IF b.st # "QUIESCING" THEN FALSE ELSE b.late ]
  BY DEF MembersType
<1> DEFINE g == IF b.st # "QUIESCING" THEN b.gen + 1 ELSE b.gen
           l == IF b.st # "QUIESCING" THEN FALSE ELSE b.late
<1>2. g \in Nat /\ g >= b.gen /\ l \in BOOLEAN /\ "QUIESCING" \in States
  <2>1. b.gen \in Nat /\ b.late \in BOOLEAN
    BY DEF MembersType
  <2>2. g \in Nat /\ g >= b.gen
    BY <2>1
  <2>3. l \in BOOLEAN
    BY <2>1
  <2>4. "QUIESCING" \in States
    BY DEF States
  <2> QED
    BY <2>2, <2>3, <2>4
<1>3. (b.hard \/ hard) \in BOOLEAN /\ (b.cancelWait \/ p.pend) \in BOOLEAN
  OBVIOUS
<1> HIDE DEF g, l
<1>4. ble' = [ b EXCEPT !.st = "QUIESCING", !.hard = b.hard \/ hard, !.gen = g,
                        !.cancelWait = b.cancelWait \/ p.pend, !.late = l ]
  BY <1>1 DEF g, l
<1>5. ble' \in MembersType
  <2> DEFINE q == [ b EXCEPT !.st = "QUIESCING", !.gen = g, !.late = l ]
  <2>1. q \in MembersType /\ q.hard = b.hard /\ q.cancelWait = b.cancelWait
    BY <1>2 DEF MembersType
  <2>2. ble' = [ q EXCEPT !.hard = b.hard \/ hard, !.cancelWait = b.cancelWait \/ p.pend ]
    BY <1>4
  <2> HIDE DEF q
  <2> QED
    BY <1>3, <2>1, <2>2 DEF MembersType
<1>6. ble'.st = "QUIESCING" /\ ble'.gen = g /\ ble'.cmd = b.cmd /\ ble'.fails = b.fails
  BY <1>4 DEF MembersType
<1>7. ble'.hard = (b.hard \/ hard) /\ ble'.cancelWait = (b.cancelWait \/ p.pend)
  BY <1>4 DEF MembersType
<1> QED
  BY <1>2, <1>5, <1>6, <1>7

LEMMA QuiescedShared ==
    ASSUME IInv, NEW b, NEW p, NEW hard, Handed(b, p, hard), QuiesceFrom(b, p, hard)
    PROVE  /\ pub' \in AtomicsType /\ ~pub'.accept /\ ~pub'.connected
           /\ pub'.pend = pub.pend /\ pub'.succ = pub.succ /\ pub'.edge = pub.edge
           /\ pub'.gate <= ble.gen
           /\ radio' \in RadioType /\ radio'.link = radio.link /\ radio'.id = radio.id
           /\ radio'.attrs = radio.attrs
<1> USE DEF QuiesceFrom, Handed
<1> DEFINE q == IF p.active = 0 /\ radio.link = "up" THEN radio.id ELSE p.active
           shut == IF b.st # "QUIESCING" THEN [ Closed(p) EXCEPT !.quiesc = q ] ELSE p
<1>1. PICK taken \in BOOLEAN :
        /\ pub' = [ shut EXCEPT !.discPending = shut.discPending \/ taken ]
        /\ radio' = [ radio EXCEPT !.disc = radio.disc \/ taken,
                                   !.scan = IF b.st # "QUIESCING" THEN FALSE ELSE radio.scan ]
  BY DEF IInv, TypeOK, RadioType, AtomicsType, Closed
<1>2. q \in Nat
  BY DEF IInv, TypeOK, RadioType, AtomicsType
<1>3. /\ shut \in AtomicsType /\ ~shut.accept /\ ~shut.connected /\ shut.pend = pub.pend
      /\ shut.succ = pub.succ /\ shut.edge = pub.edge /\ shut.gate <= ble.gen
  <2> HIDE DEF q
  <2>1. CASE b.st = "QUIESCING"
    BY <2>1 DEF IInv, TypeOK, AtomicsType, MembersType, Closes, Retiring, Shows
  <2>2. CASE b.st # "QUIESCING"
    <3>1. /\ Closed(p) \in AtomicsType /\ ~Closed(p).accept /\ ~Closed(p).connected
          /\ Closed(p).pend = pub.pend /\ Closed(p).succ = pub.succ /\ Closed(p).edge = pub.edge
          /\ Closed(p).gate = 0
      <4>1. PICK no \in BOOLEAN : no = FALSE
        OBVIOUS
      <4>2. PICK zero \in Nat : zero = 0
        OBVIOUS
      <4>3. Closed(p) = [ p EXCEPT !.accept = no, !.gate = zero, !.connected = no ]
        BY <4>1, <4>2 DEF Closed
      <4>4. /\ Closed(p) \in AtomicsType /\ Closed(p).accept = no /\ Closed(p).connected = no
            /\ Closed(p).pend = p.pend /\ Closed(p).succ = p.succ /\ Closed(p).edge = p.edge
            /\ Closed(p).gate = zero
        BY <4>3 DEF AtomicsType
      <4> QED
        BY <4>1, <4>2, <4>4
    <3> DEFINE c == Closed(p)
    <3>2. shut = [ c EXCEPT !.quiesc = q ]
      BY <2>2
    <3>3. c \in AtomicsType /\ ~c.accept /\ ~c.connected /\ c.pend = pub.pend
          /\ c.succ = pub.succ /\ c.edge = pub.edge /\ c.gate = 0
      BY <3>1
    <3>4. ble.gen \in Nat
      BY DEF IInv, TypeOK, MembersType
    <3> HIDE DEF c, shut
    <3> QED
      BY <1>2, <3>2, <3>3, <3>4 DEF AtomicsType
  <2> QED
    BY <2>1, <2>2
<1> HIDE DEF shut
<1>4. /\ pub' \in AtomicsType /\ ~pub'.accept /\ ~pub'.connected /\ pub'.pend = pub.pend
      /\ pub'.succ = pub.succ /\ pub'.edge = pub.edge /\ pub'.gate <= ble.gen
  BY <1>1, <1>3 DEF AtomicsType
<1>5. radio' \in RadioType /\ radio'.link = radio.link /\ radio'.id = radio.id /\ radio'.attrs = radio.attrs
  BY <1>1 DEF RadioType, IInv, TypeOK
<1> QED
  BY <1>4, <1>5

\* What surrounds a retirement.
Around ==
    /\ pc' \in { "apply", "scan", "dispatch", "service" }
    /\ UNCHANGED << host, subs, strayed >>
    /\ worker' \in WorkerType /\ worker'.at = worker.at /\ worker'.attrs = worker.attrs
    /\ count' \in [ found : 0 .. MaxFound, disconnects : 0 .. MaxDisconnects ]

LEMMA QuiesceKeeps ==
    ASSUME IInv, NEW b, NEW p, NEW hard, Handed(b, p, hard), QuiesceFrom(b, p, hard), Around
    PROVE  IInv'
<1>1. /\ ble' \in MembersType /\ ble'.st = "QUIESCING" /\ ble'.gen >= ble.gen
      /\ ble'.cmd = ble.cmd /\ (ble'.fails = HardResetAt => ble'.hard)
      /\ pub.pend => ble'.cancelWait
  BY QuiescedMembers
<1>2. /\ pub' \in AtomicsType /\ ~pub'.accept /\ ~pub'.connected
      /\ pub'.pend = pub.pend /\ pub'.succ = pub.succ /\ pub'.edge = pub.edge
      /\ pub'.gate <= ble.gen
      /\ radio' \in RadioType /\ radio'.link = radio.link /\ radio'.id = radio.id
      /\ radio'.attrs = radio.attrs
  BY QuiescedShared
<1> USE DEF Around
<1>3. TypeOK'
  <2>1. pub'.gate <= ble'.gen /\ pub'.edge <= ble'.gen
    BY <1>1, <1>2 DEF IInv, TypeOK, MembersType, AtomicsType
  <2> QED
    BY <1>1, <1>2, <2>1 DEF IInv, TypeOK
<1>4. Counted' /\ Closes'
  BY <1>1, <1>2 DEF Counted, Closes, Shows, Publishing, Retiring
<1>5. Attempts'
  BY <1>1, <1>2 DEF IInv, Attempts, Arriving, TypeOK, CallbackType, MembersType
<1>6. Opens' /\ Visible'
  BY <1>1, <1>2 DEF Opens, Visible, Shows, Publishing
<1>7. Holds'
  BY <1>1, <1>2 DEF IInv, Holds, WorkerOwnsItsHandles, Running
<1>8. Subscribed' /\ Published' /\ ConnectedIsOpen'
  BY <1>1, <1>2 DEF Subscribed, Subscribes, Retiring, Published, Publishing, ConnectedIsOpen
<1> QED
  BY <1>3, <1>4, <1>5, <1>6, <1>7, <1>8 DEF IInv
-----------------------------------------------------------------------------
(* Steps that go on with the session as it is: no link begins or ends, and *)
(* nothing is shown that was not.                                          *)

Searches == { "DISCONNECTED", "SCANNING", "SCAN_STOPPING", "CONNECTING" }
Moves ==
    \/ ble'.st = ble.st
    \/ ble.st \in Searches /\ ble'.st \in Searches
    \/ ble.st = "CONNECTING_WAIT" /\ ~pub.pend /\ ble'.st \in Searches
    \/ ble.st \in Subscribes /\ ble'.st \in Subscribes

Passes ==
    /\ ble' \in MembersType /\ pub' \in AtomicsType /\ radio' \in RadioType
    /\ count' \in [ found : 0 .. MaxFound, disconnects : 0 .. MaxDisconnects ]
    /\ Moves
    /\ ble'.gen = ble.gen /\ ble'.actGen = ble.actGen /\ ble'.step = ble.step
    /\ ble'.cancelWait = ble.cancelWait /\ (ble'.cmd = ble.cmd \/ ~Running)
    /\ ble'.hard = ble.hard /\ (ble'.fails = ble.fails \/ ble'.fails < HardResetAt)
    /\ ble'.st = "CONNECTING" => ble'.attempts < MaxAttempts
    /\ pub'.accept = pub.accept /\ pub'.gate = pub.gate /\ pub'.connected = pub.connected
    /\ pub'.pend = pub.pend /\ pub'.succ = pub.succ /\ pub'.edge = pub.edge
    /\ pub'.cleanup = pub.cleanup /\ pub'.active = pub.active
    /\ radio'.link = radio.link /\ radio'.id = radio.id /\ radio'.attrs = radio.attrs
    /\ \/ pc' = pc /\ ble'.read = ble.read /\ ble'.st = ble.st
       \/ /\ pc' \in { "apply", "cleanup", "scan", "service", "dispatch" }
          /\ pc' = "apply" \/ pc # "apply" \/ pub.edge = 0
          /\ ~Publishing
    /\ UNCHANGED << host, worker, subs, strayed >>

LEMMA PassesKeep == IInv /\ Passes => IInv'
<1> SUFFICES ASSUME IInv, Passes PROVE IInv'
  OBVIOUS
<1> USE DEF Passes
<1>1. TypeOK'
  BY DEF IInv, TypeOK
<1>2. ble.fails \in 0 .. HardResetAt
  BY DEF IInv, TypeOK, MembersType
<1>3. Counted'
  BY <1>2 DEF IInv, Counted, Moves, Retiring, Searches, Subscribes
<1>4. Closes'
  BY DEF IInv, Closes, Moves, Retiring, Searches, Subscribes, Shows, Publishing
<1>5. Attempts'
  BY DEF IInv, Attempts, Moves, Arriving, Searches, Subscribes
<1>6. Opens'
  BY DEF IInv, Opens, Moves, Sessions, Searches, Subscribes, Linked
<1>7. Visible'
  BY DEF IInv, Visible, Shows, Publishing, Linked
<1>8. Holds'
  BY DEF IInv, Holds, WorkerOwnsItsHandles, Running
<1>9. Subscribed'
  BY DEF IInv, Subscribed, Subscribes, Moves, Searches, Retiring, Running
<1>10. Published'
  BY DEF IInv, Published, Publishing, Subscribes, Moves, Searches
<1>11. ConnectedIsOpen'
  BY DEF IInv, ConnectedIsOpen, Moves, Searches, Subscribes, Accepted
<1> QED
  BY <1>1, <1>3, <1>4, <1>5, <1>6, <1>7, <1>8, <1>9, <1>10, <1>11 DEF IInv

-----------------------------------------------------------------------------
(* applyDeferredRuntimeEvents and the service of commands.                 *)

LEMMA ReadEdgeKeeps == IInv /\ ReadEdge => IInv'
<1> SUFFICES ASSUME IInv, ReadEdge PROVE IInv'
  OBVIOUS
<1> USE DEF ReadEdge
<1>1. CASE pub.edge = 0
  <2>1. Passes
    BY <1>1 DEF IInv, TypeOK, Passes, Moves, Counted, Publishing
  <2> QED
    BY <2>1, PassesKeep
<1>2. CASE pub.edge # 0
  <2> DEFINE r == pub.edge = ble.gen /\ Accepted(pub.edge)
             g == pub.edge
  <2>1. PICK zero \in Nat : zero = 0
    OBVIOUS
  <2>2. ble' = [ ble EXCEPT !.read = r, !.readGen = g ] /\ pub' = [ pub EXCEPT !.edge = zero ]
    BY <1>2, <2>1
  <2>3. r \in BOOLEAN /\ g \in Nat
    BY DEF IInv, TypeOK, AtomicsType
  <2>4. r => pub.accept /\ pub.edge # 0
    BY DEF Accepted
  <2> HIDE DEF r, g
  <2>5. /\ ble' \in MembersType /\ ble'.st = ble.st /\ ble'.gen = ble.gen /\ ble'.actGen = ble.actGen
        /\ ble'.step = ble.step /\ ble'.cancelWait = ble.cancelWait /\ ble'.cmd = ble.cmd
        /\ ble'.hard = ble.hard /\ ble'.fails = ble.fails /\ ble'.attempts = ble.attempts /\ ble'.read = r
    BY <2>2, <2>3 DEF IInv, TypeOK, MembersType
  <2>6. /\ pub' \in AtomicsType /\ pub'.accept = pub.accept /\ pub'.gate = pub.gate
        /\ pub'.connected = pub.connected /\ pub'.pend = pub.pend /\ pub'.succ = pub.succ
        /\ pub'.edge = 0 /\ pub'.cleanup = pub.cleanup /\ pub'.active = pub.active
    BY <2>1, <2>2 DEF IInv, TypeOK, AtomicsType
  <2>7. pc = "apply" /\ pc' = "edge" /\ UNCHANGED << host, radio, worker, subs, strayed, count >>
    BY <1>2
  <2> HIDE DEF ReadEdge
  <2>8. TypeOK'
    BY <2>5, <2>6, <2>7 DEF IInv, TypeOK, MembersType
  <2>9. Counted' /\ Attempts' /\ Opens'
    BY <2>5, <2>6, <2>7 DEF IInv, Counted, Retiring, Attempts, Arriving, Opens, Linked
  <2>10. Closes'
    BY <2>4, <2>5, <2>6, <2>7 DEF IInv, Closes, Retiring, Shows, Publishing
  <2>11. Visible'
    BY <2>4, <2>5, <2>6, <2>7 DEF IInv, Visible, Shows, Publishing, Opens, Linked
  <2>12. Holds' /\ Subscribed' /\ ConnectedIsOpen'
    BY <2>5, <2>6, <2>7 DEF IInv, Holds, WorkerOwnsItsHandles, Running, Subscribed, Subscribes,
       Retiring, ConnectedIsOpen, Accepted
  <2>13. Published'
    BY <1>2, <2>5, <2>6, <2>7 DEF IInv, Published, Publishing, Subscribes
  <2> QED
    BY <2>8, <2>9, <2>10, <2>11, <2>12, <2>13 DEF IInv
<1> QED
  BY <1>1, <1>2

LEMMA StoreEdgeKeeps == IInv /\ StoreEdge => IInv'
<1> SUFFICES ASSUME IInv, StoreEdge PROVE IInv'
  OBVIOUS
<1>1. /\ pub' \in AtomicsType /\ pub'.accept = pub.accept /\ pub'.gate = pub.gate
      /\ pub'.connected = ble.read /\ pub'.pend = pub.pend /\ pub'.succ = pub.succ
      /\ pub'.edge = pub.edge /\ pub'.cleanup = pub.cleanup /\ pub'.active = pub.active
  BY DEF IInv, TypeOK, AtomicsType, MembersType, StoreEdge
<1>2. pc = "edge" /\ pc' = "cleanup" /\ UNCHANGED << ble, host, radio, worker, subs, strayed, count >>
  BY DEF StoreEdge
<1>3. TypeOK'
  BY <1>1, <1>2 DEF IInv, TypeOK
<1>4. Counted' /\ Attempts' /\ Opens'
  BY <1>1, <1>2 DEF IInv, Counted, Retiring, Attempts, Arriving, Opens, Linked
<1>5. Closes' /\ Visible'
  BY <1>1, <1>2 DEF IInv, Closes, Retiring, Shows, Publishing, Visible, Linked
<1>6. Holds' /\ Subscribed' /\ ConnectedIsOpen' /\ Published'
  BY <1>1, <1>2 DEF IInv, Holds, WorkerOwnsItsHandles, Running, Subscribed, Subscribes,
     Retiring, ConnectedIsOpen, Accepted, Published, Publishing
<1> QED
  BY <1>3, <1>4, <1>5, <1>6 DEF IInv

LEMMA ApplyCleanupKeeps == IInv /\ ApplyCleanup => IInv'
<1> SUFFICES ASSUME IInv, ApplyCleanup PROVE IInv'
  OBVIOUS
<1> USE DEF ApplyCleanup
<1>1. CASE pub.cleanup
  <2> DEFINE f == IF Expected THEN ble.fails ELSE 0
             b == [ ble EXCEPT !.fails = f, !.want = FALSE ]
             p == [ pub EXCEPT !.cleanup = FALSE, !.connected = FALSE, !.ours = FALSE ]
  <2>1. QuiesceFrom(b, p, FALSE)
    BY <1>1 DEF IInv, TypeOK, MembersType
  <2>2. f \in 0 .. HardResetAt /\ (f = HardResetAt => ble.hard /\ Retiring)
    BY DEF IInv, TypeOK, MembersType, Counted, Expected
  <2> HIDE DEF f
  <2>3. /\ b \in MembersType /\ b.st = ble.st /\ b.gen = ble.gen /\ b.cancelWait = ble.cancelWait
        /\ b.hard = ble.hard /\ b.step = ble.step /\ b.actGen = ble.actGen /\ b.read = ble.read
        /\ b.cmd = ble.cmd /\ b.fails = f
    BY <2>2 DEF IInv, TypeOK, MembersType
  <2>4. /\ p \in AtomicsType /\ p.accept = pub.accept /\ p.gate = pub.gate /\ p.pend = pub.pend
        /\ p.succ = pub.succ /\ p.edge = pub.edge /\ p.active = pub.active /\ ~p.connected
    BY DEF IInv, TypeOK, AtomicsType
  <2> HIDE DEF b, p
  <2>5. Handed(b, p, FALSE)
    BY <2>2, <2>3, <2>4 DEF Handed
  <2>6. Around
    BY DEF Around, IInv, TypeOK
  <2> QED
    BY <2>1, <2>5, <2>6, QuiesceKeeps
<1>2. CASE ~pub.cleanup
  <2>1. Passes
    BY <1>2 DEF IInv, TypeOK, Passes, Moves, Counted, Publishing
  <2> QED
    BY <2>1, PassesKeep
<1> QED
  BY <1>1, <1>2

LEMMA ApplyScanKeeps == IInv /\ ApplyScan => IInv'
<1> SUFFICES ASSUME IInv, ApplyScan PROVE IInv'
  OBVIOUS
<1> USE DEF ApplyScan
<1>1. /\ pub' \in AtomicsType /\ pub'.accept = pub.accept /\ pub'.gate = pub.gate
      /\ pub'.connected = pub.connected /\ pub'.pend = pub.pend /\ pub'.succ = pub.succ
      /\ pub'.edge = pub.edge /\ pub'.cleanup = pub.cleanup /\ pub'.active = pub.active
  BY DEF IInv, TypeOK, AtomicsType
<1>2. /\ ble' \in MembersType /\ ble'.gen = ble.gen /\ ble'.actGen = ble.actGen
      /\ ble'.step = ble.step /\ ble'.cancelWait = ble.cancelWait /\ ble'.cmd = ble.cmd
      /\ ble'.hard = ble.hard /\ ble'.fails = ble.fails /\ ble'.attempts = ble.attempts
      /\ \/ ble'.st = ble.st
         \/ ble.st = "SCANNING" /\ ble'.st \in { "SCAN_STOPPING", "DISCONNECTED" }
  BY DEF IInv, TypeOK, MembersType, States
<1>3. Passes
  BY <1>1, <1>2 DEF IInv, TypeOK, Passes, Moves, Counted, Publishing, Searches
<1> QED
  BY <1>3, PassesKeep

\* The members and atomics as they are may be handed to a retirement.
LEMMA HandedAsIs == IInv => Handed(ble, pub, FALSE) /\ Handed(ble, pub, TRUE)
  BY DEF IInv, TypeOK, Handed, Counted

LEMMA ServiceKeeps == IInv /\ Service => IInv'
<1> SUFFICES ASSUME IInv, Service PROVE IInv'
  OBVIOUS
<1> USE DEF Service
<1>1. CASE CommandBroken
  <2>1. Around
    BY DEF Around, IInv, TypeOK
  <2> QED
    BY <1>1, <2>1, HandedAsIs, QuiesceKeeps DEF Quiesce
<1>2. CASE ~CommandBroken
  <2>1. Passes
    BY <1>2 DEF IInv, TypeOK, Passes, Moves, Counted, Publishing
  <2> QED
    BY <2>1, PassesKeep
<1> QED
  BY <1>1, <1>2

LEMMA DisconnectKeeps == IInv /\ Disconnect => IInv'
<1> SUFFICES ASSUME IInv, Disconnect PROVE IInv'
  OBVIOUS
<1>1. count' \in [ found : 0 .. MaxFound, disconnects : 0 .. MaxDisconnects ]
  BY DEF Disconnect, IInv, TypeOK
<1>2. Around
  BY <1>1 DEF Disconnect, Around, IInv, TypeOK
<1> QED
  BY <1>2, HandedAsIs, QuiesceKeeps DEF Disconnect, Quiesce
-----------------------------------------------------------------------------
(* dispatchConnectionState, up to a connection.                            *)

\* A counted attempt, or a counted failure that retires the session.
LEMMA HandedCounted ==
    ASSUME IInv, ~Retiring
    PROVE  /\ ble.attempts < MaxAttempts =>
                Handed([ ble EXCEPT !.attempts = ble.attempts + 1 ], pub, FALSE)
           /\ ble.fails + 1 >= HardResetAt =>
                Handed([ ble EXCEPT !.fails = ble.fails + 1 ], pub, TRUE)
           /\ ble.fails + 1 < HardResetAt =>
                Handed([ ble EXCEPT !.fails = ble.fails + 1 ], pub, FALSE)
<1>1. ble.attempts \in 0 .. MaxAttempts /\ ble.fails \in 0 .. HardResetAt /\ ble.fails # HardResetAt
  BY DEF IInv, TypeOK, MembersType, Counted
<1>2. ASSUME ble.attempts < MaxAttempts
      PROVE  Handed([ ble EXCEPT !.attempts = ble.attempts + 1 ], pub, FALSE)
  <2>1. ble.attempts + 1 \in 0 .. MaxAttempts
    BY <1>1, <1>2
  <2> QED
    BY <1>1, <2>1 DEF IInv, TypeOK, Handed, MembersType
<1>3. ble.fails + 1 \in 0 .. HardResetAt
  BY <1>1
<1>4. ASSUME NEW hard \in BOOLEAN, ble.fails + 1 = HardResetAt => hard
      PROVE  Handed([ ble EXCEPT !.fails = ble.fails + 1 ], pub, hard)
  BY <1>3, <1>4 DEF IInv, TypeOK, Handed, MembersType
<1>5. ble.fails + 1 < HardResetAt => ble.fails + 1 # HardResetAt
  BY <1>1
<1> QED
  BY <1>2, <1>4, <1>5

LEMMA DisconnectedKeeps == IInv /\ Disconnected => IInv'
<1> SUFFICES ASSUME IInv, Disconnected PROVE IInv'
  OBVIOUS
<1> USE DEF Disconnected, Step, Still
<1>1. CASE Running
  <2>1. Around
    BY <1>1 DEF Around, IInv, TypeOK
  <2> QED
    BY <1>1, <2>1, HandedAsIs, QuiesceKeeps DEF Quiesce
<1>2. CASE ~Running
  <2>1. /\ ble' \in MembersType /\ ble'.gen = ble.gen /\ ble'.actGen = ble.actGen
        /\ ble'.step = ble.step /\ ble'.cancelWait = ble.cancelWait /\ ble'.cmd = ble.cmd
        /\ ble'.hard = ble.hard /\ ble'.fails = ble.fails /\ ble'.st \in { "DISCONNECTED", "SCANNING" }
    BY <1>2 DEF IInv, TypeOK, MembersType, States, To
  <2>2. /\ radio' \in RadioType /\ radio'.link = radio.link /\ radio'.id = radio.id
        /\ radio'.attrs = radio.attrs /\ UNCHANGED pub
    BY <1>2 DEF IInv, TypeOK, RadioType
  <2>3. Passes
    BY <1>2, <2>1, <2>2 DEF IInv, TypeOK, Passes, Moves, Searches, Publishing
  <2> QED
    BY <2>3, PassesKeep
<1> QED
  BY <1>1, <1>2

LEMMA ScanningKeeps == IInv /\ Scanning => IInv'
<1> SUFFICES ASSUME IInv, Scanning PROVE IInv'
  OBVIOUS
<1> USE DEF Scanning, Step, Still
<1>1. /\ ble' \in MembersType /\ ble'.gen = ble.gen /\ ble'.actGen = ble.actGen
      /\ ble'.step = ble.step /\ ble'.cancelWait = ble.cancelWait /\ ble'.cmd = ble.cmd
      /\ ble'.hard = ble.hard /\ ble'.fails = ble.fails
      /\ ble'.st \in { "SCANNING", "SCAN_STOPPING", "DISCONNECTED" }
  BY DEF IInv, TypeOK, MembersType, States, To
<1>2. /\ radio' \in RadioType /\ radio'.link = radio.link /\ radio'.id = radio.id
      /\ radio'.attrs = radio.attrs /\ UNCHANGED pub
  BY DEF IInv, TypeOK, RadioType
<1>3. Passes
  BY <1>1, <1>2 DEF IInv, TypeOK, Passes, Moves, Searches, Publishing
<1> QED
  BY <1>3, PassesKeep

LEMMA ScanStoppingKeeps == IInv /\ ScanStopping => IInv'
<1> SUFFICES ASSUME IInv, ScanStopping PROVE IInv'
  OBVIOUS
<1> USE DEF ScanStopping, Step, Still
<1> DEFINE Begins == ~radio.scan /\ ble.want /\ ~Running
<1>1. CASE ~Begins
  <2>1. /\ ble' \in MembersType /\ ble'.gen = ble.gen /\ ble'.actGen = ble.actGen
        /\ ble'.step = ble.step /\ ble'.cancelWait = ble.cancelWait /\ ble'.cmd = ble.cmd
        /\ ble'.hard = ble.hard /\ ble'.fails = ble.fails
        /\ ble'.st \in { "SCAN_STOPPING", "DISCONNECTED" }
    <3>1. PICK no \in BOOLEAN : no = FALSE
      OBVIOUS
    <3>2. PICK s \in States :
            /\ s \in { "SCAN_STOPPING", "DISCONNECTED" }
            /\ ble' = ble \/ ble' = [ ble EXCEPT !.st = s, !.want = no ]
      BY <1>1, <3>1 DEF States
    <3>3. ble.st = "SCAN_STOPPING" /\ ble \in MembersType
      BY <1>1 DEF IInv, TypeOK
    <3> HIDE DEF ScanStopping
    <3> QED
      BY <3>2, <3>3 DEF MembersType
  <2>2. /\ radio' \in RadioType /\ radio'.link = radio.link /\ radio'.id = radio.id
        /\ radio'.attrs = radio.attrs /\ UNCHANGED pub
    BY <1>1 DEF IInv, TypeOK, RadioType
  <2>3. Passes
    BY <1>1, <2>1, <2>2 DEF IInv, TypeOK, Passes, Moves, Searches, Publishing
  <2> QED
    BY <2>3, PassesKeep
<1>2. CASE Begins
  <2>1. PICK zero \in Nat : zero = 0
    OBVIOUS
  <2>2. PICK no \in BOOLEAN : no = FALSE
    OBVIOUS
  <2>3. PICK yes \in BOOLEAN : yes = TRUE
    OBVIOUS
  <2> DEFINE g == ble.gen + 1
             b == [ ble EXCEPT !.st = "CONNECTING", !.want = no, !.gen = g ]
             p == [ pub EXCEPT !.edge = zero, !.gate = g, !.accept = yes ]
  <2>4. ble' = [ b EXCEPT !.attempts = 0, !.late = no ] /\ pub' = [ p EXCEPT !.pend = no, !.succ = no ]
    BY <1>2, <2>1, <2>2, <2>3 DEF IInv, TypeOK, MembersType
  <2>5. g \in Nat /\ g >= ble.gen /\ g # 0 /\ 0 \in 0 .. MaxAttempts /\ "CONNECTING" \in States
    BY DEF IInv, TypeOK, MembersType, States, ClientAssumption
  <2> HIDE DEF g
  <2>6. /\ b \in MembersType /\ b.st = "CONNECTING" /\ b.gen = g /\ b.actGen = ble.actGen
        /\ b.step = ble.step /\ b.cmd = ble.cmd /\ b.hard = ble.hard /\ b.fails = ble.fails
    BY <2>5 DEF IInv, TypeOK, MembersType
  <2>7. /\ p \in AtomicsType /\ p.edge = 0 /\ p.gate = g /\ p.accept /\ p.connected = pub.connected
        /\ p.cleanup = pub.cleanup /\ p.active = pub.active
    BY <2>1, <2>3, <2>5 DEF IInv, TypeOK, AtomicsType
  <2> HIDE DEF b, p
  <2>8. /\ ble' \in MembersType /\ ble'.st = "CONNECTING" /\ ble'.gen = g /\ ble'.actGen = ble.actGen
        /\ ble'.step = ble.step /\ ble'.cmd = ble.cmd /\ ble'.hard = ble.hard /\ ble'.fails = ble.fails
        /\ ble'.attempts = 0
    BY <2>4, <2>5, <2>6 DEF MembersType
  <2>9. /\ pub' \in AtomicsType /\ pub'.edge = 0 /\ pub'.gate = g /\ pub'.accept
        /\ pub'.connected = pub.connected /\ pub'.cleanup = pub.cleanup /\ pub'.active = pub.active
        /\ ~pub'.succ /\ ~pub'.pend
    BY <2>2, <2>4, <2>7 DEF AtomicsType
  <2>10. /\ pc = "dispatch" /\ pc' = "apply" /\ ble.st = "SCAN_STOPPING"
         /\ UNCHANGED << host, radio, worker, subs, strayed, count >>
    BY <1>2
  <2> HIDE DEF ScanStopping
  <2>11. TypeOK'
    BY <2>5, <2>8, <2>9, <2>10 DEF IInv, TypeOK
  <2>12. Counted' /\ Closes'
    BY <2>8, <2>9, <2>10 DEF IInv, Counted, Retiring, Closes, ClientAssumption
  <2>13. Attempts'
    BY <2>5, <2>8, <2>9, <2>10 DEF IInv, Attempts, Arriving, TypeOK, CallbackType, MembersType
  <2>14. Opens' /\ Visible'
    BY <2>8, <2>9, <2>10 DEF IInv, Opens, Sessions, Visible, Shows, Publishing, Linked
  <2>15. Holds' /\ Subscribed' /\ Published' /\ ConnectedIsOpen'
    BY <2>8, <2>9, <2>10 DEF IInv, Holds, WorkerOwnsItsHandles, Running, Subscribed, Subscribes,
       Retiring, Published, Publishing, ConnectedIsOpen
  <2> QED
    BY <2>11, <2>12, <2>13, <2>14, <2>15 DEF IInv
<1> QED
  BY <1>1, <1>2

\* A step of the loop that leaves the shared state and goes back to searching.
LEMMA SearchesOn ==
    ASSUME IInv, ble.st \in Searches \/ (ble.st = "CONNECTING_WAIT" /\ ~pub.pend),
           ble' \in MembersType, ble'.st \in Searches,
           ble'.gen = ble.gen, ble'.actGen = ble.actGen, ble'.step = ble.step,
           ble'.cancelWait = ble.cancelWait, ble'.cmd = ble.cmd, ble'.hard = ble.hard,
           ble'.fails = ble.fails \/ ble'.fails < HardResetAt,
           ble'.st = "CONNECTING" => ble'.attempts < MaxAttempts,
           pc = "dispatch", pc' = "apply",
           UNCHANGED << pub, host, radio, worker, subs, strayed, count >>
    PROVE  IInv'
<1>1. Passes
  BY DEF IInv, TypeOK, Passes, Moves, Publishing
<1> QED
  BY <1>1, PassesKeep

\* A failure that is counted: the client is reset, or searches again.
LEMMA FailedKeeps ==
    ASSUME IInv, ble.st = "CONNECTING" \/ (ble.st = "CONNECTING_WAIT" /\ ~pub.pend),
           pc = "dispatch", pc' = "apply", UNCHANGED worker, Still, UNCHANGED count,
           Failed(/\ ble' = [ ble EXCEPT !.fails = ble.fails + 1, !.st = "DISCONNECTED" ]
                  /\ UNCHANGED << pub, radio >>)
    PROVE  IInv'
<1> USE DEF Failed, Still
<1>1. CASE ble.fails + 1 >= HardResetAt
  <2>1. Around
    BY DEF Around, IInv, TypeOK
  <2>2. ~Retiring
    BY DEF Retiring
  <2> QED
    BY <1>1, <2>1, <2>2, HandedCounted, QuiesceKeeps
<1>2. CASE ~(ble.fails + 1 >= HardResetAt)
  <2>1. ble.fails \in 0 .. HardResetAt /\ "DISCONNECTED" \in States
    BY DEF IInv, TypeOK, MembersType, States
  <2>2. ble.fails + 1 \in 0 .. HardResetAt /\ ble.fails + 1 < HardResetAt
    BY <1>2, <2>1
  <2>3. ble' = [ ble EXCEPT !.fails = ble.fails + 1, !.st = "DISCONNECTED" ] /\ UNCHANGED << pub, radio >>
    BY <1>2
  <2>4. /\ ble' \in MembersType /\ ble'.gen = ble.gen /\ ble'.actGen = ble.actGen
        /\ ble'.step = ble.step /\ ble'.cancelWait = ble.cancelWait /\ ble'.cmd = ble.cmd
        /\ ble'.hard = ble.hard /\ ble'.fails = ble.fails + 1 /\ ble'.st = "DISCONNECTED"
    BY <2>1, <2>2, <2>3 DEF IInv, TypeOK, MembersType
  <2> QED
    BY <2>2, <2>3, <2>4, SearchesOn DEF Searches
<1> QED
  BY <1>1, <1>2

\* A step of the loop that waits, or only notes its lateness or its lookups.
LEMMA WaitsOn ==
    ASSUME IInv, UNCHANGED << ble, pub, radio, host, worker, subs, strayed, count >>,
           pc = "dispatch", pc' = "apply"
    PROVE  IInv'
<1>1. Passes
  BY DEF IInv, TypeOK, Passes, Moves, Publishing, Counted
<1> QED
  BY <1>1, PassesKeep

LEMMA ConnectStarts ==
    ASSUME IInv, ble.st = "CONNECTING", pc = "dispatch", pc' = "apply", ~Running, ~pub.pend, ~pub.succ,
           radio.link = "none", UNCHANGED worker, Still,
           ble' = [ ble EXCEPT !.st = "CONNECTING_WAIT", !.attempts = ble.attempts + 1, !.late = FALSE ],
           pub' = [ pub EXCEPT !.pend = TRUE, !.succ = FALSE ],
           radio' = [ radio EXCEPT !.link = "connecting", !.attrs = radio.attrs + 1 ]
    PROVE  IInv'
<1>1. ble.attempts + 1 \in 0 .. MaxAttempts /\ "CONNECTING_WAIT" \in States
  BY DEF IInv, TypeOK, MembersType, Counted, States
<1>2. PICK no \in BOOLEAN : no = FALSE
  OBVIOUS
<1>3. PICK yes \in BOOLEAN : yes = TRUE
  OBVIOUS
<1>4. ble' = [ ble EXCEPT !.st = "CONNECTING_WAIT", !.attempts = ble.attempts + 1, !.late = no ]
  BY <1>2
<1>5. /\ ble' \in MembersType /\ ble'.st = "CONNECTING_WAIT" /\ ble'.gen = ble.gen
      /\ ble'.actGen = ble.actGen /\ ble'.step = ble.step /\ ble'.cmd = ble.cmd
      /\ ble'.hard = ble.hard /\ ble'.fails = ble.fails
  BY <1>1, <1>4 DEF IInv, TypeOK, MembersType
<1>6. /\ pub' \in AtomicsType /\ pub'.pend /\ ~pub'.succ /\ pub'.accept = pub.accept
      /\ pub'.gate = pub.gate /\ pub'.edge = pub.edge /\ pub'.connected = pub.connected
      /\ pub'.cleanup = pub.cleanup /\ pub'.active = pub.active
  BY <1>2, <1>3 DEF IInv, TypeOK, AtomicsType
<1>7. radio' \in RadioType /\ radio'.link = "connecting" /\ radio'.id = radio.id
  <2>1. PICK n \in Nat : n = radio.attrs + 1
    BY DEF IInv, TypeOK, RadioType
  <2>2. radio' = [ radio EXCEPT !.link = "connecting", !.attrs = n ]
    BY <2>1
  <2> QED
    BY <2>2 DEF IInv, TypeOK, RadioType
<1>8. UNCHANGED << host, worker, subs, strayed, count >>
  BY DEF Still
<1>9. TypeOK'
  BY <1>5, <1>6, <1>7, <1>8 DEF IInv, TypeOK
<1>10. Counted' /\ Closes' /\ Attempts'
  BY <1>5, <1>6, <1>7, <1>8 DEF IInv, Counted, Closes, Retiring, Attempts, Arriving
<1>11. Opens' /\ Visible'
  BY <1>5, <1>6, <1>7, <1>8 DEF IInv, Opens, Sessions, Visible, Shows, Publishing, Linked
<1>12. Holds' /\ Subscribed' /\ Published' /\ ConnectedIsOpen'
  BY <1>5, <1>6, <1>7, <1>8 DEF IInv, Holds, WorkerOwnsItsHandles, Running, Subscribed, Subscribes,
     Retiring, Published, Publishing, ConnectedIsOpen
<1> QED
  BY <1>9, <1>10, <1>11, <1>12 DEF IInv

LEMMA ConnectingKeeps == IInv /\ Connecting => IInv'
<1> SUFFICES ASSUME IInv, Connecting PROVE IInv'
  OBVIOUS
<1> USE DEF Connecting, Step, Still
<1>1. ~Retiring /\ ble.attempts < MaxAttempts
  BY DEF Retiring, IInv, Counted
<1>2. Around
  BY DEF Around, IInv, TypeOK
<1>3. CASE pub.pend \/ pub.succ \/ ~MayRebuild
  BY <1>2, <1>3, HandedAsIs, QuiesceKeeps, WaitsOn DEF Quiesce
<1>4. CASE ~(pub.pend \/ pub.succ \/ ~MayRebuild) /\ radio.link = "up"
  BY <1>1, <1>2, <1>4, HandedCounted, QuiesceKeeps
<1>5. CASE ~(pub.pend \/ pub.succ \/ ~MayRebuild) /\ radio.link # "up"
  <2>1. CASE /\ radio.link = "none"
             /\ ble' = [ ble EXCEPT !.st = "CONNECTING_WAIT", !.attempts = ble.attempts + 1, !.late = FALSE ]
             /\ pub' = [ pub EXCEPT !.pend = TRUE, !.succ = FALSE ]
             /\ radio' = [ radio EXCEPT !.link = "connecting", !.attrs = radio.attrs + 1 ]
    BY <1>5, <2>1, ConnectStarts DEF MayRebuild
  <2>2. CASE /\ MoreAttempts(ble.attempts + 1)
             /\ IF ble.late THEN Quiesce(FALSE)
                ELSE ble' = [ ble EXCEPT !.attempts = ble.attempts + 1 ] /\ UNCHANGED << pub, radio >>
    <3>1. CASE ble.late
      BY <1>2, <2>2, <3>1, HandedAsIs, QuiesceKeeps DEF Quiesce
    <3>2. CASE ~ble.late
      <4>1. ble.attempts + 1 \in 0 .. MaxAttempts /\ ble.attempts + 1 < MaxAttempts
        BY <1>1, <2>2 DEF IInv, TypeOK, MembersType, MoreAttempts
      <4>2. /\ ble' \in MembersType /\ ble'.gen = ble.gen /\ ble'.actGen = ble.actGen
            /\ ble'.step = ble.step /\ ble'.cancelWait = ble.cancelWait /\ ble'.cmd = ble.cmd
            /\ ble'.hard = ble.hard /\ ble'.fails = ble.fails /\ ble'.attempts = ble.attempts + 1
            /\ ble'.st = "CONNECTING" /\ UNCHANGED << pub, radio >>
        BY <2>2, <3>2, <4>1 DEF IInv, TypeOK, MembersType
      <4> QED
        BY <4>1, <4>2, SearchesOn DEF Searches
    <3> QED
      BY <3>1, <3>2
  <2>3. CASE Failed(/\ ble' = [ ble EXCEPT !.fails = ble.fails + 1, !.st = "DISCONNECTED" ]
                    /\ UNCHANGED << pub, radio >>)
    BY <2>3, FailedKeeps
  <2> QED
    BY <1>5, <2>1, <2>2, <2>3
<1> QED
  BY <1>3, <1>4, <1>5

LEMMA ConnectingWaitKeeps == IInv /\ ConnectingWait => IInv'
<1> SUFFICES ASSUME IInv, ConnectingWait PROVE IInv'
  OBVIOUS
<1> USE DEF ConnectingWait, Step
<1>1. pc = "dispatch" /\ pc' = "apply" /\ ble.st = "CONNECTING_WAIT" /\ Still /\ ~Retiring
  BY DEF Retiring
<1>2. ASSUME UNCHANGED worker PROVE Around
  BY <1>2 DEF Around, IInv, TypeOK, Still
<1>3. CASE pub.succ /\ Accepted(ble.gen) /\ ~Running
  <2>1. PICK no \in BOOLEAN : no = FALSE
    OBVIOUS
  <2> DEFINE b == [ ble EXCEPT !.fails = 0, !.actGen = ble.gen ]
  <2>2. /\ ble' = [ b EXCEPT !.st = "DISCOVERING", !.late = no ]
        /\ worker' = [ worker EXCEPT !.done = no, !.ok = no, !.doneGen = 0 ]
        /\ UNCHANGED << pub, radio, host, subs, strayed, count >>
    BY <1>3, <2>1 DEF IInv, TypeOK, MembersType, Still
  <2>3. 0 \in 0 .. HardResetAt /\ 0 # HardResetAt /\ "DISCOVERING" \in States /\ 0 \in Nat
    BY DEF ClientAssumption, States
  <2>4. /\ b \in MembersType /\ b.fails = 0 /\ b.actGen = ble.gen /\ b.gen = ble.gen
        /\ b.step = ble.step /\ b.cmd = ble.cmd
    BY <2>3 DEF IInv, TypeOK, MembersType
  <2> HIDE DEF b
  <2>5. /\ ble' \in MembersType /\ ble'.fails = 0 /\ ble'.actGen = ble.gen /\ ble'.gen = ble.gen
        /\ ble'.step = ble.step /\ ble'.cmd = ble.cmd /\ ble'.st = "DISCOVERING"
    BY <2>2, <2>3, <2>4 DEF MembersType
  <2>6. worker' \in WorkerType /\ worker'.at = worker.at /\ worker'.attrs = worker.attrs
    BY <2>2, <2>3 DEF IInv, TypeOK, WorkerType
  <2> HIDE DEF ConnectingWait
  <2>7. TypeOK'
    BY <1>1, <2>2, <2>5, <2>6 DEF IInv, TypeOK
  <2>8. Counted' /\ Closes'
    BY <2>3, <2>5 DEF Counted, Closes, Retiring
  <2>9. Attempts' /\ Opens'
    BY <1>3, <2>2, <2>5 DEF IInv, Attempts, Arriving, Opens, Linked, Accepted
  <2>10. Visible' /\ Holds'
    BY <1>1, <2>2, <2>5, <2>6 DEF IInv, Visible, Shows, Publishing, Linked, Holds, WorkerOwnsItsHandles, Running
  <2>11. Subscribed' /\ Published' /\ ConnectedIsOpen'
    BY <1>1, <2>2, <2>5 DEF IInv, Subscribed, Subscribes, Retiring, Published, Publishing, ConnectedIsOpen
  <2> QED
    BY <2>7, <2>8, <2>9, <2>10, <2>11 DEF IInv
<1>4. CASE pub.succ /\ ~(Accepted(ble.gen) /\ ~Running)
  BY <1>2, <1>4, HandedAsIs, QuiesceKeeps DEF Quiesce
<1>5. CASE ~pub.succ /\ pub.pend
  <2>1. CASE ~ble.late
    BY <1>1, <1>5, <2>1, WaitsOn DEF Still
  <2>2. CASE ble.late
    <3>1. CASE ble.fails + 1 >= HardResetAt
      BY <1>1, <1>2, <1>5, <2>2, <3>1, HandedCounted, QuiesceKeeps DEF Failed
    <3>2. CASE ~(ble.fails + 1 >= HardResetAt)
      <4>1. ble.fails + 1 < HardResetAt
        BY <3>2 DEF IInv, TypeOK, MembersType, ClientAssumption
      <4> QED
        BY <1>1, <1>2, <1>5, <2>2, <3>2, <4>1, HandedCounted, QuiesceKeeps DEF Failed
    <3> QED
      BY <3>1, <3>2
  <2> QED
    BY <2>1, <2>2
<1>6. CASE ~pub.succ /\ ~pub.pend
  <2>1. CASE MoreAttempts(ble.attempts)
    <3>1. /\ ble' \in MembersType /\ ble'.gen = ble.gen /\ ble'.actGen = ble.actGen
          /\ ble'.step = ble.step /\ ble'.cancelWait = ble.cancelWait /\ ble'.cmd = ble.cmd
          /\ ble'.hard = ble.hard /\ ble'.fails = ble.fails /\ ble'.attempts = ble.attempts
          /\ ble'.st \in { "CONNECTING", "DISCONNECTED" }
          /\ UNCHANGED << pub, radio, worker, host, subs, strayed, count >>
      <4>1. PICK st \in { "CONNECTING", "DISCONNECTED" } : ble' = [ ble EXCEPT !.st = st ]
        BY <1>6, <2>1 DEF To
      <4> QED
        BY <1>6, <2>1, <4>1 DEF IInv, TypeOK, MembersType, States, Still
    <3> QED
      BY <1>1, <1>6, <2>1, <3>1, SearchesOn DEF Searches, MoreAttempts
  <2>2. CASE ~MoreAttempts(ble.attempts)
    BY <1>1, <1>6, <2>2, FailedKeeps DEF Still
  <2> QED
    BY <2>1, <2>2
<1> QED
  BY <1>3, <1>4, <1>5, <1>6

-----------------------------------------------------------------------------
(* Discovery and subscription.                                             *)

\* A job is given to the worker that is free.
LEMMA JobStarts ==
    ASSUME IInv, NEW j \in Jobs \ { "idle", "command", "write" },
           worker' = [ worker EXCEPT !.at = j, !.attrs = radio.attrs, !.gen = ble.actGen ]
    PROVE  /\ worker' \in WorkerType /\ worker'.at = j /\ worker'.attrs = radio.attrs
           /\ worker'.done = worker.done
<1>1. radio.attrs \in Nat /\ ble.actGen \in Nat
  BY DEF IInv, TypeOK, RadioType, MembersType
<1> QED
  BY <1>1 DEF IInv, TypeOK, WorkerType

LEMMA DiscoveringKeeps == IInv /\ Discovering => IInv'
<1> SUFFICES ASSUME IInv, Discovering PROVE IInv'
  OBVIOUS
<1> USE DEF Discovering, Step
<1>1. pc = "dispatch" /\ pc' = "apply" /\ ble.st = "DISCOVERING" /\ Still /\ ~Retiring
  BY DEF Retiring
<1>2. ASSUME UNCHANGED worker PROVE Around
  BY <1>2 DEF Around, IInv, TypeOK, Still
<1>3. CASE ble.late
  BY <1>2, <1>3, HandedAsIs, QuiesceKeeps DEF Quiesce
<1>4. CASE ~ble.late /\ Running
  BY <1>1, <1>4, WaitsOn DEF Still
<1>5. CASE ~ble.late /\ ~Running /\ ~worker.done /\ Start("discover") /\ UNCHANGED << ble, pub, radio >>
  <2>1. worker' \in WorkerType /\ worker'.at = "discover" /\ worker'.attrs = radio.attrs
    BY <1>5, JobStarts DEF Start, Jobs
  <2> HIDE DEF Discovering
  <2>2. UNCHANGED << ble, pub, radio, host, subs, strayed, count >>
    BY <1>1, <1>5 DEF Still
  <2>3. TypeOK' /\ Counted' /\ Attempts' /\ Opens'
    BY <1>1, <2>1, <2>2 DEF IInv, TypeOK, Counted, Retiring, Attempts, Arriving, Opens, Linked
  <2>4. Closes' /\ Visible' /\ Holds'
    BY <1>1, <2>1, <2>2 DEF IInv, Closes, Retiring, Visible, Shows, Publishing, Linked, Holds, WorkerOwnsItsHandles
  <2>5. Subscribed' /\ Published' /\ ConnectedIsOpen'
    BY <1>1, <2>1, <2>2 DEF IInv, Subscribed, Subscribes, Retiring, Published, Publishing, ConnectedIsOpen
  <2> QED
    BY <2>3, <2>4, <2>5 DEF IInv
<1>6. CASE /\ worker' = [ worker EXCEPT !.done = TRUE, !.ok = FALSE ]
           /\ Failed(QuiesceFrom([ ble EXCEPT !.fails = ble.fails + 1 ], pub, FALSE))
  <2>1. worker' \in WorkerType /\ worker'.at = worker.at /\ worker'.attrs = worker.attrs
    <3>1. PICK yes \in BOOLEAN : yes = TRUE
      OBVIOUS
    <3>2. PICK no \in BOOLEAN : no = FALSE
      OBVIOUS
    <3>3. worker' = [ worker EXCEPT !.done = yes, !.ok = no ]
      BY <1>6, <3>1, <3>2
    <3> QED
      BY <3>3 DEF IInv, TypeOK, WorkerType
  <2>2. Around
    BY <1>1, <2>1 DEF Around, IInv, TypeOK, Still
  <2>3. ble.fails + 1 >= HardResetAt \/ ble.fails + 1 < HardResetAt
    BY DEF IInv, TypeOK, MembersType, ClientAssumption
  <2>4. CASE ble.fails + 1 >= HardResetAt
    BY <1>1, <1>6, <2>2, <2>4, HandedCounted, QuiesceKeeps DEF Failed
  <2>5. CASE ~(ble.fails + 1 >= HardResetAt)
    BY <1>1, <1>6, <2>2, <2>3, <2>5, HandedCounted, QuiesceKeeps DEF Failed
  <2> QED
    BY <2>4, <2>5
<1> DEFINE Foreign == worker.doneGen # ble.actGen \/ ble.gen # ble.actGen \/ ~worker.ok
<1>7. CASE ~ble.late /\ ~Running /\ worker.done /\ Foreign
  BY <1>2, <1>7, HandedAsIs, QuiesceKeeps DEF Quiesce
<1>8. CASE ~ble.late /\ ~Running /\ worker.done /\ ~Foreign
  <2>1. PICK no \in BOOLEAN : no = FALSE
    OBVIOUS
  <2>2. /\ ble' = [ ble EXCEPT !.st = "SUBSCRIBING", !.step = "service", !.late = no ]
        /\ worker' = [ worker EXCEPT !.done = no, !.ok = no, !.doneGen = 0 ]
        /\ UNCHANGED << pub, radio, host, subs, strayed, count >>
    BY <1>8, <2>1 DEF Still
  <2> HIDE DEF Discovering
  <2>3. "SUBSCRIBING" \in States /\ "service" \in Phases /\ 0 \in Nat
    BY DEF States, Phases
  <2>4. /\ ble' \in MembersType /\ ble'.actGen = ble.actGen /\ ble'.gen = ble.gen
        /\ ble'.step = "service" /\ ble'.cmd = ble.cmd /\ ble'.st = "SUBSCRIBING"
        /\ ble'.fails = ble.fails /\ ble'.hard = ble.hard
    BY <2>2, <2>3 DEF IInv, TypeOK, MembersType
  <2>5. worker' \in WorkerType /\ worker'.at = worker.at /\ worker'.attrs = worker.attrs /\ ~worker'.done
    BY <2>1, <2>2, <2>3 DEF IInv, TypeOK, WorkerType
  <2>6. TypeOK'
    BY <1>1, <2>2, <2>4, <2>5 DEF IInv, TypeOK
  <2>7. Counted' /\ Closes' /\ Attempts' /\ Opens'
    BY <1>1, <2>2, <2>4 DEF IInv, Counted, Closes, Retiring, Attempts, Arriving, Opens, Sessions, Linked
  <2>8. Visible' /\ Holds'
    BY <1>1, <2>2, <2>4, <2>5 DEF IInv, Visible, Shows, Publishing, Linked, Holds, WorkerOwnsItsHandles, Running
  <2>9. Subscribed' /\ Published' /\ ConnectedIsOpen'
    BY <1>1, <1>8, <2>2, <2>4, <2>5 DEF IInv, Subscribed, Subscribes, Retiring, Running, Published,
       Publishing, ConnectedIsOpen
  <2> QED
    BY <2>6, <2>7, <2>8, <2>9 DEF IInv
<1> QED
  BY <1>3, <1>4, <1>5, <1>6, <1>7, <1>8

\* What a subscription step may return, and the worker after it.
Unfinished(o) == o[1] = "wait" /\ o[2] = worker
Begun(o) ==
    /\ o[1] = "wait" /\ ~Running /\ ~worker.done /\ ble.step \in { "short", "long" }
    /\ o[2] = [ worker EXCEPT !.at = ble.step, !.attrs = radio.attrs, !.gen = ble.actGen ]
LookedUp(o) == o[1] = "next" /\ ~Running /\ ~worker.done /\ ble.step = "service" /\ o[2] = worker
Done(o) ==
    /\ o[1] = "next" /\ ~Running /\ worker.done /\ worker.ok /\ ble.step \in { "short", "long" }
    /\ o[2] = [ worker EXCEPT !.done = FALSE ]
Refused(o) == o[1] = "failed" /\ o[2] \in { worker, [ worker EXCEPT !.done = FALSE ] }

LEMMA OutcomeForms ==
    ASSUME IInv, ble.st = "SUBSCRIBING", ble.step # "complete", NEW o \in Outcomes
    PROVE  Unfinished(o) \/ Begun(o) \/ LookedUp(o) \/ Done(o) \/ Refused(o)
<1> USE DEF Unfinished, Begun, LookedUp, Done, Refused
<1>1. CASE ble.step = "service"
  <2>1. ~Running /\ ~worker.done
    BY <1>1 DEF IInv, Subscribed, Subscribes
  <2>2. o = << "failed", worker >> \/ o = << "next", worker >>
    BY <1>1 DEF Outcomes
  <2> QED
    BY <1>1, <2>1, <2>2
<1>2. CASE ble.step # "service"
  <2>1. ble.step \in { "short", "long" }
    BY <1>2 DEF IInv, TypeOK, MembersType, Phases
  <2>2. o \in Written(ble.step)
    BY <1>2 DEF Outcomes
  <2>3. CASE Running
    BY <2>2, <2>3 DEF Written
  <2>4. CASE ~Running /\ ~(Accepted(ble.actGen) /\ ble.gen = ble.actGen)
    BY <2>2, <2>4 DEF Written
  <2>5. CASE ~Running /\ (Accepted(ble.actGen) /\ ble.gen = ble.actGen) /\ worker.done
    <3>1. o = << IF worker.doneGen = ble.actGen /\ worker.ok THEN "next" ELSE "failed",
                 [ worker EXCEPT !.done = FALSE ] >>
      BY <2>2, <2>5 DEF Written
    <3>2. o[1] = (IF worker.doneGen = ble.actGen /\ worker.ok THEN "next" ELSE "failed")
      BY <3>1
    <3>3. o[2] = [ worker EXCEPT !.done = FALSE ]
      BY <3>1
    <3> QED
      BY <2>1, <2>5, <3>2, <3>3
  <2>6. CASE ~Running /\ (Accepted(ble.actGen) /\ ble.gen = ble.actGen) /\ ~worker.done
    <3>1. \/ o = << "wait", [ worker EXCEPT !.at = ble.step, !.attrs = radio.attrs, !.gen = ble.actGen ] >>
          \/ o = << "failed", worker >>
      BY <2>2, <2>6 DEF Written
    <3> QED
      BY <2>1, <2>6, <3>1
  <2> QED
    BY <2>3, <2>4, <2>5, <2>6
<1> QED
  BY <1>1, <1>2

\* The loop yields between two steps; the worker may have been given a job.
LEMMA YieldKeeps ==
    ASSUME IInv, ble.st = "SUBSCRIBING", pc = "dispatch", pc' = "apply", Still, UNCHANGED << pub, radio >>,
           NEW s \in Phases, ble' = [ ble EXCEPT !.step = s, !.st = "SUBSCRIBE_YIELD" ],
           worker' \in WorkerType, Running' => worker'.attrs = radio.attrs,
           worker'.at \in { "command", "write" } => worker.at = worker'.at,
           s # "service" /\ s # "short" => radio.id \in subs,
           s = "service" => ~Running' /\ ~worker'.done,
           s = "short" => /\ worker'.at \in { "idle", "short", "subscribe", "command", "write" }
                          /\ worker'.done /\ worker'.ok => radio.id \in subs
    PROVE  IInv'
<1>1. "SUBSCRIBE_YIELD" \in States
  BY DEF States
<1>2. /\ ble' \in MembersType /\ ble'.actGen = ble.actGen /\ ble'.gen = ble.gen /\ ble'.step = s
      /\ ble'.cmd = ble.cmd /\ ble'.st = "SUBSCRIBE_YIELD" /\ ble'.fails = ble.fails /\ ble'.hard = ble.hard
  BY <1>1 DEF IInv, TypeOK, MembersType
<1>3. UNCHANGED << pub, radio, host, subs, strayed, count >>
  BY DEF Still
<1>4. TypeOK'
  BY <1>2, <1>3 DEF IInv, TypeOK
<1>5. Counted' /\ Closes' /\ Attempts' /\ Opens'
  BY <1>2, <1>3 DEF IInv, Counted, Closes, Retiring, Attempts, Arriving, Opens, Sessions, Linked
<1>6. Visible' /\ Holds'
  BY <1>2, <1>3 DEF IInv, Visible, Shows, Publishing, Linked, Holds, WorkerOwnsItsHandles
<1>7. Subscribed' /\ Published' /\ ConnectedIsOpen'
  BY <1>2, <1>3 DEF IInv, Subscribed, Subscribes, Retiring, Published, Publishing, ConnectedIsOpen, Phases
<1> QED
  BY <1>4, <1>5, <1>6, <1>7 DEF IInv

LEMMA SubscribingKeeps == IInv /\ Subscribing => IInv'
<1> SUFFICES ASSUME IInv, Subscribing PROVE IInv'
  OBVIOUS
<1> USE DEF Subscribing, Step
<1>1. pc = "dispatch" /\ pc' = "apply" /\ ble.st = "SUBSCRIBING" /\ Still /\ ble.step # "complete"
  OBVIOUS
<1>2. CASE ble.late
  <2>1. Around
    BY <1>2 DEF Around, IInv, TypeOK, Still
  <2> QED
    BY <1>2, <2>1, HandedAsIs, QuiesceKeeps DEF Quiesce
<1>3. CASE ~ble.late
  <2>1. PICK o \in Outcomes :
          /\ worker' = o[2]
          /\ CASE o[1] = "wait" -> To("SUBSCRIBE_YIELD") /\ UNCHANGED << pub, radio >>
               [] o[1] = "next" -> /\ \E s \in After(ble.step) :
                                        ble' = [ ble EXCEPT !.step = s, !.st = "SUBSCRIBE_YIELD" ]
                                   /\ UNCHANGED << pub, radio >>
               [] o[1] = "failed" -> Quiesce(FALSE)
    BY <1>3
  <2> HIDE DEF Subscribing
  <2>2. ble.step \in Phases /\ worker \in WorkerType /\ Subscribed /\ Holds
    BY DEF IInv, TypeOK, MembersType
  <2>3. To("SUBSCRIBE_YIELD") => ble' = [ ble EXCEPT !.step = ble.step, !.st = "SUBSCRIBE_YIELD" ]
    BY DEF To, IInv, TypeOK, MembersType
  <2>4. [ worker EXCEPT !.done = FALSE ] \in WorkerType
    BY <2>2 DEF WorkerType
  <2>5. CASE Unfinished(o)
    <3>1. To("SUBSCRIBE_YIELD") /\ UNCHANGED << pub, radio, worker >>
      BY <2>1, <2>5 DEF Unfinished
    <3> QED
      BY <1>1, <2>2, <2>3, <3>1, YieldKeeps DEF Subscribed, Subscribes, Holds, WorkerOwnsItsHandles, Phases, Running
  <2>6. CASE Begun(o)
    <3>1. /\ To("SUBSCRIBE_YIELD") /\ UNCHANGED << pub, radio >>
          /\ worker' = [ worker EXCEPT !.at = ble.step, !.attrs = radio.attrs, !.gen = ble.actGen ]
      BY <2>1, <2>6 DEF Begun
    <3>2. ble.step \in Jobs \ { "idle", "command", "write" } /\ ble.step \in { "short", "long" } /\ ~worker.done
      BY <2>6 DEF Begun, Jobs
    <3>3. /\ worker' \in WorkerType /\ worker'.at = ble.step /\ worker'.attrs = radio.attrs
          /\ ~worker'.done
      BY <3>1, <3>2, JobStarts
    <3> HIDE DEF Step
    <3> QED
      BY <1>1, <2>2, <2>3, <3>1, <3>2, <3>3, YieldKeeps DEF Subscribed, Subscribes
  <2>7. CASE LookedUp(o)
    <3>1. UNCHANGED << pub, radio, worker >> /\ ble.step = "service" /\ ~Running /\ ~worker.done
      BY <2>1, <2>7 DEF LookedUp
    <3>2. \E s \in After(ble.step) : ble' = [ ble EXCEPT !.step = s, !.st = "SUBSCRIBE_YIELD" ]
      BY <2>1, <2>7 DEF LookedUp
    <3>3. ble' = [ ble EXCEPT !.step = "short", !.st = "SUBSCRIBE_YIELD" ]
      BY <3>1, <3>2 DEF After
    <3> QED
      BY <1>1, <2>2, <3>1, <3>3, YieldKeeps DEF Running, Phases
  <2>8. CASE Done(o)
    <3>1. /\ UNCHANGED << pub, radio >> /\ worker' = [ worker EXCEPT !.done = FALSE ] /\ ~Running
          /\ worker.done /\ worker.ok /\ ble.step \in { "short", "long" }
      BY <2>1, <2>8 DEF Done
    <3>2. PICK s \in After(ble.step) : ble' = [ ble EXCEPT !.step = s, !.st = "SUBSCRIBE_YIELD" ]
      BY <2>1, <2>8 DEF Done
    <3>3. s \in { "long", "complete" }
      BY <3>1, <3>2 DEF After
    <3>4. radio.id \in subs
      BY <1>1, <2>2, <3>1 DEF Subscribed, Subscribes
    <3>5. worker' \in WorkerType /\ worker'.at = "idle"
      BY <2>2, <2>4, <3>1 DEF WorkerType, Running
    <3> QED
      BY <1>1, <3>1, <3>2, <3>3, <3>4, <3>5, YieldKeeps DEF Running, Phases
  <2>9. CASE Refused(o)
    <3>1. Quiesce(FALSE) /\ worker' \in { worker, [ worker EXCEPT !.done = FALSE ] }
      BY <2>1, <2>9 DEF Refused
    <3>2. worker' \in WorkerType /\ worker'.at = worker.at /\ worker'.attrs = worker.attrs
      BY <2>2, <2>4, <3>1 DEF WorkerType
    <3>3. Around
      BY <1>1, <3>2 DEF Around, IInv, TypeOK, Still
    <3> QED
      BY <3>1, <3>3, HandedAsIs, QuiesceKeeps DEF Quiesce
  <2> QED
    BY <1>1, <2>5, <2>6, <2>7, <2>8, <2>9, OutcomeForms
<1> QED
  BY <1>2, <1>3

LEMMA SubscribeYieldKeeps == IInv /\ SubscribeYield => IInv'
<1> SUFFICES ASSUME IInv, SubscribeYield PROVE IInv'
  OBVIOUS
<1> USE DEF SubscribeYield, Step, Still
<1>1. /\ ble' \in MembersType /\ ble'.gen = ble.gen /\ ble'.actGen = ble.actGen
      /\ ble'.step = ble.step /\ ble'.cancelWait = ble.cancelWait /\ ble'.cmd = ble.cmd
      /\ ble'.hard = ble.hard /\ ble'.fails = ble.fails /\ ble'.st = "SUBSCRIBING"
  BY DEF IInv, TypeOK, MembersType, States, To
<1>2. Passes
  BY <1>1 DEF IInv, TypeOK, Passes, Moves, Subscribes, Publishing
<1> QED
  BY <1>2, PassesKeep
-----------------------------------------------------------------------------
(* Publication, the session, and its teardown.                             *)

\* A session that is found closed withdraws what it shows.
LEMMA HandedHidden == IInv => Handed(ble, [ pub EXCEPT !.connected = FALSE ], FALSE)
<1> SUFFICES ASSUME IInv PROVE Handed(ble, [ pub EXCEPT !.connected = FALSE ], FALSE)
  OBVIOUS
<1> DEFINE p == [ pub EXCEPT !.connected = FALSE ]
<1>1. /\ p \in AtomicsType /\ p.accept = pub.accept /\ p.gate = pub.gate /\ p.pend = pub.pend
      /\ p.succ = pub.succ /\ p.edge = pub.edge /\ p.active = pub.active /\ ~p.connected
  BY DEF IInv, TypeOK, AtomicsType
<1> HIDE DEF p
<1>2. Handed(ble, p, FALSE)
  BY <1>1 DEF IInv, TypeOK, Handed, Counted
<1> QED
  BY <1>2 DEF p

LEMMA PublishKeeps == IInv /\ Publish => IInv'
<1> SUFFICES ASSUME IInv, Publish PROVE IInv'
  OBVIOUS
<1> USE DEF Publish, Still
<1> DEFINE Shut == ble.late \/ ~(Accepted(ble.actGen) /\ ble.gen = ble.actGen)
<1>1. CASE Shut
  <2>1. Around
    BY <1>1 DEF Around, IInv, TypeOK
  <2> QED
    BY <1>1, <2>1, HandedHidden, QuiesceKeeps
<1>2. CASE ~Shut
  <2>1. /\ pc' = "publish" /\ UNCHANGED << ble, pub, host, radio, worker, subs, strayed, count >>
        /\ ble.st = "SUBSCRIBING" /\ ble.step = "complete" /\ ble.gen = ble.actGen /\ pub.accept
    BY <1>2 DEF Accepted
  <2> HIDE DEF Publish
  <2>2. TypeOK' /\ Counted' /\ Attempts' /\ Opens'
    BY <2>1 DEF IInv, TypeOK, Counted, Retiring, Attempts, Arriving, Opens, Linked
  <2>3. Closes' /\ Visible'
    BY <2>1 DEF IInv, Closes, Retiring, Visible, Shows, Publishing, Opens, Sessions, Linked
  <2>4. Holds' /\ Subscribed' /\ Published' /\ ConnectedIsOpen'
    BY <2>1 DEF IInv, Holds, WorkerOwnsItsHandles, Running, Subscribed, Subscribes, Retiring,
       Published, Publishing, ConnectedIsOpen
  <2> QED
    BY <2>2, <2>3, <2>4 DEF IInv
<1> QED
  BY <1>1, <1>2

LEMMA StoreConnectedKeeps == IInv /\ StoreConnected => IInv'
<1> SUFFICES ASSUME IInv, StoreConnected PROVE IInv'
  OBVIOUS
<1>1. /\ pc = "publish" /\ pc' = "claim" /\ UNCHANGED << ble, host, radio, worker, subs, strayed, count >>
      /\ pub' \in AtomicsType /\ pub'.accept = pub.accept /\ pub'.gate = pub.gate
      /\ pub'.pend = pub.pend /\ pub'.succ = pub.succ
      /\ pub'.edge = pub.edge /\ pub'.cleanup = pub.cleanup /\ pub'.active = pub.active
  BY DEF IInv, TypeOK, AtomicsType, StoreConnected, Still
<1>2. TypeOK' /\ Counted' /\ Attempts' /\ Opens'
  BY <1>1 DEF IInv, TypeOK, Counted, Retiring, Attempts, Arriving, Opens, Linked
<1>3. Closes' /\ Visible'
  BY <1>1 DEF IInv, Closes, Retiring, Visible, Shows, Publishing, Linked
<1>4. Holds' /\ Subscribed' /\ Published' /\ ConnectedIsOpen'
  BY <1>1 DEF IInv, Holds, WorkerOwnsItsHandles, Running, Subscribed, Subscribes, Retiring,
     Published, Publishing, ConnectedIsOpen
<1> QED
  BY <1>2, <1>3, <1>4 DEF IInv

LEMMA ClaimKeeps == IInv /\ Claim => IInv'
<1> SUFFICES ASSUME IInv, Claim PROVE IInv'
  OBVIOUS
<1> USE DEF Claim, Still
<1>1. CASE ~Claims(ble.actGen)
  <2>1. Around
    BY <1>1 DEF Around, IInv, TypeOK
  <2> QED
    BY <1>1, <2>1, HandedHidden, QuiesceKeeps
<1>2. CASE Claims(ble.actGen)
  <2>1. /\ pc = "claim" /\ pc' = "apply" /\ Accepted(ble.actGen)
        /\ UNCHANGED << pub, host, radio, worker, subs, strayed, count >>
    BY <1>2 DEF Claims
  <2>2. /\ ble' \in MembersType /\ ble'.actGen = ble.actGen /\ ble'.gen = ble.gen /\ ble'.step = ble.step
        /\ ble'.cmd = ble.cmd /\ ble'.st = "CONNECTED" /\ ble'.fails = ble.fails /\ ble'.hard = ble.hard
    BY <1>2 DEF IInv, TypeOK, MembersType, States, To
  <2>3. /\ ble.st = "SUBSCRIBING" /\ ble.step = "complete" /\ ble.gen = ble.actGen /\ radio.id \in subs
        /\ pub.edge = 0
    BY <2>1 DEF IInv, Published, Publishing, Subscribed, Subscribes
  <2> HIDE DEF Claim
  <2>4. TypeOK' /\ Counted' /\ Attempts' /\ Opens'
    BY <2>1, <2>2, <2>3 DEF IInv, TypeOK, Counted, Retiring, Attempts, Arriving, Opens, Sessions, Linked
  <2>5. Closes' /\ Visible'
    BY <2>1, <2>2, <2>3 DEF IInv, Closes, Retiring, Visible, Shows, Publishing, Linked
  <2>6. Holds' /\ Subscribed' /\ Published'
    BY <2>1, <2>2, <2>3 DEF IInv, Holds, WorkerOwnsItsHandles, Running, Subscribed, Subscribes, Retiring,
       Published, Publishing
  <2>7. ConnectedIsOpen'
    BY <2>1, <2>2, <2>3 DEF ConnectedIsOpen, Accepted
  <2> QED
    BY <2>4, <2>5, <2>6, <2>7 DEF IInv
<1> QED
  BY <1>1, <1>2

LEMMA ConnectedKeeps == IInv /\ Connected => IInv'
<1> SUFFICES ASSUME IInv, Connected PROVE IInv'
  OBVIOUS
<1> USE DEF Connected, Step, Still
<1>1. CASE radio.link # "up"
  <2>1. Around
    BY <1>1 DEF Around, IInv, TypeOK
  <2> QED
    BY <1>1, <2>1, HandedHidden, QuiesceKeeps
<1>2. CASE radio.link = "up"
  BY <1>2, WaitsOn
<1> QED
  BY <1>1, <1>2

\* While a teardown waits, a connection that arrives is still to be cancelled.
LEMMA TeardownWaits ==
    ASSUME IInv, ble.st = "QUIESCING", pc = "dispatch", pc' = "apply",
           UNCHANGED << host, worker, subs, strayed, count >>,
           ble' \in MembersType, ble'.st \in { "QUIESCING", "RESTARTED" },
           ble'.gen = ble.gen, ble'.cmd = ble.cmd, ble'.hard = ble.hard, ble'.fails = ble.fails,
           ble'.st = "QUIESCING" /\ Arriving => ble'.cancelWait,
           pub' \in AtomicsType, pub'.accept = pub.accept, pub'.gate = pub.gate,
           pub'.connected = pub.connected, pub'.pend = pub.pend, pub'.succ = pub.succ,
           pub'.edge = pub.edge,
           radio' \in RadioType, radio'.link = radio.link, radio'.id = radio.id, radio'.attrs = radio.attrs
    PROVE  IInv'
<1>1. TypeOK'
  BY DEF IInv, TypeOK
<1>2. Counted' /\ Closes'
  BY DEF IInv, Counted, Closes, Retiring, Shows, Publishing
<1>3. Attempts'
  BY DEF IInv, Attempts, Arriving
<1>4. Opens' /\ Visible'
  BY DEF IInv, Closes, Retiring, Opens, Visible, Shows, Publishing
<1>5. Holds' /\ Subscribed' /\ Published' /\ ConnectedIsOpen'
  BY DEF IInv, Holds, WorkerOwnsItsHandles, Running, Subscribed, Subscribes, Retiring,
     Published, Publishing, ConnectedIsOpen
<1> QED
  BY <1>1, <1>2, <1>3, <1>4, <1>5 DEF IInv

\* The teardown is over: nothing is under way, no worker and no link is left.
LEMMA TeardownEnds ==
    ASSUME IInv, ble.st = "QUIESCING", pc = "dispatch", pc' = "apply",
           UNCHANGED << host, worker, subs, strayed, count >>,
           ~Running, radio.link = "none",
           ble' \in MembersType, ble'.st = "DISCONNECTED", ble'.step = "service", ble'.gen = ble.gen,
           ble'.fails # HardResetAt,
           pub' \in AtomicsType, ~pub'.accept, pub'.gate = pub.gate, ~pub'.connected, pub'.edge = 0,
           radio' \in RadioType, radio'.link = radio.link
    PROVE  IInv'
<1>1. TypeOK'
  BY DEF IInv, TypeOK, MembersType
<1>2. Counted' /\ Closes'
  BY DEF IInv, Counted, Closes, Retiring
<1>3. Attempts'
  BY DEF IInv, Attempts, Arriving
<1>4. Opens' /\ Visible'
  BY DEF Opens, Visible, Shows, Publishing
<1>5. Holds' /\ Subscribed' /\ Published' /\ ConnectedIsOpen'
  BY DEF IInv, Holds, WorkerOwnsItsHandles, Running, Subscribed, Subscribes, Retiring,
     Published, Publishing, ConnectedIsOpen
<1> QED
  BY <1>1, <1>2, <1>3, <1>4, <1>5 DEF IInv

LEMMA QuiescingKeeps == IInv /\ Quiescing => IInv'
<1> SUFFICES ASSUME IInv, Quiescing PROVE IInv'
  OBVIOUS
<1> DEFINE cancel == ble.cancelWait /\ pub.pend
<1>1. /\ ble.st = "QUIESCING" /\ pc = "dispatch" /\ pc' = "apply"
      /\ UNCHANGED << host, worker, subs, strayed, count >>
      /\ ble \in MembersType /\ pub \in AtomicsType /\ radio \in RadioType
  BY DEF Quiescing, Step, Still, IInv, TypeOK
<1>2. Arriving => cancel
  BY <1>1 DEF IInv, Attempts
<1>3. ~pub.accept /\ ~pub.connected /\ cancel \in BOOLEAN
  BY <1>1 DEF IInv, Closes, Retiring, Shows
<1>4. CASE (Waiting(cancel) \/ radio.link = "up") /\ TimedOut
  <2>1. ble' = [ ble EXCEPT !.st = "RESTARTED" ] /\ UNCHANGED << pub, radio >>
    BY <1>4 DEF Quiescing
  <2>2. /\ ble' \in MembersType /\ ble'.st = "RESTARTED" /\ ble'.gen = ble.gen /\ ble'.cmd = ble.cmd
        /\ ble'.hard = ble.hard /\ ble'.fails = ble.fails
    BY <1>1, <2>1 DEF MembersType, States
  <2> QED
    BY <1>1, <2>1, <2>2, TeardownWaits
<1>5. CASE ~((Waiting(cancel) \/ radio.link = "up") /\ TimedOut) /\ Waiting(cancel)
  <2> DEFINE d == radio.disc \/ (pub.discPending /\ radio.link = "up")
  <2>1. ble' = [ ble EXCEPT !.cancelWait = cancel ] /\ radio' = [ radio EXCEPT !.disc = d ] /\ UNCHANGED pub
    BY <1>5 DEF Quiescing
  <2>2. d \in BOOLEAN
    BY <1>1 DEF RadioType, AtomicsType
  <2> HIDE DEF cancel, d
  <2>3. /\ ble' \in MembersType /\ ble'.st = "QUIESCING" /\ ble'.gen = ble.gen /\ ble'.cmd = ble.cmd
        /\ ble'.hard = ble.hard /\ ble'.fails = ble.fails /\ ble'.cancelWait = cancel
    BY <1>1, <1>3, <2>1 DEF MembersType
  <2>4. /\ radio' \in RadioType /\ radio'.link = radio.link /\ radio'.id = radio.id
        /\ radio'.attrs = radio.attrs
    BY <1>1, <2>1, <2>2 DEF RadioType
  <2> QED
    BY <1>1, <1>2, <2>1, <2>3, <2>4, TeardownWaits
<1>6. CASE ~((Waiting(cancel) \/ radio.link = "up") /\ TimedOut) /\ ~Waiting(cancel) /\ radio.link = "up"
  <2>1. PICK taken \in BOOLEAN :
          /\ pub' = [ pub EXCEPT !.discPending = taken ]
          /\ radio' = [ radio EXCEPT !.disc = radio.disc \/ taken ]
          /\ ble' = [ ble EXCEPT !.cancelWait = FALSE ]
    BY <1>6 DEF Quiescing
  <2>2. /\ ble' \in MembersType /\ ble'.st = "QUIESCING" /\ ble'.gen = ble.gen /\ ble'.cmd = ble.cmd
        /\ ble'.hard = ble.hard /\ ble'.fails = ble.fails
    BY <1>1, <2>1 DEF MembersType
  <2>3. /\ pub' \in AtomicsType /\ pub'.accept = pub.accept /\ pub'.gate = pub.gate
        /\ pub'.connected = pub.connected /\ pub'.pend = pub.pend /\ pub'.succ = pub.succ
        /\ pub'.edge = pub.edge
    BY <1>1, <2>1 DEF AtomicsType
  <2>4. /\ radio' \in RadioType /\ radio'.link = radio.link /\ radio'.id = radio.id
        /\ radio'.attrs = radio.attrs
    BY <1>1, <2>1 DEF RadioType
  <2>5. ~Arriving
    BY <1>2, <1>6 DEF Waiting
  <2> QED
    BY <1>1, <2>2, <2>3, <2>4, <2>5, TeardownWaits
<1>7. CASE ~((Waiting(cancel) \/ radio.link = "up") /\ TimedOut) /\ ~Waiting(cancel) /\ radio.link # "up"
  <2>1. PICK zero \in Nat : zero = 0
    OBVIOUS
  <2>2. PICK no \in BOOLEAN : no = FALSE
    OBVIOUS
  <2>3. PICK c \in CommandType : c = NoCommand
    BY DEF NoCommand, CommandType
  <2>4. PICK f \in 0 .. HardResetAt : f = (IF ble.hard THEN 0 ELSE ble.fails)
    BY <1>1 DEF MembersType, ClientAssumption
  <2> DEFINE b == [ ble EXCEPT !.st = "DISCONNECTED", !.cmd = c, !.want = no, !.actGen = zero ]
             p == [ pub EXCEPT !.connected = no, !.active = zero, !.quiesc = zero ]
  <2>5. /\ ble' = [ b EXCEPT !.fails = f, !.hard = no, !.cancelWait = no, !.step = "service", !.late = no ]
        /\ pub' = [ p EXCEPT !.pend = no, !.succ = no, !.edge = zero ]
        /\ radio' = [ radio EXCEPT !.attrs = radio.attrs + 1 ]
    BY <1>1, <1>7, <2>1, <2>2, <2>3, <2>4 DEF Quiescing, MembersType
  <2>6. b \in MembersType /\ b.st = "DISCONNECTED" /\ b.gen = ble.gen
    BY <1>1 DEF MembersType, States
  <2>7. p \in AtomicsType /\ p.accept = pub.accept /\ p.gate = pub.gate /\ p.connected = no
    BY <1>1 DEF AtomicsType
  <2> HIDE DEF b, p
  <2>8. /\ ble' \in MembersType /\ ble'.st = "DISCONNECTED" /\ ble'.step = "service" /\ ble'.gen = ble.gen
        /\ ble'.fails = f
    BY <2>5, <2>6 DEF MembersType, Phases
  <2>9. /\ pub' \in AtomicsType /\ ~pub'.accept /\ pub'.gate = pub.gate /\ ~pub'.connected /\ pub'.edge = 0
    BY <1>3, <2>1, <2>2, <2>5, <2>7 DEF AtomicsType
  <2>10. radio' \in RadioType /\ radio'.link = radio.link
    BY <1>1, <2>5 DEF RadioType
  <2>11. f # HardResetAt
    BY <2>4 DEF IInv, Counted, ClientAssumption
  <2>12. ~Running /\ radio.link = "none"
    BY <1>1, <1>2, <1>7 DEF Waiting, Arriving, RadioType
  <2> QED
    BY <1>1, <2>8, <2>9, <2>10, <2>11, <2>12, TeardownEnds
<1> QED
  BY <1>4, <1>5, <1>6, <1>7
-----------------------------------------------------------------------------
(* The NimBLE host task.                                                   *)

\* What a callback leaves alone.
LEMMA HostLeaves ==
    ASSUME IInv, HostOnly, pub' \in AtomicsType, radio' \in RadioType, host' \in CallbackType,
           pub'.gate = pub.gate \/ pub'.gate = 0, pub'.edge <= ble.gen,
           radio'.attrs = radio.attrs,
           radio'.id = radio.id \/ radio.link = "connecting",
           radio'.link = "connecting" => radio.link = "connecting"
    PROVE  TypeOK' /\ Counted' /\ Holds' /\ strayed' = strayed
<1> USE DEF HostOnly
<1>1. TypeOK'
  BY DEF IInv, TypeOK, MembersType
<1>2. Counted'
  BY DEF IInv, Counted, Retiring
<1>3. Holds'
  BY DEF IInv, Holds, WorkerOwnsItsHandles, Running
<1> QED
  BY <1>1, <1>2, <1>3

\* What has been subscribed to and published, on a link that stays.
LEMMA LinkStays ==
    ASSUME IInv, HostOnly, radio'.id = radio.id, pub'.edge = pub.edge
    PROVE  Subscribed' /\ Published'
<1> USE DEF HostOnly
<1>1. Subscribed'
  BY DEF IInv, Subscribed, Subscribes, Retiring, Running
<1>2. Published'
  BY DEF IInv, Published, Publishing, Subscribes
<1> QED
  BY <1>1, <1>2

LEMMA ConnectDoneKeeps == IInv /\ ConnectDone => IInv'
<1> SUFFICES ASSUME IInv, ConnectDone PROVE IInv'
  OBVIOUS
<1>1. /\ host.at = "idle" /\ radio.link = "connecting" /\ HostOnly /\ UNCHANGED pub
      /\ host' = [ at |-> "connect", gen |-> 0 ]
  BY DEF ConnectDone
<1>2. radio' \in RadioType /\ radio'.link = "up" /\ radio'.attrs = radio.attrs
  <2>1. PICK n \in Nat : n = radio.id + 1
    BY DEF IInv, TypeOK, RadioType
  <2>2. PICK no \in BOOLEAN : no = FALSE
    OBVIOUS
  <2>3. radio' = [ radio EXCEPT !.link = "up", !.id = n, !.disc = no ]
    BY <2>1, <2>2 DEF ConnectDone
  <2> QED
    BY <2>3 DEF IInv, TypeOK, RadioType
<1>3. host' \in CallbackType /\ host'.at = "connect"
  BY <1>1 DEF CallbackType
<1>4. /\ pub.pend /\ ~pub.succ
      /\ \/ ble.st \in { "CONNECTING_WAIT", "RESTARTED" }
         \/ ble.st = "QUIESCING" /\ ble.cancelWait
  BY <1>1 DEF IInv, Attempts, Arriving
<1>5. TypeOK' /\ Counted' /\ Holds'
  BY <1>1, <1>2, <1>3, HostLeaves DEF IInv, TypeOK
<1>6. Attempts'
  BY <1>1, <1>2, <1>3, <1>4 DEF Attempts, Arriving, HostOnly
<1>7. Closes' /\ Opens'
  BY <1>1, <1>2, <1>3, <1>4 DEF IInv, Closes, Retiring, Shows, Publishing, Opens, Sessions, Linked, HostOnly
<1>8. Visible'
  BY <1>1, <1>2, <1>3, <1>4 DEF IInv, Visible, Shows, Publishing, Linked, HostOnly
<1>9. Subscribed' /\ Published' /\ ConnectedIsOpen'
  BY <1>1, <1>4 DEF IInv, Subscribed, Subscribes, Retiring, Published, Publishing, ConnectedIsOpen, HostOnly
<1> QED
  BY <1>5, <1>6, <1>7, <1>8, <1>9 DEF IInv

LEMMA OnConnectKeeps == IInv /\ OnConnect => IInv'
<1> SUFFICES ASSUME IInv, OnConnect PROVE IInv'
  OBVIOUS
<1>1. host.at = "connect" /\ HostOnly /\ radio.link = "up" /\ pub.pend /\ ~pub.succ
  BY DEF OnConnect, IInv, Attempts, Arriving
<1>2. CASE Accepted(ble.gen)
  <2>1. host' = [ at |-> "connected", gen |-> ble.gen ] /\ UNCHANGED << pub, radio >>
    BY <1>2 DEF OnConnect
  <2>2. host' \in CallbackType /\ host'.at = "connected" /\ host'.gen = ble.gen
    BY <2>1 DEF CallbackType, IInv, TypeOK, MembersType
  <2>3. TypeOK' /\ Counted' /\ Holds' /\ Subscribed' /\ Published'
    BY <1>1, <2>1, <2>2, HostLeaves, LinkStays DEF IInv, TypeOK
  <2>4. Closes' /\ Attempts'
    BY <1>1, <2>1, <2>2 DEF IInv, Closes, Retiring, Shows, Publishing, Attempts, Arriving, HostOnly, TypeOK, MembersType
  <2>5. Opens' /\ Visible' /\ ConnectedIsOpen'
    BY <1>1, <2>1, <2>2 DEF IInv, Opens, Visible, Shows, Publishing, Linked, ConnectedIsOpen, Accepted, HostOnly
  <2> QED
    BY <2>3, <2>4, <2>5 DEF IInv
<1>3. CASE ~Accepted(ble.gen)
  <2>1. PICK taken \in BOOLEAN, no \in BOOLEAN :
          /\ no = FALSE
          /\ pub' = [ pub EXCEPT !.quiesc = radio.id, !.discPending = taken, !.succ = no, !.pend = no ]
          /\ radio' = [ radio EXCEPT !.disc = taken ]
    BY <1>3 DEF OnConnect
  <2>2. host' = [ at |-> "idle", gen |-> 0 ]
    BY <1>3 DEF OnConnect
  <2>3. /\ pub' \in AtomicsType /\ pub'.accept = pub.accept /\ pub'.gate = pub.gate
        /\ pub'.connected = pub.connected /\ ~pub'.succ /\ pub'.edge = pub.edge
        /\ pub'.cleanup = pub.cleanup /\ pub'.active = pub.active
    <3> DEFINE q == [ pub EXCEPT !.quiesc = radio.id, !.discPending = taken ]
    <3>1. /\ q \in AtomicsType /\ q.accept = pub.accept /\ q.gate = pub.gate
          /\ q.connected = pub.connected /\ q.edge = pub.edge
          /\ q.cleanup = pub.cleanup /\ q.active = pub.active
      BY DEF IInv, TypeOK, AtomicsType, RadioType
    <3>2. pub' = [ q EXCEPT !.succ = no, !.pend = no ]
      BY <2>1
    <3> HIDE DEF q
    <3> QED
      BY <2>1, <3>1, <3>2 DEF AtomicsType
  <2>4. /\ radio' \in RadioType /\ radio'.link = radio.link /\ radio'.id = radio.id
        /\ radio'.attrs = radio.attrs
    BY <2>1 DEF IInv, TypeOK, RadioType
  <2>5. host' \in CallbackType /\ host'.at = "idle"
    BY <2>2 DEF CallbackType
  <2>6. TypeOK' /\ Counted' /\ Holds' /\ Subscribed' /\ Published'
    BY <1>1, <2>3, <2>4, <2>5, HostLeaves, LinkStays DEF IInv, TypeOK
  <2>7. Closes' /\ Attempts'
    BY <1>1, <2>3, <2>4, <2>5 DEF IInv, Closes, Retiring, Shows, Publishing, Attempts, Arriving, HostOnly
  <2>8. Opens' /\ Visible' /\ ConnectedIsOpen'
    BY <1>1, <2>3, <2>4, <2>5 DEF IInv, Opens, Visible, Shows, Publishing, Linked, ConnectedIsOpen, Accepted, HostOnly
  <2> QED
    BY <2>6, <2>7, <2>8 DEF IInv
<1> QED
  BY <1>2, <1>3

LEMMA OnConnectPublishKeeps == IInv /\ OnConnectPublish => IInv'
<1> SUFFICES ASSUME IInv, OnConnectPublish PROVE IInv'
  OBVIOUS
<1>1. /\ host.at = "connected" /\ HostOnly /\ radio.link = "up" /\ pub.pend /\ host.gen <= ble.gen
      /\ UNCHANGED radio /\ host' = [ at |-> "idle", gen |-> 0 ]
      /\ \/ ble.st \in { "CONNECTING_WAIT", "RESTARTED" }
         \/ ble.st = "QUIESCING"
  BY DEF OnConnectPublish, IInv, Attempts, Arriving
<1>2. /\ pub' \in AtomicsType /\ pub'.accept = pub.accept /\ pub'.gate = pub.gate
      /\ pub'.connected = pub.connected /\ pub'.edge = host.gen
      /\ pub'.cleanup = pub.cleanup /\ pub'.active = radio.id
  <2>1. PICK yes \in BOOLEAN : yes = TRUE
    OBVIOUS
  <2>2. PICK no \in BOOLEAN : no = FALSE
    OBVIOUS
  <2>3. pub' = [ pub EXCEPT !.active = radio.id, !.succ = yes, !.pend = no, !.edge = host.gen ]
    BY <2>1, <2>2 DEF OnConnectPublish
  <2>4. radio.id \in Nat /\ host.gen \in Nat
    BY DEF IInv, TypeOK, RadioType, CallbackType
  <2> QED
    BY <2>3, <2>4 DEF IInv, TypeOK, AtomicsType
<1>3. host' \in CallbackType /\ host'.at = "idle"
  BY <1>1 DEF CallbackType
<1>4. TypeOK' /\ Counted' /\ Holds'
  BY <1>1, <1>2, <1>3, HostLeaves DEF IInv, TypeOK
<1>5. Closes' /\ Attempts'
  BY <1>1, <1>2, <1>3 DEF IInv, Closes, Retiring, Shows, Publishing, Attempts, Arriving, HostOnly
<1>6. Opens' /\ Visible'
  BY <1>1, <1>2, <1>3 DEF IInv, Opens, Visible, Shows, Publishing, Linked, HostOnly
<1>7. Subscribed' /\ Published' /\ ConnectedIsOpen'
  BY <1>1 DEF IInv, Subscribed, Subscribes, Retiring, Published, Publishing, ConnectedIsOpen, HostOnly
<1> QED
  BY <1>4, <1>5, <1>6, <1>7 DEF IInv

LEMMA OnConnectFailKeeps == IInv /\ OnConnectFail => IInv'
<1> SUFFICES ASSUME IInv, OnConnectFail PROVE IInv'
  OBVIOUS
<1>1. host.at = "idle" /\ radio.link = "connecting" /\ HostOnly /\ UNCHANGED host
  BY DEF OnConnectFail
<1>2. /\ pub' \in AtomicsType /\ pub'.accept = pub.accept /\ pub'.gate = pub.gate
      /\ pub'.connected = pub.connected /\ pub'.edge = pub.edge
      /\ pub'.cleanup = pub.cleanup /\ ~pub'.succ
  BY DEF OnConnectFail, IInv, TypeOK, AtomicsType
<1>3. radio' \in RadioType /\ radio'.link = "none" /\ radio'.id = radio.id /\ radio'.attrs = radio.attrs
  BY DEF OnConnectFail, IInv, TypeOK, RadioType
<1>4. TypeOK' /\ Counted' /\ Holds' /\ Subscribed' /\ Published'
  BY <1>1, <1>2, <1>3, HostLeaves, LinkStays DEF IInv, TypeOK
<1>5. Closes' /\ Attempts'
  BY <1>1, <1>2, <1>3 DEF IInv, Closes, Retiring, Shows, Publishing, Attempts, Arriving, HostOnly
<1>6. Opens' /\ Visible'
  BY <1>1, <1>2, <1>3 DEF IInv, Opens, Visible, Shows, Publishing, Linked, HostOnly
<1>7. ConnectedIsOpen'
  BY <1>1, <1>2, <1>3 DEF IInv, ConnectedIsOpen, Attempts, Arriving, HostOnly
<1> QED
  BY <1>4, <1>5, <1>6, <1>7 DEF IInv

\* The callback of a lost link, on to its next step; only the last step lets
\* the link go.
LEMMA LosesKeep ==
    ASSUME IInv, HostOnly, host' \in CallbackType, pub' \in AtomicsType, radio' = radio,
           radio.link = "up", host.at \notin { "connect", "connected" },
           host'.at \in { "lost", "close", "down", "notify", "gone" },
           pub'.gate = pub.gate \/ (pub'.gate = 0 /\ ~pub'.accept), pub'.accept => pub.accept,
           pub'.connected => pub.connected, pub'.succ => pub.succ, pub'.edge = pub.edge,
           pub.cleanup => pub'.cleanup, pub'.active = pub.active,
           pub.accept /\ Linked => (pub'.accept /\ Linked') \/ (~pub'.accept /\ host'.at = "down"),
           host.at \in { "down", "notify" } => host'.at = "notify" \/ pub'.cleanup,
           pub'.connected => host'.at = "down" \/ (pub'.accept = pub.accept /\ pub'.gate = pub.gate /\ host.at # "down")
    PROVE  IInv'
<1>1. TypeOK' /\ Counted' /\ Holds' /\ Subscribed' /\ Published'
  BY HostLeaves, LinkStays DEF IInv, TypeOK
<1>2. Closes' /\ Attempts'
  BY DEF IInv, Closes, Retiring, Shows, Publishing, Attempts, Arriving, HostOnly
<1>3. Opens'
  BY DEF IInv, Opens, HostOnly
<1>4. Visible'
  BY DEF IInv, Visible, Shows, Publishing, HostOnly
<1>5. ConnectedIsOpen'
  BY DEF IInv, ConnectedIsOpen, Accepted, HostOnly
<1> QED
  BY <1>1, <1>2, <1>3, <1>4, <1>5 DEF IInv

LEMMA LinkLostKeeps == IInv /\ LinkLost => IInv'
<1> SUFFICES ASSUME IInv, LinkLost PROVE IInv'
  OBVIOUS
<1> USE DEF LinkLost
<1>1. host' \in CallbackType /\ host'.at = "lost" /\ UNCHANGED << pub, radio >> /\ HostOnly
      /\ host.at = "idle" /\ radio.link = "up"
  BY DEF CallbackType
<1> QED
  BY <1>1, LosesKeep DEF IInv, TypeOK, Linked

LEMMA OnDisconnectKeeps == IInv /\ OnDisconnect => IInv'
<1> SUFFICES ASSUME IInv, OnDisconnect PROVE IInv'
  OBVIOUS
<1> DEFINE expected == IF pub.accept THEN pub.active ELSE pub.quiesc
<1>1. /\ UNCHANGED << pub, radio >> /\ HostOnly /\ host.at = "lost"
      /\ host' = [ host EXCEPT !.at = IF ItsHandle(expected) THEN "close" ELSE "gone" ]
  BY DEF OnDisconnect
<1>2. radio.link = "up"
  BY <1>1 DEF IInv, Attempts
<1>3. host' \in CallbackType /\ host'.at = (IF ItsHandle(expected) THEN "close" ELSE "gone")
  BY <1>1 DEF IInv, TypeOK, CallbackType
<1>4. pub.accept /\ Linked => host'.at = "close"
  BY <1>3 DEF Linked, ItsHandle
<1>5. host'.at \in { "close", "gone" }
  BY <1>3
<1> HIDE DEF expected
<1> QED
  BY <1>1, <1>2, <1>3, <1>4, <1>5, LosesKeep DEF IInv, TypeOK, Linked

LEMMA OnDisconnectCloseKeeps == IInv /\ OnDisconnectClose => IInv'
<1> SUFFICES ASSUME IInv, OnDisconnectClose PROVE IInv'
  OBVIOUS
<1>1. host.at = "close" /\ UNCHANGED radio /\ HostOnly /\ radio.link = "up"
  BY DEF OnDisconnectClose, IInv, Attempts
<1>2. host' \in CallbackType /\ host'.at = "down"
  BY DEF OnDisconnectClose, IInv, TypeOK, CallbackType
<1>3. /\ pub' \in AtomicsType /\ ~pub'.accept /\ pub'.gate = 0 /\ pub'.connected = pub.connected
      /\ pub'.succ = pub.succ /\ pub'.edge = pub.edge /\ pub'.cleanup = pub.cleanup
      /\ pub'.active = pub.active
  BY DEF OnDisconnectClose, IInv, TypeOK, AtomicsType
<1> QED
  BY <1>1, <1>2, <1>3, LosesKeep

LEMMA OnDisconnectDownKeeps == IInv /\ OnDisconnectDown => IInv'
<1> SUFFICES ASSUME IInv, OnDisconnectDown PROVE IInv'
  OBVIOUS
<1>1. host.at = "down" /\ UNCHANGED radio /\ HostOnly /\ radio.link = "up"
  BY DEF OnDisconnectDown, IInv, Attempts
<1>2. host' \in CallbackType /\ host'.at = "notify"
  BY DEF OnDisconnectDown, IInv, TypeOK, CallbackType
<1>3. /\ pub' \in AtomicsType /\ pub'.accept = pub.accept /\ pub'.gate = pub.gate
      /\ ~pub'.connected /\ ~pub'.succ /\ pub'.edge = pub.edge /\ pub'.cleanup = pub.cleanup
      /\ pub'.active = pub.active
  <2>1. PICK no \in BOOLEAN : no = FALSE
    OBVIOUS
  <2> DEFINE q == [ pub EXCEPT !.connected = no, !.succ = no ]
  <2>2. pub' = [ q EXCEPT !.pend = no, !.discPending = no ]
    BY <2>1 DEF OnDisconnectDown
  <2>3. /\ q \in AtomicsType /\ q.accept = pub.accept /\ q.gate = pub.gate
        /\ ~q.connected /\ ~q.succ /\ q.edge = pub.edge /\ q.cleanup = pub.cleanup
        /\ q.active = pub.active
    BY <2>1 DEF IInv, TypeOK, AtomicsType
  <2> HIDE DEF q
  <2> QED
    BY <2>1, <2>2, <2>3 DEF AtomicsType
<1> QED
  BY <1>1, <1>2, <1>3, LosesKeep DEF Linked

LEMMA OnDisconnectNotifyKeeps == IInv /\ OnDisconnectNotify => IInv'
<1> SUFFICES ASSUME IInv, OnDisconnectNotify PROVE IInv'
  OBVIOUS
<1>1. host.at = "notify" /\ UNCHANGED radio /\ HostOnly /\ radio.link = "up"
  BY DEF OnDisconnectNotify, IInv, Attempts
<1>2. host' \in CallbackType /\ host'.at = "gone"
  BY DEF OnDisconnectNotify, IInv, TypeOK, CallbackType
<1>3. /\ pub' \in AtomicsType /\ pub'.accept = pub.accept /\ pub'.gate = pub.gate
      /\ pub'.connected = pub.connected /\ pub'.succ = pub.succ /\ pub'.edge = pub.edge
      /\ pub'.cleanup /\ pub'.active = pub.active
  <2>1. radio.disc \in BOOLEAN
    BY DEF IInv, TypeOK, RadioType
  <2> QED
    BY <2>1 DEF OnDisconnectNotify, IInv, TypeOK, AtomicsType
<1> QED
  BY <1>1, <1>2, <1>3, LosesKeep DEF Linked

LEMMA LinkGoneKeeps == IInv /\ LinkGone => IInv'
<1> SUFFICES ASSUME IInv, LinkGone PROVE IInv'
  OBVIOUS
<1>1. host.at = "gone" /\ UNCHANGED pub /\ HostOnly /\ host' = [ at |-> "idle", gen |-> 0 ]
  BY DEF LinkGone
<1>2. host' \in CallbackType /\ host'.at = "idle"
  BY <1>1 DEF CallbackType
<1>3. radio' \in RadioType /\ radio'.link = "none" /\ radio'.id = radio.id /\ radio'.attrs = radio.attrs
  BY DEF LinkGone, IInv, TypeOK, RadioType
<1>4. TypeOK' /\ Counted' /\ Holds' /\ Subscribed' /\ Published'
  BY <1>1, <1>2, <1>3, HostLeaves, LinkStays DEF IInv, TypeOK
<1>5. Closes' /\ Attempts'
  BY <1>1, <1>2, <1>3 DEF IInv, Closes, Retiring, Shows, Publishing, Attempts, Arriving, HostOnly
<1>6. Opens' /\ Visible'
  BY <1>1, <1>2, <1>3 DEF IInv, Opens, Visible, Shows, Publishing, Linked, HostOnly
<1>7. ConnectedIsOpen'
  BY <1>1, <1>2, <1>3 DEF IInv, ConnectedIsOpen, Accepted, HostOnly
<1> QED
  BY <1>4, <1>5, <1>6, <1>7 DEF IInv

LEMMA FoundKeeps == IInv /\ Found => IInv'
<1> SUFFICES ASSUME IInv, Found PROVE IInv'
  OBVIOUS
<1>1. PICK told \in BOOLEAN : pub' = [ pub EXCEPT !.target = TRUE, !.scanEnd = pub.scanEnd \/ told ]
  BY DEF Found
<1>2. /\ pub' \in AtomicsType /\ pub'.accept = pub.accept /\ pub'.gate = pub.gate
      /\ pub'.connected = pub.connected /\ pub'.pend = pub.pend /\ pub'.succ = pub.succ
      /\ pub'.edge = pub.edge /\ pub'.cleanup = pub.cleanup /\ pub'.active = pub.active
  BY <1>1 DEF IInv, TypeOK, AtomicsType
<1>3. count' \in [ found : 0 .. MaxFound, disconnects : 0 .. MaxDisconnects ]
  BY DEF Found, IInv, TypeOK, ClientAssumption
<1>4. radio' \in RadioType /\ radio'.link = radio.link /\ radio'.id = radio.id /\ radio'.attrs = radio.attrs
  BY DEF Found, IInv, TypeOK, RadioType
<1>5. Passes
  BY <1>2, <1>3, <1>4 DEF Found, IInv, TypeOK, Passes, Moves, Counted
<1> QED
  BY <1>5, PassesKeep

LEMMA ScanEndKeeps == IInv /\ ScanEnd => IInv'
<1> SUFFICES ASSUME IInv, ScanEnd PROVE IInv'
  OBVIOUS
<1>1. PICK told \in BOOLEAN : pub' = [ pub EXCEPT !.scanEnd = pub.scanEnd \/ told ]
  BY DEF ScanEnd
<1>2. /\ pub' \in AtomicsType /\ pub'.accept = pub.accept /\ pub'.gate = pub.gate
      /\ pub'.connected = pub.connected /\ pub'.pend = pub.pend /\ pub'.succ = pub.succ
      /\ pub'.edge = pub.edge /\ pub'.cleanup = pub.cleanup /\ pub'.active = pub.active
  BY <1>1 DEF IInv, TypeOK, AtomicsType
<1>3. radio' \in RadioType /\ radio'.link = radio.link /\ radio'.id = radio.id /\ radio'.attrs = radio.attrs
  BY DEF ScanEnd, IInv, TypeOK, RadioType
<1>4. Passes
  BY <1>2, <1>3 DEF ScanEnd, HostOnly, IInv, TypeOK, Passes, Moves, Counted
<1> QED
  BY <1>4, PassesKeep

LEMMA ExpireKeeps == IInv /\ Expire => IInv'
<1> SUFFICES ASSUME IInv, Expire PROVE IInv'
  OBVIOUS
<1>1. /\ ble' \in MembersType /\ ble'.gen = ble.gen /\ ble'.actGen = ble.actGen
      /\ ble'.step = ble.step /\ ble'.cancelWait = ble.cancelWait /\ ble'.cmd = ble.cmd
      /\ ble'.hard = ble.hard /\ ble'.fails = ble.fails /\ ble'.st = ble.st
      /\ ble'.read = ble.read /\ ble'.attempts = ble.attempts
  BY DEF Expire, IInv, TypeOK, MembersType
<1>2. Passes
  BY <1>1 DEF Expire, IInv, TypeOK, Passes, Moves, Counted
<1> QED
  BY <1>2, PassesKeep

-----------------------------------------------------------------------------
(* The attribute worker, and the command it is given.                      *)

\* What the worker does leaves the session as it is.
LEMMA WorkerLeaves ==
    ASSUME IInv, UNCHANGED << pc, pub, host, radio, count >>, worker' \in WorkerType,
           ble' \in MembersType, ble'.st = ble.st, ble'.gen = ble.gen, ble'.actGen = ble.actGen,
           ble'.attempts = ble.attempts, ble'.fails = ble.fails, ble'.hard = ble.hard,
           ble'.read = ble.read, ble'.cancelWait = ble.cancelWait, ble'.step = ble.step,
           subs \subseteq subs', subs' \subseteq Nat, strayed' \in BOOLEAN, ~strayed',
           Running' => worker'.attrs = radio.attrs
    PROVE  TypeOK' /\ Counted' /\ Closes' /\ Attempts' /\ Opens' /\ Visible' /\ Published' /\ ConnectedIsOpen'
           /\ WorkerOwnsItsHandles'
<1>1. TypeOK' /\ Counted' /\ Closes'
  <2>1. TypeOK'
    BY DEF IInv, TypeOK
  <2>2. Counted'
    BY DEF IInv, Counted, Retiring
  <2>3. Closes'
    BY DEF IInv, Closes, Retiring, Shows, Publishing
  <2> QED
    BY <2>1, <2>2, <2>3
<1>2. Attempts' /\ Opens' /\ Visible'
  BY DEF IInv, Attempts, Arriving, Opens, Visible, Shows, Publishing, Linked
<1>3. Published' /\ ConnectedIsOpen' /\ WorkerOwnsItsHandles'
  BY DEF IInv, Published, Publishing, ConnectedIsOpen, Accepted, WorkerOwnsItsHandles
<1> QED
  BY <1>1, <1>2, <1>3

LEMMA SendCommandKeeps == IInv /\ SendCommand => IInv'
<1> SUFFICES ASSUME IInv, SendCommand PROVE IInv'
  OBVIOUS
<1>1. /\ radio.link = "up" /\ ~Running /\ (ble.st = "CONNECTED" \/ ble.step \in { "short", "long", "complete" })
      /\ UNCHANGED << pc, pub, host, radio, subs, strayed, count >>
  BY DEF SendCommand, MaySend, IsConnected, WorkerFree, HasCommandChar
<1>2. PICK c \in CommandType : c = [ active |-> TRUE, gen |-> ble.gen, link |-> radio.id ]
  BY DEF CommandType, IInv, TypeOK, MembersType, RadioType
<1>3. /\ ble' \in MembersType /\ ble'.gen = ble.gen /\ ble'.actGen = ble.actGen
      /\ ble'.step = ble.step /\ ble'.cancelWait = ble.cancelWait /\ ble'.cmd = c
      /\ ble'.hard = ble.hard /\ ble'.fails = ble.fails /\ ble'.st = ble.st
      /\ ble'.read = ble.read /\ ble'.attempts = ble.attempts
  <2>1. ble' = [ ble EXCEPT !.cmd = c ]
    BY <1>2 DEF SendCommand
  <2> QED
    BY <2>1 DEF IInv, TypeOK, MembersType
<1>4. /\ worker' \in WorkerType /\ worker'.at = "command" /\ worker'.attrs = radio.attrs
      /\ worker'.done = worker.done /\ worker'.ok = worker.ok
  <2>1. radio.attrs \in Nat /\ ble.gen \in Nat /\ "command" \in Jobs
    BY DEF IInv, TypeOK, RadioType, MembersType, Jobs
  <2>2. PICK no \in BOOLEAN : no = FALSE
    OBVIOUS
  <2>3. worker' = [ worker EXCEPT !.at = "command", !.attrs = radio.attrs, !.gen = ble.gen, !.wrote = no ]
    BY <2>2 DEF SendCommand
  <2> QED
    BY <2>1, <2>2, <2>3 DEF IInv, TypeOK, WorkerType
<1>5. strayed' \in BOOLEAN /\ ~strayed' /\ subs' = subs /\ subs \subseteq Nat
  BY <1>1 DEF IInv, Holds, WorkerOwnsItsHandles, TypeOK
<1>6. /\ TypeOK' /\ Counted' /\ Closes' /\ Attempts' /\ Opens' /\ Visible' /\ Published'
      /\ ConnectedIsOpen' /\ WorkerOwnsItsHandles'
  BY <1>1, <1>3, <1>4, <1>5, WorkerLeaves
<1>7. c.link = radio.id
  BY <1>2
<1>8. Holds'
  BY <1>1, <1>3, <1>4, <1>6, <1>7 DEF Holds
<1>9. Subscribed'
  BY <1>1, <1>3, <1>4 DEF IInv, Subscribed, Subscribes, Retiring, Running
<1> QED
  BY <1>6, <1>8, <1>9 DEF IInv

LEMMA CollectCommandKeeps == IInv /\ CollectCommand => IInv'
<1> SUFFICES ASSUME IInv, CollectCommand PROVE IInv'
  OBVIOUS
<1>1. PICK c \in CommandType : c = NoCommand
  BY DEF NoCommand, CommandType
<1>2. /\ ble' \in MembersType /\ ble'.gen = ble.gen /\ ble'.actGen = ble.actGen
      /\ ble'.step = ble.step /\ ble'.cancelWait = ble.cancelWait
      /\ ble'.hard = ble.hard /\ ble'.fails = ble.fails /\ ble'.st = ble.st
      /\ ble'.read = ble.read /\ ble'.attempts = ble.attempts
  <2>1. ble' = [ ble EXCEPT !.cmd = c ]
    BY <1>1 DEF CollectCommand
  <2> QED
    BY <2>1 DEF IInv, TypeOK, MembersType
<1>3. ~Running /\ UNCHANGED << pc, pub, host, radio, worker, subs, strayed, count >>
  BY DEF CollectCommand
<1>4. Passes
  BY <1>2, <1>3 DEF IInv, TypeOK, Passes, Moves, Counted
<1> QED
  BY <1>4, PassesKeep

LEMMA CancelCommandKeeps == IInv /\ CancelCommand => IInv'
<1> SUFFICES ASSUME IInv, CancelCommand PROVE IInv'
  OBVIOUS
<1>1. Around
  BY DEF CancelCommand, Around, IInv, TypeOK
<1> QED
  BY <1>1, HandedAsIs, QuiesceKeeps DEF CancelCommand, Quiesce

\* The worker ends its job.
LEMMA FinishForm ==
    ASSUME IInv, NEW ok \in BOOLEAN, Finish(ok)
    PROVE  /\ worker' \in WorkerType /\ worker'.at = "idle"
           /\ IF worker.at \in { "command", "write" }
              THEN worker'.done = worker.done /\ worker'.ok = worker.ok
              ELSE worker'.done /\ worker'.ok = ok
<1>1. worker \in WorkerType /\ "idle" \in Jobs /\ worker.gen \in Nat
  BY DEF IInv, TypeOK, WorkerType, Jobs
<1>2. CASE worker.at \in { "command", "write" }
  <2>1. worker' = [ worker EXCEPT !.at = "idle", !.wrote = ok ]
    BY <1>2 DEF Finish
  <2> QED
    BY <1>1, <1>2, <2>1 DEF WorkerType
<1>3. CASE worker.at \notin { "command", "write" }
  <2>1. PICK yes \in BOOLEAN : yes = TRUE
    OBVIOUS
  <2>2. worker' = [ worker EXCEPT !.at = "idle", !.done = yes, !.ok = ok, !.doneGen = worker.gen ]
    BY <1>3, <2>1 DEF Finish
  <2> QED
    BY <1>1, <1>3, <2>1, <2>2 DEF WorkerType
<1> QED
  BY <1>2, <1>3

\* A job other than a subscription on the short channel ends, or one of those
\* fails.
LEMMA FinishKeeps ==
    ASSUME IInv, WorkerOnly, worker.at # "idle", NEW ok \in BOOLEAN, Finish(ok),
           strayed' \in BOOLEAN, ~strayed',
           \/ subs' = subs /\ (ok => worker.at \notin { "short", "subscribe" })
           \/ subs' = subs \cup { radio.id }
    PROVE  IInv'
<1> USE DEF WorkerOnly
<1>1. /\ worker' \in WorkerType /\ worker'.at = "idle"
      /\ IF worker.at \in { "command", "write" }
         THEN worker'.done = worker.done /\ worker'.ok = worker.ok
         ELSE worker'.done /\ worker'.ok = ok
  BY FinishForm
<1>2. subs \subseteq subs' /\ subs' \subseteq Nat
  BY DEF IInv, TypeOK, RadioType
<1>3. /\ TypeOK' /\ Counted' /\ Closes' /\ Attempts' /\ Opens' /\ Visible' /\ Published'
      /\ ConnectedIsOpen' /\ WorkerOwnsItsHandles'
  BY <1>1, <1>2, WorkerLeaves DEF Running, IInv, TypeOK
<1>4. Holds'
  BY <1>1, <1>3 DEF Holds
<1>5. Subscribed'
  <2>1. radio.id \in subs => radio'.id \in subs'
    BY <1>2
  <2>2. ~Running'
    BY <1>1 DEF Running
  <2>3. ble' = ble /\ worker.at \in { "short", "subscribe" } /\ ok => radio.id \in subs'
    OBVIOUS
  <2> QED
    BY <1>1, <2>1, <2>2, <2>3 DEF IInv, Subscribed, Subscribes, Retiring, Running
<1> QED
  BY <1>3, <1>4, <1>5 DEF IInv

\* A job goes from its check to its write.
LEMMA JobMovesOn ==
    ASSUME IInv, WorkerOnly, UNCHANGED << subs, strayed >>, NEW j \in Jobs,
           worker' = [ worker EXCEPT !.at = j ],
           \/ worker.at = "short" /\ j = "subscribe"
           \/ worker.at = "long" /\ j = "subscribeLong"
           \/ worker.at = "command" /\ j = "write"
    PROVE  IInv'
<1> USE DEF WorkerOnly
<1>1. /\ worker' \in WorkerType /\ worker'.at = j /\ worker'.attrs = worker.attrs
      /\ worker'.done = worker.done /\ worker'.ok = worker.ok
  BY DEF IInv, TypeOK, WorkerType
<1>2. strayed' \in BOOLEAN /\ ~strayed' /\ subs' \subseteq Nat /\ worker.attrs = radio.attrs
  BY DEF IInv, TypeOK, Holds, WorkerOwnsItsHandles, Running
<1>3. /\ TypeOK' /\ Counted' /\ Closes' /\ Attempts' /\ Opens' /\ Visible' /\ Published'
      /\ ConnectedIsOpen' /\ WorkerOwnsItsHandles'
  BY <1>1, <1>2, WorkerLeaves DEF IInv, TypeOK
<1>4. Holds'
  BY <1>1, <1>3 DEF IInv, Holds
<1>5. Subscribed'
  BY <1>1 DEF IInv, Subscribed, Subscribes, Retiring, Running
<1> QED
  BY <1>3, <1>4, <1>5 DEF IInv

LEMMA WorkerStepKeeps == IInv /\ WorkerStep => IInv'
<1> SUFFICES ASSUME IInv, WorkerStep PROVE IInv'
  OBVIOUS
<1>1. WorkerOnly /\ strayed \in BOOLEAN /\ ~strayed
  BY DEF WorkerStep, IInv, TypeOK, Holds, WorkerOwnsItsHandles
<1>2. CASE Discover
  BY <1>1, <1>2, FinishKeeps DEF Discover
<1>3. CASE WorkerChecks
  <2>1. CASE Accepted(worker.gen) /\ ble.gen = worker.gen
    <3>1. CASE worker.at = "short"
      <4>1. worker' = [ worker EXCEPT !.at = "subscribe" ]
        BY <1>3, <2>1, <3>1 DEF WorkerChecks
      <4> QED
        BY <1>1, <1>3, <3>1, <4>1, JobMovesOn DEF WorkerChecks, Jobs
    <3>2. CASE worker.at = "long"
      <4>1. worker' = [ worker EXCEPT !.at = "subscribeLong" ]
        BY <1>3, <2>1, <3>2 DEF WorkerChecks
      <4> QED
        BY <1>1, <1>3, <3>2, <4>1, JobMovesOn DEF WorkerChecks, Jobs
    <3>3. CASE worker.at = "command"
      <4>1. worker' = [ worker EXCEPT !.at = "write" ]
        BY <1>3, <2>1, <3>3 DEF WorkerChecks
      <4> QED
        BY <1>1, <1>3, <3>3, <4>1, JobMovesOn DEF WorkerChecks, Jobs
    <3> QED
      BY <1>3, <3>1, <3>2, <3>3 DEF WorkerChecks
  <2>2. CASE ~(Accepted(worker.gen) /\ ble.gen = worker.gen)
    <3>1. Finish(FALSE) /\ UNCHANGED << subs, strayed >> /\ worker.at # "idle"
      BY <1>3, <2>2 DEF WorkerChecks
    <3> QED
      BY <1>1, <3>1, FinishKeeps
  <2> QED
    BY <2>1, <2>2
<1>4. CASE WorkerWrites
  <2>1. PICK ok \in BOOLEAN :
          /\ Finish(ok)
          /\ subs' = IF ok /\ worker.at = "subscribe" THEN subs \cup { radio.id } ELSE subs
          /\ strayed' = (strayed \/ (ok /\ worker.at = "write" /\ radio.id # ble.cmd.link))
    BY <1>4 DEF WorkerWrites
  <2>2. worker.at \in { "subscribe", "subscribeLong", "write" }
    BY <1>4 DEF WorkerWrites
  <2>3. strayed' \in BOOLEAN /\ ~strayed'
    BY <1>1, <2>1 DEF IInv, Holds
  <2>4. CASE ok /\ worker.at = "subscribe"
    BY <1>1, <2>1, <2>2, <2>3, <2>4, FinishKeeps
  <2>5. CASE ~(ok /\ worker.at = "subscribe")
    BY <1>1, <2>1, <2>2, <2>3, <2>5, FinishKeeps
  <2> QED
    BY <2>4, <2>5
<1> QED
  BY <1>2, <1>3, <1>4 DEF WorkerStep

-----------------------------------------------------------------------------
(* The session from boot.                                                  *)

LEMMA Initially == Init => IInv
<1> SUFFICES ASSUME Init PROVE IInv
  OBVIOUS
<1> USE DEF Init
<1>1. /\ ble \in MembersType /\ ble.st = "DISCONNECTED" /\ ble.fails = 0 /\ ble.step = "service"
      /\ ble.gen = 0 /\ ~ble.read
  <2>1. NoCommand \in CommandType
    BY DEF NoCommand, CommandType
  <2>2. 0 \in 0 .. MaxAttempts /\ 0 \in 0 .. HardResetAt /\ "DISCONNECTED" \in States /\ "service" \in Phases
    BY DEF ClientAssumption, States, Phases
  <2> QED
    BY <2>1, <2>2 DEF Members, MembersType
<1>2. /\ pub \in AtomicsType /\ ~pub.accept /\ ~pub.connected /\ pub.gate = 0 /\ pub.edge = 0
  BY DEF Atomics, AtomicsType
<1>3. host \in CallbackType /\ host.at = "idle" /\ worker \in WorkerType /\ worker.at = "idle"
  BY DEF NoCallback, CallbackType, NoWorker, WorkerType, Jobs
<1>4. radio \in RadioType /\ radio.link = "none"
  BY DEF RadioType
<1>5. count \in [ found : 0 .. MaxFound, disconnects : 0 .. MaxDisconnects ]
  BY DEF ClientAssumption
<1>6. pc = "apply" /\ subs = {} /\ strayed = FALSE
  OBVIOUS
<1> HIDE DEF Init
<1>7. TypeOK
  <2>1. strayed \in BOOLEAN /\ subs \subseteq Nat
    BY <1>6
  <2>2. pub.gate <= ble.gen /\ pub.edge <= ble.gen
    BY <1>1, <1>2
  <2> QED
    BY <1>1, <1>2, <1>3, <1>4, <1>5, <1>6, <2>1, <2>2 DEF TypeOK
<1>8. Counted /\ Closes
  BY <1>1 DEF Counted, Closes, Retiring, ClientAssumption
<1>9. Attempts /\ Opens /\ Visible
  BY <1>1, <1>2, <1>3, <1>4, <1>6 DEF Attempts, Arriving, Opens, Visible, Shows, Publishing
<1>10. Holds /\ Subscribed /\ Published /\ ConnectedIsOpen
  BY <1>1, <1>2, <1>3, <1>6 DEF Holds, WorkerOwnsItsHandles, Running, Subscribed, Subscribes, Published,
     Publishing, ConnectedIsOpen
<1> QED
  BY <1>7, <1>8, <1>9, <1>10 DEF IInv

LEMMA StepKeeps == IInv /\ [Next]_vars => IInv'
<1> SUFFICES ASSUME IInv, [Next]_vars PROVE IInv'
  OBVIOUS
<1>1. CASE Loop
  <2>1. CASE Dispatch
    BY <2>1, DisconnectedKeeps, ScanningKeeps, ScanStoppingKeeps, ConnectingKeeps, ConnectingWaitKeeps,
       DiscoveringKeeps, SubscribingKeeps, SubscribeYieldKeeps, PublishKeeps, StoreConnectedKeeps,
       ClaimKeeps, ConnectedKeeps, QuiescingKeeps DEF Dispatch
  <2> QED
    BY <1>1, <2>1, ReadEdgeKeeps, StoreEdgeKeeps, ApplyCleanupKeeps, ApplyScanKeeps, ServiceKeeps DEF Loop
<1>2. CASE SendCommand \/ CollectCommand \/ CancelCommand \/ Disconnect
  BY <1>2, SendCommandKeeps, CollectCommandKeeps, CancelCommandKeeps, DisconnectKeeps
<1>3. CASE ConnectDone \/ OnConnectFail \/ LinkLost
  BY <1>3, ConnectDoneKeeps, OnConnectFailKeeps, LinkLostKeeps
<1>4. CASE HostStep
  BY <1>4, OnConnectKeeps, OnConnectPublishKeeps, OnDisconnectKeeps, OnDisconnectCloseKeeps,
     OnDisconnectDownKeeps, OnDisconnectNotifyKeeps, LinkGoneKeeps DEF HostStep
<1>5. CASE Found \/ ScanEnd \/ WorkerStep \/ Expire
  BY <1>5, FoundKeeps, ScanEndKeeps, WorkerStepKeeps, ExpireKeeps
<1>6. CASE UNCHANGED vars
  <2>1. Passes
    BY <1>6 DEF vars, IInv, TypeOK, Passes, Moves, Counted
  <2> QED
    BY <2>1, PassesKeep
<1> QED
  BY <1>1, <1>2, <1>3, <1>4, <1>5, <1>6 DEF Next

(* How far a session has come, wherever callbacks and worker are, for any  *)
(* thresholds (processClientQuiesce, onConnect, onDisconnect).             *)
THEOREM Invariant == Spec => []IInv
  BY Initially, StepKeeps, PTL DEF Spec

(* The worker owns the attributes it borrows, a command goes out on the    *)
(* link it was meant for, and what other tasks see as connected is an open *)
(* session on a link that is there or whose loss is about to be told, for  *)
(* any thresholds and any number of sessions (V1BLEClient).                *)
THEOREM LinkSafeAlways == Spec => []LinkSafe
<1>1. IInv => LinkSafe
  <2> SUFFICES ASSUME IInv PROVE LinkSafe
    OBVIOUS
  <2>1. NoGhostSession
    BY DEF IInv, NoGhostSession, Visible, Shows
  <2> QED
    BY <2>1 DEF IInv, LinkSafe, Holds
<1> QED
  BY <1>1, Invariant, PTL
=============================================================================

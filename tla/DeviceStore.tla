---------------------------- MODULE DeviceStore ----------------------------
(***************************************************************************)
(* The catalogue of known detectors (V1DeviceStore): one file on the card  *)
(* and its mirror in flash, each promoted from a temporary file behind a   *)
(* rollback copy, reconciled by generation at every boot; and the deletion *)
(* of a detector, which an intent in NVS carries across the fallback       *)
(* address, both files and any number of interruptions.                    *)
(*                                                                         *)
(* A row is an address with one edited value (name, default profile and    *)
(* box policy are written alike).  A file that cannot be parsed is out of  *)
(* the model; one that cannot be read now is in it.                        *)
(***************************************************************************)
EXTENDS Naturals, Sequences, FiniteSets, SequencesExt

CONSTANTS Addresses, Values,
          MaxDevices,  \* MAX_DEVICES
          MaxEdits,    \* edits, sightings and deletions
          MaxTrouble,  \* failed writes and reads, writes cut short
          MaxBoots

VARIABLES fs,     \* per medium the live file and its rollback copy
          ram,    \* V1DeviceStore's members, while the power is on
          nvs,    \* the deletion intent, the fallback address, and the address saved
                  \* with the settings
          last,   \* lastV1Address of the settings in RAM
          call,   \* the deletion under way, step by step
          ack,    \* catalogues a boot may load: the one last acknowledged, and
                  \* what a power loss left in doubt
          gone,   \* deleted and not seen since
          forked, \* the card was left out with edits its mirror does not have
          count

vars == << fs, ram, nvs, last, call, ack, gone, forked, count >>

Nothing == << >>
Rows == UNION { [ 1 .. n -> [ addr : Addresses, val : Values ] ] : n \in 0 .. MaxDevices }
Idle == [ at |-> "none", addr |-> "none", want |-> "none", boot |-> FALSE ]
Off == [ on |-> FALSE, ready |-> FALSE, card |-> FALSE, rows |-> << >>, gen |-> 0, dirty |-> FALSE,
         mirror |-> FALSE, status |-> "missing" ]

Init ==
    /\ fs = [ f \in { "card", "flash" } |-> [ live |-> Nothing, prev |-> Nothing ] ]
    /\ ram = Off /\ last = "none"
    \* boot and deletion handle a fallback address, whoever left it
    /\ nvs \in [ intent : { Nothing }, fallback : Addresses \cup { "none" }, last : { "none" } ]
    /\ call = Idle /\ ack = { << >> } /\ gone = {} /\ forked = FALSE
    /\ count = [ edits |-> 0, trouble |-> 0, boots |-> 0 ]

-----------------------------------------------------------------------------
(* An operation works on the machine m: media, RAM, trouble met, and       *)
(* whether the power was lost.                                             *)

Machine == [ fs |-> fs, ram |-> ram, trouble |-> count.trouble, cut |-> FALSE, doubt |-> {} ]
Trouble(m) == { [ m EXCEPT !.trouble = @ + 1 ] : z \in IF m.trouble < MaxTrouble THEN { 0 } ELSE {} }

\* loadJsonDocumentWithRollback: a missing live file is read from its rollback.
Effective(file) == IF file.live # Nothing THEN file.live ELSE file.prev
GenerationOf(file) == IF file = Nothing THEN 0 ELSE file.gen
MediaOf(m) == IF m.ram.card THEN << "card", "flash" >> ELSE << "flash" >>
Copies(m) == { Effective(m.fs[f]) : f \in ToSet(MediaOf(m)) }

\* mutant: the old file is removed before the new one is in place.
NoRollbackCopy(old, new) ==
    { [ live |-> Nothing, prev |-> Nothing ], [ live |-> new, prev |-> Nothing ] }
\* What a power loss inside writeStore leaves: promoteTempFileWithRollback
\* rotates the live file, and a rollback that was the only copy is kept.
Interrupted(old, new) ==
    { old, [ live |-> Nothing, prev |-> Effective(old) ], [ live |-> new, prev |-> Effective(old) ] }
Write(m, f, new) ==
    LET old == m.fs[f]
    IN  { [ m |-> [ m EXCEPT !.fs[f] = [ live |-> new, prev |-> p ] ], ok |-> TRUE ] :
            p \in { Nothing } \cup { IF m.trouble < MaxTrouble THEN Effective(old) ELSE Nothing } }
        \cup { [ m |-> t, ok |-> FALSE ] : t \in Trouble(m) }
        \cup UNION { { [ m |-> [ t EXCEPT !.fs[f] = file, !.cut = TRUE, !.doubt = { new.rows } ], ok |-> FALSE ] :
                         file \in Interrupted(old, new) } : t \in Trouble(m) }

\* mirrorDirty_
Unmirrored(w) == ~w.ok
\* saveToStoreResult: generations are read again from both files.
Save(m) ==
    LET next == 1 + Max({ m.ram.gen } \cup { GenerationOf(c) : c \in Copies(m) })
        new == [ gen |-> next, rows |-> m.ram.rows ]
        media == MediaOf(m)
        committed(k) == [ k EXCEPT !.ram.gen = next, !.ram.dirty = FALSE, !.ram.mirror = FALSE,
                                   !.ram.status = "valid" ]
        mirrored(k) ==
            { IF w.m.cut THEN [ m |-> w.m, res |-> "pending" ]
              ELSE [ m |-> [ w.m EXCEPT !.ram.mirror = Unmirrored(w) ], res |-> IF w.ok THEN "mirrored" ELSE "pending" ] :
              w \in Write(k, media[2], new) }
    IN  { [ m |-> t, res |-> "unavailable" ] : t \in Trouble(m) } \cup
        UNION { IF ~w.ok THEN { [ m |-> w.m, res |-> "failed" ] }
                ELSE IF Len(media) = 1 THEN { [ m |-> committed(w.m), res |-> "mirrored" ] }
                ELSE mirrored(committed(w.m)) : w \in Write(m, media[1], new) }
Committed(res) == res \in { "mirrored", "pending" }

\* The candidate of an edit that was not committed is taken back.
RolledBack(before, r) ==
    IF Committed(r.res) \/ r.m.cut THEN r
    ELSE [ r EXCEPT !.m.ram = [ before.ram EXCEPT !.status = r.m.ram.status ] ]
SaveEdit(before, m) == { RolledBack(before, r) : r \in Save([ m EXCEPT !.ram.dirty = TRUE ]) }

Readable(m) == m.ram.ready /\ m.ram.status \in { "missing", "valid" }
Has(rows, a) == \E i \in DOMAIN rows : rows[i].addr = a
Without(rows, a) == SelectSeq(rows, LAMBDA r : r.addr # a)
Row(rows, a) == rows[CHOOSE i \in DOMAIN rows : rows[i].addr = a]
\* A new row leads the list and displaces the last, the least recently seen.
Fronted(rows, r) ==
    << r >> \o (IF ~Has(rows, r.addr) /\ Len(rows) = MaxDevices THEN Front(rows) ELSE Without(rows, r.addr))
\* buildUpsertCandidate
Upserted(rows, a) ==
    Fronted(rows, IF Has(rows, a) THEN Row(rows, a) ELSE [ addr |-> a, val |-> CHOOSE v \in Values : TRUE ])
Edited(rows, a, v) ==
    IF Has(rows, a) THEN [ i \in DOMAIN rows |-> IF rows[i].addr = a THEN [ rows[i] EXCEPT !.val = v ] ELSE rows[i] ]
    ELSE Fronted(rows, [ addr |-> a, val |-> v ])

-----------------------------------------------------------------------------
(* begin() and reconcileStores. *)

\* The higher generation wins; flash, the store of a drive without the card,
\* wins a tie of different catalogues.
FlashWins(card, flash) ==
    \/ card = Nothing /\ flash # Nothing
    \/ card # Nothing /\ flash # Nothing /\ (flash.gen > card.gen \/ (flash.gen = card.gen /\ flash # card))

Reconcile(m) ==
    LET card == IF m.ram.card THEN Effective(m.fs["card"]) ELSE Effective(m.fs["flash"])
        flash == IF m.ram.card THEN Effective(m.fs["flash"]) ELSE Nothing
        winner == IF FlashWins(card, flash) THEN flash ELSE card
        diverged == card # Nothing /\ flash # Nothing /\ card.gen = flash.gen /\ card # flash
        gen == GenerationOf(winner) + (IF diverged THEN 1 ELSE 0)
        new == [ gen |-> gen, rows |-> winner.rows ]
        stale == \E f \in ToSet(MediaOf(m)) : m.fs[f].live # new
        loaded == [ m EXCEPT !.ram.rows = winner.rows, !.ram.gen = gen, !.ram.status = "valid" ]
        second(k) == IF Len(MediaOf(m)) = 1 \/ k.m.cut THEN { k }
                     ELSE { [ w EXCEPT !.ok = @ /\ k.ok ] : w \in Write(k.m, "flash", new) }
    IN  IF card = Nothing /\ flash = Nothing THEN { m }
        ELSE IF ~stale THEN { loaded }
        ELSE { [ w.m EXCEPT !.ram.mirror = Unmirrored(w) ] :
               w \in UNION { second(k) : k \in Write(loaded, MediaOf(m)[1], new) } }
Begin(m) ==
    { [ t EXCEPT !.ram.status = "unavailable" ] : t \in Trouble(m) } \cup Reconcile(m)

\* An acknowledged write leaves nothing in doubt.
Acknowledge(r) ==
    IF Committed(r.res) /\ ~r.m.cut THEN ack' = { r.m.ram.rows } ELSE ack' = ack \cup r.m.doubt
SetAll(r) ==
    /\ fs' = r.m.fs /\ ram' = (IF r.m.cut THEN Off ELSE r.m.ram)
    /\ Acknowledge(r)

CardAhead == GenerationOf(Effective(fs["card"])) > GenerationOf(Effective(fs["flash"]))
\* A drive without the card while the mirror was behind: two histories begin.
Boot(card) ==
    /\ ~ram.on /\ count.boots < MaxBoots
    /\ \E m \in Begin([ Machine EXCEPT !.ram = [ Off EXCEPT !.on = TRUE, !.ready = TRUE, !.card = card ] ]) :
         /\ fs' = m.fs /\ ram' = (IF m.cut THEN Off ELSE m.ram)
         /\ call' = IF m.cut THEN Idle ELSE [ Idle EXCEPT !.at = "resolve", !.boot = TRUE ]
         /\ ack' = IF m.ram.status # "valid" THEN ack ELSE { m.ram.rows }
         /\ count' = [ count EXCEPT !.trouble = m.trouble, !.boots = @ + 1 ]
    /\ forked' = (forked \/ (~card /\ CardAhead)) /\ last' = nvs.last
    /\ UNCHANGED << nvs, gone >>
\* No medium at all: the fallback address is the only memory.
BootWithoutStorage ==
    /\ ~ram.on /\ count.boots < MaxBoots
    /\ ram' = [ Off EXCEPT !.on = TRUE ] /\ count' = [ count EXCEPT !.boots = @ + 1 ]
    /\ last' = IF nvs.fallback # "none" THEN nvs.fallback ELSE nvs.last
    /\ UNCHANGED << fs, nvs, call, ack, gone, forked >>
PowerOff ==
    /\ ram.on /\ ram' = Off /\ call' = Idle
    /\ UNCHANGED << fs, nvs, last, ack, gone, forked, count >>
\* serviceRecovery: the authority is selected again.
Recover ==
    /\ ram.ready /\ ram.status = "unavailable" /\ call.at = "none"
    /\ \E m \in Begin([ Machine EXCEPT !.ram = [ Off EXCEPT !.on = TRUE, !.ready = TRUE, !.card = ram.card ] ]) :
         /\ fs' = m.fs /\ ram' = (IF m.cut THEN Off ELSE m.ram)
         /\ ack' = IF m.ram.status # "valid" THEN ack ELSE { m.ram.rows }
         /\ count' = [ count EXCEPT !.trouble = m.trouble ]
    /\ UNCHANGED << nvs, last, call, gone, forked >>

-----------------------------------------------------------------------------
(* Sightings and edits. *)

Ready == ram.on /\ call.at = "none"
Counted(m) == count' = [ count EXCEPT !.edits = @ + 1, !.trouble = m.trouble ]

\* The client notes the address of every detector; onV1Connected touches the
\* catalogue in RAM, and without one returns before the fallback is asked for.
Seen(a) ==
    /\ Ready /\ count.edits < MaxEdits
    /\ ram' = IF Readable(Machine) THEN [ ram EXCEPT !.rows = Upserted(@, a), !.dirty = TRUE ] ELSE ram
    /\ last' = a /\ gone' = gone \ { a } /\ Counted(Machine)
    /\ UNCHANGED << fs, nvs, call, ack, forked >>
\* setDeviceName, setDeviceDefaultProfile, setDeviceInTheBox.
Edit(a, v) ==
    /\ Ready /\ count.edits < MaxEdits /\ Readable(Machine)
    /\ \E r \in SaveEdit(Machine, [ Machine EXCEPT !.ram.rows = Edited(@, a, v) ]) :
         SetAll(r) /\ Counted(r.m) /\ gone' = (IF Committed(r.res) \/ r.m.cut THEN gone \ { a } ELSE gone)
    /\ UNCHANGED << nvs, last, call, forked >>
\* flushPendingSave, every second while something is unsaved.
Flush ==
    /\ Ready /\ Readable(Machine) /\ (ram.dirty \/ ram.mirror)
    /\ \E r \in Save(Machine) : SetAll(r) /\ count' = [ count EXCEPT !.trouble = r.m.trouble ]
    /\ UNCHANGED << nvs, last, call, gone, forked >>
\* save(): the settings keep the last address, and the fallback is cleared.
SettingsSaved ==
    /\ Ready /\ (nvs.fallback # "none" \/ nvs.last # last)
    /\ nvs' = [ nvs EXCEPT !.fallback = "none", !.last = last ]
    /\ UNCHANGED << fs, ram, last, call, ack, gone, forked, count >>

-----------------------------------------------------------------------------
(* deleteV1DeviceTransactional, one durable step at a time. *)

Delete(a) ==
    /\ Ready /\ ram.ready /\ count.edits < MaxEdits
    /\ call' = [ Idle EXCEPT !.at = "flush", !.addr = a, !.want = a ]
    /\ count' = [ count EXCEPT !.edits = @ + 1 ]
    /\ UNCHANGED << fs, ram, nvs, last, ack, gone, forked >>

\* The result is DurablePending, Busy or Unavailable; a boot goes on.
Ends == call' = IF call.boot THEN [ Idle EXCEPT !.at = "bootstrap" ] ELSE Idle
Goes(at) == call' = [ call EXCEPT !.at = at ]
Stays == UNCHANGED << fs, ram, nvs, last, ack, gone, forked >>
Fails == count.trouble < MaxTrouble /\ Ends /\ count' = [ count EXCEPT !.trouble = @ + 1 ] /\ Stays

FlushFirst ==
    /\ call.at = "flush"
    /\ IF ~Readable(Machine) THEN Ends /\ UNCHANGED count /\ Stays
       ELSE IF ~ram.dirty /\ ~ram.mirror THEN Goes("intent") /\ UNCHANGED count /\ Stays
       ELSE /\ \E r \in Save(Machine) :
                 /\ SetAll(r) /\ count' = [ count EXCEPT !.trouble = r.m.trouble ]
                 /\ IF r.m.cut THEN call' = Idle ELSE IF r.res = "mirrored" THEN Goes("intent") ELSE Ends
            /\ UNCHANGED << nvs, last, gone, forked >>

\* An intent of an earlier deletion is carried out first.
StageIntent(a) ==
    IF nvs.intent = Nothing
    THEN nvs' = [ nvs EXCEPT !.intent = [ addr |-> a, phase |-> "staged" ] ] /\ Goes("fallback")
    ELSE UNCHANGED nvs /\ call' = [ call EXCEPT !.at = "fallback", !.addr = nvs.intent.addr ]
Stage ==
    /\ call.at = "intent"
    /\ \/ /\ StageIntent(call.addr)
          /\ gone' = IF nvs.intent = Nothing /\ Has(ram.rows, call.addr) THEN gone \cup { call.addr } ELSE gone
          /\ UNCHANGED << fs, ram, last, ack, forked, count >>
       \/ Fails

\* clearLastV1AddressFallback
Cleared(a) == IF nvs.fallback = a THEN "none" ELSE nvs.fallback
ClearFallback ==
    /\ call.at \in { "fallback", "fallback2" }
    /\ \/ /\ IF call.at = "fallback" /\ nvs.intent.phase # "staged"
             THEN Goes(IF nvs.intent.phase = "mirrored" THEN "fallback2" ELSE "remove") /\ UNCHANGED nvs
             ELSE /\ nvs' = [ nvs EXCEPT !.fallback = Cleared(call.addr) ]
                  /\ Goes(IF call.at = "fallback" THEN "advance" ELSE "remove2")
          /\ UNCHANGED << fs, ram, last, ack, gone, forked, count >>
       \/ Fails
Advance ==
    /\ call.at \in { "advance", "mirrored", "primary" }
    /\ \/ /\ nvs' = [ nvs EXCEPT !.intent.phase = IF call.at = "advance" THEN "cleared" ELSE call.at ]
          /\ IF call.at = "primary" THEN Ends ELSE Goes(IF call.at = "advance" THEN "remove" ELSE "fallback2")
          /\ UNCHANGED << fs, ram, last, ack, gone, forked, count >>
       \/ Fails

\* removeDevice; a row that is not there needs no write once all is mirrored.
RemoveRow ==
    /\ call.at \in { "remove", "remove2" }
    /\ LET m == [ Machine EXCEPT !.ram.rows = Without(@, call.addr) ]
           clean == ~Has(ram.rows, call.addr) /\ ~ram.dirty /\ ~ram.mirror
           results == IF ~Readable(Machine) THEN { [ m |-> Machine, res |-> "unavailable" ] }
                      ELSE IF clean THEN { [ m |-> Machine, res |-> "mirrored" ] }
                      ELSE SaveEdit(Machine, m)
       IN  \E r \in results :
             /\ SetAll(r) /\ count' = [ count EXCEPT !.trouble = r.m.trouble ]
             /\ IF r.m.cut THEN call' = Idle
                ELSE IF r.res = "mirrored"
                THEN Goes(IF call.at = "remove2" THEN "clear" ELSE "mirrored")
                ELSE IF r.res = "pending" /\ call.at = "remove" THEN Goes("primary") ELSE Ends
    /\ UNCHANGED << nvs, last, gone, forked >>
ClearIntent ==
    /\ call.at = "clear"
    /\ \/ /\ nvs' = [ nvs EXCEPT !.intent = Nothing ]
          /\ IF call.addr # call.want /\ call.want # "none"
             THEN call' = [ call EXCEPT !.at = "intent", !.addr = call.want ]
             ELSE Ends
          /\ UNCHANGED << fs, ram, last, ack, gone, forked, count >>
       \/ Fails
DeleteStep == FlushFirst \/ Stage \/ ClearFallback \/ Advance \/ RemoveRow \/ ClearIntent

\* resolvePendingV1DeviceDelete at boot, before an address is restored.
Resolve ==
    /\ call.at = "resolve"
    /\ call' = IF nvs.intent = Nothing THEN [ Idle EXCEPT !.at = "bootstrap" ]
               ELSE [ Idle EXCEPT !.at = "flush", !.addr = nvs.intent.addr, !.boot = TRUE ]
    /\ UNCHANGED << fs, ram, nvs, last, ack, gone, forked, count >>

\* bootstrapDevice: the settings' address only into a catalogue never written.
Restores(from, degraded) == degraded \/ ram.gen = 0
\* The address of a drive without storage, or of the settings, is restored,
\* unless a deletion is still pending.
Bootstrap ==
    /\ call.at = "bootstrap" /\ call' = Idle
    /\ LET degraded == nvs.fallback # "none"
           from == IF degraded THEN nvs.fallback ELSE last
           up == [ Machine EXCEPT !.ram.rows = Upserted(@, from) ]
       IN  IF nvs.intent # Nothing \/ from = "none" \/ ~Readable(Machine)
           THEN /\ last' = IF nvs.intent = Nothing /\ from # "none" THEN from ELSE last
                /\ UNCHANGED << fs, ram, nvs, ack, gone, count >>
           ELSE IF ~Restores(from, degraded)
           THEN last' = from /\ UNCHANGED << fs, ram, nvs, ack, gone, count >>
           ELSE \E r \in SaveEdit(Machine, up) :
                  /\ SetAll(r) /\ count' = [ count EXCEPT !.trouble = r.m.trouble ]
                  /\ last' = IF r.m.cut THEN last ELSE from
                  /\ nvs' = IF Committed(r.res) /\ ~r.m.cut /\ degraded THEN [ nvs EXCEPT !.fallback = "none" ] ELSE nvs
                  /\ UNCHANGED gone
    /\ UNCHANGED forked

Next ==
    \/ \E c \in BOOLEAN : Boot(c)
    \/ BootWithoutStorage \/ PowerOff \/ Recover \/ Flush \/ SettingsSaved
    \/ \E a \in Addresses : Seen(a) \/ Delete(a) \/ \E v \in Values : Edit(a, v)
    \/ DeleteStep \/ Resolve \/ Bootstrap
Spec == Init /\ [][Next]_vars

-----------------------------------------------------------------------------
(* Properties. *)

TypeOK ==
    /\ \A f \in { "card", "flash" }, c \in { "live", "prev" } :
         fs[f][c] # Nothing => fs[f][c].gen \in Nat \ { 0 } /\ fs[f][c].rows \in Rows
    /\ ram.rows \in Rows /\ \A a \in Addresses : Cardinality({ i \in DOMAIN ram.rows : ram.rows[i].addr = a }) <= 1
    /\ nvs.fallback \in Addresses \cup { "none" } /\ last \in Addresses \cup { "none" }
    /\ gone \subseteq Addresses

\* settings_v1_device_delete.cpp: an interruption can delay a deletion and
\* cannot bring the row back.  Once no deletion is pending, no deleted detector
\* that was not seen since is in the catalogue.
NoResurrection ==
    ram.ready /\ call.at = "none" /\ nvs.intent = Nothing /\ Readable(Machine) /\ ~forked =>
        \A a \in gone : ~Has(ram.rows, a)

\* What a boot loads is the catalogue last acknowledged as committed, or one a
\* power loss left in doubt: never a refused edit, never an older catalogue.
DurableStep ==
    ram'.ready /\ ram'.status = "valid" /\ (~ram.ready \/ ram.status = "unavailable") /\ ~forked' =>
        ram'.rows \in ack
DurableCatalog == [][DurableStep]_vars

\* When nothing is unsaved, both media hold the catalogue in RAM.
CleanMeansMirrored ==
    ram.ready /\ ram.status = "valid" /\ ~ram.dirty /\ ~ram.mirror =>
        \A f \in ToSet(MediaOf(Machine)) : Effective(fs[f]) = [ gen |-> ram.gen, rows |-> ram.rows ]

\* settings_setters.cpp: a confirmed connection uses the fallback key when the
\* store is unavailable, so a drive without storage is not forgotten.
FallbackStep == ram.on /\ ~ram.ready /\ last' # last => nvs'.fallback = last'
DegradedDriveIsKept == [][FallbackStep]_vars

=============================================================================

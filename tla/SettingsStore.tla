---------------------------- MODULE SettingsStore ----------------------------
(***************************************************************************)
(* The settings of the device in its key-value flash (NVS).  A complete   *)
(* payload is kept in two namespaces, A and B; a save stages the copy that *)
(* is not authoritative, key by key, and commits it with one last key.  A  *)
(* third namespace holds what an older firmware wrote.  The namespace      *)
(* named by the meta selector is only a cache.                             *)
(*                                                                         *)
(* Each key write is atomic and may fail; each read may fail; power may be *)
(* lost between any two of them, and forgets everything but the flash.     *)
(***************************************************************************)
EXTENDS Naturals

CONSTANTS
    Values,          \* complete settings
    Defaults,        \* the settings of a device that never saved
    Torn,            \* a payload some of whose keys are missing
    Rank,            \* the order of health and tie break among old copies
    MaxGeneration,   \* UINT32_MAX in the code
    Worlds,          \* which contents of the flash a first boot may find
    StepwiseErase    \* erasing a namespace can be cut short by power loss

ASSUME StoreAssumption ==
    /\ Defaults \in Values /\ Torn \notin Values
    /\ Rank \in [ Values -> Nat ]
    /\ MaxGeneration \in Nat \ { 0, 1 }
    /\ Worlds \subseteq { "fresh", "legacy", "generationless", "committed" }
    /\ StepwiseErase \in BOOLEAN

VARIABLES
    copy,       \* the three namespaces
    sel,        \* SETTINGS_NS_META: the cached selector
    ram,        \* settings_, Torn standing for "not loaded" too
    deferred,   \* deferredPersistPending_
    op          \* the storage procedure that runs, see OpType

vars == << copy, sel, ram, deferred, op >>
-----------------------------------------------------------------------------
AB == { "A", "B" }
Namespaces == AB \cup { "legacy" }
InPlace(n) == IF n = "B" THEN "B" ELSE "A"
Other(n) == IF n = "A" THEN "B" ELSE "A"      \* getStagingNamespace

(* gen and commit are 0 when their key is absent, body is Torn when no     *)
(* complete payload is there, valid is the nvsValid marker.                *)
Copy == [ gen : 0..MaxGeneration, body : Values \cup { Torn },
          valid : BOOLEAN, commit : 0..MaxGeneration ]
Empty == [ gen |-> 0, body |-> Torn, valid |-> FALSE, commit |-> 0 ]

Unloaded == Torn

Steps == { "boot", "idle", "find", "seed", "complete", "cache", "fields",
           "clear", "gen", "body", "mark", "recover", "select", "commit",
           "unselect", "unmark", "saved", "refused", "clean", "cleanLegacy" }

OpType ==
    [ pc : Steps,
      kind  : { "load", "now", "later", "clean" },
      old   : Values \cup { Torn },        \* the settings to fall back to
      from  : Namespaces,                  \* the authoritative copy found
      to    : AB,                          \* the staging copy
      next  : 0..MaxGeneration,            \* the generation being staged
      retry : BOOLEAN,                     \* the second write attempt
      bad   : BOOLEAN ]                    \* a key of this attempt failed

At(p) == op.pc = p
Go(p) == op' = [ op EXCEPT !.pc = p ]
Saves == op.kind \in { "now", "later" }
-----------------------------------------------------------------------------
(* getActiveNamespace: which copy is authoritative.                        *)

Generationless(c) == c.valid /\ c.gen = 0 /\ c.commit = 0
Adopted(c) == c.valid /\ c.gen = 0 /\ c.commit = 1
Generation(c) ==
    IF Adopted(c) THEN 1
    ELSE IF c.valid /\ c.commit = c.gen THEN c.gen ELSE 0

Committed == Generation(copy["A"]) > 0 \/ Generation(copy["B"]) > 0
(* Equal generations, which the code decides by a hash, do not occur.       *)
Newest == IF Generation(copy["A"]) >= Generation(copy["B"]) THEN "A" ELSE "B"

Weight(c) == IF c.body = Torn THEN 0 ELSE 1 + Rank[c.body]
Eligible(n) == IF n = "legacy" THEN copy[n].valid ELSE Generationless(copy[n])
Heaviest ==
    { n \in Namespaces :
        /\ Eligible(n)
        /\ \A m \in Namespaces : Eligible(m) => Weight(copy[m]) =< Weight(copy[n]) }
Healthiest ==      \* ties: legacy, then A
    IF Heaviest = {} \/ "legacy" \in Heaviest THEN "legacy"
    ELSE IF "A" \in Heaviest THEN "A" ELSE "B"

Found(active) ==
    IF Committed THEN Newest
    ELSE IF /\ active \in Namespaces
            /\ \/ active = "legacy" /\ copy[active].valid
               \/ active \in AB /\ Generationless(copy[active])
         THEN active ELSE Healthiest

FoundGeneration(n) == IF Committed THEN Generation(copy[Newest]) ELSE 0

(* What a boot would load now. *)
Authority == Found(sel)
Durable == IF copy[Authority] = Empty THEN Defaults ELSE copy[Authority].body
DurableGeneration == FoundGeneration(Authority)
-----------------------------------------------------------------------------
(* Reading: every procedure begins by finding the authoritative copy.      *)

Start(kind, old) ==
    op' = [ op EXCEPT !.pc = "find", !.kind = kind, !.old = old,
                      !.retry = FALSE, !.bad = FALSE ]

(* Where a procedure goes when no authoritative copy can be determined. *)
Abandon ==
    CASE op.kind = "load" -> "boot" [] Saves -> "refused" [] OTHER -> "idle"

(* Where a procedure goes once the authoritative copy n is known. *)
StagesPastTheLast(n, g) ==
    CASE op.kind = "load" -> IF copy[n] = Empty THEN "idle" ELSE "fields"
      [] op.kind = "clean" -> IF n = "legacy" THEN "idle" ELSE "clean"
      [] OTHER -> "clear"
Proceed(n, g) ==
    CASE op.kind = "load" -> IF copy[n] = Empty THEN "idle" ELSE "fields"
      [] op.kind = "clean" -> IF n = "legacy" THEN "idle" ELSE "clean"
      [] Saves /\ g < MaxGeneration -> "clear"
      [] OTHER -> "refused"

MustSeed(n) == n \in AB /\ Generation(copy[n]) = 0
AfterSeed(n) == IF n \in AB /\ Adopted(copy[n]) THEN "complete" ELSE "cache"

(* An unreadable selector reads as none, which only matters when no copy   *)
(* has a generation: then the search is given up, as it is when a copy     *)
(* cannot be read.                                                         *)
Find ==
    /\ At("find")
    /\ \/ Go(Abandon)
       \/ LET n == Found(sel) IN
          op' = [ op EXCEPT !.from = n, !.to = Other(n),
                            !.next = FoundGeneration(n),
                            !.pc = IF MustSeed(n) THEN "seed" ELSE AfterSeed(n) ]
    /\ UNCHANGED << copy, sel, ram, deferred >>

(* seedLegacyNamespaceGeneration: one key makes an old copy generation 1.  *)
(* It may be written and its verification fail; a save then gives up.      *)
Seeded(c) == [ c EXCEPT !.commit = 1 ]
AfterFailedSeed == IF Saves THEN "refused" ELSE "cache"

Seed ==
    /\ At("seed")
    /\ LET seeded == [ copy EXCEPT ![op.from] = Seeded(@) ] IN
       \/ /\ copy' = seeded
          /\ op' = [ op EXCEPT !.next = 1, !.pc = "complete" ]
       \/ /\ copy' \in { copy, seeded }
          /\ Go(AfterFailedSeed)
    /\ UNCHANGED << sel, ram, deferred >>

Complete ==
    /\ At("complete")
    /\ \/ copy' = [ copy EXCEPT ![op.from].gen = 1 ]
       \/ UNCHANGED copy
    /\ Go("cache")
    /\ UNCHANGED << sel, ram, deferred >>

(* The selector is brought up to date, then the search returns. *)
SameGeneration(g) == g
Successor(g) == g + 1

Cache ==
    /\ At("cache")
    /\ sel' \in { sel } \cup ({ op.from } \cap AB)
    /\ LET p == Proceed(op.from, op.next) IN
       /\ op' = [ op EXCEPT !.pc = p,
                            !.next = IF p = "clear" THEN Successor(@) ELSE @ ]
       /\ ram' = IF op.kind = "load" /\ p = "idle" THEN Defaults ELSE ram
    /\ UNCHANGED << copy, deferred >>

(* load(): a field that cannot be read takes its default, and then nothing *)
(* of the snapshot is published.                                           *)
PublishesAnyway(good) == TRUE
Publishes(good) == good

Fields ==
    /\ At("fields")
    /\ \E good \in BOOLEAN :
          IF Publishes(good)
          THEN ram' = (IF good THEN copy[op.from].body ELSE Defaults) /\ Go("idle")
          ELSE UNCHANGED ram /\ Go("boot")
    /\ UNCHANGED << copy, sel, deferred >>
-----------------------------------------------------------------------------
(* Erasing a namespace, which loses its keys one after the other.          *)

Smaller(c) ==
    { [ c EXCEPT !.gen = 0 ], [ c EXCEPT !.body = Torn ],
      [ c EXCEPT !.valid = FALSE ], [ c EXCEPT !.commit = 0 ] }

LosesKey(n) ==
    /\ StepwiseErase
    /\ copy[n] # Empty
    /\ \E c \in Smaller(copy[n]) \ { copy[n] } : copy' = [ copy EXCEPT ![n] = c ]
    /\ UNCHANGED op

Erased(n) == copy' = [ copy EXCEPT ![n] = Empty ]

(* A failed write attempt is repeated once, after clearing the copy that   *)
(* is not authoritative.                                                   *)
AfterFailure == IF op.retry THEN "refused" ELSE "recover"

(* writeSettingsToNamespace *)
Clear ==
    /\ At("clear")
    /\ \/ LosesKey(op.to)
       \/ Erased(op.to) /\ Go("gen")
       \/ UNCHANGED copy /\ Go(AfterFailure)
    /\ UNCHANGED << sel, ram, deferred >>

WriteGen ==
    /\ At("gen")
    /\ \/ /\ copy' = [ copy EXCEPT ![op.to].gen = op.next ]
          /\ Go("body")
       \/ /\ op' = [ op EXCEPT !.pc = "body", !.bad = TRUE ]
          /\ UNCHANGED copy
    /\ UNCHANGED << sel, ram, deferred >>

WriteBody ==
    /\ At("body")
    /\ \/ /\ copy' = [ copy EXCEPT ![op.to].body = ram ]
          /\ Go(IF op.bad THEN AfterFailure ELSE "mark")
       \/ /\ UNCHANGED copy
          /\ Go(AfterFailure)
    /\ UNCHANGED << sel, ram, deferred >>

(* The marker may be written and its verification fail. *)
WriteMark ==
    /\ At("mark")
    /\ \/ /\ copy' = [ copy EXCEPT ![op.to].valid = TRUE ]
          /\ Go("select") \/ Go(AfterFailure)
       \/ UNCHANGED copy /\ Go(AfterFailure)
    /\ UNCHANGED << sel, ram, deferred >>

(* attemptNvsRecovery *)
Recover ==
    /\ At("recover")
    /\ \/ op.from \in AB /\ LosesKey(op.to)
       \/ /\ \/ op.from \in AB /\ Erased(op.to)
             \/ UNCHANGED copy
          /\ op' = [ op EXCEPT !.pc = "clear", !.retry = TRUE, !.bad = FALSE ]
    /\ UNCHANGED << sel, ram, deferred >>

(* writeActiveNamespaceCache fails the save, whether or not it wrote. *)
Select ==
    /\ At("select")
    /\ \/ sel' = op.to /\ Go("commit")
       \/ sel' \in { sel, op.to } /\ Go("unmark")
    /\ UNCHANGED << copy, ram, deferred >>

(* finalizeNamespaceGeneration: the commit point. *)
Commit ==
    /\ At("commit")
    /\ \/ copy' = [ copy EXCEPT ![op.to].commit = op.next ] /\ Go("saved")
       \/ UNCHANGED copy /\ Go("unselect")
    /\ UNCHANGED << sel, ram, deferred >>

Unselect ==
    /\ At("unselect")
    /\ sel' \in { sel, op.from }
    /\ Go("unmark")
    /\ UNCHANGED << copy, ram, deferred >>

Unmark ==
    /\ At("unmark")
    /\ copy' \in { copy, [ copy EXCEPT ![op.to].valid = FALSE ] }
    /\ Go("refused")
    /\ UNCHANGED << sel, ram, deferred >>
-----------------------------------------------------------------------------
(* The callers.                                                            *)

Load ==
    /\ At("boot")
    /\ Start("load", Unloaded)
    /\ UNCHANGED << copy, sel, ram, deferred >>

(* finishSettingsMutation with an immediate mode. *)
EditNow(v) ==
    /\ At("idle") /\ v # ram
    /\ ram' = v
    /\ Start("now", ram)
    /\ UNCHANGED << copy, sel, deferred >>

(* finishSettingsMutation with SettingsPersistMode::Deferred. *)
EditLater(v) ==
    /\ At("idle") /\ v # ram
    /\ ram' = v /\ deferred' = TRUE
    /\ UNCHANGED << copy, sel, op >>

(* serviceDeferredPersist, its debounce or retry time reached. *)
ServiceDeferred ==
    /\ At("idle") /\ deferred
    /\ Start("later", ram)
    /\ UNCHANGED << copy, sel, ram, deferred >>

Saved ==
    /\ At("saved")
    /\ deferred' = FALSE
    /\ Go("idle")
    /\ UNCHANGED << copy, sel, ram >>

KeepsFailedEdit == ram
RolledBack == op.old

Refused ==
    /\ At("refused")
    /\ ram' = RolledBack
    /\ Go("idle")
    /\ UNCHANGED << copy, sel, deferred >>

(* cleanupNamespacesIfNeeded: the flash is nearly full.  It ends the check *)
(* for a restore, which may itself have saved, so it can follow any        *)
(* procedure.  The legacy copy is cleared too when the SD card holds a     *)
(* backup.                                                                 *)
CleanUp ==
    /\ At("idle")
    /\ Start("clean", ram)
    /\ UNCHANGED << copy, sel, ram, deferred >>

CleanInactive ==
    /\ At("clean")
    /\ \/ LosesKey(op.to)
       \/ /\ Erased(op.to) \/ UNCHANGED copy
          /\ Go("cleanLegacy") \/ Go("idle")
    /\ UNCHANGED << sel, ram, deferred >>

CleanLegacy ==
    /\ At("cleanLegacy")
    /\ \/ LosesKey("legacy")
       \/ (Erased("legacy") \/ UNCHANGED copy) /\ Go("idle")
    /\ UNCHANGED << sel, ram, deferred >>

(* Power loss. *)
Crash ==
    /\ ~At("boot")
    /\ ram' = Unloaded /\ deferred' = FALSE
    /\ op' = [ op EXCEPT !.pc = "boot" ]
    /\ UNCHANGED << copy, sel >>
-----------------------------------------------------------------------------
(* The flash a boot may find: never used; written by an older firmware in  *)
(* the legacy namespace; written by one that had A and B without           *)
(* generations; or written by this one.                                    *)

Old(v) == [ gen |-> 0, body |-> v, valid |-> TRUE, commit |-> 0 ]
New(v, g) == [ gen |-> g, body |-> v, valid |-> TRUE, commit |-> g ]
Flash(a, b, l) == [ n \in Namespaces |->
                       IF n = "A" THEN a ELSE IF n = "B" THEN b ELSE l ]
OldOrNone == { Empty } \cup { Old(v) : v \in Values }

World(w) ==
    CASE w = "fresh" ->
            copy = Flash(Empty, Empty, Empty) /\ sel = "none"
      [] w = "legacy" ->
            /\ \E v \in Values : copy = Flash(Empty, Empty, Old(v))
            /\ sel \in { "none", "legacy" }
      [] w = "generationless" ->
            /\ \E v \in Values, b, l \in OldOrNone : copy = Flash(Old(v), b, l)
            /\ sel = "A"
      [] w = "committed" ->
            /\ \E v \in Values, b \in { Empty } \cup { New(u, 1) : u \in Values },
                  l \in OldOrNone : copy = Flash(New(v, 2), b, l)
            /\ sel \in { "none", "A", "B" }

Init ==
    /\ \E w \in Worlds : World(w)
    /\ ram = Unloaded /\ deferred = FALSE
    /\ op = [ pc |-> "boot", kind |-> "load", old |-> Unloaded, from |-> "legacy",
              to |-> "A", next |-> 0, retry |-> FALSE, bad |-> FALSE ]

Reading == Load \/ Find \/ Seed \/ Complete \/ Cache \/ Fields
Writing == \/ Clear \/ WriteGen \/ WriteBody \/ WriteMark \/ Recover
           \/ Select \/ Commit \/ Unselect \/ Unmark \/ Saved \/ Refused
Cleaning == CleanUp \/ CleanInactive \/ CleanLegacy
Editing == ServiceDeferred \/ \E v \in Values : EditNow(v) \/ EditLater(v)

Next == Reading \/ Writing \/ Cleaning \/ Editing \/ Crash

Spec == Init /\ [][Next]_vars
-----------------------------------------------------------------------------
(* Properties                                                              *)

(* Every variable has its type; in particular no staged generation passes  *)
(* the largest one the counter can hold (persistSettingsAtomically).       *)
TypeOK ==
    /\ copy \in [ Namespaces -> Copy ]
    /\ sel \in Namespaces \cup { "none" }
    /\ ram \in Values \cup { Unloaded }
    /\ deferred \in BOOLEAN
    /\ op \in OpType

(* Settings in memory that differ from the ones the next boot would load   *)
(* are settings a write is still owed for: a failed save leaves neither    *)
(* its own edit behind nor an earlier deferred one forgotten.              *)
UnsavedIsPending == At("idle") /\ ram # Durable => deferred

(* A boot loads the settings of the last committed save, whatever reads    *)
(* and writes failed before and wherever power was lost.                   *)
LoadsDurable == [][ram = Unloaded /\ ram' # Unloaded => ram' = Durable]_vars

(* The two copies never compete: below the newest committed generation     *)
(* the other copy has an older one or none, so losing any key of the       *)
(* staged copy cannot change which copy is read.                           *)
OneAuthority ==
    Committed => Generation(copy["A"]) # Generation(copy["B"])

(* A copy that a save began does not come to look like the copy of a        *)
(* firmware without generations, whose payload needs no commit ("Normal    *)
(* staging always writes gen before any payload fields, so it cannot       *)
(* produce this representation").                                          *)
NeverReadsAsLegacy ==
    [][\A n \in AB : Generationless(copy[n])' => Generationless(copy[n])]_vars

Register == INSTANCE SettingsRegister WITH
    durable <- Durable,
    gen <- DurableGeneration,
    saving <- IF Saves /\ ~At("boot") /\ ~At("idle") THEN { ram } ELSE {},
    reply <- IF ~Saves THEN "none"
             ELSE IF At("saved") THEN "ok"
             ELSE IF At("refused") THEN "failed" ELSE "none"

(* The two copies, the selector and the order of the key writes amount to  *)
(* a register: a save that reports success is durable, one that fails or   *)
(* is cut by power loss before its commit key changes nothing.             *)
ImplementsRegister == Register!Spec
=============================================================================

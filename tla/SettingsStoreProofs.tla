------------------------- MODULE SettingsStoreProofs -------------------------
(***************************************************************************)
(* Type correctness of the settings store, that its two copies never       *)
(* compete, that memory follows the flash, and that it implements the      *)
(* register SettingsRegister: for every set of settings, every number of   *)
(* generations and every kind of flash a boot may find.                    *)
(*                                                                         *)
(* OneAuthority is not inductive: that a commit makes a generation no      *)
(* other copy has follows from what the procedure learned when it began,   *)
(* and must be carried through every step of it, failures included.  That  *)
(* is IInv.  The register needs more, JInv: which copy a boot would load   *)
(* between any two key writes, and what memory owes it.                    *)
(***************************************************************************)
EXTENDS SettingsStore, TLAPS

(* The two keys of a copy never name different generations, so a copy that *)
(* loses keys keeps its generation or has none.                            *)
KeysAgree(c) == c.gen # 0 /\ c.commit # 0 => c.gen = c.commit

(* Only a copy without keys is seeded, and only when nothing is committed. *)
SeedsOld == At("seed") => /\ op.from \in AB
                          /\ Generationless(copy[op.from])
                          /\ ~Committed

CompletesAdopted == At("complete") => /\ op.from \in AB
                                      /\ Adopted(copy[op.from])

(* The search of a save knows a generation that no copy exceeds ...        *)
Learned == (At("complete") \/ At("cache")) /\ Saves =>
               \A n \in AB : Generation(copy[n]) =< op.next

(* ... and from then on it stages the next one.                            *)
Staging == { "clear", "gen", "body", "mark", "recover", "select", "commit" }
Outranks == op.pc \in Staging => \A n \in AB : Generation(copy[n]) < op.next

(* What the staged copy holds while it is written. *)
StagedKeys ==
    /\ At("gen") => copy[op.to].gen = 0 /\ copy[op.to].commit = 0
    /\ At("body") => /\ op.bad \/ copy[op.to].gen = op.next
                     /\ copy[op.to].commit = 0
    /\ op.pc \in { "mark", "select", "commit" } =>
           /\ copy[op.to].gen = op.next
           /\ copy[op.to].commit = 0

IInv ==
    /\ TypeOK
    /\ \A n \in AB : KeysAgree(copy[n])
    /\ SeedsOld /\ CompletesAdopted
    /\ Learned /\ Outranks /\ StagedKeys
    /\ OneAuthority
-----------------------------------------------------------------------------
(* The generation of a copy is a number the counter can hold. *)
LEMMA GenerationBounded ==
    ASSUME NEW c \in Copy
    PROVE  Generation(c) \in 0..MaxGeneration
BY StoreAssumption DEF Copy, Generation, Adopted

(* Losing a key leaves a copy. *)
LEMMA SmallerCopy ==
    ASSUME NEW c \in Copy, NEW d \in Smaller(c)
    PROVE  d \in Copy
<1>1. c.gen \in Nat /\ c.commit \in Nat /\ 0 \in 0..MaxGeneration
  BY StoreAssumption DEF Copy
<1>2. QED
  BY <1>1 DEF Copy, Smaller

(* A copy that loses one of its keys keeps its generation or has none.     *)
LEMMA LosingAKey ==
    ASSUME NEW c \in Copy, KeysAgree(c), NEW d \in Smaller(c)
    PROVE  d \in Copy /\ KeysAgree(d) /\ Generation(d) \in { 0, Generation(c) }
<1>1. c.gen \in Nat /\ c.commit \in Nat /\ 0 \in 0..MaxGeneration
  BY StoreAssumption DEF Copy
<1>2. d \in Copy
  BY SmallerCopy
<1>3. \/ d.gen = 0 /\ d.commit = c.commit /\ d.valid = c.valid
      \/ d.gen = c.gen /\ d.commit = c.commit /\ d.valid = c.valid
      \/ d.gen = c.gen /\ d.commit = c.commit /\ d.valid = FALSE
      \/ d.gen = c.gen /\ d.commit = 0 /\ d.valid = c.valid
  BY DEF Copy, Smaller
<1>4. QED
  BY <1>1, <1>2, <1>3 DEF KeysAgree, Generation, Adopted

(* An erased copy has no generation. *)
LEMMA ErasedCopy == Empty \in Copy /\ KeysAgree(Empty) /\ Generation(Empty) = 0
BY StoreAssumption DEF Empty, Copy, KeysAgree, Generation, Adopted

(* What the search finds: its generation outranks every copy, and a copy   *)
(* without one is an old copy, found when nothing was committed.           *)
LEMMA Search ==
    ASSUME TypeOK
    PROVE  LET n == Found(sel) IN
           /\ n \in Namespaces
           /\ FoundGeneration(n) \in 0..MaxGeneration
           /\ \A m \in AB : Generation(copy[m]) =< FoundGeneration(n)
           /\ MustSeed(n) => Generationless(copy[n]) /\ ~Committed
<1>1. \A m \in AB : Generation(copy[m]) \in 0..MaxGeneration
  BY GenerationBounded DEF TypeOK, AB, Namespaces
<1>2. Healthiest \in Namespaces
      /\ (Healthiest \in AB => Generationless(copy[Healthiest]))
  BY DEF Healthiest, Heaviest, Eligible, Namespaces, AB
<1>3. CASE Committed
  BY <1>1, <1>3, StoreAssumption
     DEF Found, FoundGeneration, Committed, Newest, MustSeed, AB, Namespaces
<1>4. CASE ~Committed
  BY <1>1, <1>2, <1>4, StoreAssumption
     DEF Found, FoundGeneration, Committed, MustSeed, AB, Namespaces
<1>5. QED  BY <1>3, <1>4
-----------------------------------------------------------------------------
(* Losing keys, whichever way, disturbs neither the keys of a copy nor the *)
(* order of the two.                                                       *)
Weakened(n) == /\ copy'[n] \in Copy /\ KeysAgree(copy'[n])
               /\ Generation(copy'[n]) \in { 0, Generation(copy[n]) }
               /\ copy' = [ copy EXCEPT ![n] = copy'[n] ]

LEMMA LosingKeys ==
    ASSUME TypeOK, \A n \in AB : KeysAgree(copy[n]), OneAuthority,
           NEW n \in AB, LosesKey(n) \/ Erased(n)
    PROVE  Weakened(n)
<1>1. n \in Namespaces /\ copy[n] \in Copy /\ KeysAgree(copy[n])
  BY DEF TypeOK, AB, Namespaces
<1>2. CASE Erased(n)
  <2>1. copy' = [ copy EXCEPT ![n] = Empty ] /\ copy'[n] = Empty
    BY <1>1, <1>2 DEF Erased, TypeOK
  <2>2. QED
    BY <2>1, ErasedCopy DEF Weakened
<1>3. CASE LosesKey(n)
  <2>1. PICK c \in Smaller(copy[n]) : copy' = [ copy EXCEPT ![n] = c ]
    BY <1>3 DEF LosesKey
  <2>2. copy'[n] = c
    BY <1>1, <2>1 DEF TypeOK
  <2>3. QED
    BY <1>1, <2>1, <2>2, LosingAKey DEF Weakened
<1>4. QED
  BY <1>2, <1>3

LEMMA WeakenedOrder ==
    ASSUME TypeOK, \A m \in AB : KeysAgree(copy[m]), OneAuthority,
           NEW n \in AB, Weakened(n)
    PROVE  /\ copy' \in [ Namespaces -> Copy ]
           /\ \A m \in AB : KeysAgree(copy'[m])
           /\ \A m \in AB : Generation(copy'[m]) \in { 0, Generation(copy[m]) }
           /\ OneAuthority'
<1>1. copy' \in [ Namespaces -> Copy ] /\ n \in Namespaces
  BY DEF Weakened, TypeOK, AB, Namespaces
<1>2. \A m \in Namespaces : m # n => copy'[m] = copy[m]
  BY DEF Weakened, TypeOK
<1>3. \A m \in AB : /\ KeysAgree(copy'[m])
                    /\ Generation(copy'[m]) \in { 0, Generation(copy[m]) }
  BY <1>2 DEF Weakened, AB, Namespaces
<1>4. /\ Generation(copy["A"]) \in Nat /\ Generation(copy["B"]) \in Nat
      /\ Generation(copy'["A"]) \in { 0, Generation(copy["A"]) }
      /\ Generation(copy'["B"]) \in { 0, Generation(copy["B"]) }
  BY <1>3, GenerationBounded, StoreAssumption DEF TypeOK, AB, Namespaces
<1>5. OneAuthority'
  BY <1>4 DEF OneAuthority, Committed
<1>6. QED
  BY <1>1, <1>3, <1>5
-----------------------------------------------------------------------------
(* The boot finds flash in which the order already holds. *)
LEMMA OldCopy ==
    ASSUME NEW v \in Values
    PROVE  Old(v) \in Copy /\ KeysAgree(Old(v)) /\ Generation(Old(v)) = 0
BY StoreAssumption DEF Old, Copy, KeysAgree, Generation, Adopted

LEMMA NewCopy ==
    ASSUME NEW v \in Values, NEW g \in { 1, 2 }
    PROVE  New(v, g) \in Copy /\ KeysAgree(New(v, g)) /\ Generation(New(v, g)) = g
BY StoreAssumption DEF New, Copy, KeysAgree, Generation, Adopted

LEMMA InitialFlash ==
    ASSUME Init
    PROVE  /\ copy \in [ Namespaces -> Copy ]
           /\ \A n \in AB : KeysAgree(copy[n])
           /\ OneAuthority
           /\ sel \in Namespaces \cup { "none" }
<1>1. PICK w \in Worlds : World(w)
  BY DEF Init
<1>2. w \in { "fresh", "legacy", "generationless", "committed" }
  BY StoreAssumption
<1>3. \A c \in OldOrNone : c \in Copy /\ KeysAgree(c) /\ Generation(c) = 0
  BY OldCopy, ErasedCopy DEF OldOrNone
<1>4. /\ Empty \in OldOrNone
      /\ \A v \in Values : Old(v) \in OldOrNone
  BY DEF OldOrNone
<1>5. CASE w # "committed"
  <2>1. PICK a \in OldOrNone, b \in OldOrNone, l \in OldOrNone : copy = Flash(a, b, l)
    BY <1>1, <1>2, <1>4, <1>5 DEF World
  <2>2. sel \in Namespaces \cup { "none" }
    BY <1>1, <1>2, <1>5 DEF World, Namespaces, AB
  <2>3. copy["A"] = a /\ copy["B"] = b /\ copy["legacy"] = l
    BY <2>1 DEF Flash, Namespaces, AB
  <2>4. copy \in [ Namespaces -> Copy ]
    BY <1>3, <2>1 DEF Flash, Namespaces, AB
  <2>5. QED
    BY <1>3, <2>2, <2>3, <2>4 DEF OneAuthority, Committed, AB
<1>6. CASE w = "committed"
  <2>1. PICK v \in Values,
             b \in { Empty } \cup { New(u, 1) : u \in Values },
             l \in OldOrNone : copy = Flash(New(v, 2), b, l)
    BY <1>1, <1>6 DEF World
  <2>2. sel \in Namespaces \cup { "none" }
    BY <1>1, <1>6 DEF World, Namespaces, AB
  <2>3. /\ b \in Copy /\ KeysAgree(b) /\ Generation(b) \in { 0, 1 }
        /\ New(v, 2) \in Copy /\ KeysAgree(New(v, 2)) /\ Generation(New(v, 2)) = 2
    BY ErasedCopy, NewCopy
  <2>4. copy["A"] = New(v, 2) /\ copy["B"] = b /\ copy["legacy"] = l
    BY <2>1 DEF Flash, Namespaces, AB
  <2>5. copy \in [ Namespaces -> Copy ]
    BY <1>3, <2>1, <2>3 DEF Flash, Namespaces, AB
  <2>6. QED
    BY <2>2, <2>3, <2>4, <2>5 DEF OneAuthority, AB
<1>7. QED
  BY <1>5, <1>6

LEMMA InitIInv == Init => IInv
<1> SUFFICES ASSUME Init PROVE IInv
  OBVIOUS
<1>1. At("boot") /\ ram \in Values \cup { Unloaded } /\ deferred \in BOOLEAN
  BY DEF Init, At, Unloaded
<1>2. op \in OpType
  BY StoreAssumption DEF Init, OpType, Steps, Unloaded, Namespaces, AB
<1>3. TypeOK
  BY <1>1, <1>2, InitialFlash DEF TypeOK
<1>4. QED
  BY <1>1, <1>3, InitialFlash
     DEF IInv, At, SeedsOld, CompletesAdopted, Learned, Outranks, Staging, StagedKeys
-----------------------------------------------------------------------------
(* A procedure that goes to another step, with another generation perhaps, *)
(* is otherwise the same procedure.                                        *)
LEMMA NextStep ==
    ASSUME op \in OpType, NEW p \in Steps, NEW g \in 0..MaxGeneration,
           op' = [ op EXCEPT !.pc = p, !.next = g ]
    PROVE  /\ op' \in OpType /\ op'.pc = p /\ op'.next = g
           /\ op'.kind = op.kind /\ op'.from = op.from /\ op'.to = op.to
           /\ op'.bad = op.bad
BY DEF OpType

(* Every step carries the order on. *)
LEMMA ReadingKeeps == IInv /\ Reading => IInv'
<1> SUFFICES ASSUME IInv, Reading PROVE IInv'
  OBVIOUS
<1> USE DEF At, Go
<1>1. CASE Load
  BY <1>1 DEF Load, Start, IInv, TypeOK, OpType, Steps, SeedsOld, CompletesAdopted, Learned, Outranks, Staging, StagedKeys, OneAuthority, Committed, Unloaded
<1>2. CASE Find
  <2>1. CASE Go(Abandon)
    BY <1>2, <2>1 DEF Find, Abandon, Saves, IInv, TypeOK, OpType, Steps, SeedsOld,
          CompletesAdopted, Learned, Outranks, Staging, StagedKeys, OneAuthority, Committed
  <2>2. CASE \E n : /\ n = Found(sel)
                    /\ op' = [ op EXCEPT !.from = n, !.to = Other(n),
                                 !.next = FoundGeneration(n),
                                 !.pc = IF MustSeed(n) THEN "seed" ELSE AfterSeed(n) ]
    <3>1. PICK n : /\ n = Found(sel)
                   /\ op' = [ op EXCEPT !.from = n, !.to = Other(n),
                                 !.next = FoundGeneration(n),
                                 !.pc = IF MustSeed(n) THEN "seed" ELSE AfterSeed(n) ]
      BY <2>2
    <3>2. /\ n \in Namespaces /\ FoundGeneration(n) \in 0..MaxGeneration
          /\ \A m \in AB : Generation(copy[m]) =< FoundGeneration(n)
          /\ MustSeed(n) => Generationless(copy[n]) /\ ~Committed /\ n \in AB
          /\ AfterSeed(n) \in { "complete", "cache" }
          /\ AfterSeed(n) = "complete" => n \in AB /\ Adopted(copy[n])
          /\ Other(n) \in AB
      BY <3>1, Search DEF IInv, MustSeed, AfterSeed, Other, AB
    <3>3. /\ op'.pc \in { "seed", "complete", "cache" }
          /\ op'.pc = "seed" => MustSeed(n)
          /\ op'.pc = "complete" => AfterSeed(n) = "complete"
          /\ op'.from = n /\ op'.next = FoundGeneration(n)
          /\ op' \in OpType
          /\ copy' = copy
      BY <1>2, <3>1, <3>2 DEF Find, IInv, TypeOK, OpType, Steps
    <3>4. TypeOK'
      BY <1>2, <3>3 DEF Find, IInv, TypeOK
    <3>5. QED
      BY <3>2, <3>3, <3>4 DEF IInv, SeedsOld, CompletesAdopted, Learned, Outranks,
            Staging, StagedKeys, OneAuthority, Committed
  <2>3. QED
    BY <1>2, <2>1, <2>2 DEF Find
<1>3. CASE Seed
  <2>1. /\ op.from \in AB /\ Generationless(copy[op.from]) /\ ~Committed
        /\ copy[op.from] \in Copy
    BY <1>3 DEF Seed, IInv, SeedsOld, TypeOK, AB, Namespaces
  <2> DEFINE seeded == [ copy EXCEPT ![op.from] = Seeded(@) ]
             c == Seeded(copy[op.from])
  <2>2. c \in Copy /\ KeysAgree(c) /\ Adopted(c) /\ Generation(c) = 1
    BY <2>1, StoreAssumption
       DEF Seeded, Copy, KeysAgree, Adopted, Generation, Generationless
  <2>3. /\ seeded \in [ Namespaces -> Copy ]
        /\ seeded[op.from] = c
        /\ \A m \in Namespaces : m # op.from => seeded[m] = copy[m]
    BY <2>1, <2>2 DEF IInv, TypeOK, AB, Namespaces
  <2>4. \A m \in AB : Generation(copy[m]) = 0
    <3>1. \A m \in AB : Generation(copy[m]) \in Nat
      BY GenerationBounded, StoreAssumption DEF IInv, TypeOK, AB, Namespaces
    <3>2. QED  BY <2>1, <3>1 DEF Committed, AB
  <2>5. /\ \A m \in AB : KeysAgree(seeded[m])
        /\ \A m \in AB : Generation(seeded[m]) =< 1
        /\ \A m \in AB : m # op.from => Generation(seeded[m]) = 0
    BY <2>1, <2>2, <2>3, <2>4 DEF IInv, AB, Namespaces
  <2>9. /\ op' \in OpType /\ op'.from = op.from
        /\ \/ op'.pc = "complete" /\ op'.next = 1 /\ copy' = seeded
           \/ op'.pc \in { "refused", "cache" } /\ (op'.pc = "cache" => ~Saves')
    <3>1. CASE op' = [ op EXCEPT !.next = 1, !.pc = "complete" ] /\ copy' = seeded
      <4>1. op' = [ op EXCEPT !.pc = "complete", !.next = 1 ]
        BY <3>1
      <4>2. 1 \in 0..MaxGeneration /\ "complete" \in Steps /\ op \in OpType
        BY StoreAssumption DEF IInv, TypeOK, Steps
      <4>3. QED  BY <3>1, <4>1, <4>2, NextStep
    <3>2. CASE op' = [ op EXCEPT !.pc = AfterFailedSeed ]
      <4>1. /\ op' \in OpType /\ op'.from = op.from /\ op'.kind = op.kind
            /\ op'.pc = AfterFailedSeed /\ AfterFailedSeed \in { "refused", "cache" }
        BY <3>2 DEF IInv, TypeOK, OpType, Steps, AfterFailedSeed
      <4>2. QED  BY <4>1 DEF AfterFailedSeed, Saves
    <3>3. QED  BY <1>3, <3>1, <3>2 DEF Seed
  <2>6. CASE copy' = copy
    <3>1. TypeOK'
      BY <1>3, <2>6, <2>9 DEF Seed, IInv, TypeOK
    <3>2. CASE copy = seeded
      BY <2>2, <2>3, <2>1, <3>2 DEF Adopted, Generationless
    <3>3. CASE copy # seeded
      BY <2>6, <2>9, <3>1, <3>3 DEF IInv, SeedsOld,
         CompletesAdopted, Learned, Outranks, Staging, StagedKeys, OneAuthority, Committed
    <3>4. QED  BY <3>2, <3>3
  <2>7. CASE copy' = seeded
    <3>1. OneAuthority'
      BY <2>1, <2>2, <2>3, <2>5, <2>7 DEF OneAuthority, AB
    <3>3. TypeOK'
      BY <1>3, <2>3, <2>7, <2>9 DEF Seed, IInv, TypeOK
    <3>4. QED
      BY <2>1, <2>2, <2>3, <2>5, <2>7, <2>9, <3>1, <3>3
         DEF IInv, SeedsOld, CompletesAdopted, Learned, Outranks, Staging, StagedKeys, Saves
  <2>8. QED
    BY <1>3, <2>6, <2>7 DEF Seed
<1>4. CASE Complete
  <2> DEFINE c == [ copy[op.from] EXCEPT !.gen = 1 ]
  <2>1. /\ op.from \in AB /\ Adopted(copy[op.from]) /\ copy[op.from] \in Copy
        /\ Learned
    BY <1>4 DEF Complete, IInv, CompletesAdopted, TypeOK, AB, Namespaces
  <2>2. c \in Copy /\ KeysAgree(c) /\ Generation(c) = Generation(copy[op.from])
    BY <2>1, StoreAssumption DEF Copy, KeysAgree, Adopted, Generation
  <2>3. op' \in OpType /\ op'.pc = "cache" /\ op'.kind = op.kind /\ op'.next = op.next
    BY <1>4 DEF Complete, IInv, TypeOK, OpType, Steps
  <2>4. /\ copy' \in [ Namespaces -> Copy ]
        /\ \A m \in AB : KeysAgree(copy'[m]) /\ Generation(copy'[m]) = Generation(copy[m])
    <3>1. CASE copy' = copy
      BY <3>1 DEF IInv, TypeOK
    <3>2. CASE copy' = [ copy EXCEPT ![op.from] = c ]
      BY <2>1, <2>2, <3>2 DEF IInv, TypeOK, AB, Namespaces
    <3>3. QED
      BY <1>4, <3>1, <3>2 DEF Complete
  <2>5. TypeOK'
    BY <1>4, <2>3, <2>4 DEF Complete, IInv, TypeOK
  <2>6. OneAuthority'
    BY <2>4 DEF IInv, OneAuthority, Committed, AB
  <2>7. Learned'
    BY <1>4, <2>1, <2>3, <2>4 DEF Complete, Learned, Saves
  <2>8. QED
    BY <2>3, <2>4, <2>5, <2>6, <2>7
       DEF IInv, SeedsOld, CompletesAdopted, Outranks, Staging, StagedKeys
<1>5. CASE Cache
  <2> DEFINE p == Proceed(op.from, op.next)
             o == [ op EXCEPT !.pc = p,
                              !.next = IF p = "clear" THEN Successor(@) ELSE @ ]
  <2>1. /\ p \in { "idle", "fields", "clean", "clear", "refused" }
        /\ p = "clear" => Saves /\ op.next < MaxGeneration
    BY DEF Proceed, Saves
  <2>2. op' = o /\ copy' = copy /\ deferred' = deferred
    BY <1>5 DEF Cache
  <2>3. /\ op' \in OpType /\ op'.pc = p
        /\ p = "clear" => op'.next = op.next + 1
    <3> DEFINE g == IF p = "clear" THEN Successor(op.next) ELSE op.next
    <3>1. /\ p \in Steps /\ op \in OpType /\ op.next \in 0..MaxGeneration
          /\ MaxGeneration \in Nat
      BY <2>1, StoreAssumption DEF IInv, TypeOK, OpType, Steps
    <3>2. g \in 0..MaxGeneration
      BY <2>1, <3>1 DEF Successor
    <3>3. op' = [ op EXCEPT !.pc = p, !.next = g ]
      BY <2>2
    <3> HIDE DEF p, g
    <3>4. op' \in OpType /\ op'.pc = p /\ op'.next = g
      BY <3>1, <3>2, <3>3, NextStep
    <3>5. QED
      BY <3>4 DEF g, Successor
  <2>4. ram' \in Values \cup { Unloaded } /\ sel' \in Namespaces \cup { "none" }
    BY <1>5, StoreAssumption DEF Cache, IInv, TypeOK, Namespaces, AB
  <2>5. TypeOK'
    BY <2>2, <2>3, <2>4 DEF IInv, TypeOK
  <2>6. Outranks'
    <3>1. SUFFICES ASSUME p = "clear" PROVE Outranks'
      BY <2>1, <2>3 DEF Outranks, Staging
    <3>2. \A n \in AB : Generation(copy[n]) =< op.next
      BY <1>5, <2>1, <3>1 DEF Cache, IInv, Learned
    <3>3. \A n \in AB : Generation(copy[n]) \in Nat
      BY GenerationBounded, StoreAssumption DEF IInv, TypeOK, AB, Namespaces
    <3>4. op.next \in Nat
      BY StoreAssumption DEF IInv, TypeOK, OpType
    <3>5. QED
      BY <2>2, <2>3, <3>1, <3>2, <3>3, <3>4 DEF Outranks
  <2>7. QED
    BY <2>1, <2>2, <2>3, <2>5, <2>6
       DEF IInv, SeedsOld, CompletesAdopted, Learned, StagedKeys, OneAuthority, Committed
<1>6. CASE Fields
  <2>1. ram' \in Values \cup { Unloaded }
    BY <1>6, StoreAssumption DEF Fields, IInv, TypeOK, OpType, Copy, Unloaded
  <2>2. QED
    BY <1>6, <2>1 DEF Fields, IInv, TypeOK, OpType, Steps, SeedsOld, CompletesAdopted,
          Learned, Outranks, Staging, StagedKeys, OneAuthority, Committed
<1>7. QED
  BY <1>1, <1>2, <1>3, <1>4, <1>5, <1>6 DEF Reading
-----------------------------------------------------------------------------
(* A copy without a commit key has no generation. *)
LEMMA Uncommitted ==
    ASSUME NEW c \in Copy, c.commit = 0
    PROVE  KeysAgree(c) /\ Generation(c) = 0
BY StoreAssumption DEF Copy, KeysAgree, Generation, Adopted

(* Steps that leave the flash alone, or weaken the staged copy.            *)
LEMMA StagingFades ==
    ASSUME IInv, copy' = copy \/ Weakened(op.to)
    PROVE  /\ copy' \in [ Namespaces -> Copy ]
           /\ \A m \in AB : KeysAgree(copy'[m])
           /\ \A m \in AB : Generation(copy'[m]) \in { 0, Generation(copy[m]) }
           /\ \A m \in AB : \A g \in Nat :
                  Generation(copy[m]) < g => Generation(copy'[m]) < g
           /\ OneAuthority'
<1>1. op.to \in AB
  BY DEF IInv, TypeOK, OpType
<1>2. /\ copy' \in [ Namespaces -> Copy ]
      /\ \A m \in AB : KeysAgree(copy'[m])
      /\ \A m \in AB : Generation(copy'[m]) \in { 0, Generation(copy[m]) }
      /\ OneAuthority'
  <2>1. CASE copy' = copy
    BY <2>1 DEF IInv, TypeOK, OneAuthority, Committed
  <2>2. CASE Weakened(op.to)
    BY <1>1, <2>2, WeakenedOrder DEF IInv
  <2>3. QED
    BY <2>1, <2>2
<1>3. \A m \in AB : Generation(copy[m]) \in Nat
  BY GenerationBounded, StoreAssumption DEF IInv, TypeOK, AB, Namespaces
<1>4. QED
  BY <1>2, <1>3

(* A procedure that goes to step p, having weakened the staged copy only.  *)
LEMMA WritingStep ==
    ASSUME IInv, op.pc \in Staging, copy' = copy \/ Weakened(op.to),
           op' \in OpType, op'.to = op.to, op'.next = op.next,
           op'.pc \in Staging \cup { "unselect", "unmark", "saved", "refused" },
           StagedKeys', TypeOK'
    PROVE  IInv'
<1>1. op.next \in Nat
  BY StoreAssumption DEF IInv, TypeOK, OpType
<1>2. Outranks'
  BY <1>1, StagingFades DEF IInv, Outranks
<1>3. QED
  BY <1>2, StagingFades
     DEF IInv, SeedsOld, CompletesAdopted, Learned, At, Staging

(* A key written to a copy without a commit key weakens it, as the order   *)
(* of the two copies goes.                                                 *)
LEMMA UncommittedWrite ==
    ASSUME IInv, copy[op.to].commit = 0, NEW d \in Copy, d.commit = 0,
           copy' = [ copy EXCEPT ![op.to] = d ]
    PROVE  Weakened(op.to) /\ copy'[op.to] = d
<1>1. op.to \in Namespaces /\ copy[op.to] \in Copy /\ copy \in [ Namespaces -> Copy ]
  BY DEF IInv, TypeOK, OpType, AB, Namespaces
<1>2. copy'[op.to] = d
  BY <1>1
<1>3. QED
  BY <1>1, <1>2, Uncommitted DEF Weakened

LEMMA WritingKeeps == IInv /\ Writing => IInv'
<1> SUFFICES ASSUME IInv, Writing PROVE IInv'
  OBVIOUS
<1> USE DEF At, Go
<1>a. /\ op \in OpType /\ op.to \in AB /\ op.to \in Namespaces
      /\ op.next \in 0..MaxGeneration
      /\ copy \in [ Namespaces -> Copy ] /\ copy[op.to] \in Copy
      /\ \A m \in AB : KeysAgree(copy[m])
      /\ ram \in Values \cup { Torn } /\ deferred \in BOOLEAN
      /\ sel \in Namespaces \cup { "none" }
      /\ TypeOK /\ OneAuthority
  BY DEF IInv, TypeOK, OpType, AB, Namespaces, Unloaded
<1>b. AfterFailure \in { "refused", "recover" }
  BY DEF AfterFailure
<1>1. CASE Clear
  <2>1. LosesKey(op.to) \/ Erased(op.to) => Weakened(op.to)
    BY <1>a, LosingKeys
  <2>2. copy' = copy \/ Weakened(op.to)
    BY <1>1, <2>1 DEF Clear
  <2>3. /\ op' \in OpType /\ op'.to = op.to /\ op'.next = op.next
        /\ op'.pc \in { "clear", "gen", "recover", "refused" }
        /\ op'.pc = "gen" => Erased(op.to)
    BY <1>1, <1>a, <1>b DEF Clear, LosesKey, OpType, Steps
  <2>4. TypeOK'
    BY <1>1, <1>a, <2>2, <2>3, StagingFades DEF Clear, TypeOK
  <2>5. StagedKeys'
    BY <1>a, <2>3 DEF StagedKeys, Erased, Empty
  <2>6. QED
    BY <1>1, <2>2, <2>3, <2>4, <2>5, WritingStep DEF Clear, Staging
<1>2. CASE WriteGen
  <2> DEFINE d == [ copy[op.to] EXCEPT !.gen = op.next ]
  <2>1. copy[op.to].gen = 0 /\ copy[op.to].commit = 0
    BY <1>2 DEF WriteGen, IInv, StagedKeys
  <2>2. d \in Copy /\ d.commit = 0 /\ d.gen = op.next
    BY <1>a, <2>1 DEF Copy
  <2>3. \/ copy' = [ copy EXCEPT ![op.to] = d ] /\ op' = [ op EXCEPT !.pc = "body" ]
        \/ copy' = copy /\ op' = [ op EXCEPT !.pc = "body", !.bad = TRUE ]
    BY <1>2 DEF WriteGen
  <2>4. copy' = copy \/ (Weakened(op.to) /\ copy'[op.to] = d)
    BY <2>1, <2>2, <2>3, UncommittedWrite
  <2>5. /\ op' \in OpType /\ op'.to = op.to /\ op'.next = op.next
        /\ op'.pc = "body" /\ (copy'[op.to] = d \/ (copy' = copy /\ op'.bad))
    BY <1>a, <2>1, <2>2, <2>3, UncommittedWrite DEF OpType, Steps
  <2>6. TypeOK'
    BY <1>2, <1>a, <2>4, <2>5, StagingFades DEF WriteGen, TypeOK
  <2>7. StagedKeys'
    BY <2>1, <2>2, <2>5 DEF StagedKeys
  <2>8. QED
    BY <1>2, <2>4, <2>5, <2>6, <2>7, WritingStep DEF WriteGen, Staging
<1>3. CASE WriteBody
  <2> DEFINE d == [ copy[op.to] EXCEPT !.body = ram ]
  <2>1. copy[op.to].commit = 0
    BY <1>3 DEF WriteBody, IInv, StagedKeys
  <2>2. d \in Copy /\ d.commit = 0 /\ d.gen = copy[op.to].gen
    BY <1>a, <2>1 DEF Copy
  <2>3. copy' = [ copy EXCEPT ![op.to] = d ] \/ copy' = copy
    BY <1>3 DEF WriteBody
  <2>4. copy' = copy \/ (Weakened(op.to) /\ copy'[op.to] = d)
    BY <2>1, <2>2, <2>3, UncommittedWrite
  <2>5. /\ op' \in OpType /\ op'.to = op.to /\ op'.next = op.next
        /\ op'.pc \in { "mark", "refused", "recover" } /\ (op'.pc = "mark" => ~op.bad)
    BY <1>3, <1>a, <1>b DEF WriteBody, OpType, Steps
  <2>6. TypeOK'
    BY <1>3, <1>a, <2>4, <2>5, StagingFades DEF WriteBody, TypeOK
  <2>7. StagedKeys'
    BY <1>3, <2>1, <2>2, <2>4, <2>5 DEF WriteBody, IInv, StagedKeys
  <2>8. QED
    BY <1>3, <2>4, <2>5, <2>6, <2>7, WritingStep DEF WriteBody, Staging
<1>4. CASE WriteMark
  <2> DEFINE d == [ copy[op.to] EXCEPT !.valid = TRUE ]
  <2>1. copy[op.to].commit = 0 /\ copy[op.to].gen = op.next
    BY <1>4 DEF WriteMark, IInv, StagedKeys
  <2>2. d \in Copy /\ d.commit = 0 /\ d.gen = copy[op.to].gen
    BY <1>a, <2>1 DEF Copy
  <2>3. copy' = [ copy EXCEPT ![op.to] = d ] \/ copy' = copy
    BY <1>4 DEF WriteMark
  <2>4. copy' = copy \/ (Weakened(op.to) /\ copy'[op.to] = d)
    BY <2>1, <2>2, <2>3, UncommittedWrite
  <2>5. /\ op' \in OpType /\ op'.to = op.to /\ op'.next = op.next
        /\ op'.pc \in { "select", "refused", "recover" }
    BY <1>4, <1>a, <1>b DEF WriteMark, OpType, Steps
  <2>6. TypeOK'
    BY <1>4, <1>a, <2>4, <2>5, StagingFades DEF WriteMark, TypeOK
  <2>7. StagedKeys'
    BY <2>1, <2>2, <2>4, <2>5 DEF StagedKeys
  <2>8. QED
    BY <1>4, <2>4, <2>5, <2>6, <2>7, WritingStep DEF WriteMark, Staging
<1>5. CASE Recover
  <2>1. LosesKey(op.to) \/ Erased(op.to) => Weakened(op.to)
    BY <1>a, LosingKeys
  <2>2. copy' = copy \/ Weakened(op.to)
    BY <1>5, <2>1 DEF Recover
  <2>3. /\ op' \in OpType /\ op'.to = op.to /\ op'.next = op.next
        /\ op'.pc \in { "recover", "clear" }
    BY <1>5, <1>a DEF Recover, LosesKey, OpType, Steps
  <2>4. TypeOK'
    BY <1>5, <1>a, <2>2, <2>3, StagingFades DEF Recover, TypeOK
  <2>5. StagedKeys'
    BY <2>3 DEF StagedKeys
  <2>6. QED
    BY <1>5, <2>2, <2>3, <2>4, <2>5, WritingStep DEF Recover, Staging
<1>6. CASE Select
  <2>1. /\ op' \in OpType /\ op'.to = op.to /\ op'.next = op.next
        /\ op'.pc \in { "commit", "unmark" } /\ copy' = copy
        /\ sel' \in Namespaces \cup { "none" }
    BY <1>6, <1>a DEF Select, OpType, Steps, Namespaces, AB
  <2>2. TypeOK'
    BY <1>6, <1>a, <2>1 DEF Select, TypeOK
  <2>3. StagedKeys'
    BY <1>6, <2>1 DEF Select, IInv, StagedKeys
  <2>4. QED
    BY <1>6, <2>1, <2>2, <2>3, WritingStep DEF Select, Staging
<1>7. CASE Commit
  <2> DEFINE d == [ copy[op.to] EXCEPT !.commit = op.next ]
  <2>1. /\ op' \in OpType /\ op'.pc \in { "saved", "unselect" }
    BY <1>7, <1>a DEF Commit, OpType, Steps
  <2>2. CASE copy' = copy
    <3>1. TypeOK' /\ StagedKeys'
      BY <1>7, <1>a, <2>1, <2>2 DEF Commit, TypeOK, StagedKeys
    <3>2. QED
      BY <2>1, <2>2, <3>1 DEF IInv, SeedsOld, CompletesAdopted, Learned, Outranks,
            Staging, OneAuthority, Committed
  <2>3. CASE copy' = [ copy EXCEPT ![op.to] = d ]
    <3>1. d \in Copy /\ KeysAgree(d) /\ Generation(d) \in { 0, op.next }
      <4>1. /\ d \in Copy /\ d.commit = op.next /\ d.gen = op.next
            /\ op.next \in Nat
        BY <1>7, <1>a, StoreAssumption DEF Commit, IInv, StagedKeys, Copy
      <4>2. QED
        BY <4>1 DEF KeysAgree, Generation, Adopted
    <3>2. /\ copy' \in [ Namespaces -> Copy ] /\ copy'[op.to] = d
          /\ \A m \in Namespaces : m # op.to => copy'[m] = copy[m]
      BY <1>a, <2>3, <3>1
    <3>3. \A m \in AB : KeysAgree(copy'[m])
      BY <1>a, <3>1, <3>2 DEF AB, Namespaces
    <3>4. \A m \in AB : /\ Generation(copy[m]) < op.next
                        /\ Generation(copy[m]) \in Nat
      BY <1>7, <1>a, GenerationBounded, StoreAssumption
         DEF Commit, IInv, Outranks, Staging, AB, Namespaces
    <3>5. OneAuthority'
      <4>1. \A m \in AB : m # op.to => Generation(copy'[m]) = Generation(copy[m])
        BY <3>2 DEF AB, Namespaces
      <4>2. Generation(copy'[op.to]) \in { 0, op.next }
        BY <3>1, <3>2
      <4>3. QED
        BY <1>a, <3>4, <4>1, <4>2 DEF OneAuthority, Committed, AB
    <3>6. TypeOK' /\ StagedKeys'
      BY <1>7, <1>a, <2>1, <3>2 DEF Commit, TypeOK, StagedKeys
    <3>7. QED
      BY <2>1, <3>3, <3>5, <3>6
         DEF IInv, SeedsOld, CompletesAdopted, Learned, Outranks, Staging
  <2>4. QED
    BY <1>7, <2>2, <2>3 DEF Commit
<1>8. CASE Unselect \/ Unmark
  <2>1. op' \in OpType /\ op'.pc \in { "unmark", "refused" } /\ op'.to = op.to
    BY <1>8, <1>a DEF Unselect, Unmark, OpType, Steps
  <2>2. copy' = copy \/ Weakened(op.to)
    <3> DEFINE d == [ copy[op.to] EXCEPT !.valid = FALSE ]
    <3>1. CASE copy' = [ copy EXCEPT ![op.to].valid = FALSE ]
      <4>1. d \in Smaller(copy[op.to])
        BY DEF Smaller
      <4>2. d \in Copy /\ KeysAgree(d) /\ Generation(d) \in { 0, Generation(copy[op.to]) }
        BY <1>a, <4>1, LosingAKey
      <4>3. copy' = [ copy EXCEPT ![op.to] = d ] /\ copy'[op.to] = d
        BY <1>a, <3>1
      <4>4. QED
        BY <4>2, <4>3 DEF Weakened
    <3>2. QED
      BY <1>8, <3>1 DEF Unselect, Unmark
  <2>3. sel' \in Namespaces \cup { "none" }
    BY <1>8, <1>a DEF Unselect, Unmark, OpType
  <2>4. TypeOK'
    BY <1>8, <1>a, <2>1, <2>2, <2>3, StagingFades DEF Unselect, Unmark, TypeOK
  <2>5. QED
    BY <2>1, <2>2, <2>4, StagingFades
       DEF IInv, SeedsOld, CompletesAdopted, Learned, Outranks, Staging, StagedKeys
<1>9. CASE Saved \/ Refused
  <2>1. op' \in OpType /\ op'.pc = "idle" /\ copy' = copy
    BY <1>9, <1>a DEF Saved, Refused, OpType, Steps
  <2>2. TypeOK'
    BY <1>9, <1>a, <2>1 DEF Saved, Refused, RolledBack, TypeOK, OpType, Unloaded
  <2>3. QED
    BY <2>1, <2>2 DEF IInv, SeedsOld, CompletesAdopted, Learned, Outranks, Staging,
          StagedKeys, OneAuthority, Committed
<1>10. QED
  BY <1>1, <1>2, <1>3, <1>4, <1>5, <1>6, <1>7, <1>8, <1>9 DEF Writing

(* The clean-up erases the copy that is not authoritative, and the legacy  *)
(* one, on which the order does not depend.                                *)
LEMMA LegacyApart ==
    ASSUME IInv, LosesKey("legacy") \/ Erased("legacy")
    PROVE  /\ copy' \in [ Namespaces -> Copy ]
           /\ \A m \in AB : copy'[m] = copy[m]
<1>1. copy \in [ Namespaces -> Copy ] /\ copy["legacy"] \in Copy
  BY DEF IInv, TypeOK, Namespaces
<1>2. \E c \in Copy : copy' = [ copy EXCEPT !["legacy"] = c ]
  <2>1. CASE Erased("legacy")
    BY <2>1, ErasedCopy DEF Erased
  <2>2. CASE LosesKey("legacy")
    <3>1. \A c \in Smaller(copy["legacy"]) : c \in Copy
      BY <1>1, SmallerCopy
    <3>2. QED
      BY <2>2, <3>1 DEF LosesKey
  <2>3. QED
    BY <2>1, <2>2
<1>3. QED
  BY <1>1, <1>2 DEF AB, Namespaces

LEMMA CleaningKeeps == IInv /\ Cleaning => IInv'
<1> SUFFICES ASSUME IInv, Cleaning PROVE IInv'
  OBVIOUS
<1> USE DEF At, Go
<1>a. /\ op \in OpType /\ op.to \in AB
      /\ copy \in [ Namespaces -> Copy ]
      /\ \A m \in AB : KeysAgree(copy[m])
      /\ TypeOK /\ OneAuthority
  BY DEF IInv, TypeOK, OpType
<1>1. CASE CleanUp
  <2>1. op' \in OpType /\ op'.pc = "find" /\ copy' = copy
    BY <1>1, <1>a DEF CleanUp, Start, OpType, Steps, TypeOK, Unloaded
  <2>2. TypeOK'
    BY <1>1, <1>a, <2>1 DEF CleanUp, TypeOK
  <2>3. QED
    BY <2>1, <2>2 DEF IInv, SeedsOld, CompletesAdopted, Learned, Outranks, Staging,
          StagedKeys, OneAuthority, Committed
<1>2. CASE CleanInactive
  <2>1. LosesKey(op.to) \/ Erased(op.to) => Weakened(op.to)
    BY <1>a, LosingKeys
  <2>2. copy' = copy \/ Weakened(op.to)
    BY <1>2, <2>1 DEF CleanInactive
  <2>3. op' \in OpType /\ op'.pc \in { "clean", "cleanLegacy", "idle" }
    BY <1>2, <1>a DEF CleanInactive, LosesKey, OpType, Steps
  <2>4. TypeOK'
    BY <1>2, <1>a, <2>2, <2>3, StagingFades DEF CleanInactive, TypeOK
  <2>5. QED
    BY <2>2, <2>3, <2>4, StagingFades
       DEF IInv, SeedsOld, CompletesAdopted, Learned, Outranks, Staging, StagedKeys
<1>3. CASE CleanLegacy
  <2>1. copy' \in [ Namespaces -> Copy ] /\ \A m \in AB : copy'[m] = copy[m]
    BY <1>3, <1>a, LegacyApart DEF CleanLegacy
  <2>2. op' \in OpType /\ op'.pc \in { "cleanLegacy", "idle" }
    BY <1>3, <1>a DEF CleanLegacy, LosesKey, OpType, Steps
  <2>3. TypeOK'
    BY <1>3, <1>a, <2>1, <2>2 DEF CleanLegacy, TypeOK
  <2>4. OneAuthority'
    BY <1>a, <2>1 DEF OneAuthority, Committed, AB
  <2>5. QED
    BY <1>a, <2>1, <2>2, <2>3, <2>4
       DEF IInv, SeedsOld, CompletesAdopted, Learned, Outranks, Staging, StagedKeys
<1>4. QED
  BY <1>1, <1>2, <1>3 DEF Cleaning

LEMMA EditingKeeps == IInv /\ (Editing \/ Crash) => IInv'
<1> SUFFICES ASSUME IInv, Editing \/ Crash PROVE IInv'
  OBVIOUS
<1> USE DEF At, Go
<1>1. /\ op' \in OpType
      /\ op'.pc \in { "idle", "find", "boot" }
      /\ ram' \in Values \cup { Unloaded } /\ deferred' \in BOOLEAN
      /\ UNCHANGED << copy, sel >>
  <2>1. CASE ServiceDeferred
    BY <2>1 DEF ServiceDeferred, Start, IInv, TypeOK, OpType, Steps, Unloaded
  <2>2. CASE \E v \in Values : EditNow(v)
    BY <2>2 DEF EditNow, Start, IInv, TypeOK, OpType, Steps, Unloaded
  <2>3. CASE \E v \in Values : EditLater(v)
    BY <2>3 DEF EditLater, IInv, TypeOK, OpType, Steps, Unloaded
  <2>4. CASE Crash
    BY <2>4 DEF Crash, IInv, TypeOK, OpType, Steps, Unloaded
  <2>5. QED
    BY <2>1, <2>2, <2>3, <2>4 DEF Editing
<1>2. TypeOK'
  BY <1>1 DEF IInv, TypeOK
<1>3. QED
  BY <1>1, <1>2 DEF IInv, SeedsOld, CompletesAdopted, Learned, Outranks, Staging,
        StagedKeys, OneAuthority, Committed
-----------------------------------------------------------------------------
LEMMA StepIInv == IInv /\ [Next]_vars => IInv'
<1>1. IInv /\ UNCHANGED vars => IInv'
  BY DEF vars, IInv, TypeOK, At, SeedsOld, CompletesAdopted, Learned, Saves, Outranks,
         StagedKeys, OneAuthority, Committed
<1>2. QED
  BY <1>1, ReadingKeeps, WritingKeeps, CleaningKeeps, EditingKeeps DEF Next

LEMMA IInvAlways == Spec => []IInv
BY InitIInv, StepIInv, PTL DEF Spec

(* Every variable of the store keeps its type; in particular a staged      *)
(* generation never passes the largest one (persistSettingsAtomically      *)
(* refuses at UINT32_MAX instead of wrapping).                             *)
THEOREM TypeCorrect == Spec => []TypeOK
<1>1. IInv => TypeOK
  BY DEF IInv
<1>2. QED
  BY IInvAlways, <1>1, PTL

(* Whatever fails and wherever power is lost, the two copies never carry   *)
(* the same committed generation: getActiveNamespace has one answer.       *)
THEOREM OneAuthorityAlways == Spec => []OneAuthority
<1>1. IInv => OneAuthority
  BY DEF IInv
<1>2. QED
  BY IInvAlways, <1>1, PTL
-----------------------------------------------------------------------------
(* The second half: what a boot would load changes at the commit key only. *)
(* It is proved of every flash in which no copy without generations can    *)
(* come to light: one whose settings are committed or stand alone in A, or *)
(* one that erases a namespace in one go.                                  *)
Adoptable == StepwiseErase => Worlds \subseteq { "generationless", "committed" }

(* Before the first commit the settings are the generationless ones the    *)
(* selector names, or those of the legacy namespace, which then has no     *)
(* rival that a cut erasure could uncover.                                 *)
InOldA == Generationless(copy["A"]) /\ sel = "A"
InLegacy == /\ ~StepwiseErase
            /\ \A n \in AB : ~Generationless(copy[n])
NoRival == ~Committed => InOldA \/ InLegacy

(* The steps between the end of the search and the outcome work on the     *)
(* copy that is authoritative and on the other one.                        *)
Searched == { "seed", "complete", "cache", "fields", "unselect", "unmark",
              "clean", "cleanLegacy" } \cup Staging
KnowsAuthority == op.pc \in Searched => op.from = Authority /\ op.to = Other(op.from)

(* Each step belongs to one kind of procedure. *)
KindOfStep ==
    /\ op.pc \in Staging \cup { "unselect", "unmark", "saved", "refused" } => Saves
    /\ At("fields") => op.kind = "load" /\ copy[op.from] # Empty
    /\ op.pc \in { "clean", "cleanLegacy" } => op.kind = "clean" /\ op.from \in AB

(* A save stages the successor of what is durable, and never beside a copy *)
(* without generations.                                                    *)
StagesNext ==
    /\ op.pc \in Staging => op.next = DurableGeneration + 1
    /\ (At("complete") \/ At("cache")) /\ Saves => op.next = DurableGeneration
    /\ op.pc \in { "cache", "unselect", "unmark" } \cup Staging /\ Saves =>
           Committed \/ op.from = "legacy"

StagedBody ==
    /\ op.pc \in { "mark", "select", "commit" } => copy[op.to].body = ram
    /\ op.pc \in { "select", "commit" } => copy[op.to].valid

(* What memory owes the flash, at rest and under way. *)
Owed(v) == v \in Values /\ (v # Durable => deferred)
MemoryKnown ==
    /\ At("idle") \/ (op.kind = "clean" /\ ~At("boot")) => Owed(ram)
    /\ Saves /\ ~At("boot") /\ ~At("idle") => ram \in Values
    /\ Saves /\ ~At("boot") /\ ~At("idle") /\ ~At("saved") => Owed(op.old)
    /\ At("saved") => ram = Durable

JInv ==
    /\ IInv
    /\ Durable \in Values
    /\ NoRival /\ KnowsAuthority /\ KindOfStep
    /\ StagesNext /\ StagedBody /\ MemoryKnown
-----------------------------------------------------------------------------
(* Which copy is authoritative, in the three situations there are.         *)
LEMMA AuthorityIs ==
    ASSUME TypeOK, NoRival
    PROVE  /\ Committed => /\ Authority = Newest /\ Newest \in AB
                           /\ Generation(copy[Newest]) > 0
                           /\ copy[Newest] # Empty
           /\ ~Committed /\ InOldA => Authority = "A" /\ copy["A"] # Empty
           /\ ~Committed /\ ~InOldA => InLegacy /\ Authority = "legacy"
<1>1. \A m \in AB : Generation(copy[m]) \in Nat
  BY GenerationBounded, StoreAssumption DEF TypeOK, AB, Namespaces
<1>2. ASSUME Committed
      PROVE  /\ Authority = Newest /\ Newest \in AB
             /\ Generation(copy[Newest]) > 0 /\ copy[Newest] # Empty
  <2>1. Authority = Newest /\ Newest \in AB /\ Generation(copy[Newest]) > 0
    BY <1>1, <1>2 DEF Committed, Authority, Found, Newest, AB
  <2>2. QED
    BY <2>1, ErasedCopy
<1>3. ASSUME ~Committed, InOldA
      PROVE  Authority = "A" /\ copy["A"] # Empty
  BY <1>3 DEF InOldA, Authority, Found, AB, Namespaces, Generationless, Empty
<1>4. ASSUME ~Committed, ~InOldA
      PROVE  InLegacy /\ Authority = "legacy"
  <2>1. InLegacy
    BY <1>4 DEF NoRival
  <2>2. Healthiest = "legacy"
    BY <2>1 DEF InLegacy, Healthiest, Heaviest, Eligible, AB, Namespaces
  <2>3. QED
    BY <1>4, <2>1, <2>2 DEF InLegacy, Authority, Found
<1>5. QED
  BY <1>2, <1>3, <1>4

(* What a boot would load, and from where, is what it was.                 *)
Keeps == /\ Authority' = Authority
         /\ Durable' = Durable /\ DurableGeneration' = DurableGeneration
         /\ Committed' <=> Committed
         /\ NoRival'

LEMMA NothingWritten ==
    ASSUME JInv, UNCHANGED << copy, sel >>
    PROVE  Keeps
BY DEF JInv, Keeps, Authority, Found, Committed, Newest, Healthiest, Heaviest, Eligible,
       Durable, DurableGeneration, FoundGeneration, NoRival, InOldA, InLegacy

(* A committed copy outlasts what happens to the other one.                *)
LEMMA CommittedStays ==
    ASSUME TypeOK, TypeOK', OneAuthority, Committed,
           \A m \in AB : Generation(copy'[m]) \in { 0, Generation(copy[m]) },
           copy'[Newest] = copy[Newest]
    PROVE  Keeps
<1>1. \A m \in AB : Generation(copy[m]) \in Nat /\ Generation(copy'[m]) \in Nat
  BY GenerationBounded, StoreAssumption DEF TypeOK, AB, Namespaces
<1>2. Committed' /\ Newest' = Newest
  BY <1>1 DEF Committed, Newest, OneAuthority, AB
<1>3. Authority = Newest /\ Authority' = Newest
  BY <1>2 DEF Authority, Found
<1>4. Durable' = Durable
  BY <1>3 DEF Durable
<1>5. DurableGeneration' = DurableGeneration
  BY <1>2 DEF DurableGeneration, FoundGeneration
<1>6. QED
  BY <1>2, <1>3, <1>4, <1>5 DEF Keeps, NoRival

(* So do the settings of an older firmware, in A ...                       *)
LEMMA OldAStays ==
    ASSUME TypeOK, TypeOK', ~Committed, InOldA, sel' = sel, copy'["A"] = copy["A"],
           Generation(copy'["B"]) \in { 0, Generation(copy["B"]) }
    PROVE  Keeps
<1>1. \A m \in AB : Generation(copy[m]) \in Nat /\ Generation(copy'[m]) \in Nat
  BY GenerationBounded, StoreAssumption DEF TypeOK, AB, Namespaces
<1>2. ~Committed' /\ InOldA'
  BY <1>1 DEF Committed, InOldA, AB
<1>3. Authority = "A" /\ Authority' = "A"
  BY <1>2 DEF Authority, Found, InOldA, AB, Namespaces
<1>4. Durable' = Durable /\ DurableGeneration' = DurableGeneration
  BY <1>2, <1>3 DEF Durable, DurableGeneration, FoundGeneration
<1>5. QED
  BY <1>2, <1>3, <1>4 DEF Keeps, NoRival

(* ... or in the legacy namespace, as long as no copy shows up beside it.  *)
LEMMA LegacyStays ==
    ASSUME TypeOK, TypeOK', ~Committed, InLegacy, ~InOldA,
           copy'["legacy"] = copy["legacy"],
           \A m \in AB : /\ Generation(copy'[m]) \in { 0, Generation(copy[m]) }
                         /\ ~Generationless(copy'[m])
    PROVE  Keeps
<1>1. \A m \in AB : Generation(copy[m]) \in Nat /\ Generation(copy'[m]) \in Nat
  BY GenerationBounded, StoreAssumption DEF TypeOK, AB, Namespaces
<1>2. ~Committed' /\ InLegacy'
  BY <1>1 DEF Committed, InLegacy, AB
<1>3. Healthiest = "legacy" /\ Healthiest' = "legacy"
  BY <1>2 DEF InLegacy, Healthiest, Heaviest, Eligible, AB, Namespaces
<1>4. Authority = "legacy" /\ Authority' = "legacy"
  BY <1>2, <1>3 DEF Authority, Found, InLegacy
<1>5. Durable' = Durable /\ DurableGeneration' = DurableGeneration
  BY <1>2, <1>4 DEF Durable, DurableGeneration, FoundGeneration
<1>6. QED
  BY <1>2, <1>4, <1>5 DEF Keeps, NoRival
-----------------------------------------------------------------------------
(* What each write does to the staged copy: no copy without generations    *)
(* comes to light.                                                         *)
LEMMA StagingWrites ==
    ASSUME JInv, Clear \/ WriteGen \/ WriteBody \/ WriteMark \/ Recover \/ Unmark
    PROVE  /\ copy' = copy \/ Weakened(op.to)
           /\ ~StepwiseErase /\ ~Generationless(copy[op.to]) => ~Generationless(copy'[op.to])
<1> USE DEF At
<1>a. /\ op \in OpType /\ op.to \in AB /\ op.to \in Namespaces
      /\ op.next \in 0..MaxGeneration
      /\ copy \in [ Namespaces -> Copy ] /\ copy[op.to] \in Copy
      /\ \A m \in AB : KeysAgree(copy[m])
      /\ ram \in Values \cup { Torn }
      /\ TypeOK /\ OneAuthority /\ IInv
  BY DEF JInv, IInv, TypeOK, OpType, AB, Namespaces, Unloaded
<1>1. LosesKey(op.to) \/ Erased(op.to) => Weakened(op.to)
  BY <1>a, LosingKeys
<1>2. Erased(op.to) => ~Generationless(copy'[op.to])
  BY <1>a DEF Erased, Empty, Generationless
<1>3. CASE Clear \/ Recover
  BY <1>1, <1>2, <1>3 DEF Clear, Recover, LosesKey
<1>4. CASE WriteGen
  <2> DEFINE d == [ copy[op.to] EXCEPT !.gen = op.next ]
  <2>1. copy[op.to].commit = 0 /\ Generation(copy[op.to]) < op.next
    BY <1>4, <1>a DEF WriteGen, IInv, StagedKeys, Outranks, Staging
  <2>2. d \in Copy /\ d.commit = 0 /\ d.gen = op.next
    BY <1>a, <2>1 DEF Copy
  <2>3. op.next # 0
    BY <1>a, <2>1, GenerationBounded, StoreAssumption
  <2>4. CASE copy' = [ copy EXCEPT ![op.to] = d ]
    BY <1>a, <2>1, <2>2, <2>3, <2>4, UncommittedWrite DEF Generationless
  <2>5. QED
    BY <1>4, <2>4 DEF WriteGen
<1>5. CASE WriteBody
  <2> DEFINE d == [ copy[op.to] EXCEPT !.body = ram ]
  <2>1. copy[op.to].commit = 0
    BY <1>5, <1>a DEF WriteBody, IInv, StagedKeys
  <2>2. d \in Copy /\ d.commit = 0 /\ d.gen = copy[op.to].gen /\ d.valid = copy[op.to].valid
    BY <1>a, <2>1 DEF Copy
  <2>3. CASE copy' = [ copy EXCEPT ![op.to] = d ]
    BY <1>a, <2>1, <2>2, <2>3, UncommittedWrite DEF Generationless
  <2>4. QED
    BY <1>5, <2>3 DEF WriteBody
<1>6. CASE WriteMark
  <2> DEFINE d == [ copy[op.to] EXCEPT !.valid = TRUE ]
  <2>1. copy[op.to].commit = 0 /\ copy[op.to].gen = op.next /\ Generation(copy[op.to]) < op.next
    BY <1>6, <1>a DEF WriteMark, IInv, StagedKeys, Outranks, Staging
  <2>2. d \in Copy /\ d.commit = 0 /\ d.gen = op.next
    BY <1>a, <2>1 DEF Copy
  <2>3. op.next # 0
    BY <1>a, <2>1, GenerationBounded, StoreAssumption
  <2>4. CASE copy' = [ copy EXCEPT ![op.to] = d ]
    BY <1>a, <2>1, <2>2, <2>3, <2>4, UncommittedWrite DEF Generationless
  <2>5. QED
    BY <1>6, <2>4 DEF WriteMark
<1>7. CASE Unmark
  <2> DEFINE d == [ copy[op.to] EXCEPT !.valid = FALSE ]
  <2>1. CASE copy' = [ copy EXCEPT ![op.to].valid = FALSE ]
    <3>1. d \in Copy /\ KeysAgree(d) /\ Generation(d) \in { 0, Generation(copy[op.to]) }
      BY <1>a, LosingAKey DEF Smaller
    <3>2. copy' = [ copy EXCEPT ![op.to] = d ] /\ copy'[op.to] = d /\ d.valid = FALSE
      BY <1>a, <2>1 DEF Copy
    <3>3. QED
      BY <3>1, <3>2 DEF Weakened, Generationless
  <2>2. QED
    BY <1>7, <2>1 DEF Unmark
<1>8. QED
  BY <1>3, <1>4, <1>5, <1>6, <1>7

(* A save weakens the copy it stages, and a boot loads what it would have. *)
LEMMA SavingKeeps ==
    ASSUME JInv, TypeOK', copy' = copy \/ Weakened(op.to),
           op.pc \in Staging \cup { "unselect", "unmark" },
           ~StepwiseErase /\ ~Generationless(copy[op.to]) => ~Generationless(copy'[op.to])
    PROVE  Keeps
<1>1. /\ TypeOK /\ OneAuthority /\ NoRival /\ op.to \in AB
      /\ op.from = Authority /\ op.to = Other(op.from)
      /\ Committed \/ op.from = "legacy"
  BY DEF JInv, IInv, TypeOK, OpType, KnowsAuthority, Searched, StagesNext, KindOfStep
<1>2. op.to # op.from
  BY <1>1 DEF Other, AB
<1>3. /\ \A m \in AB : Generation(copy'[m]) \in { 0, Generation(copy[m]) }
      /\ \A m \in Namespaces : m # op.to => copy'[m] = copy[m]
  BY StagingFades DEF JInv, IInv, TypeOK, Weakened
<1>4. CASE Committed
  <2>1. Authority = Newest /\ Newest \in Namespaces
    BY <1>1, <1>4, AuthorityIs DEF AB, Namespaces
  <2>2. copy'[Newest] = copy[Newest]
    BY <1>1, <1>2, <1>3, <2>1
  <2>3. QED
    BY <1>1, <1>3, <1>4, <2>2, CommittedStays
<1>5. CASE ~Committed
  <2>1. InLegacy /\ ~InOldA
    BY <1>1, <1>5, AuthorityIs
  <2>2. copy'["legacy"] = copy["legacy"]
    BY <1>1, <1>3 DEF AB, Namespaces
  <2>3. \A m \in AB : ~Generationless(copy'[m])
    BY <1>1, <1>3, <2>1 DEF InLegacy, AB, Namespaces
  <2>4. QED
    BY <1>1, <1>3, <1>5, <2>1, <2>2, <2>3, LegacyStays
<1>6. QED
  BY <1>4, <1>5

(* The two steps that do change it: the key that adopts an old copy, and   *)
(* the commit key of a save.                                               *)
Adopts == /\ At("seed") /\ ~Committed /\ Committed'
          /\ Authority' = Authority /\ Durable' = Durable /\ NoRival'
          /\ DurableGeneration = 0 /\ DurableGeneration' = 1
Commits == /\ At("commit") /\ op' = [ op EXCEPT !.pc = "saved" ]
           /\ Committed' /\ Durable' = ram /\ NoRival'
           /\ DurableGeneration' = DurableGeneration + 1

LEMMA SeedAdopts ==
    ASSUME JInv, IInv', Seed, copy' # copy
    PROVE  Adopts
<1> USE DEF At
<1>1. /\ TypeOK /\ TypeOK' /\ op.from \in AB /\ op.from \in Namespaces
      /\ Generationless(copy[op.from]) /\ ~Committed /\ op.from = Authority
  BY DEF JInv, IInv, Seed, SeedsOld, KnowsAuthority, Searched, AB, Namespaces
<1>2. copy' = [ copy EXCEPT ![op.from] = Seeded(@) ]
  BY DEF Seed
<1>3. /\ Adopted(copy'[op.from]) /\ copy'[op.from].body = copy[op.from].body
      /\ \A m \in Namespaces : m # op.from => copy'[m] = copy[m]
  BY <1>1, <1>2 DEF TypeOK, Copy, Seeded, Generationless, Adopted
<1>4. \A m \in AB : Generation(copy[m]) = 0
  <2>1. \A m \in AB : Generation(copy[m]) \in Nat
    BY <1>1, GenerationBounded, StoreAssumption DEF TypeOK, AB, Namespaces
  <2>2. QED
    BY <1>1, <2>1 DEF Committed, AB
<1>5. /\ Generation(copy'[op.from]) = 1
      /\ \A m \in AB : m # op.from => Generation(copy'[m]) = 0
  BY <1>3, <1>4 DEF Generation, AB, Namespaces
<1>6. Committed' /\ Newest' = op.from
  BY <1>1, <1>5 DEF Committed, Newest, AB
<1>7. Authority' = Authority
  BY <1>1, <1>6 DEF Authority, Found
<1>8. Durable' = Durable
  BY <1>1, <1>3, <1>7 DEF Durable, Generationless, Adopted, Empty
<1>9. DurableGeneration = 0 /\ DurableGeneration' = 1
  BY <1>1, <1>5, <1>6 DEF DurableGeneration, FoundGeneration
<1>10. QED
  BY <1>1, <1>6, <1>7, <1>8, <1>9 DEF Adopts, NoRival, Seed

LEMMA CommitCommits ==
    ASSUME JInv, IInv', Commit, copy' # copy
    PROVE  Commits
<1> USE DEF At, Go
<1>1. /\ TypeOK /\ TypeOK' /\ op.to \in AB /\ op.to \in Namespaces /\ op.next \in Nat
      /\ copy' = [ copy EXCEPT ![op.to].commit = op.next ]
      /\ op' = [ op EXCEPT !.pc = "saved" ]
  BY StoreAssumption DEF JInv, IInv, TypeOK, OpType, Commit, AB, Namespaces
<1>2. /\ copy[op.to].gen = op.next /\ copy[op.to].valid /\ copy[op.to].body = ram
      /\ op.next = DurableGeneration + 1
      /\ \A m \in AB : Generation(copy[m]) < op.next /\ Generation(copy[m]) \in Nat
  BY <1>1, GenerationBounded, StoreAssumption DEF JInv, IInv, TypeOK, Commit, StagedKeys, StagedBody, StagesNext,
        Outranks, Staging, AB, Namespaces
<1>3. op.next # 0
  BY <1>1, <1>2
<1>4. /\ copy'[op.to].gen = op.next /\ copy'[op.to].valid
      /\ copy'[op.to].commit = op.next /\ copy'[op.to].body = ram
      /\ \A m \in Namespaces : m # op.to => copy'[m] = copy[m]
  BY <1>1, <1>2 DEF TypeOK, Copy
<1>5. /\ Generation(copy'[op.to]) = op.next
      /\ \A m \in AB : m # op.to => Generation(copy'[m]) < op.next /\ Generation(copy'[m]) \in Nat
  BY <1>2, <1>3, <1>4 DEF Generation, Adopted, AB, Namespaces
<1>6. Committed' /\ Newest' = op.to
  BY <1>1, <1>3, <1>5 DEF Committed, Newest, AB
<1>7. Authority' = op.to
  BY <1>6 DEF Authority, Found
<1>8. Durable' = ram
  BY <1>4, <1>7 DEF Durable, Empty
<1>9. DurableGeneration' = DurableGeneration + 1
  BY <1>2, <1>5, <1>6 DEF DurableGeneration, FoundGeneration
<1>10. QED
  BY <1>1, <1>6, <1>8, <1>9 DEF Commits, NoRival, Commit

(* Every other step leaves what a boot would load alone.                   *)
LEMMA DurableChanges ==
    ASSUME JInv, IInv', Next
    PROVE  Keeps \/ Adopts \/ Commits
<1> USE DEF At, Go
<1>a. /\ TypeOK /\ TypeOK' /\ OneAuthority /\ NoRival /\ IInv
      /\ op.to \in AB /\ op.from \in Namespaces
      /\ \A m \in AB : KeysAgree(copy[m])
  BY DEF JInv, IInv, TypeOK, OpType
<1>1. CASE UNCHANGED << copy, sel >>
  BY <1>1, NothingWritten
<1>2. CASE Seed \/ Commit
  <2>1. sel' = sel
    BY <1>2 DEF Seed, Commit
  <2>2. QED
    BY <1>1, <1>2, <1>a, <2>1, SeedAdopts, CommitCommits
<1>3. CASE Complete
  <2>1. /\ op.from \in AB /\ Adopted(copy[op.from]) /\ Committed
        /\ op.from = Authority /\ sel' = sel
    BY <1>3 DEF Complete, JInv, IInv, CompletesAdopted, KnowsAuthority, Searched, Committed,
          Generation, AB
  <2>2. CASE copy' = [ copy EXCEPT ![op.from].gen = 1 ]
    <3>1. /\ copy'[op.from].valid /\ copy'[op.from].gen = 1 /\ copy'[op.from].commit = 1
          /\ copy'[op.from].body = copy[op.from].body
          /\ \A m \in Namespaces : m # op.from => copy'[m] = copy[m]
      BY <1>a, <2>1, <2>2 DEF TypeOK, Copy, Adopted
    <3>2. \A m \in AB : Generation(copy'[m]) = Generation(copy[m])
      BY <2>1, <3>1 DEF Generation, Adopted, AB, Namespaces
    <3>3. Committed' /\ Newest' = Newest /\ Authority = Newest /\ Authority' = Newest
      BY <2>1, <3>2 DEF Committed, Newest, Authority, Found, AB
    <3>4. Durable' = Durable
      BY <2>1, <3>1, <3>3 DEF Durable, Adopted, Empty
    <3>5. DurableGeneration' = DurableGeneration
      BY <2>1, <3>2, <3>3 DEF DurableGeneration, FoundGeneration, AB
    <3>6. QED
      BY <2>1, <3>3, <3>4, <3>5 DEF Keeps, NoRival
  <2>3. QED
    BY <1>1, <1>3, <2>1, <2>2 DEF Complete
<1>4. CASE Cache \/ Select \/ Unselect
  <2>1. /\ copy' = copy /\ op.from = Authority
        /\ sel' \in { sel } \cup ({ op.from } \cap AB) \/ Committed \/ op.from = "legacy"
    BY <1>4 DEF Cache, Select, Unselect, JInv, KnowsAuthority, KindOfStep, Searched, Staging, StagesNext
  <2>2. CASE Committed
    <3>1. \A m \in AB : Generation(copy'[m]) \in { 0, Generation(copy[m]) }
      BY <2>1
    <3>2. QED
      BY <1>a, <2>1, <2>2, <3>1, CommittedStays
  <2>3. CASE ~Committed /\ InOldA
    BY <1>a, <2>1, <2>3, AuthorityIs, OldAStays DEF InOldA
  <2>4. CASE ~Committed /\ ~InOldA
    <3>1. InLegacy
      BY <1>a, <2>4, AuthorityIs
    <3>2. \A m \in AB : /\ Generation(copy'[m]) \in { 0, Generation(copy[m]) }
                        /\ ~Generationless(copy'[m])
      BY <2>1, <3>1 DEF InLegacy
    <3>3. QED
      BY <1>a, <2>1, <2>4, <3>1, <3>2, LegacyStays
  <2>5. QED
    BY <2>2, <2>3, <2>4
<1>5. CASE Clear \/ WriteGen \/ WriteBody \/ WriteMark \/ Recover \/ Unmark
  <2>1. op.pc \in Staging \cup { "unselect", "unmark" }
    BY <1>5 DEF Clear, WriteGen, WriteBody, WriteMark, Recover, Unmark, Staging
  <2>2. QED
    BY <1>5, <1>a, <2>1, StagingWrites, SavingKeeps
<1>6. CASE CleanInactive \/ CleanLegacy
  <2> DEFINE n == IF At("clean") THEN op.to ELSE "legacy"
  <2>1. /\ op.from = Authority /\ op.from \in AB /\ op.to = Other(op.from) /\ sel' = sel
        /\ op.pc \in { "clean", "cleanLegacy" }
    BY <1>6 DEF CleanInactive, CleanLegacy, JInv, KnowsAuthority, KindOfStep, Searched
  <2>2. n \in Namespaces /\ n # op.from
    BY <1>a, <2>1 DEF Other, AB, Namespaces
  <2>3. /\ \A m \in Namespaces : m # n => copy'[m] = copy[m]
        /\ \A m \in AB : Generation(copy'[m]) \in { 0, Generation(copy[m]) }
    <3>1. CASE copy' = copy
      BY <3>1
    <3>2. CASE CleanInactive /\ copy' # copy
      <4>1. Weakened(op.to) /\ n = op.to
        BY <1>a, <3>2, LosingKeys DEF CleanInactive
      <4>2. QED
        BY <1>a, <4>1, StagingFades DEF Weakened, TypeOK
    <3>3. CASE CleanLegacy /\ copy' # copy
      <4>1. \A m \in AB : copy'[m] = copy[m]
        BY <1>a, <3>3, LegacyApart DEF CleanLegacy
      <4>2. n = "legacy"
        BY <3>3 DEF CleanLegacy
      <4>3. QED
        BY <4>1, <4>2 DEF AB, Namespaces
    <3>4. QED
      BY <1>6, <3>1, <3>2, <3>3
  <2>4. CASE Committed
    BY <1>a, <2>1, <2>2, <2>3, <2>4, AuthorityIs, CommittedStays DEF AB, Namespaces
  <2>5. CASE ~Committed
    <3>1. InOldA /\ op.from = "A"
      BY <1>a, <2>1, <2>5, AuthorityIs DEF AB
    <3>2. QED
      BY <1>a, <2>1, <2>2, <2>3, <2>5, <3>1, OldAStays DEF AB, Namespaces
  <2>6. QED
    BY <2>4, <2>5
<1>7. QED
  <2>1. CASE Load \/ Find \/ Fields \/ Saved \/ Refused \/ CleanUp \/ Editing \/ Crash
    BY <1>1, <2>1 DEF Load, Find, Fields, Saved, Refused, CleanUp, Editing, EditNow, EditLater,
          ServiceDeferred, Crash
  <2>2. QED
    BY <1>2, <1>3, <1>4, <1>5, <1>6, <2>1 DEF Next, Reading, Writing, Cleaning
-----------------------------------------------------------------------------
(* The rest of the invariant, with what a boot would load left opaque.     *)
LEMMA ReadingKnows ==
    ASSUME JInv, IInv', Reading, Keeps \/ Adopts
    PROVE  KnowsAuthority' /\ KindOfStep' /\ StagesNext' /\ StagedBody' /\ MemoryKnown'
<1> USE DEF At, Go
<1>a. /\ op \in OpType /\ op.from \in Namespaces /\ Durable \in Values
      /\ KnowsAuthority /\ KindOfStep /\ StagesNext /\ MemoryKnown
      /\ Authority' = Authority /\ Durable' = Durable
      /\ Keeps => /\ DurableGeneration' = DurableGeneration
                  /\ Committed' <=> Committed
      /\ Adopts => DurableGeneration' = 1 /\ Committed' /\ At("seed")
  BY DEF JInv, IInv, TypeOK, OpType, Keeps, Adopts
<1>1. CASE Load
  BY <1>1, <1>a DEF Load, Start, OpType, Saves, Owed,
     KnowsAuthority, Searched, Staging, KindOfStep, StagesNext, StagedBody, MemoryKnown
<1>2. CASE Find
  <2>1. /\ copy' = copy /\ ram' = ram /\ deferred' = deferred /\ sel' = sel /\ Keeps
    BY <1>2, <1>a DEF Find
  <2>2. CASE Go(Abandon)
    <3>1. /\ op'.kind = op.kind /\ op'.old = op.old
          /\ op'.pc = Abandon
      BY <2>2, <1>a DEF OpType
    <3>2. QED
      BY <1>2, <2>1, <3>1, <1>a DEF Find, Abandon, OpType, Saves, Owed,
         KnowsAuthority, Searched, Staging, KindOfStep, StagesNext, StagedBody, MemoryKnown
  <2>3. CASE op' = [ op EXCEPT !.from = Authority, !.to = Other(Authority),
                              !.next = FoundGeneration(Authority),
                              !.pc = IF MustSeed(Authority) THEN "seed" ELSE AfterSeed(Authority) ]
    <3>1. /\ op'.from = Authority /\ op'.to = Other(Authority) /\ op'.next = DurableGeneration
          /\ op'.kind = op.kind /\ op'.old = op.old
          /\ op'.pc \in { "seed", "complete", "cache" }
          /\ op'.pc # "seed" => ~MustSeed(Authority)
      BY <2>3, <1>a DEF OpType, AfterSeed, DurableGeneration, FoundGeneration
    <3>2. Authority \in Namespaces
      BY Search DEF JInv, IInv, Authority
    <3>3. ~MustSeed(Authority) => Committed \/ Authority = "legacy"
      <4>1. \A m \in AB : Generation(copy[m]) \in Nat
        BY GenerationBounded, StoreAssumption DEF JInv, IInv, TypeOK, AB, Namespaces
      <4>2. QED
        BY <3>2, <4>1 DEF MustSeed, Committed, AB, Namespaces
    <3>4. QED
      BY <1>2, <2>1, <3>1, <3>3, <1>a DEF Find, OpType, Saves, Owed,
         KnowsAuthority, Searched, Staging, KindOfStep, StagesNext, StagedBody, MemoryKnown
  <2>4. QED
    BY <1>2, <2>2, <2>3 DEF Find, Authority
<1>3. CASE Seed
  <2>1. /\ ram' = ram /\ deferred' = deferred
        /\ op'.kind = op.kind /\ op'.old = op.old /\ op'.from = op.from /\ op'.to = op.to
        /\ \/ op'.pc = "complete" /\ op'.next = 1
           \/ op'.pc = AfterFailedSeed
    BY <1>3, <1>a DEF Seed, OpType
  <2>2. op'.pc = "complete" => Adopts
    <3>1. ASSUME op'.pc = "complete" PROVE copy' # copy
      <4>1. copy' = [ copy EXCEPT ![op.from] = Seeded(@) ]
        BY <1>3, <1>a, <3>1 DEF Seed, AfterFailedSeed, OpType
      <4>2. /\ op.from \in Namespaces /\ copy \in [ Namespaces -> Copy ]
            /\ copy[op.from].commit = 0
        BY <1>3 DEF Seed, JInv, IInv, SeedsOld, TypeOK, Generationless, AB, Namespaces
      <4>3. QED
        BY <4>1, <4>2 DEF Seeded, Copy
    <3>2. QED
      BY <1>3, <3>1, SeedAdopts
  <2>3. QED
    BY <1>3, <2>1, <2>2, <1>a DEF Seed, AfterFailedSeed, OpType, Saves, Owed,
       KnowsAuthority, Searched, Staging, KindOfStep, StagesNext, StagedBody, MemoryKnown
<1>4. CASE Complete
  <2>1. /\ ram' = ram /\ deferred' = deferred /\ op'.pc = "cache"
        /\ op'.kind = op.kind /\ op'.old = op.old /\ op'.from = op.from /\ op'.to = op.to
        /\ op'.next = op.next /\ Keeps
    BY <1>4, <1>a DEF Complete, OpType
  <2>2. Committed
    BY <1>4 DEF Complete, JInv, IInv, CompletesAdopted, Committed, Generation, AB
  <2>3. QED
    BY <1>4, <2>1, <2>2, <1>a DEF Complete, OpType, Saves, Owed,
       KnowsAuthority, Searched, Staging, KindOfStep, StagesNext, StagedBody, MemoryKnown
<1>5. CASE Cache
  <2> DEFINE p == Proceed(op.from, op.next)
  <2>1. /\ p \in { "idle", "fields", "clean", "clear", "refused" }
        /\ p = "clear" => Saves
        /\ p = "refused" => Saves
        /\ p = "fields" => op.kind = "load" /\ copy[op.from] # Empty
        /\ p = "clean" => op.kind = "clean" /\ op.from # "legacy"
        /\ p = "idle" => \/ op.kind = "clean"
                         \/ op.kind = "load" /\ copy[op.from] = Empty
    BY <1>a DEF Proceed, Saves, OpType
  <2>2. /\ op'.pc = p /\ op'.kind = op.kind /\ op'.old = op.old
        /\ op'.from = op.from /\ op'.to = op.to
        /\ p = "clear" => op'.next = op.next + 1
        /\ copy' = copy /\ deferred' = deferred /\ Keeps
        /\ ram' = IF op.kind = "load" /\ p = "idle" THEN Defaults ELSE ram
    BY <1>5, <1>a DEF Cache, OpType, Successor
  <2>3. copy[op.from] = Empty => Durable = Defaults
    BY <1>5, <1>a DEF Cache, KnowsAuthority, Searched, Durable
  <2> HIDE DEF p
  <2>4. QED
    BY <1>5, <2>1, <2>2, <2>3, <1>a, StoreAssumption DEF Cache, OpType, Saves, Owed, AB, Namespaces,
       KnowsAuthority, Searched, Staging, KindOfStep, StagesNext, StagedBody, MemoryKnown
<1>6. CASE Fields
  <2>1. copy[op.from].body = Durable
    BY <1>6, <1>a DEF Fields, KnowsAuthority, KindOfStep, Searched, Durable
  <2>2. /\ op'.kind = op.kind /\ deferred' = deferred /\ Keeps
        /\ \/ op'.pc = "idle" /\ ram' = Durable
           \/ op'.pc = "boot"
    BY <1>6, <2>1, <1>a DEF Fields, OpType, Publishes
  <2>3. QED
    BY <1>6, <2>2, <1>a DEF Fields, OpType, Saves, Owed,
       KnowsAuthority, Searched, Staging, KindOfStep, StagesNext, StagedBody, MemoryKnown
<1>7. QED
  BY <1>1, <1>2, <1>3, <1>4, <1>5, <1>6 DEF Reading

LEMMA WritingKnows ==
    ASSUME JInv, IInv', Writing, Keeps \/ Commits
    PROVE  KnowsAuthority' /\ KindOfStep' /\ StagesNext' /\ StagedBody' /\ MemoryKnown'
<1> USE DEF At, Go
<1>a. /\ op \in OpType /\ op.to \in AB /\ op.to \in Namespaces
      /\ copy \in [ Namespaces -> Copy ] /\ copy[op.to] \in Copy
      /\ KnowsAuthority /\ KindOfStep /\ StagesNext /\ StagedBody /\ MemoryKnown
      /\ Keeps => /\ Authority' = Authority /\ Durable' = Durable
                  /\ DurableGeneration' = DurableGeneration
                  /\ Committed' <=> Committed
      /\ Commits => At("commit") /\ op'.pc = "saved" /\ Durable' = ram
  BY DEF JInv, IInv, TypeOK, OpType, Keeps, Commits, AB, Namespaces
<1>b. AfterFailure \in { "refused", "recover" }
  BY DEF AfterFailure
<1>1. CASE Clear \/ WriteGen \/ Recover \/ Unselect \/ Unmark
  <2>1. /\ op.pc \in Staging \cup { "unselect", "unmark" }
        /\ op'.pc \in { "clear", "gen", "body", "recover", "unmark", "refused" }
        /\ op.pc \in { "unselect", "unmark" } => op'.pc \in { "unmark", "refused" }
        /\ op'.kind = op.kind /\ op'.old = op.old /\ op'.from = op.from /\ op'.to = op.to
        /\ op'.next = op.next /\ ram' = ram /\ deferred' = deferred /\ Keeps
    BY <1>1, <1>a, <1>b DEF Clear, WriteGen, Recover, LosesKey, Unselect, Unmark, OpType, Staging
  <2>2. QED
    BY <2>1, <1>a DEF Saves, Owed, KnowsAuthority, Searched, Staging, KindOfStep, StagesNext,
       StagedBody, MemoryKnown
<1>2. CASE WriteBody \/ WriteMark
  <2>1. /\ op.pc \in { "body", "mark" } /\ op'.pc \in { "mark", "select", "recover", "refused" }
        /\ op'.kind = op.kind /\ op'.old = op.old /\ op'.from = op.from /\ op'.to = op.to
        /\ op'.next = op.next /\ ram' = ram /\ deferred' = deferred /\ Keeps
        /\ op'.pc \in { "mark", "select" } => copy'[op.to].body = ram
        /\ op'.pc = "select" => copy'[op.to].valid
        /\ op'.pc = "mark" => op.pc = "body"
    BY <1>2, <1>a, <1>b DEF WriteBody, WriteMark, OpType, Copy, StagedBody
  <2>2. QED
    BY <2>1, <1>a DEF Saves, Owed, KnowsAuthority, Searched, Staging, KindOfStep, StagesNext,
       StagedBody, MemoryKnown
<1>3. CASE Select
  <2>1. /\ op'.pc \in { "commit", "unmark" }
        /\ op'.kind = op.kind /\ op'.old = op.old /\ op'.from = op.from /\ op'.to = op.to
        /\ op'.next = op.next /\ ram' = ram /\ deferred' = deferred /\ copy' = copy /\ Keeps
    BY <1>3, <1>a DEF Select, OpType
  <2>2. QED
    BY <1>3, <2>1, <1>a DEF Select, Saves, Owed, KnowsAuthority, Searched, Staging, KindOfStep,
       StagesNext, StagedBody, MemoryKnown
<1>4. CASE Commit
  <2>1. /\ op'.kind = op.kind /\ op'.old = op.old /\ op'.from = op.from /\ op'.to = op.to
        /\ op'.next = op.next /\ ram' = ram /\ deferred' = deferred
        /\ \/ op'.pc = "saved" /\ Durable' = ram
           \/ op'.pc = "unselect" /\ Keeps
    <3>1. CASE copy' = [ copy EXCEPT ![op.to].commit = op.next ] /\ op'.pc = "saved"
      <4>1. copy' # copy
        <5>1. /\ copy[op.to].commit = 0
              /\ Generation(copy[op.to]) < op.next /\ op.next \in Nat
          BY <1>4, <1>a, StoreAssumption
             DEF Commit, JInv, IInv, TypeOK, OpType, StagedKeys, Outranks, Staging
        <5>2. op.next # 0
          BY <5>1, <1>a, GenerationBounded, StoreAssumption
        <5>3. QED
          BY <3>1, <5>1, <5>2, <1>a DEF Copy
      <4>2. Commits
        BY <1>4, <4>1, CommitCommits
      <4>3. QED
        BY <1>4, <3>1, <4>2, <1>a DEF Commit, OpType
    <3>2. CASE op' = [ op EXCEPT !.pc = "unselect" ]
      BY <1>4, <3>2, <1>a DEF Commit, OpType
    <3>3. QED
      BY <1>4, <3>1, <3>2, <1>a DEF Commit, OpType
  <2>2. QED
    BY <1>4, <2>1, <1>a DEF Commit, Saves, Owed, KnowsAuthority, Searched, Staging, KindOfStep,
       StagesNext, StagedBody, MemoryKnown
<1>5. CASE Saved \/ Refused
  <2>1. /\ op.pc \in { "saved", "refused" } /\ op'.pc = "idle" /\ op'.kind = op.kind /\ Keeps
        /\ op.pc = "saved" => ram' = ram /\ deferred' = FALSE
        /\ op.pc = "refused" => ram' = op.old /\ deferred' = deferred
    BY <1>5, <1>a DEF Saved, Refused, RolledBack, OpType
  <2>2. QED
    BY <2>1, <1>a DEF Saves, Owed, KnowsAuthority, Searched, Staging, KindOfStep, StagesNext,
       StagedBody, MemoryKnown
<1>6. QED
  BY <1>1, <1>2, <1>3, <1>4, <1>5 DEF Writing

LEMMA OthersKnow ==
    ASSUME JInv, IInv', Cleaning \/ Editing \/ Crash, Keeps
    PROVE  KnowsAuthority' /\ KindOfStep' /\ StagesNext' /\ StagedBody' /\ MemoryKnown'
<1> USE DEF At, Go
<1>a. /\ op \in OpType
      /\ KnowsAuthority /\ KindOfStep /\ StagesNext /\ MemoryKnown
      /\ Authority' = Authority /\ Durable' = Durable
  BY DEF JInv, IInv, TypeOK, Keeps
<1>1. CASE CleanUp \/ Crash \/ Editing
  <2>1. \/ /\ At("idle") /\ op'.pc = "find" /\ op'.kind = "clean"
           /\ ram' = ram /\ deferred' = deferred
        \/ /\ At("idle") /\ op'.pc = "find" /\ op'.kind = "now"
           /\ op'.old = ram /\ ram' \in Values /\ deferred' = deferred
        \/ /\ At("idle") /\ deferred /\ op'.pc = "find" /\ op'.kind = "later"
           /\ op'.old = ram /\ ram' = ram /\ deferred' = deferred
        \/ /\ At("idle") /\ op' = op /\ ram' \in Values /\ deferred' = TRUE
        \/ op'.pc = "boot"
    BY <1>1, <1>a DEF CleanUp, Crash, Editing, EditNow, EditLater, ServiceDeferred, Start, OpType
  <2>2. QED
    BY <2>1, <1>a DEF Saves, Owed, KnowsAuthority, Searched, Staging, KindOfStep, StagesNext,
       StagedBody, MemoryKnown
<1>2. CASE CleanInactive \/ CleanLegacy
  <2>1. /\ op.pc \in { "clean", "cleanLegacy" } /\ op'.pc \in { "clean", "cleanLegacy", "idle" }
        /\ op'.kind = op.kind /\ op'.from = op.from /\ op'.to = op.to
        /\ ram' = ram /\ deferred' = deferred
    BY <1>2, <1>a DEF CleanInactive, CleanLegacy, LosesKey, OpType
  <2>2. QED
    BY <2>1, <1>a DEF Saves, Owed, KnowsAuthority, Searched, Staging, KindOfStep, StagesNext,
       StagedBody, MemoryKnown
<1>3. QED
  BY <1>1, <1>2 DEF Cleaning

LEMMA StepJInv == JInv /\ [Next]_vars => JInv'
<1> SUFFICES ASSUME JInv, [Next]_vars PROVE JInv'
  OBVIOUS
<1>1. IInv'
  BY StepIInv DEF JInv
<1>2. CASE UNCHANGED vars
  <2>1. Keeps
    BY <1>2, NothingWritten DEF vars
  <2>2. KnowsAuthority' /\ KindOfStep' /\ StagesNext' /\ StagedBody' /\ MemoryKnown'
    BY <1>2, <2>1 DEF vars, JInv, Keeps, KnowsAuthority, KindOfStep, StagesNext, StagedBody,
       MemoryKnown, At, Saves, Owed
  <2>3. QED
    BY <1>1, <2>1, <2>2 DEF JInv, Keeps
<1>3. CASE Next
  <2>1. Keeps \/ Adopts \/ Commits
    BY <1>1, <1>3, DurableChanges
  <2>2. KnowsAuthority' /\ KindOfStep' /\ StagesNext' /\ StagedBody' /\ MemoryKnown'
    <3>1. CASE Keeps
      BY <1>1, <1>3, <3>1, ReadingKnows, WritingKnows, OthersKnow DEF Next
    <3>2. CASE Adopts
      <4>1. Reading \/ Crash
        BY <1>3, <3>2, <1>1 DEF Adopts, Next, Writing, Cleaning, Editing, At, Clear, WriteGen, WriteBody,
           WriteMark, Recover, Select, Commit, Unselect, Unmark, Saved, Refused, CleanUp,
           CleanInactive, CleanLegacy, ServiceDeferred, EditNow, EditLater
      <4>2. CASE Crash
        BY <1>1, <3>2, <4>2, OthersKnow, NothingWritten DEF Crash
      <4>3. QED
        BY <1>1, <3>2, <4>1, <4>2, ReadingKnows
    <3>3. CASE Commits
      <4>1. Writing \/ Crash
        BY <1>3, <3>3 DEF Commits, Next, Reading, Cleaning, Editing, At, Load, Find, Seed, Complete,
           Cache, Fields, CleanUp, CleanInactive, CleanLegacy, ServiceDeferred, EditNow, EditLater
      <4>2. CASE Crash
        BY <1>1, <4>2, OthersKnow, NothingWritten DEF Crash
      <4>3. QED
        BY <1>1, <3>3, <4>1, <4>2, WritingKnows
    <3>4. QED
      BY <2>1, <3>1, <3>2, <3>3
  <2>3. Durable' \in Values /\ NoRival'
    <3>1. CASE Keeps \/ Adopts
      BY <3>1 DEF Keeps, Adopts, JInv
    <3>2. CASE Commits
      BY <3>2 DEF Commits, JInv, KindOfStep, MemoryKnown, At, Staging
    <3>3. QED
      BY <2>1, <3>1, <3>2
  <2>4. QED
    BY <1>1, <2>2, <2>3 DEF JInv
<1>4. QED
  BY <1>2, <1>3

LEMMA InitJInv == Adoptable /\ Init => JInv
<1> SUFFICES ASSUME Adoptable, Init PROVE JInv
  OBVIOUS
<1>1. IInv
  BY InitIInv
<1>2. PICK w \in Worlds : World(w)
  BY DEF Init
<1>3. /\ w \in { "fresh", "legacy", "generationless", "committed" }
      /\ w \in { "fresh", "legacy" } => ~StepwiseErase
  BY StoreAssumption DEF Adoptable
<1>4. NoRival /\ Durable \in Values
  <2>1. CASE w \in { "fresh", "legacy" }
    <3>1. PICK l \in OldOrNone : copy = Flash(Empty, Empty, l)
      BY <1>2, <1>3, <2>1 DEF World, OldOrNone
    <3>2. copy["A"] = Empty /\ copy["B"] = Empty /\ copy["legacy"] = l
      BY <3>1 DEF Flash, Namespaces, AB
    <3>3. ~Committed /\ InLegacy /\ ~InOldA
      BY <1>3, <2>1, <3>2, ErasedCopy DEF Committed, InLegacy, InOldA, Generationless, Empty, AB
    <3>4. NoRival /\ Authority = "legacy"
      BY <1>1, <3>3, AuthorityIs DEF NoRival, IInv
    <3>5. QED
      BY <3>2, <3>4, StoreAssumption DEF Durable, OldOrNone, Old
  <2>2. CASE w = "generationless"
    <3>1. PICK v \in Values, b \in OldOrNone, l \in OldOrNone : copy = Flash(Old(v), b, l)
      BY <1>2, <2>2 DEF World
    <3>2. copy["A"] = Old(v) /\ copy["B"] = b /\ sel = "A"
      BY <1>2, <2>2, <3>1 DEF World, Flash, Namespaces, AB
    <3>3. Generation(b) = 0 /\ Generation(Old(v)) = 0
      BY OldCopy, ErasedCopy DEF OldOrNone
    <3>4. ~Committed /\ InOldA
      BY <3>2, <3>3 DEF Committed, InOldA, Generationless, Old
    <3>5. NoRival /\ Authority = "A"
      BY <1>1, <3>4, AuthorityIs DEF NoRival, IInv
    <3>6. QED
      BY <3>2, <3>5, StoreAssumption DEF Durable, Old
  <2>3. CASE w = "committed"
    <3>1. PICK v \in Values, b \in { Empty } \cup { New(u, 1) : u \in Values }, l \in OldOrNone :
             copy = Flash(New(v, 2), b, l)
      BY <1>2, <2>3 DEF World
    <3>2. copy["A"] = New(v, 2) /\ copy["B"] = b
      BY <3>1 DEF Flash, Namespaces, AB
    <3>3. Generation(New(v, 2)) = 2 /\ Generation(b) \in { 0, 1 }
      BY NewCopy, ErasedCopy
    <3>4. Committed /\ Newest = "A" /\ NoRival
      BY <3>2, <3>3 DEF Committed, Newest, NoRival
    <3>5. QED
      BY <3>2, <3>4, StoreAssumption DEF Durable, Authority, Found, New
  <2>4. QED
    BY <1>3, <2>1, <2>2, <2>3
<1>5. QED
  BY <1>1, <1>4 DEF Init, JInv, At, KnowsAuthority, Searched, Staging, KindOfStep, StagesNext,
     StagedBody, MemoryKnown, Saves

LEMMA JInvAlways == ASSUME Adoptable PROVE Spec => []JInv
BY InitJInv, StepJInv, PTL DEF Spec
-----------------------------------------------------------------------------
(* What a boot loads, and what memory holds back.                          *)
LEMMA LoadsDurableStep ==
    JInv /\ JInv' /\ [Next]_vars => [ram = Unloaded /\ ram' # Unloaded => ram' = Durable]_vars
<1> SUFFICES ASSUME JInv, Next, ram = Unloaded, ram' # Unloaded
             PROVE  ram' = Durable
  BY DEF Unloaded
<1> USE DEF At, Go
<1>a. /\ op \in OpType /\ KnowsAuthority /\ KindOfStep /\ MemoryKnown /\ Unloaded \notin Values
  BY StoreAssumption DEF JInv, IInv, TypeOK, Unloaded
<1>1. CASE Cache
  <2>1. op.kind = "load" /\ Proceed(op.from, op.next) = "idle" /\ ram' = Defaults
    BY <1>1 DEF Cache
  <2>2. copy[op.from] = Empty /\ op.from = Authority
    BY <1>1, <1>a, <2>1 DEF Cache, Proceed, KnowsAuthority, Searched
  <2>3. QED
    BY <2>1, <2>2 DEF Durable
<1>2. CASE Fields
  BY <1>2, <1>a DEF Fields, Publishes, KnowsAuthority, KindOfStep, Searched, Durable
<1>3. CASE Editing
  BY <1>3, <1>a DEF Editing, EditNow, EditLater, ServiceDeferred, MemoryKnown, Owed
<1>4. CASE Refused
  BY <1>4, <1>a DEF Refused, MemoryKnown, KindOfStep, Saves
<1>5. QED
  BY <1>1, <1>2, <1>3, <1>4 DEF Next, Reading, Writing, Cleaning, Load, Find, Seed, Complete, Clear,
     WriteGen, WriteBody, WriteMark, Recover, Select, Commit, Unselect, Unmark, Saved, CleanUp,
     CleanInactive, CleanLegacy, Crash

(* Settings in memory that differ from what the next boot would load wait  *)
(* for a write, for every value of the constants (finishSettingsMutation). *)
THEOREM UnsavedIsPendingAlways ==
    ASSUME Adoptable PROVE Spec => []UnsavedIsPending
<1>1. JInv => UnsavedIsPending
  BY DEF JInv, MemoryKnown, Owed, UnsavedIsPending
<1>2. QED
  BY JInvAlways, <1>1, PTL DEF Spec

(* What a boot loads is what the last committed save wrote, for every value *)
(* of the constants (load).              *)
THEOREM LoadsDurableAlways ==
    ASSUME Adoptable PROVE Spec => LoadsDurable
<1>1. QED
  BY JInvAlways, LoadsDurableStep, PTL DEF Spec, LoadsDurable
-----------------------------------------------------------------------------
(* The refinement.  What a save is about, and what it will report: *)
Saving == IF Saves /\ ~At("boot") /\ ~At("idle") THEN { ram } ELSE {}
Reply == IF ~Saves THEN "none"
         ELSE IF At("saved") THEN "ok"
         ELSE IF At("refused") THEN "failed" ELSE "none"

LEMMA GenerationInRange == TypeOK => DurableGeneration \in 0..MaxGeneration
BY Search DEF DurableGeneration, Authority

LEMMA InitRefines == JInv /\ Init => Register!Init
<1> SUFFICES ASSUME JInv, Init PROVE Register!Init
  OBVIOUS
<1>1. DurableGeneration \in 0..MaxGeneration
  BY GenerationInRange DEF JInv, IInv
<1>2. ~Saves
  BY DEF Init, Saves
<1>3. QED
  BY <1>1, <1>2 DEF JInv, Register!Init, Saves

(* A step that leaves the flash as a boot sees it begins a save, ends one, *)
(* refuses one, or is none of the register's.                              *)
LEMMA SavesProgress ==
    ASSUME JInv, JInv', Next, Keeps
    PROVE  \/ Saving' = Saving /\ Reply' = Reply
           \/ Saving = {} /\ (\E v \in Values : Saving' = { v }) /\ Reply' = "none"
           \/ Saving # {} /\ Saving' = Saving /\ Reply = "none" /\ Reply' = "failed"
           \/ Saving' = {} /\ Reply' = "none"
<1> USE DEF At, Go
<1>a. /\ op \in OpType /\ KindOfStep /\ MemoryKnown /\ MemoryKnown' /\ KindOfStep'
  BY DEF JInv, IInv, TypeOK
<1>1. CASE Load \/ Find
  BY <1>1, <1>a DEF Load, Find, Start, Abandon, AfterSeed, OpType, Saving, Reply, Saves
<1>2. CASE Seed \/ Complete \/ Fields
  BY <1>2, <1>a DEF Seed, Complete, Fields, AfterFailedSeed, OpType, Saving, Reply, Saves, KindOfStep
<1>3. CASE Cache
  <2>1. /\ op'.kind = op.kind
        /\ Saves => op'.pc \in { "clear", "refused" } /\ ram' = ram
        /\ ~Saves => op'.pc # "refused"
    BY <1>3, <1>a DEF Cache, Proceed, OpType, Saves
  <2>2. QED
    BY <1>3, <2>1 DEF Cache, Saving, Reply, Saves
<1>4. CASE Writing
  <2>1. CASE Saved \/ Refused
    BY <2>1, <1>a DEF Saved, Refused, OpType, Saving, Reply, Saves
  <2>2. CASE ~(Saved \/ Refused)
    <3>1. /\ op'.kind = op.kind /\ ram' = ram /\ Saves
          /\ op.pc \in Staging \cup { "unselect", "unmark" }
          /\ op'.pc \in (Staging \cup { "unselect", "unmark", "refused" }) \/ Commit
      BY <1>4, <2>2, <1>a DEF Writing, Clear, WriteGen, WriteBody, WriteMark, Recover, Select, Commit,
         Unselect, Unmark, LosesKey, AfterFailure, OpType, Staging, KindOfStep
    <3>2. CASE ~Commit
      BY <3>1, <3>2 DEF Staging, Saving, Reply, Saves
    <3>3. CASE Commit
      <4>1. op'.pc \in { "saved", "unselect" }
        BY <3>3, <1>a DEF Commit, OpType
      <4>2. op'.pc = "unselect"
        <5>1. SUFFICES ASSUME op'.pc = "saved" PROVE FALSE
          BY <4>1
        <5>2. ram' = Durable' /\ Durable' = Durable
          BY <5>1 DEF JInv, MemoryKnown, Keeps
        <5>3. copy' # copy
          <6>1. /\ copy[op.to].commit = 0 /\ op.to \in Namespaces
                /\ Generation(copy[op.to]) < op.next /\ op.next \in Nat
                /\ copy \in [ Namespaces -> Copy ]
            BY <3>3, StoreAssumption
               DEF Commit, JInv, IInv, TypeOK, OpType, StagedKeys, Outranks, Staging, AB, Namespaces
          <6>2. op.next # 0
            BY <6>1, GenerationBounded, StoreAssumption
          <6>3. copy' = [ copy EXCEPT ![op.to].commit = op.next ]
            BY <3>3, <5>1, <1>a DEF Commit, OpType
          <6>4. QED
            BY <6>1, <6>2, <6>3 DEF Copy
        <5>4. Commits
          BY <3>3, <5>3, CommitCommits DEF JInv
        <5>5. DurableGeneration \in Nat
          BY GenerationInRange, StoreAssumption DEF JInv, IInv
        <5>6. QED
          BY <5>4, <5>5 DEF Commits, Keeps
      <4>3. QED
        BY <3>1, <3>3, <4>2 DEF Commit, Saving, Reply, Saves
    <3>4. QED
      BY <3>2, <3>3
  <2>3. QED
    BY <2>1, <2>2
<1>5. CASE Cleaning
  BY <1>5, <1>a DEF Cleaning, CleanUp, CleanInactive, CleanLegacy, Start, LosesKey, OpType, KindOfStep,
     Saving, Reply, Saves
<1>6. CASE Editing
  BY <1>6, <1>a DEF Editing, EditNow, EditLater, ServiceDeferred, Start, OpType, MemoryKnown, Owed,
     Saving, Reply, Saves
<1>7. CASE Crash
  BY <1>7, <1>a DEF Crash, OpType, Saving, Reply, Saves
<1>8. QED
  BY <1>1, <1>2, <1>3, <1>4, <1>5, <1>6, <1>7 DEF Next, Reading

(* Every step of the store is a step of the register or none of its.       *)
LEMMA StepRefines == JInv /\ JInv' /\ [Next]_vars => [Register!Next]_(Register!vars)
<1> SUFFICES ASSUME JInv, JInv', [Next]_vars PROVE [Register!Next]_(Register!vars)
  OBVIOUS
<1>1. DurableGeneration \in 0..MaxGeneration /\ DurableGeneration' \in 0..MaxGeneration
  <2>1. (TypeOK => DurableGeneration \in 0..MaxGeneration)'
    BY GenerationInRange, PTL
  <2>2. QED
    BY <2>1, GenerationInRange DEF JInv, IInv
<1>2. CASE UNCHANGED vars
  BY <1>2, NothingWritten DEF vars, Keeps, Register!vars, Saves, At
<1>3. CASE Next /\ Keeps
  <2>1. \/ Saving' = Saving /\ Reply' = Reply
        \/ Saving = {} /\ (\E v \in Values : Saving' = { v }) /\ Reply' = "none"
        \/ Saving # {} /\ Saving' = Saving /\ Reply = "none" /\ Reply' = "failed"
        \/ Saving' = {} /\ Reply' = "none"
    BY <1>3, SavesProgress
  <2>2. Durable' = Durable /\ DurableGeneration' = DurableGeneration
    BY <1>3 DEF Keeps
  <2>3. QED
    BY <2>1, <2>2 DEF Saving, Reply, Register!Next, Register!Begin, Register!Refuse, Register!Crash,
       Register!vars
<1>4. CASE Next /\ Adopts
  <2>1. /\ (Saving' = Saving /\ Reply = "none") \/ Crash
        /\ Reply' = "none" \/ (Reply' = "failed" /\ Saving # {}) \/ Crash
    <3>1. Reading \/ Crash
      BY <1>4 DEF Adopts, Next, Writing, Cleaning, Editing, At, Clear, WriteGen, WriteBody,
         WriteMark, Recover, Select, Commit, Unselect, Unmark, Saved, Refused, CleanUp,
         CleanInactive, CleanLegacy, ServiceDeferred, EditNow, EditLater
    <3>2. Seed \/ Crash
      BY <1>4, <3>1 DEF Adopts, Reading, Load, Find, Complete, Cache, Fields, At
    <3>3. op \in OpType
      BY DEF JInv, IInv, TypeOK
    <3>4. QED
      BY <3>2, <3>3 DEF Seed, AfterFailedSeed, Go, At, OpType, Saving, Reply, Saves
  <2>2. ~Crash
    <3>1. SUFFICES ASSUME Crash PROVE FALSE
      OBVIOUS
    <3>2. Keeps
      BY <3>1, NothingWritten DEF Crash
    <3>3. QED
      BY <1>4, <3>2 DEF Keeps, Adopts
  <2>3. Durable' = Durable /\ DurableGeneration = 0 /\ DurableGeneration' = 1
    BY <1>4 DEF Adopts
  <2>4. QED
    BY <2>1, <2>2, <2>3 DEF Saving, Reply, Register!Next, Register!Adopt, Register!Refuse
<1>5. CASE Next /\ Commits
  <2>1. /\ At("commit") /\ Saves /\ op' = [ op EXCEPT !.pc = "saved" ] /\ op \in OpType
        /\ ram \in Values
    BY <1>5 DEF Commits, JInv, IInv, TypeOK, KindOfStep, MemoryKnown, Staging, At
  <2>2. ram' = ram
    BY <1>5, <2>1 DEF JInv, MemoryKnown, Commits, At, OpType
  <2>3. Saving = { ram } /\ Saving' = { ram } /\ Reply = "none" /\ Reply' = "ok"
    BY <2>1, <2>2 DEF Saving, Reply, Saves, At, OpType
  <2>4. Durable' = ram /\ DurableGeneration' = DurableGeneration + 1
    BY <1>5 DEF Commits
  <2>5. DurableGeneration < MaxGeneration
    BY <1>1, <2>4, StoreAssumption
  <2>6. QED
    BY <2>3, <2>4, <2>5 DEF Saving, Reply, Register!Next, Register!Commit
<1>6. QED
  BY <1>2, <1>3, <1>4, <1>5, DurableChanges DEF JInv

(* The store implements the register for every value of the constants: a   *)
(* save that reports success is durable as the next generation, one that   *)
(* fails or is cut before its commit key changes nothing.                  *)
THEOREM ImplementsRegisterAlways ==
    ASSUME Adoptable PROVE Spec => ImplementsRegister
BY JInvAlways, InitRefines, StepRefines, PTL DEF Spec, ImplementsRegister, Register!Spec
=============================================================================

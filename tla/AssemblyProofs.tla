--------------------------- MODULE AssemblyProofs ---------------------------
(***************************************************************************)
(* Proofs about Assembly: for any store, budget and sizes of the texts and *)
(* any number of failing calls.                                            *)
(***************************************************************************)
EXTENDS Assembly, TLAPS

\* What the loop has come past: the narratives' read, the continuity phase, the
\* world model.
PastWorldModel == {"echo-pool", "echoes", "incoming", "grounding", "returned"}
PastContinuity == {"world-model", "profiles"} \cup PastWorldModel
PastNarratives == {"threads"} \cup PastContinuity

\* Only a phase that reads twice has gathered anything between two steps.
Gathered == at \notin {"threads", "profiles"} => parts = {}

\* The in-band notes and the note on metabolism, step by step.
NotesSoFar ==
    /\ cfg.notes /\ at \in {"grounding", "returned"} => "notes" \in prompt
    /\ cfg.incomplete /\ cfg.store =>
          /\ at = "threads" => "metabolism note" \in parts
          /\ at \in PastContinuity =>
                "metabolism note" \in prompt \/ skipped["continuity"] = "error"

\* What is counted as loaded is in the prompt or gathered for it.
LoadedIsShown ==
    \A k \in Kinds \ {"reflection"} :
        manifest.loaded[k] = IF k \in prompt \cup parts THEN shown[k] ELSE 0

\* A read that did not fail has put what it found in the manifest.
ReadsCounted ==
    cfg.store /\ faults = 0 =>
        /\ at \in PastNarratives => manifest.total["narrative"] = Found("narrative")
        /\ at \in {"profiles"} \cup PastWorldModel =>
              manifest.total["entity"] = Found("entity") \/ "world-model" \in manifest.hints
        /\ at \in PastWorldModel =>
              manifest.total["profile"] = Found("profile") \/ "world-model" \in manifest.hints

\* Which phases the budget can cut, and what is left when the echo pool was not cut.
CutInOrder ==
    /\ \A p \in Phases : skipped[p] = "budget" => p \in {"world-model", "echo-pool", "grounding"}
    /\ skipped["world-model"] = "budget" =>
          \/ at = "echo-pool" /\ remaining < 1
          \/ at \in {"incoming", "grounding", "returned"} /\ skipped["echo-pool"] = "budget"
    /\ skipped["grounding"] = "budget" => skipped["echo-pool"] = "budget" /\ at = "returned"
    /\ at = "echoes" => remaining >= 8
    /\ at = "incoming" => skipped["echo-pool"] = "budget" \/ remaining >= 7
    /\ at = "grounding" => skipped["echo-pool"] = "budget" \/ remaining >= 6

Inv == TypeOK /\ Gathered /\ NotesSoFar /\ LoadedIsShown /\ ReadsCounted /\ CutInOrder

-----------------------------------------------------------------------------
(* The operators.                                                           *)

LEMMA MinPair ==
    ASSUME NEW a \in Int, NEW b \in Int
    PROVE  Min({a, b}) \in {a, b} /\ Min({a, b}) =< a /\ Min({a, b}) =< b
<1>1. \E x \in {a, b} : \A y \in {a, b} : x =< y
  <2>1. CASE a =< b  BY <2>1
  <2>2. CASE b < a  BY <2>2
  <2> QED  BY <2>1, <2>2
<1> QED  BY <1>1 DEF Min

\* What a query finds is a number of rows.
LEMMA FoundNat ==
    ASSUME rows \in [Kinds -> Nat]
    PROVE  \A k \in Kinds : Found(k) \in Nat
<1> TAKE k \in Kinds
<1>1. rows[k] \in Nat  OBVIOUS
<1>2. CASE k \in DOMAIN QueryLimit
  <2>1. QueryLimit[k] \in Nat  BY <1>2 DEF QueryLimit
  <2>2. Min({rows[k], QueryLimit[k]}) \in {rows[k], QueryLimit[k]}
    <3>1. rows[k] \in Int /\ QueryLimit[k] \in Int  BY <1>1, <2>1
    <3> QED  BY <3>1, MinPair, Zenon
  <2> QED  BY <1>1, <1>2, <2>1, <2>2 DEF Found
<1>3. CASE k \notin DOMAIN QueryLimit  BY <1>1, <1>3 DEF Found
<1> QED  BY <1>2, <1>3

\* The loop: the order of the phases, and the budgets they ask for.
LEMMA LoopFacts ==
    /\ Following("identity") = "continuity" /\ Following("continuity") = "world-model"
    /\ Following("world-model") = "echo-pool" /\ Following("echo-pool") = "incoming"
    /\ Following("incoming") = "grounding" /\ Following("grounding") = "returned"
    /\ \A p \in {"identity", "continuity", "incoming"} : BudgetAllows(p)
    /\ BudgetAllows("echo-pool") <=> remaining >= 8
    /\ \A p \in {"world-model", "grounding"} : BudgetAllows(p) <=> remaining >= 1
BY DEF Following, BudgetAllows, MinBudget

-----------------------------------------------------------------------------
(* Every step keeps the invariant, phase by phase.                          *)

LEMMA InvInit == Init => Inv
<1> SUFFICES ASSUME Init PROVE Inv
  OBVIOUS
<1>1. remaining \in Int
  BY BudgetsAssumption DEF Init, InitialBudget
<1>2. TypeOK
  <2>1. rows \in [Kinds -> Nat]  BY CountsAssumption DEF Init
  <2>2. NoRows \in [Kinds -> Nat]  BY DEF NoRows
  <2>3. manifest \in [total: [Kinds -> Nat], loaded: [Kinds -> Nat], hints: SUBSET Hints]
    BY <2>2 DEF Init
  <2> QED  BY <1>1, <2>1, <2>2, <2>3, FaultsAssumption DEF Init, TypeOK, Steps
<1> QED
  BY <1>2 DEF Init, Inv, Gathered, NotesSoFar, LoadedIsShown, ReadsCounted, CutInOrder, NoRows,
     PastNarratives, PastContinuity, PastWorldModel, Kinds, Phases

LEMMA IdentityStep ==
    ASSUME Inv, Identity
    PROVE  Inv'
<1> USE LoopFacts DEF Inv, Identity, Starts, Fixed, Succeed, Fault, Charged
<1>1. TypeOK'
  <2>1. remaining' \in Int  BY DEF TypeOK
  <2>2. faults' \in 0..MaxFaults  BY FaultsAssumption DEF TypeOK
  <2>3. prompt' \subseteq Parts /\ parts' \subseteq Parts  BY DEF TypeOK, Parts
  <2>4. at' \in Steps  BY DEF Steps
  <2> QED  BY <2>1, <2>2, <2>3, <2>4 DEF TypeOK
<1>2. Gathered' /\ NotesSoFar' /\ CutInOrder'
  BY DEF Gathered, NotesSoFar, CutInOrder, PastContinuity, PastWorldModel
<1>3. LoadedIsShown'
  BY DEF Gathered, LoadedIsShown, Kinds
<1>4. ReadsCounted'
  BY DEF ReadsCounted, PastNarratives, PastContinuity, PastWorldModel, Found
<1> QED  BY <1>1, <1>2, <1>3, <1>4

LEMMA UnwiredStep ==
    ASSUME Inv, ContinuityUnwired \/ WorldUnwired
    PROVE  Inv'
<1> USE LoopFacts DEF Inv, ContinuityUnwired, WorldUnwired, Starts, Fixed, Succeed, Charged
<1>1. TypeOK'  BY DEF TypeOK, Steps
<1>2. Gathered' /\ NotesSoFar' /\ CutInOrder'
  BY DEF Gathered, NotesSoFar, CutInOrder, PastContinuity, PastWorldModel
<1>3. LoadedIsShown'
  BY DEF Gathered, LoadedIsShown
<1>4. ReadsCounted'
  BY DEF ReadsCounted
<1> QED  BY <1>1, <1>2, <1>3, <1>4

LEMMA NarrativesStep ==
    ASSUME Inv, Narratives
    PROVE  Inv'
<1> DEFINE n == Found("narrative")
           used == Min({n, 2})
<1>1. at = "continuity" /\ cfg.store /\ parts = {} /\ UNCHANGED <<rows, cfg>>
  BY DEF Narratives, Starts, Inv, Gathered, Fixed
<1>2. n \in Nat /\ used \in Nat /\ used =< n /\ (n = 0 <=> used = 0)
  <2>1. n \in Nat  BY FoundNat DEF Inv, TypeOK, Kinds
  <2>2. n \in Int /\ 2 \in Int  BY <2>1
  <2>3. used \in {n, 2} /\ used =< n /\ used =< 2  BY <2>2, MinPair, Zenon
  <2> QED  BY <2>1, <2>3
<1>3. Found("narrative")' = n /\ Found("entity")' = Found("entity")
      /\ Found("profile")' = Found("profile")
  BY <1>1 DEF Found
<1>4. CASE /\ Succeed
           /\ manifest' = Hinted(Hinted(Counted(manifest, "narrative", n, used), n = 0, "recency only"),
                                 cfg.incomplete, "metabolism")
           /\ parts' = MetabolismNote \cup (IF n > 0 THEN {"narrative"} ELSE {})
           /\ shown' = [shown EXCEPT !["narrative"] = used]
           /\ at' = "threads"
           /\ UNCHANGED <<remaining, skipped, prompt>>
  <2>1. /\ manifest' \in [total: [Kinds -> Nat], loaded: [Kinds -> Nat], hints: SUBSET Hints]
        /\ manifest'.loaded = [manifest.loaded EXCEPT !["narrative"] = used]
        /\ manifest'.total = [manifest.total EXCEPT !["narrative"] = n]
        /\ manifest.hints \subseteq manifest'.hints
    BY <1>2, <1>4 DEF Inv, TypeOK, Hinted, Counted, Hints, Kinds
  <2>2. TypeOK'
    BY <1>1, <1>2, <1>4, <2>1 DEF Inv, TypeOK, Succeed, Steps, Parts, Kinds, MetabolismNote
  <2>3. Gathered' /\ NotesSoFar' /\ CutInOrder'
    BY <1>1, <1>4 DEF Inv, Gathered, NotesSoFar, CutInOrder, PastContinuity, PastWorldModel,
       MetabolismNote, Succeed
  <2>4. LoadedIsShown'
    <3> SUFFICES ASSUME NEW k \in Kinds \ {"reflection"}
                 PROVE  manifest'.loaded[k] = IF k \in prompt' \cup parts' THEN shown'[k] ELSE 0
      BY DEF LoadedIsShown
    <3>1. CASE k = "narrative"
      <4>1. manifest'.loaded[k] = used /\ shown'[k] = used
        BY <1>4, <2>1, <3>1 DEF Inv, TypeOK, Kinds
      <4> HIDE DEF n, used
      <4>2. used # 0 => n > 0  BY <1>2
      <4>3. n > 0 => k \in parts'  BY <1>4, <3>1
      <4> QED  BY <4>1, <4>2, <4>3
    <3>2. CASE k # "narrative"
      <4>1. manifest'.loaded[k] = manifest.loaded[k] /\ shown'[k] = shown[k]
        <5>1. k \in Kinds /\ manifest.loaded \in [Kinds -> Nat]  BY DEF Inv, TypeOK
        <5>2. shown \in [Kinds -> Nat]  BY DEF Inv, TypeOK
        <5>3. manifest'.loaded[k] = manifest.loaded[k]  BY <2>1, <3>2, <5>1
        <5>4. shown'[k] = shown[k]  BY <1>4, <3>2, <5>1, <5>2
        <5> QED  BY <5>3, <5>4
      <4>2. k \notin MetabolismNote  BY DEF Kinds, MetabolismNote
      <4>3. k \notin parts' /\ prompt' = prompt  BY <1>4, <3>2, <4>2
      <4>4. manifest.loaded[k] = IF k \in prompt \cup parts THEN shown[k] ELSE 0
        BY DEF Inv, LoadedIsShown
      <4> QED  BY <1>1, <4>1, <4>3, <4>4
    <3> QED  BY <3>1, <3>2
  <2>5. ReadsCounted'
    BY <1>1, <1>3, <1>4, <2>1 DEF Inv, TypeOK, ReadsCounted, PastNarratives, PastContinuity,
       PastWorldModel, Kinds
  <2> QED  BY <2>2, <2>3, <2>4, <2>5 DEF Inv
<1>5. CASE Fault /\ Errs("continuity") /\ UNCHANGED <<manifest, shown>>
  <2>1. faults' \in 0..MaxFaults /\ faults' # 0
    BY <1>5, FaultsAssumption DEF Fault, Inv, TypeOK
  <2>2. at' = "world-model"  BY <1>5, LoopFacts DEF Errs
  <2>3. TypeOK'
    BY <1>1, <1>5, <2>1, <2>2 DEF Errs, Inv, TypeOK, Steps, Phases
  <2>4. Gathered' /\ NotesSoFar' /\ CutInOrder' /\ LoadedIsShown' /\ ReadsCounted'
    BY <1>1, <1>5, <2>1, <2>2 DEF Errs, Inv, TypeOK, Phases, Gathered, NotesSoFar, CutInOrder,
       LoadedIsShown, ReadsCounted, PastContinuity, PastWorldModel
  <2> QED  BY <2>3, <2>4 DEF Inv
<1> QED  BY <1>4, <1>5 DEF Narratives

LEMMA ThreadsStep ==
    ASSUME Inv, Threads
    PROVE  Inv'
<1> USE LoopFacts
<1>1. at = "threads" /\ at' = "world-model" /\ parts' = {} /\ UNCHANGED <<rows, cfg, skipped, shown>>
  BY DEF Threads, ThreadsFail, Charged, Fixed
<1>2. faults' = faults \/ faults' \in 1..MaxFaults
  <2>1. CASE Succeed  BY <2>1 DEF Succeed
  <2>2. CASE Fault  BY <2>2, FaultsAssumption DEF Fault, Inv, TypeOK
  <2> QED  BY <2>1, <2>2 DEF Threads
<1>3. PICK content \in {parts, parts \cup {"bridge"}}, size \in Sizes :
          Charged("continuity", content, size)
  <2>1. CASE \E content \in SUBSET (parts \cup {"bridge"}), size \in Sizes :
                 Bridge(content) /\ Charged("continuity", content, size)
    <3>1. \A content : Bridge(content) => content \in {parts, parts \cup {"bridge"}}
      BY DEF Bridge
    <3> QED  BY <2>1, <3>1
  <2>2. CASE ThreadsFail  BY <2>2 DEF ThreadsFail
  <2> QED  BY <2>1, <2>2 DEF Threads
<1>4. /\ manifest' \in [total: [Kinds -> Nat], loaded: [Kinds -> Nat], hints: SUBSET Hints]
      /\ \A k \in Kinds \ {"reflection"} : /\ manifest'.loaded[k] = manifest.loaded[k]
                                         /\ manifest'.total[k] = manifest.total[k]
  <2>1. CASE UNCHANGED manifest  BY <2>1 DEF Inv, TypeOK
  <2>2. CASE manifest' = Hinted(Counted(manifest, "reflection", Found("reflection"), Found("reflection")),
                                Found("reflection") = 0, "no reflections")
    <3>1. Found("reflection") \in Nat  BY FoundNat DEF Inv, TypeOK, Kinds
    <3> QED  BY <2>2, <3>1 DEF Inv, TypeOK, Hinted, Counted, Hints, Kinds
  <2> QED  BY <2>1, <2>2 DEF Threads, ThreadsFail
<1>5. TypeOK'
  <2>1. content \in SUBSET Parts /\ size \in Int /\ "continuity" \in Phases
    <3>1. size \in Int  BY SizesAssumption
    <3>2. parts \subseteq Parts /\ "bridge" \in Parts  BY DEF Inv, TypeOK, Parts
    <3> QED  BY <3>1, <3>2 DEF Phases
  <2>2. remaining' \in Int /\ prompt' \subseteq Parts
    BY <1>3, <2>1 DEF Inv, TypeOK, Charged
  <2> QED  BY <1>1, <1>2, <1>4, <2>2, FaultsAssumption DEF Inv, TypeOK, Steps
<1>6. prompt' = prompt \cup content /\ prompt \cup parts \subseteq prompt'
      /\ prompt' \subseteq prompt \cup parts \cup {"bridge"}
  BY <1>3 DEF Charged
<1>7. Gathered' /\ NotesSoFar' /\ CutInOrder'
  BY <1>1, <1>6 DEF Inv, Gathered, NotesSoFar, CutInOrder, PastContinuity, PastWorldModel
<1>8. LoadedIsShown'
  BY <1>1, <1>4, <1>6 DEF Inv, LoadedIsShown, Kinds
<1>9. ReadsCounted'
  <2>1. Found("narrative")' = Found("narrative")  BY <1>1 DEF Found
  <2> QED
    BY <1>1, <1>2, <1>4, <2>1 DEF Inv, ReadsCounted, PastNarratives, PastContinuity,
       PastWorldModel, Kinds
<1> QED  BY <1>5, <1>7, <1>8, <1>9 DEF Inv

LEMMA EntitiesStep ==
    ASSUME Inv, Entities
    PROVE  Inv'
<1> DEFINE n == Found("entity")
<1>1. at = "world-model" /\ at' = "profiles" /\ cfg.store /\ parts = {}
      /\ UNCHANGED <<rows, cfg, remaining, skipped, prompt>>
  BY DEF Entities, Starts, Inv, Gathered, Fixed
<1>2. n \in Nat  BY FoundNat DEF Inv, TypeOK, Kinds
<1>3. Found("narrative")' = Found("narrative") /\ Found("entity")' = n
  BY <1>1 DEF Found
<1>4. Gathered' /\ NotesSoFar' /\ CutInOrder'
  BY <1>1 DEF Inv, Gathered, NotesSoFar, CutInOrder, PastContinuity, PastWorldModel
<1>5. CASE /\ Succeed
           /\ manifest' = Counted(manifest, "entity", n, n)
           /\ parts' = IF n > 0 THEN {"entity"} ELSE {}
           /\ shown' = [shown EXCEPT !["entity"] = n]
  <2>1. /\ manifest' \in [total: [Kinds -> Nat], loaded: [Kinds -> Nat], hints: SUBSET Hints]
        /\ manifest'.loaded = [manifest.loaded EXCEPT !["entity"] = n]
        /\ manifest'.total = [manifest.total EXCEPT !["entity"] = n]
    BY <1>2, <1>5 DEF Inv, TypeOK, Counted, Kinds
  <2>2. TypeOK'
    BY <1>1, <1>2, <1>5, <2>1 DEF Inv, TypeOK, Succeed, Steps, Parts, Kinds
  <2>3. LoadedIsShown'
    <3> SUFFICES ASSUME NEW k \in Kinds \ {"reflection"}
                 PROVE  manifest'.loaded[k] = IF k \in prompt' \cup parts' THEN shown'[k] ELSE 0
      BY DEF LoadedIsShown
    <3>1. CASE k = "entity"
      <4>1. manifest'.loaded[k] = n /\ shown'[k] = n
        BY <1>5, <2>1, <3>1 DEF Inv, TypeOK, Kinds
      <4>2. n # 0 => k \in parts'  BY <1>2, <1>5, <3>1
      <4> QED  BY <4>1, <4>2
    <3>2. CASE k # "entity"
      BY <1>1, <1>5, <2>1, <3>2 DEF Inv, TypeOK, LoadedIsShown, Kinds
    <3> QED  BY <3>1, <3>2
  <2>4. ReadsCounted'
    BY <1>1, <1>3, <1>5, <2>1 DEF Inv, TypeOK, ReadsCounted, PastNarratives, PastContinuity,
       PastWorldModel, Kinds, Succeed
  <2> QED  BY <1>4, <2>2, <2>3, <2>4 DEF Inv
<1>6. CASE Fault /\ UNCHANGED <<manifest, parts, shown>>
  <2>1. faults' \in 1..MaxFaults
    BY <1>6, FaultsAssumption DEF Fault, Inv, TypeOK
  <2>2. TypeOK' /\ LoadedIsShown' /\ ReadsCounted'
    BY <1>1, <1>6, <2>1 DEF Inv, TypeOK, Steps, LoadedIsShown, ReadsCounted
  <2> QED  BY <1>4, <2>2 DEF Inv
<1> QED  BY <1>5, <1>6 DEF Entities

LEMMA ProfilesStep ==
    ASSUME Inv, Profiles
    PROVE  Inv'
<1> USE LoopFacts
<1> DEFINE n == Found("profile")
<1>1. at = "profiles" /\ at' = "echo-pool" /\ parts' = {} /\ UNCHANGED <<rows, cfg, skipped>>
  BY DEF Profiles, Charged, Fixed
<1>2. n \in Nat  BY FoundNat DEF Inv, TypeOK, Kinds
<1>3. Found("narrative")' = Found("narrative") /\ Found("entity")' = Found("entity")
      /\ Found("profile")' = n
  BY <1>1 DEF Found
<1>4. CASE /\ Succeed
           /\ manifest' = Counted(manifest, "profile", n, n)
           /\ shown' = [shown EXCEPT !["profile"] = n]
           /\ \E size \in Sizes :
                  Charged("world-model", parts \cup (IF n > 0 THEN {"profile"} ELSE {}), size)
  <2>1. /\ manifest' \in [total: [Kinds -> Nat], loaded: [Kinds -> Nat], hints: SUBSET Hints]
        /\ manifest'.loaded = [manifest.loaded EXCEPT !["profile"] = n]
        /\ manifest'.total = [manifest.total EXCEPT !["profile"] = n]
        /\ manifest'.hints = manifest.hints
    BY <1>2, <1>4 DEF Inv, TypeOK, Counted, Kinds
  <2>2. prompt' = prompt \cup parts \cup (IF n > 0 THEN {"profile"} ELSE {}) /\ remaining' \in Int
    BY <1>4, SizesAssumption DEF Charged, Inv, TypeOK
  <2>3. TypeOK'
    BY <1>1, <1>2, <1>4, <2>1, <2>2 DEF Inv, TypeOK, Succeed, Steps, Parts, Kinds
  <2>4. LoadedIsShown'
    <3> SUFFICES ASSUME NEW k \in Kinds \ {"reflection"}
                 PROVE  manifest'.loaded[k] = IF k \in prompt' \cup parts' THEN shown'[k] ELSE 0
      BY DEF LoadedIsShown
    <3>1. CASE k = "profile"
      <4>1. manifest'.loaded[k] = n /\ shown'[k] = n
        BY <1>4, <2>1, <3>1 DEF Inv, TypeOK, Kinds
      <4>2. n # 0 => k \in prompt'  BY <1>2, <2>2, <3>1
      <4> QED  BY <4>1, <4>2
    <3>2. CASE k # "profile"
      BY <1>1, <1>4, <2>1, <2>2, <3>2 DEF Inv, TypeOK, LoadedIsShown, Kinds
    <3> QED  BY <3>1, <3>2
  <2>5. ReadsCounted'
    BY <1>1, <1>3, <1>4, <2>1 DEF Inv, TypeOK, ReadsCounted, PastNarratives, PastContinuity,
       PastWorldModel, Kinds, Succeed
  <2>6. Gathered' /\ NotesSoFar' /\ CutInOrder'
    BY <1>1, <2>2 DEF Inv, Gathered, NotesSoFar, CutInOrder, PastContinuity, PastWorldModel
  <2> QED  BY <2>3, <2>4, <2>5, <2>6 DEF Inv
<1>5. CASE /\ Fault /\ \E size \in Sizes : Charged("world-model", parts, size)
           /\ UNCHANGED <<manifest, shown>>
  <2>1. faults' \in 1..MaxFaults
    BY <1>5, FaultsAssumption DEF Fault, Inv, TypeOK
  <2>2. prompt' = prompt \cup parts /\ remaining' \in Int
    BY <1>5, SizesAssumption DEF Charged, Inv, TypeOK
  <2>3. TypeOK'
    BY <1>1, <1>5, <2>1, <2>2 DEF Inv, TypeOK, Steps
  <2>4. Gathered' /\ NotesSoFar' /\ CutInOrder'
    BY <1>1, <2>2 DEF Inv, Gathered, NotesSoFar, CutInOrder, PastContinuity, PastWorldModel
  <2>5. LoadedIsShown' /\ ReadsCounted'
    BY <1>1, <1>5, <2>1, <2>2 DEF Inv, LoadedIsShown, ReadsCounted
  <2> QED  BY <2>3, <2>4, <2>5 DEF Inv
<1> QED  BY <1>4, <1>5 DEF Profiles

LEMMA EchoStep ==
    ASSUME Inv, EchoUnwired \/ EmbedSeed \/ Echoes
    PROVE  Inv'
<1> USE LoopFacts
<1>1. /\ at \in {"echo-pool", "echoes"} /\ remaining >= 8 /\ parts = {}
      /\ UNCHANGED <<rows, cfg>>
  BY DEF EchoUnwired, EmbedSeed, Echoes, Starts, Inv, Gathered, CutInOrder, Fixed
<1>2. \A k \in {"narrative", "entity", "profile"} : Found(k)' = Found(k)
  BY <1>1 DEF Found
<1>0. skipped \in [Phases -> {"no", "budget", "error"}] /\ remaining \in Int
      /\ "echo-pool" \in Phases
  BY DEF Inv, TypeOK, Phases
<1>3. CASE EchoUnwired
  <2>1. /\ manifest' = [manifest EXCEPT !.hints = @ \cup {"no provider"}]
        /\ at' = "incoming" /\ UNCHANGED <<prompt, remaining, skipped, shown, faults>> /\ parts' = {}
    BY <1>3 DEF EchoUnwired, Hinted, Charged, Succeed
  <2>2. /\ manifest' \in [total: [Kinds -> Nat], loaded: [Kinds -> Nat], hints: SUBSET Hints]
        /\ manifest'.loaded = manifest.loaded /\ manifest'.total = manifest.total
        /\ manifest.hints \subseteq manifest'.hints
    BY <2>1 DEF Inv, TypeOK, Hints
  <2>3. TypeOK'  BY <1>1, <2>1, <2>2 DEF Inv, TypeOK, Steps
  <2>4. Gathered' /\ NotesSoFar' /\ CutInOrder'
    <3>1. at = "echo-pool"  BY <1>3 DEF EchoUnwired, Starts
    <3>2. Gathered' /\ NotesSoFar'
      BY <1>1, <2>1, <3>1 DEF Inv, Gathered, NotesSoFar, PastContinuity, PastWorldModel
    <3>3. CutInOrder'
      <4>1. skipped["world-model"] # "budget" /\ skipped["grounding"] # "budget"
        BY <1>0, <1>1, <3>1 DEF Inv, CutInOrder
      <4>2. skipped' = skipped /\ remaining' = remaining /\ at' = "incoming"  BY <2>1
      <4> QED  BY <1>0, <1>1, <4>1, <4>2 DEF Inv, CutInOrder
    <3> QED  BY <3>2, <3>3
  <2>5. LoadedIsShown' /\ ReadsCounted'
    BY <1>1, <1>2, <2>1, <2>2 DEF Inv, LoadedIsShown, ReadsCounted, PastNarratives,
       PastContinuity, PastWorldModel
  <2> QED  BY <2>3, <2>4, <2>5 DEF Inv
<1>4. CASE EmbedSeed /\ Succeed
  <2>1. /\ at' \in {"echoes", "panicked"}
        /\ UNCHANGED <<prompt, parts, remaining, skipped, shown, manifest, faults>>
    BY <1>4 DEF EmbedSeed, Succeed, Fault, Inv, TypeOK
  <2>2. at = "echo-pool"  BY <1>4 DEF EmbedSeed, Starts
  <2>3. TypeOK'  BY <1>1, <2>1 DEF Inv, TypeOK, Steps
  <2>4. Gathered' /\ NotesSoFar' /\ CutInOrder'
    <3>1. Gathered' /\ NotesSoFar'
      BY <1>1, <2>1, <2>2 DEF Inv, Gathered, NotesSoFar, PastContinuity, PastWorldModel
    <3>2. CutInOrder'
      BY <1>0, <1>1, <2>1, <2>2 DEF Inv, CutInOrder
    <3> QED  BY <3>1, <3>2
  <2>5. LoadedIsShown' /\ ReadsCounted'
    BY <1>1, <1>2, <2>1, <2>2 DEF Inv, LoadedIsShown, ReadsCounted, PastNarratives,
       PastContinuity, PastWorldModel
  <2> QED  BY <2>3, <2>4, <2>5 DEF Inv
<1>5. CASE Fault /\ Errs("echo-pool") /\ UNCHANGED <<manifest, shown>>
  <2>1. faults' \in 1..MaxFaults
    BY <1>5, FaultsAssumption DEF Fault, Inv, TypeOK
  <2>2. /\ at' = "incoming" /\ parts' = {} /\ UNCHANGED <<remaining, prompt>>
        /\ skipped' = [skipped EXCEPT !["echo-pool"] = "error"]
    BY <1>5 DEF Errs
  <2>3. TypeOK'
    <3>1. skipped' \in [Phases -> {"no", "budget", "error"}]  BY <1>0, <2>2
    <3>2. faults' \in 0..MaxFaults  BY <2>1
    <3> QED  BY <1>1, <1>5, <2>2, <3>1, <3>2 DEF Inv, TypeOK, Steps
  <2>4. Gathered' /\ NotesSoFar'
    BY <1>0, <1>1, <2>2 DEF Inv, Gathered, NotesSoFar, PastContinuity, PastWorldModel, Phases
  <2>5. CutInOrder'
    <3>1. at \in {"echo-pool", "echoes"} => skipped["world-model"] # "budget"
      BY <1>0, <1>1 DEF Inv, CutInOrder
    <3> QED  BY <1>0, <1>1, <2>2, <3>1 DEF Inv, CutInOrder, Phases
  <2>6. LoadedIsShown' /\ ReadsCounted'
    BY <1>1, <1>5, <2>1, <2>2 DEF Inv, LoadedIsShown, ReadsCounted
  <2> QED  BY <2>3, <2>4, <2>5, <2>6 DEF Inv
<1>6. CASE Echoes /\ Succeed
  <2>1. PICK c \in SUBSET {"echoes"}, m \in Nat :
            shown' = [shown EXCEPT !["reflection"] = m] /\ Charged("echo-pool", c, 1)
    <3> DEFINE n == Min({rows["reflection"], 2})
    <3>1. rows["reflection"] \in Nat  BY DEF Inv, TypeOK, Kinds
    <3>2. rows["reflection"] \in Int /\ 2 \in Int  BY <3>1
    <3>3. n \in {rows["reflection"], 2}  BY <3>2, MinPair, Zenon
    <3>4. n \in Nat  BY <3>1, <3>3
    <3>5. ~Fault  BY <1>6 DEF Succeed, Fault, Inv, TypeOK
    <3>6. shown' = [shown EXCEPT !["reflection"] = n]
          /\ Charged("echo-pool", IF n > 0 THEN {"echoes"} ELSE {}, 1)
      BY <1>6, <3>5 DEF Echoes
    <3> HIDE DEF n
    <3>7. (IF n > 0 THEN {"echoes"} ELSE {}) \in SUBSET {"echoes"}  OBVIOUS
    <3> QED  BY <3>4, <3>6, <3>7
  <2>2. /\ at' = "incoming" /\ parts' = {} /\ prompt' = prompt \cup c
        /\ remaining' \in {remaining, remaining - 1} /\ UNCHANGED <<skipped, manifest, faults>>
    BY <1>6, <2>1 DEF Echoes, Charged, Succeed
  <2>3. at = "echoes"  BY <1>6 DEF Echoes
  <2>4. TypeOK'
    <3>1. prompt' \subseteq Parts  BY <2>2 DEF Inv, TypeOK, Parts
    <3>2. shown' \in [Kinds -> Nat]  BY <2>1 DEF Inv, TypeOK
    <3>3. remaining' \in Int  BY <1>0, <2>2
    <3> QED  BY <1>1, <2>2, <3>1, <3>2, <3>3 DEF Inv, TypeOK, Steps
  <2>5. Gathered' /\ NotesSoFar' /\ CutInOrder'
    <3>1. Gathered' /\ NotesSoFar'
      BY <1>1, <2>2, <2>3 DEF Inv, Gathered, NotesSoFar, PastContinuity, PastWorldModel
    <3>2. CutInOrder'
      BY <1>0, <1>1, <2>2, <2>3 DEF Inv, CutInOrder
    <3> QED  BY <3>1, <3>2
  <2>6. LoadedIsShown' /\ ReadsCounted'
    BY <1>1, <1>2, <2>1, <2>2, <2>3 DEF Inv, TypeOK, LoadedIsShown, ReadsCounted, PastNarratives,
       PastContinuity, PastWorldModel, Kinds
  <2> QED  BY <2>4, <2>5, <2>6 DEF Inv
<1> QED  BY <1>3, <1>4, <1>5, <1>6 DEF EmbedSeed, Echoes

LEMMA ClosingStep ==
    ASSUME Inv, Incoming \/ Grounding
    PROVE  Inv'
<1> USE LoopFacts
<1>1. PICK c \in SUBSET {"unread", "notes", "grounding"} :
          /\ prompt' = prompt \cup c /\ remaining' \in {remaining, remaining - 1}
          /\ at = "incoming" => at' = "grounding" /\ (cfg.notes => "notes" \in c)
          /\ at = "grounding" => at' = "returned"
  <2>1. CASE Incoming
    BY <2>1 DEF Incoming, Charged, InbandNotes, Starts
  <2>2. CASE Grounding
    BY <2>2 DEF Grounding, Charged, Starts
  <2> QED  BY <2>1, <2>2
<1>2. /\ at \in {"incoming", "grounding"} /\ parts' = {} /\ parts = {}
      /\ UNCHANGED <<rows, cfg, manifest, shown, skipped, faults>>
  BY DEF Incoming, Grounding, Starts, Charged, Fixed, Succeed, Inv, Gathered
<1>3. \A k \in {"narrative", "entity", "profile"} : Found(k)' = Found(k)
  BY <1>2 DEF Found
<1>0. skipped \in [Phases -> {"no", "budget", "error"}] /\ remaining \in Int
  BY DEF Inv, TypeOK
<1>4. TypeOK'
  <2>1. prompt' \subseteq Parts  BY <1>1 DEF Inv, TypeOK, Parts
  <2>2. remaining' \in Int  BY <1>0, <1>1
  <2>3. at' \in Steps  BY <1>1, <1>2 DEF Steps
  <2> QED  BY <1>2, <2>1, <2>2, <2>3 DEF Inv, TypeOK
<1>5. Gathered' /\ NotesSoFar' /\ CutInOrder'
  <2>1. CASE at = "incoming"
    <3>1. Gathered' /\ NotesSoFar'
      BY <1>1, <1>2, <2>1 DEF Inv, Gathered, NotesSoFar, PastContinuity, PastWorldModel
    <3>2. CutInOrder'
      BY <1>0, <1>1, <1>2, <2>1 DEF Inv, CutInOrder
    <3> QED  BY <3>1, <3>2
  <2>2. CASE at = "grounding"
    BY <1>0, <1>1, <1>2, <2>2 DEF Inv, Gathered, NotesSoFar, CutInOrder, PastContinuity,
       PastWorldModel
  <2> QED  BY <1>2, <2>1, <2>2
<1>6. LoadedIsShown' /\ ReadsCounted'
  BY <1>1, <1>2, <1>3 DEF Inv, LoadedIsShown, ReadsCounted, PastNarratives, PastContinuity,
     PastWorldModel, Kinds
<1> QED  BY <1>4, <1>5, <1>6 DEF Inv

LEMMA OutOfBudgetStep ==
    ASSUME Inv, NEW phase \in Phases, OutOfBudget(phase)
    PROVE  Inv'
<1> USE LoopFacts
<1>1. phase \in {"world-model", "echo-pool", "grounding"} /\ at = phase /\ parts = {}
      /\ (phase # "echo-pool" => remaining < 1) /\ at' = Following(phase)
      /\ UNCHANGED <<rows, cfg, remaining, parts, prompt, shown, faults>>
      /\ skipped' = [skipped EXCEPT ![phase] = "budget"]
  BY DEF OutOfBudget, Phases, Fixed, Succeed, Inv, TypeOK, Gathered
<1>2. /\ manifest' \in [total: [Kinds -> Nat], loaded: [Kinds -> Nat], hints: SUBSET Hints]
      /\ manifest'.loaded = manifest.loaded /\ manifest'.total = manifest.total
      /\ manifest'.hints = manifest.hints \cup {phase}
  BY DEF OutOfBudget, HintFor, Inv, TypeOK, Hints
<1>3. \A k \in {"narrative", "entity", "profile"} : Found(k)' = Found(k)
  BY <1>1 DEF Found
<1>4. TypeOK'  BY <1>1, <1>2 DEF Inv, TypeOK, Steps
<1>5. Gathered' /\ NotesSoFar'
  BY <1>1 DEF Inv, TypeOK, Gathered, NotesSoFar, PastContinuity, PastWorldModel, Phases
<1>6. CutInOrder'
  BY <1>1 DEF Inv, TypeOK, CutInOrder, Phases
<1>7. LoadedIsShown' /\ ReadsCounted'
  BY <1>1, <1>2, <1>3 DEF Inv, LoadedIsShown, ReadsCounted, PastNarratives, PastContinuity,
     PastWorldModel
<1> QED  BY <1>4, <1>5, <1>6, <1>7 DEF Inv

LEMMA InvStep == Inv /\ [Next]_vars => Inv'
<1> SUFFICES ASSUME Inv, [Next]_vars PROVE Inv'
  OBVIOUS
<1>1. CASE UNCHANGED vars
  <2>1. \A k \in {"narrative", "entity", "profile"} : Found(k)' = Found(k)
    BY <1>1 DEF vars, Found
  <2>2. TypeOK'  BY <1>1 DEF vars, Inv, TypeOK
  <2>3. Gathered' /\ NotesSoFar' /\ CutInOrder'
    BY <1>1 DEF vars, Inv, Gathered, NotesSoFar, CutInOrder
  <2>4. LoadedIsShown' /\ ReadsCounted'
    BY <1>1, <2>1 DEF vars, Inv, LoadedIsShown, ReadsCounted
  <2> QED  BY <2>2, <2>3, <2>4 DEF Inv
<1> QED
  BY <1>1, IdentityStep, UnwiredStep, NarrativesStep, ThreadsStep, EntitiesStep, ProfilesStep,
     EchoStep, ClosingStep, OutOfBudgetStep DEF Next

\* The inductive invariant holds throughout an assembly.
THEOREM Invariance == Spec => []Inv
<1> QED  BY InvInit, InvStep, PTL DEF Spec

\* The types, for any store, budget and sizes.
THEOREM TypeCorrect == Spec => []TypeOK
<1>1. Inv => TypeOK  BY DEF Inv
<1> QED  BY Invariance, <1>1, PTL

\* A prompt that Assemble returns has the session's in-band notes, and the note
\* on unfinished metabolism where the narratives could be read, for every budget
\* and any number of failing calls.
THEOREM NotesReachTheAgent == Spec => []NotesDelivered
<1>1. Inv => NotesDelivered
  BY DEF Inv, NotesSoFar, NotesDelivered, PastContinuity, PastWorldModel
<1> QED  BY Invariance, <1>1, PTL

\* The DepthManifest of a returned prompt hides nothing: what it counts as loaded
\* was shown, and what a query could have given and was not shown is in its
\* totals or its hints, unless a call failed.
THEOREM ManifestIsTrue == Spec => []ManifestTruthful
<1>1. Inv => ManifestTruthful
  <2> SUFFICES ASSUME Inv, at = "returned", cfg.store, NEW k \in Kinds \ {"reflection"}
               PROVE  /\ manifest.loaded[k] = (IF k \in prompt THEN shown[k] ELSE 0)
                      /\ Found(k) > manifest.loaded[k] /\ faults = 0 =>
                             \/ manifest.total[k] > manifest.loaded[k]
                             \/ k \in {"entity", "profile"} /\ "world-model" \in manifest.hints
    BY DEF ManifestTruthful
  <2>1. manifest.loaded[k] = IF k \in prompt THEN shown[k] ELSE 0
    BY DEF Inv, Gathered, LoadedIsShown
  <2>2. faults = 0 => \/ manifest.total[k] = Found(k)
                      \/ k \in {"entity", "profile"} /\ "world-model" \in manifest.hints
    BY DEF Inv, ReadsCounted, PastNarratives, PastContinuity, PastWorldModel, Kinds
  <2> QED  BY <2>1, <2>2
<1> QED  BY Invariance, <1>1, PTL

\* Under budget pressure the echo pool goes before any other phase.
THEOREM EchoPoolIsCutFirst == Spec => []EchoesFirst
<1>1. Inv => EchoesFirst
  BY DEF Inv, CutInOrder, EchoesFirst
<1> QED  BY Invariance, <1>1, PTL
=============================================================================

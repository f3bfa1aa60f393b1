------------------------------ MODULE Assembly ------------------------------
(***************************************************************************)
(* ContextAssembler.Assemble: the phases that build a session's system     *)
(* prompt under a budget of characters, and the DepthManifest that tells   *)
(* the agent what was left out.  Each read of the memory store, of the     *)
(* embedding provider and of the bridge's model is a step that may fail.   *)
(*                                                                         *)
(* Sizes and the budget are counted in thousands of characters, rounded    *)
(* up; a text is represented by what it is the text of.  The in-band notes *)
(* of a session together are taken to be below a thousand characters, as   *)
(* the grounding block is.  What the identity phase does inside is the     *)
(* module Identity's subject.                                              *)
(***************************************************************************)
EXTENDS Integers, FiniteSets, FiniteSetsExt

CONSTANTS
    Counts,     \* how many rows of a kind the store may hold
    Budgets,    \* what the budget argument may be
    Sizes,      \* how long continuity and world-model texts may be
    MaxFaults   \* bound: failing calls

ASSUME CountsAssumption == Counts \subseteq Nat
ASSUME BudgetsAssumption == Budgets \subseteq Int
ASSUME SizesAssumption == Sizes \subseteq Nat \ {0}
ASSUME FaultsAssumption == MaxFaults \in Nat

Kinds == {"narrative", "reflection", "entity", "profile"}
Phases == {"identity", "continuity", "world-model", "echo-pool", "incoming", "grounding"}

VARIABLES
    rows,       \* the store: active rows of each kind
    cfg,        \* AssembleConfig: what is wired, the notes, and what the plan says
    at,         \* the phase, or the read inside it, that comes next
    remaining,
    manifest,   \* DepthManifest: total, loaded, and the phases named in AccessHints
    skipped,    \* AssemblyManifest.SkipReasons: "no", "budget" or "error" for each phase
    parts,      \* what the current phase has gathered
    prompt,     \* what the sections of the system prompt hold
    shown,      \* rows of each kind whose text is in the prompt
    faults

vars == <<rows, cfg, at, remaining, manifest, skipped, parts, prompt, shown, faults>>

Config == [store: BOOLEAN, provider: BOOLEAN, notes: BOOLEAN,
           incomplete: BOOLEAN,   \* plan.PriorMetabolismStatus is pending or failed
           bridge: BOOLEAN]       \* llmFn is set and BridgePolicy is auto_with_abstention

Steps == {"identity", "continuity", "threads", "world-model", "profiles", "echo-pool",
          "echoes", "incoming", "grounding", "returned", "failed", "panicked"}

NoRows == [k \in Kinds |-> 0]

\* NewContextAssembler: no budget means 160,000 tokens of four characters.
InitialBudget(budget) == IF budget <= 0 THEN 640 ELSE budget

Init ==
    /\ rows \in [Kinds -> Counts]
    /\ cfg \in Config
    /\ at = "identity"
    /\ remaining \in {InitialBudget(b) : b \in Budgets}
    /\ manifest = [total |-> NoRows, loaded |-> NoRows, hints |-> {}]
    /\ skipped = [p \in Phases |-> "no"]
    /\ parts = {} /\ prompt = {} /\ shown = NoRows
    /\ faults = 0

Fault == faults < MaxFaults /\ faults' = faults + 1
Succeed == UNCHANGED faults
Fixed == UNCHANGED <<rows, cfg>>

-----------------------------------------------------------------------------
(* The loop around the phases.                                              *)

\* Mutant: the notes are held to a minimum like any other phase's.
MinBudgetNotes(phase) ==
    CASE phase = "echo-pool" -> 8
      [] phase \in {"world-model", "incoming", "grounding"} -> 1
      [] OTHER -> 0

MinBudget(phase) ==
    CASE phase = "echo-pool" -> 8
      [] phase \in {"world-model", "grounding"} -> 1
      [] OTHER -> 0

\* The phases in the order of their Priority.
Following(phase) ==
    CASE phase = "identity" -> "continuity"
      [] phase = "continuity" -> "world-model"
      [] phase = "world-model" -> "echo-pool"
      [] phase = "echo-pool" -> "incoming"
      [] phase = "incoming" -> "grounding"
      [] OTHER -> "returned"

BudgetAllows(phase) == MinBudget(phase) = 0 \/ remaining >= MinBudget(phase)

\* A phase starts when the loop has come to it and the budget allows it.
Starts(phase) == at = phase /\ BudgetAllows(phase)

\* The hint that goes with a skip for want of budget.
HintFor(phase) == {phase}

\* Skipped before it runs, and named to the agent.
OutOfBudget(phase) ==
    /\ at = phase /\ ~BudgetAllows(phase)
    /\ manifest' = [manifest EXCEPT !.hints = @ \cup HintFor(phase)]
    /\ skipped' = [skipped EXCEPT ![phase] = "budget"]
    /\ at' = Following(phase)
    /\ Fixed /\ Succeed /\ UNCHANGED <<remaining, parts, prompt, shown>>

\* The phase returns content that holds these parts; nothing gathered is no section.
Charged(phase, content, size) ==
    /\ prompt' = prompt \cup content
    /\ remaining' = IF content = {} THEN remaining ELSE remaining - size
    /\ parts' = {}
    /\ at' = Following(phase)
    /\ UNCHANGED skipped

\* The phase returns an error: what it had gathered is gone.
Errs(phase) ==
    /\ skipped' = [skipped EXCEPT ![phase] = "error"]
    /\ parts' = {}
    /\ at' = Following(phase)
    /\ UNCHANGED <<remaining, prompt>>

-----------------------------------------------------------------------------
(* The reads.                                                               *)

QueryLimit == [narrative |-> 3, reflection |-> 5, entity |-> 10]
Found(k) == IF k \in DOMAIN QueryLimit THEN Min({rows[k], QueryLimit[k]}) ELSE rows[k]

\* What a phase records in the manifest for a read that gave n rows of which m are taken.
Counted(m, k, n, taken) == [m EXCEPT !.total[k] = n, !.loaded[k] = taken]

Hinted(m, condition, hint) == IF condition THEN [m EXCEPT !.hints = @ \cup {hint}] ELSE m

-----------------------------------------------------------------------------
(* The phases.                                                              *)

\* Fatal: an error ends the assembly, whatever the reason.  The identity block's
\* own characters are not charged to the budget (CharsUsed is 0).
Identity ==
    /\ Starts("identity")
    /\ Fixed /\ UNCHANGED <<manifest, shown>>
    /\ \/ /\ Succeed /\ Charged("identity", {"identity"}, 0)
       \/ /\ Fault /\ at' = "failed" /\ UNCHANGED <<remaining, skipped, parts, prompt>>

ContinuityUnwired ==
    /\ Starts("continuity") /\ ~cfg.store
    /\ Charged("continuity", {}, 0)
    /\ Fixed /\ Succeed /\ UNCHANGED <<manifest, shown>>

MetabolismNote == IF cfg.incomplete THEN {"metabolism note"} ELSE {}

\* assembleContinuity up to the reflections: three narratives are asked for, two used.
Narratives ==
    /\ Starts("continuity") /\ cfg.store
    /\ Fixed
    /\ \/ LET n == Found("narrative")
              used == Min({n, 2})
          IN /\ Succeed
             /\ manifest' = Hinted(Hinted(Counted(manifest, "narrative", n, used),
                                          n = 0, "recency only"),
                                   cfg.incomplete, "metabolism")
             /\ parts' = MetabolismNote \cup (IF n > 0 THEN {"narrative"} ELSE {})
             /\ shown' = [shown EXCEPT !["narrative"] = used]
             /\ at' = "threads"
             /\ UNCHANGED <<remaining, skipped, prompt>>
       \/ Fault /\ Errs("continuity") /\ UNCHANGED <<manifest, shown>>

BridgeAllowed == cfg.bridge /\ "narrative" \in parts

\* SynthesizeBridge abstains, fails, returns blank text, or returns a bridge.
Bridge(content) ==
    \/ content = parts
    \/ BridgeAllowed /\ content = parts \cup {"bridge"}

\* Mutant: a failed search for reflections fails the phase.
ThreadsFailPhase == Errs("continuity") /\ UNCHANGED <<manifest, shown>>

\* A failed search for reflections is logged; the narratives stay.
ThreadsFail == \E size \in Sizes : Charged("continuity", parts, size) /\ UNCHANGED <<manifest, shown>>

\* The reflections are counted as loaded and given to the bridge, not to the prompt.
Threads ==
    /\ at = "threads"
    /\ Fixed
    /\ \/ LET n == Found("reflection")
          IN /\ Succeed
             /\ manifest' = Hinted(Counted(manifest, "reflection", n, n), n = 0, "no reflections")
             /\ \E content \in SUBSET (parts \cup {"bridge"}), size \in Sizes :
                    Bridge(content) /\ Charged("continuity", content, size)
             /\ UNCHANGED shown
       \/ Fault /\ ThreadsFail

WorldUnwired ==
    /\ Starts("world-model") /\ ~cfg.store
    /\ Charged("world-model", {}, 0)
    /\ Fixed /\ Succeed /\ UNCHANGED <<manifest, shown>>

Entities ==
    /\ Starts("world-model") /\ cfg.store
    /\ at' = "profiles"
    /\ Fixed /\ UNCHANGED <<remaining, skipped, prompt>>
    /\ \/ LET n == Found("entity")
          IN /\ Succeed
             /\ manifest' = Counted(manifest, "entity", n, n)
             /\ parts' = IF n > 0 THEN {"entity"} ELSE {}
             /\ shown' = [shown EXCEPT !["entity"] = n]
       \/ Fault /\ UNCHANGED <<manifest, parts, shown>>

Profiles ==
    /\ at = "profiles"
    /\ Fixed
    /\ \/ LET n == Found("profile")
          IN /\ Succeed
             /\ manifest' = Counted(manifest, "profile", n, n)
             /\ shown' = [shown EXCEPT !["profile"] = n]
             /\ \E size \in Sizes :
                    Charged("world-model", parts \cup (IF n > 0 THEN {"profile"} ELSE {}), size)
       \/ /\ Fault /\ \E size \in Sizes : Charged("world-model", parts, size)
          /\ UNCHANGED <<manifest, shown>>

EchoUnwired ==
    /\ Starts("echo-pool") /\ ~cfg.provider
    /\ manifest' = Hinted(manifest, TRUE, "no provider")
    /\ Charged("echo-pool", {}, 0)
    /\ Fixed /\ Succeed /\ UNCHANGED shown

\* The seed is embedded; without a store the search that follows has no receiver.
EmbedSeed ==
    /\ Starts("echo-pool") /\ cfg.provider
    /\ Fixed /\ UNCHANGED <<manifest, shown>>
    /\ \/ /\ Succeed /\ at' = (IF cfg.store THEN "echoes" ELSE "panicked")
          /\ UNCHANGED <<remaining, skipped, parts, prompt>>
       \/ Fault /\ Errs("echo-pool")

\* At most two echoes of at most 300 characters.
Echoes ==
    /\ at = "echoes"
    /\ Fixed /\ UNCHANGED manifest
    /\ \/ LET n == Min({rows["reflection"], 2})
          IN /\ Succeed
             /\ shown' = [shown EXCEPT !["reflection"] = n]
             /\ Charged("echo-pool", IF n > 0 THEN {"echoes"} ELSE {}, 1)
       \/ Fault /\ Errs("echo-pool") /\ UNCHANGED shown

InbandNotes == IF cfg.notes THEN {"notes"} ELSE {}

Incoming ==
    /\ Starts("incoming")
    /\ Charged("incoming", {"unread"} \cup InbandNotes, 1)
    /\ Fixed /\ Succeed /\ UNCHANGED <<manifest, shown>>

\* Gather and Format; then the manifest block closes the prompt.
Grounding ==
    /\ Starts("grounding")
    /\ Charged("grounding", {"grounding"}, 1)
    /\ Fixed /\ Succeed /\ UNCHANGED <<manifest, shown>>

Next ==
    \/ Identity \/ ContinuityUnwired \/ Narratives \/ Threads
    \/ WorldUnwired \/ Entities \/ Profiles
    \/ EchoUnwired \/ EmbedSeed \/ Echoes
    \/ Incoming \/ Grounding
    \/ \E phase \in Phases : OutOfBudget(phase)

Spec == Init /\ [][Next]_vars

-----------------------------------------------------------------------------
Parts == {"identity", "metabolism note", "bridge", "echoes", "unread", "notes", "grounding"} \cup Kinds
Hints == Phases \cup {"recency only", "metabolism", "no reflections", "no provider"}

TypeOK ==
    /\ rows \in [Kinds -> Nat] /\ cfg \in Config /\ at \in Steps
    /\ remaining \in Int
    /\ manifest \in [total: [Kinds -> Nat], loaded: [Kinds -> Nat], hints: SUBSET Hints]
    /\ skipped \in [Phases -> {"no", "budget", "error"}]
    /\ parts \subseteq Parts /\ prompt \subseteq Parts
    /\ shown \in [Kinds -> Nat]
    /\ faults \in 0..MaxFaults

\* However little budget is left and whatever failed on the way, a prompt that
\* is returned holds the session's in-band notes (disclosures, interruption
\* notices); and it tells that the last session's metabolism is unfinished,
\* unless there is no store or the narratives could not be read.
NotesDelivered ==
    at = "returned" =>
        /\ cfg.notes => "notes" \in prompt
        /\ cfg.incomplete /\ cfg.store =>
               "metabolism note" \in prompt \/ skipped["continuity"] = "error"

\* The rows a query could have given and the agent was not shown are visible in
\* the manifest, as a total above the loaded count or as the hint of a skipped
\* phase, and what the manifest counts as loaded is in the prompt: unless a call
\* failed.  A query's limit caps its total too.  Reflections are left out: they
\* are counted as loaded when only the bridge's model sees them.
ManifestTruthful ==
    at = "returned" /\ cfg.store =>
        \A k \in Kinds \ {"reflection"} :
            /\ manifest.loaded[k] = (IF k \in prompt THEN shown[k] ELSE 0)
            /\ Found(k) > manifest.loaded[k] /\ faults = 0 =>
                   \/ manifest.total[k] > manifest.loaded[k]
                   \/ k \in {"entity", "profile"} /\ "world-model" \in manifest.hints

\* The echo pool is the first phase to be cut under budget pressure: no other
\* phase is missing for want of budget from a prompt that had room for echoes.
EchoesFirst ==
    at = "returned" =>
        \A p \in Phases : skipped[p] = "budget" => skipped["echo-pool"] = "budget"

=============================================================================

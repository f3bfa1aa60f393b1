-------------------------------- MODULE Boot --------------------------------
(***************************************************************************)
(* The composition root: from the environment to a running daemon.  Every  *)
(* combination of settings is an initial state; the steps are those of     *)
(* platform.Load, ParseProfile, NewApp, Validate and App.Run, in the order *)
(* of the code.  A dependency that is not built is a nil interface: a call *)
(* through it panics.                                                      *)
(***************************************************************************)
EXTENDS Integers, FiniteSets

CONSTANT MaxEvents  \* bound: events of one run

ASSUME BoundAssumption == MaxEvents \in Nat

Production == "ersa_production"
Development == "development"
Connectivity == "connectivity_test"
ValidProfiles == {Production, Development, Connectivity}

Stores == {"JobStore", "ConsolidationStore", "LifecycleStore", "AssemblyStore"}
Services == {"MemoryStore", "EmbeddingProvider", "Gateway", "ToolRegistry"}
Dependencies == {"DB", "LLM"} \cup Stores \cup Services

\* The environment, as far as construction depends on it.
Settings == [
    profile   : ValidProfiles \cup {"unset", "other"},
    dsn       : {"sqlite", "postgres", "other"},
    reachable : BOOLEAN,                \* the database answers a ping
    floor     : {"below", "above", "zero"},  \* HARD_FLOOR_TOKENS against TOKEN_BUDGET
    openai    : BOOLEAN,                \* LLM_PROVIDER is openai or openai-compat
    endpoint  : BOOLEAN,
    embedKey  : BOOLEAN,
    external  : BOOLEAN,                \* SESSION_TRIGGER
    channels  : SUBSET {"discord", "cli"},
    pollSecs  : {-1, 0, 30}]

VARIABLES
    env,       \* the settings, as read
    budget,    \* the budget in use: "set" or "default"
    profile,   \* RuntimeProfile
    deps,      \* the dependencies that are not nil
    registry,  \* registered channels
    at,        \* the next step; or how it ended
    events     \* inbound events handled

vars == <<env, budget, profile, deps, registry, at, events>>

Building == {"load", "profile", "db", "stores", "llm", "memory", "embedding", "gateway",
             "tools", "validate", "metabolism", "channels", "run"}
Ended == {"refused", "returned", "panicked"}

TypeOK ==
    /\ env \in Settings /\ budget \in {"set", "default"}
    /\ profile \in ValidProfiles \cup {"none"}
    /\ deps \subseteq Dependencies \cup {"Supervisor"} /\ registry \subseteq {"discord", "cli"}
    /\ at \in Building \cup {"listening"} \cup Ended
    /\ events \in 0..MaxEvents

Init ==
    /\ env \in Settings
    /\ budget = "set" /\ profile = "none" /\ deps = {} /\ registry = {}
    /\ at = "load" /\ events = 0

Refuse ==
    /\ at' = "refused"
    /\ UNCHANGED <<env, budget, profile, deps, registry, events>>

\* Load and validate: a floor that is not below the budget resets both.
Load ==
    /\ at = "load"
    /\ IF env.floor = "zero" THEN Refuse
       ELSE /\ budget' = IF env.floor = "above" THEN "default" ELSE "set"
            /\ at' = "profile"
            /\ UNCHANGED <<env, profile, deps, registry, events>>

ParseProfile ==
    /\ at = "profile"
    /\ IF env.profile = "other" THEN Refuse
       ELSE /\ profile' = IF env.profile = "unset" THEN Development ELSE env.profile
            /\ at' = "db"
            /\ UNCHANGED <<env, budget, deps, registry, events>>

\* DriverNameFromDSN takes every scheme it does not know for SQLite.
DriverName == IF env.dsn = "postgres" THEN "postgres" ELSE "sqlite3"

\* NewStore.  parseDSN refuses an unknown scheme; sql.Open refuses the driver name
\* parseDSN gives PostgreSQL, because go-sqlite3 is the only driver the program
\* imports: pgx is used through its own pool, which NewApp never makes.
Opens == env.dsn = "sqlite" /\ env.reachable

Build(names, next) ==
    /\ deps' = deps \cup names /\ at' = next
    /\ UNCHANGED <<env, budget, profile, registry, events>>

\* Only development goes on without a database; Validate refuses it later.
OpenDB ==
    /\ at = "db"
    /\ IF Opens THEN Build({"DB"}, "stores")
       ELSE IF profile \in {Connectivity, Production} THEN Refuse
       ELSE Build({}, "stores")

WireStores == at = "stores" /\ Build(IF "DB" \in deps THEN Stores ELSE {}, "llm")

BuildLLM ==
    /\ at = "llm"
    /\ IF env.openai /\ env.endpoint THEN Build({"LLM"}, "memory") ELSE Refuse

\* NewApp makes a MemoryStore for SQLite only.
BuildMemory ==
    /\ at = "memory"
    /\ Build(IF "DB" \in deps /\ DriverName = "sqlite3" THEN {"MemoryStore"} ELSE {}, "embedding")

BuildEmbedding ==
    at = "embedding" /\ Build(IF env.embedKey THEN {"EmbeddingProvider"} ELSE {}, "gateway")

\* The trust scorer and the tools sit on the SQLite store.
BuildGateway ==
    at = "gateway" /\ Build(IF "MemoryStore" \in deps THEN {"Gateway"} ELSE {}, "tools")

BuildTools ==
    at = "tools" /\ Build(IF "MemoryStore" \in deps THEN {"ToolRegistry"} ELSE {}, "validate")

\* Mutant: development is let through without persistence, as the warning of its
\* failed NewStore announces.
RequiredLax(p) ==
    CASE p = Production   -> Dependencies
      [] p = Development  -> {"LLM"}
      [] p = Connectivity -> {"DB", "LLM"}

Required(p) ==
    CASE p = Production   -> Dependencies
      [] p = Development  -> {"DB", "LLM"} \cup Stores
      [] p = Connectivity -> {"DB", "LLM"}

Validate ==
    /\ at = "validate"
    /\ IF Required(profile) \subseteq deps THEN Build({}, "metabolism") ELSE Refuse

\* Pipeline, JobRunner and Supervisor.
BuildMetabolism ==
    at = "metabolism" /\ Build(IF {"JobStore", "DB"} \subseteq deps THEN {"Supervisor"} ELSE {}, "channels")

\* The adapters NewApp registers, and NewDaemon.
BuildChannels ==
    /\ at = "channels"
    /\ LET found == IF env.external THEN env.channels ELSE {}
       IN  IF profile = Production /\ env.external /\ found = {} THEN Refuse
           ELSE /\ registry' = found /\ at' = "run"
                /\ UNCHANGED <<env, budget, profile, deps, events>>

End(how) ==
    /\ at' = how
    /\ UNCHANGED <<env, budget, profile, deps, registry, events>>

\* Run in the connectivity profile is a ping.
RunPing == at = "run" /\ profile = Connectivity /\ End("returned")

\* Without channels it is one session.  Its echo phase, once the provider has
\* answered, searches a store it does not compare with nil.
RunOnce ==
    /\ at = "run" /\ profile # Connectivity /\ registry = {}
    /\ LET nilSearch == "EmbeddingProvider" \in deps /\ "MemoryStore" \notin deps
       IN  \E how \in {"returned"} \cup (IF nilSearch THEN {"panicked"} ELSE {}) : End(how)

\* pollChannel makes its ticker of PollInterval, which defaults only if zero.
RunDaemon ==
    /\ at = "run" /\ profile # Connectivity /\ registry # {}
    /\ End(IF "discord" \in registry /\ env.pollSecs < 0 THEN "panicked" ELSE "listening")

\* handleEvent begins with the gateway, which it does not compare with nil.
Event ==
    /\ at = "listening" /\ events < MaxEvents
    /\ at' = IF "Gateway" \in deps THEN "listening" ELSE "panicked"
    /\ events' = events + 1
    /\ UNCHANGED <<env, budget, profile, deps, registry>>

Stop == at = "listening" /\ End("returned")

NewApp ==
    \/ Load \/ ParseProfile \/ OpenDB \/ WireStores \/ BuildLLM \/ BuildMemory
    \/ BuildEmbedding \/ BuildGateway \/ BuildTools \/ Validate \/ BuildMetabolism
    \/ BuildChannels
Next == NewApp \/ RunPing \/ RunOnce \/ RunDaemon \/ Event \/ Stop

Spec == Init /\ [][Next]_vars

-----------------------------------------------------------------------------
(* Properties.                                                              *)

\* What Validate lets through can run: no dependency that is nil is called, and
\* whatever runs sessions has the supervisor that recovers and drains their
\* jobs.  NewApp goes on without a database in development, handleEvent calls
\* Aegis and the echo phase the memory store unchecked, and neither is on
\* development's list: only the order of construction and the DB and stores that
\* are on it keep those calls from a nil.  What nothing checks is a negative
\* DISCORD_POLL_SECONDS, which panics in the poller whatever the profile.
RunsWired ==
    /\ at = "panicked" => "discord" \in registry /\ env.pollSecs < 0
    /\ at \in {"run", "listening"} /\ profile # Connectivity => "Supervisor" \in deps
=============================================================================

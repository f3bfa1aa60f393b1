----------------------------- MODULE BootProofs -----------------------------
(***************************************************************************)
(* Proofs about Boot: what the order of construction and the profiles'     *)
(* lists leave nil, for every setting and any number of events.            *)
(***************************************************************************)
EXTENDS Boot, TLAPS

\* The steps behind each point of construction.
FromMemory     == {"embedding", "gateway", "tools", "validate", "metabolism", "channels", "run",
                   "listening"}
FromGateway    == FromMemory \ {"embedding", "gateway"}
FromValidate   == {"metabolism", "channels", "run", "listening"}
FromMetabolism == {"channels", "run", "listening"}

\* ParseProfile has given the run its profile.
Profiled == at \notin {"load", "profile", "refused"} => profile \in ValidProfiles

\* NewStore: there is a DB only if the DSN opens, and then it is SQLite's.
Opened == "DB" \in deps => Opens

\* Whoever has the database has the memory store.
MemoryWithDB == at \in FromMemory /\ "DB" \in deps => "MemoryStore" \in deps

\* Aegis is built wherever the memory store was.
GatewayWithMemory == at \in FromGateway /\ "MemoryStore" \in deps => "Gateway" \in deps

\* Nothing is taken away again after Validate.
Validated == at \in FromValidate => Required(profile) \subseteq deps

Supervised == at \in FromMetabolism /\ {"JobStore", "DB"} \subseteq deps => "Supervisor" \in deps

\* The connectivity profile has no event loop.
Listening == at = "listening" => profile # Connectivity

Inv ==
    /\ TypeOK /\ Profiled /\ Opened /\ MemoryWithDB /\ GatewayWithMemory
    /\ Validated /\ Supervised /\ Listening /\ RunsWired

\* What the three profiles require.
LEMMA RequiredFacts ==
    /\ Required(Production) = Dependencies
    /\ Required(Development) = {"DB", "LLM"} \cup Stores
    /\ Required(Connectivity) = {"DB", "LLM"}
BY DEF Required, Production, Development, Connectivity

\* A profile that runs sessions has its database and job store.
LEMMA RunnableDeps ==
    ASSUME profile \in ValidProfiles, profile # Connectivity, Required(profile) \subseteq deps
    PROVE  {"JobStore", "DB"} \subseteq deps
BY RequiredFacts DEF ValidProfiles, Dependencies, Stores, Services

LEMMA TypeInit == Init => TypeOK
BY BoundAssumption DEF Init, TypeOK, Building

\* Every step keeps the types.
LEMMA TypeStep == TypeOK /\ [Next]_vars => TypeOK'
<1> SUFFICES ASSUME TypeOK, [Next]_vars PROVE TypeOK'
  OBVIOUS
<1> USE DEF TypeOK, Building, Ended
<1>1. CASE Load  BY <1>1 DEF Load, Refuse
<1>2. CASE ParseProfile
  <2>1. env.profile \in ValidProfiles \cup {"unset", "other"}  BY DEF Settings
  <2> QED  BY <1>2, <2>1 DEF ParseProfile, Refuse, ValidProfiles
<1>3. CASE OpenDB  BY <1>3 DEF OpenDB, Refuse, Build, Dependencies
<1>4. CASE WireStores  BY <1>4 DEF WireStores, Build, Dependencies
<1>5. CASE BuildLLM  BY <1>5 DEF BuildLLM, Refuse, Build, Dependencies
<1>6. CASE BuildMemory  BY <1>6 DEF BuildMemory, Build, Dependencies, Services
<1>7. CASE BuildEmbedding  BY <1>7 DEF BuildEmbedding, Build, Dependencies, Services
<1>8. CASE BuildGateway  BY <1>8 DEF BuildGateway, Build, Dependencies, Services
<1>9. CASE BuildTools  BY <1>9 DEF BuildTools, Build, Dependencies, Services
<1>10. CASE Validate  BY <1>10 DEF Validate, Refuse, Build
<1>11. CASE BuildMetabolism  BY <1>11 DEF BuildMetabolism, Build
<1>12. CASE BuildChannels
  <2>1. env.channels \subseteq {"discord", "cli"}  BY DEF Settings
  <2> QED  BY <1>12, <2>1 DEF BuildChannels, Refuse
<1>13. CASE RunPing \/ RunOnce \/ RunDaemon \/ Stop
  BY <1>13 DEF RunPing, RunOnce, RunDaemon, Stop, End
<1>14. CASE Event  BY <1>14, BoundAssumption DEF Event
<1>15. CASE UNCHANGED vars  BY <1>15 DEF vars
<1> QED
  BY <1>1, <1>2, <1>3, <1>4, <1>5, <1>6, <1>7, <1>8, <1>9, <1>10, <1>11, <1>12, <1>13,
     <1>14, <1>15 DEF Next, NewApp

LEMMA InvInit == Init => Inv
BY TypeInit
   DEF Init, Inv, Profiled, Opened, MemoryWithDB, GatewayWithMemory, Validated,
       Supervised, Listening, RunsWired, FromMemory, FromGateway, FromValidate, FromMetabolism,
       Ended

LEMMA InvStep == Inv /\ [Next]_vars => Inv'
<1> SUFFICES ASSUME Inv, [Next]_vars PROVE Inv'
  OBVIOUS
<1>0. TypeOK'  BY TypeStep DEF Inv
<1> USE DEF FromMemory, FromGateway, FromValidate, FromMetabolism, Ended
<1>1. CASE Load \/ ParseProfile
  <2>1. env.profile \in ValidProfiles \cup {"unset", "other"}  BY DEF Inv, TypeOK, Settings
  <2>2. Development \in ValidProfiles  BY DEF ValidProfiles
  <2> QED
    BY <1>0, <1>1, <2>1, <2>2 DEF Load, ParseProfile, Refuse, Inv, Profiled, Opened, Opens,
       MemoryWithDB, GatewayWithMemory, Validated, Supervised,
       Listening, RunsWired
<1>2. CASE OpenDB \/ WireStores \/ BuildLLM
  BY <1>0, <1>2 DEF OpenDB, WireStores, BuildLLM, Refuse, Build, Stores, Inv, Profiled, Opened, Opens,
     MemoryWithDB, GatewayWithMemory, Validated, Supervised,
     Listening, RunsWired
<1>3. CASE BuildMemory
  <2>1. "DB" \in deps => DriverName = "sqlite3"  BY DEF Inv, Opened, Opens, DriverName
  <2> QED
    BY <1>0, <1>3, <2>1 DEF BuildMemory, Build, Inv, Profiled, Opened, Opens, MemoryWithDB,
       GatewayWithMemory, Validated, Supervised, Listening, RunsWired
<1>4. CASE BuildEmbedding \/ BuildGateway \/ BuildTools
  BY <1>0, <1>4 DEF BuildEmbedding, BuildGateway, BuildTools, Build, Inv, Profiled, Opened, Opens,
     MemoryWithDB, GatewayWithMemory, Validated, Supervised,
     Listening, RunsWired
<1>5. CASE Validate
  <2>1. CASE ~(Required(profile) \subseteq deps)
    BY <1>0, <1>5, <2>1 DEF Validate, Refuse, Inv, Profiled, Opened, Opens, MemoryWithDB,
       GatewayWithMemory, Validated, Supervised, Listening, RunsWired
  <2>2. CASE Required(profile) \subseteq deps
    BY <1>0, <1>5, <2>2 DEF Validate, Build, Inv, Profiled, Opened, Opens, MemoryWithDB,
       GatewayWithMemory, Validated, Supervised, Listening, RunsWired
  <2> QED  BY <2>1, <2>2
<1>6. CASE BuildMetabolism \/ BuildChannels
  <2>1. profile # Connectivity /\ at \in FromValidate => {"JobStore", "DB"} \subseteq deps
    BY RunnableDeps DEF Inv, Profiled, Validated
  <2> QED
    BY <1>0, <1>6, <2>1 DEF BuildMetabolism, BuildChannels, Refuse, Build, Inv, Profiled, Opened,
       Opens, MemoryWithDB, GatewayWithMemory, Validated, Supervised,
       Listening, RunsWired
<1>7. ASSUME at \in {"run", "listening"}, profile # Connectivity
      PROVE  {"MemoryStore", "Gateway"} \subseteq deps
  <2>1. profile \in ValidProfiles /\ Required(profile) \subseteq deps
    BY <1>7 DEF Inv, Profiled, Validated
  <2>2. "DB" \in deps  BY <1>7, <2>1, RunnableDeps
  <2>3. "MemoryStore" \in deps  BY <1>7, <2>2 DEF Inv, MemoryWithDB
  <2> QED  BY <1>7, <2>3 DEF Inv, GatewayWithMemory
<1>8. CASE RunPing \/ RunOnce \/ RunDaemon
  BY <1>0, <1>7, <1>8 DEF RunPing, RunOnce, RunDaemon, End, Inv, Profiled, Opened, Opens,
     MemoryWithDB, GatewayWithMemory, Validated, Supervised,
     Listening, RunsWired
<1>9. CASE Event \/ Stop
  BY <1>0, <1>7, <1>9 DEF Event, Stop, End, Inv, Profiled, Opened, Opens,
     MemoryWithDB, GatewayWithMemory, Validated, Supervised,
     Listening, RunsWired, TypeOK
<1>10. CASE UNCHANGED vars
  BY <1>0, <1>10 DEF vars, Inv, Profiled, Opened, Opens, MemoryWithDB,
     GatewayWithMemory, Validated, Supervised, Listening, RunsWired
<1> QED
  BY <1>1, <1>2, <1>3, <1>4, <1>5, <1>6, <1>8, <1>9, <1>10 DEF Next, NewApp

\* The type invariant of the composition root, for any bound on the events.
THEOREM TypeCorrect == Spec => []TypeOK
<1> QED  BY TypeInit, TypeStep, PTL DEF Spec

\* Whatever the settings, what Validate lets through calls no nil dependency, in
\* any number of events, and runs no session without the supervisor that
\* recovers and drains its jobs; only a negative poll interval panics.
THEOREM OnlyKnownGap == Spec => []RunsWired
<1>1. Inv => RunsWired  BY DEF Inv
<1> QED  BY InvInit, InvStep, <1>1, PTL DEF Spec
=============================================================================

----------------------------- MODULE Knowledge -----------------------------
(***************************************************************************)
(* The belief and knowledge layer: records of tiers 2 to 5, the memory     *)
(* edges between them, the distrust that travels along derived_from edges, *)
(* the end-of-session decay pass, and the bi-temporal replacement of       *)
(* entities.  None of these operations is a transaction: every statement   *)
(* is a step, and operations, failures and crashes interleave.             *)
(***************************************************************************)
EXTENDS Integers, FiniteSets, FiniteSetsExt

CONSTANTS
    T2, T3, T4, T5,  \* the records of each tier
    Links,           \* derived_from edges <<from, to>> somebody may create
    Callers,         \* callers of SupersedeEntity
    MaxRows,         \* bound: rows; a successor is inserted even beyond it
    MaxFaults,       \* bound: failing statements and crashes
    MaxCalls         \* bound: passes, and entities invalidated or superseded

Records == T2 \cup T3 \cup T4 \cup T5
Beliefs == T3 \cup T4 \cup T5
Nobody == "nobody"

ASSUME TierAssumption ==
    /\ IsFiniteSet(Records)
    /\ T2 \cap Beliefs = {} /\ T3 \cap (T4 \cup T5) = {} /\ T4 \cap T5 = {}
ASSUME NobodyAssumption == Nobody \notin Records
ASSUME LinkAssumption == Links \subseteq Records \X Records
ASSUME BoundAssumption == MaxRows \in Nat /\ MaxFaults \in Nat /\ MaxCalls \in Nat

VARIABLES
    rows,        \* the records that have been written
    vstate,      \* belief_meta.verification_state
    stated,      \* reflections with a base_confidence
    aged,        \* of those, the ones whose confidence has fallen below the threshold
    derived,     \* memory_edges of type derived_from, <<from_id, to_id>>
    supersedes,  \* memory_edges of type supersedes, <<new, old>>
    expired,     \* entities with t_expired set
    distrust,    \* where PropagateDistrust is: "idle", "marking", "expanding", "done"
    source, queue, current, visited,  \* its locals
    marked,      \* records it has marked (affected)
    missed,      \* a MarkNeedsReview failed
    before,      \* history: the edges when it was called
    decaying,    \* records FlagStaleBeliefs has still to look at
    caller,      \* the callers of SupersedeEntity: where they are, old and new ID
    retired,     \* history: entities expired by InvalidateEntity alone
    broken,      \* history: entities whose replacement failed half way
    faults, calls

records == <<rows, vstate, stated, aged>>
graph == <<derived, supersedes, expired>>
pass == <<distrust, source, queue, current, visited, marked, missed, before>>
replacing == <<caller, retired, broken>>
vars == <<records, graph, pass, decaying, replacing, faults, calls>>

States == {"none", "unverified", "needs_review", "stale"}
NoCall == [at |-> "idle", old |-> Nobody, new |-> Nobody]

TypeOK ==
    /\ rows \subseteq Records
    /\ vstate \in [Records -> States] /\ \A r \in T2 : vstate[r] = "none"
    /\ stated \subseteq T4
    /\ aged \subseteq T4
    /\ derived \subseteq Records \X Records
    /\ supersedes \subseteq T5 \X T5
    /\ expired \subseteq T5
    /\ distrust \in {"idle", "marking", "expanding", "done"}
    /\ source \in Records \cup {Nobody} /\ current \in Records \cup {Nobody}
    /\ queue \subseteq Records /\ visited \subseteq Records /\ marked \subseteq Records
    /\ missed \in BOOLEAN
    /\ before \subseteq Records \X Records
    /\ decaying \subseteq Beliefs
    /\ caller \in [Callers -> {NoCall} \cup [at : {"upsert", "link"}, old : T5, new : T5]]
    /\ retired \subseteq T5 /\ broken \subseteq T5
    /\ faults \in 0..MaxFaults /\ calls \in 0..MaxCalls

Init ==
    /\ rows = {} /\ stated = {} /\ aged = {}
    /\ vstate = [r \in Records |-> "none"]
    /\ derived = {} /\ supersedes = {} /\ expired = {}
    /\ distrust = "idle" /\ source = Nobody /\ current = Nobody
    /\ queue = {} /\ visited = {} /\ marked = {} /\ missed = FALSE /\ before = {}
    /\ decaying = {}
    /\ caller = [c \in Callers |-> NoCall]
    /\ retired = {} /\ broken = {}
    /\ faults = 0 /\ calls = 0

-----------------------------------------------------------------------------
(* Writing records and edges.                                               *)

Room == Cardinality(rows) < MaxRows

\* AppendExperiential: T2 has no belief_meta.
AppendLog(r) ==
    /\ r \in T2 \ rows /\ Room
    /\ rows' = rows \cup {r}
    /\ UNCHANGED <<vstate, stated, aged, graph, pass, decaying, replacing, faults, calls>>

InsertNarrative(r) ==
    /\ r \in T3 \ rows /\ Room
    /\ rows' = rows \cup {r}
    /\ vstate' = [vstate EXCEPT ![r] = "unverified"]
    /\ UNCHANGED <<stated, aged, graph, pass, decaying, replacing, faults, calls>>

\* The consent boundary: base_confidence is stored only if the agent anchored
\* it.  Without a belief, belief_meta stays empty.
InsertReflection(r) ==
    /\ r \in T4 \ rows /\ Room
    /\ rows' = rows \cup {r}
    /\ \/ /\ vstate' = [vstate EXCEPT ![r] = "unverified"]
          /\ stated' \in {stated, stated \cup {r}}
       \/ UNCHANGED <<vstate, stated>>
    /\ UNCHANGED <<aged, graph, pass, decaying, replacing, faults, calls>>

\* The row is replaced on conflict, its belief_meta too; t_expired is not.
Upsert(e) ==
    /\ rows' = rows \cup {e}
    /\ vstate' = [vstate EXCEPT ![e] = "unverified"]

UpsertEntity(e) ==
    /\ e \in T5 /\ (e \in rows \/ Room)
    /\ Upsert(e)
    /\ UNCHANGED <<stated, aged, graph, pass, decaying, replacing, faults, calls>>

\* ON CONFLICT DO NOTHING.  The records are written before they are linked.
CreateEdge(link) ==
    /\ link \notin derived /\ link[1] \in rows /\ link[2] \in rows
    /\ derived' = derived \cup {link}
    /\ UNCHANGED <<records, supersedes, expired, pass, decaying, replacing, faults, calls>>

TimePasses(r) ==
    /\ r \in stated \ aged
    /\ aged' = aged \cup {r}
    /\ UNCHANGED <<rows, vstate, stated, graph, pass, decaying, replacing, faults, calls>>

-----------------------------------------------------------------------------
(* PropagateDistrust.  The order of the queue is left out.                  *)

\* FetchDownstreamEdges: what derives from r.
Dependents(r) == {d \in Records : <<d, r>> \in derived}

Distrust(r) ==
    /\ r \in rows
    /\ distrust = "idle" /\ calls < MaxCalls /\ calls' = calls + 1
    /\ distrust' = "marking"
    /\ source' = r /\ before' = derived
    /\ visited' = {r} \cup Dependents(r)
    /\ queue' = Dependents(r) \ {r}
    /\ marked' = {} /\ missed' = FALSE
    /\ UNCHANGED <<records, graph, current, decaying, replacing, faults>>

\* MarkNeedsReview does nothing for tier 2.
MarkNeedsReview(r) ==
    /\ distrust = "marking" /\ r \in queue
    /\ queue' = queue \ {r} /\ current' = r /\ distrust' = "expanding"
    /\ marked' = marked \cup {r}
    /\ vstate' = IF r \notin T2 THEN [vstate EXCEPT ![r] = "needs_review"] ELSE vstate
    /\ UNCHANGED <<rows, stated, aged, graph, source, visited, missed, before, decaying,
                   replacing, faults, calls>>

\* A record that cannot be marked is not expanded either.
MarkFails(r) ==
    /\ distrust = "marking" /\ r \in queue
    /\ faults < MaxFaults /\ faults' = faults + 1
    /\ queue' = queue \ {r} /\ missed' = TRUE
    /\ UNCHANGED <<records, graph, distrust, source, current, visited, marked, before,
                   decaying, replacing, calls>>

\* Mutant: only the seeds are marked.
ExpandNothing ==
    /\ distrust = "expanding"
    /\ current' = Nobody /\ distrust' = "marking"
    /\ UNCHANGED <<records, graph, source, queue, visited, marked, missed, before, decaying,
                   replacing, faults, calls>>

\* Mutant: a record that was visited is queued again.
ExpandAgain ==
    /\ distrust = "expanding"
    /\ visited' = visited \cup Dependents(current)
    /\ queue' = queue \cup Dependents(current)
    /\ current' = Nobody /\ distrust' = "marking"
    /\ UNCHANGED <<records, graph, source, marked, missed, before, decaying, replacing,
                   faults, calls>>

Expand ==
    /\ distrust = "expanding"
    /\ visited' = visited \cup Dependents(current)
    /\ queue' = queue \cup (Dependents(current) \ visited)
    /\ current' = Nobody /\ distrust' = "marking"
    /\ UNCHANGED <<records, graph, source, marked, missed, before, decaying, replacing,
                   faults, calls>>

Propagated ==
    /\ distrust = "marking" /\ queue = {}
    /\ distrust' = "done"
    /\ UNCHANGED <<records, graph, source, queue, current, visited, marked, missed, before,
                   decaying, replacing, faults, calls>>

Reset ==
    /\ distrust' = "idle" /\ source' = Nobody /\ current' = Nobody
    /\ queue' = {} /\ visited' = {} /\ marked' = {} /\ missed' = FALSE /\ before' = {}

\* The caller has its count; so it does if a fetch failed, with an error.
Return ==
    /\ \/ distrust = "done" /\ UNCHANGED faults
       \/ distrust = "expanding" /\ faults < MaxFaults /\ faults' = faults + 1
    /\ Reset
    /\ UNCHANGED <<records, graph, decaying, replacing, calls>>

-----------------------------------------------------------------------------
(* RunEndOfSessionDecay.                                                    *)

\* LoadBeliefRecords: rows with belief_meta that are not stale; of reflections
\* only those with a base_confidence.
Decayable == {r \in rows \ T2 : vstate[r] \notin {"none", "stale"} /\ (r \in T4 => r \in stated)}

\* Mutant: nor of tier 4, as if base_confidence had no column of its own there.
AlwaysBelow(r) == TRUE

\* Confidence.  base_confidence is in no column and no belief_meta of tiers 3
\* and 5 (beliefMetaJSON leaves it out): it is loaded as zero.
BelowThreshold(r) == r \notin T4 \/ r \in aged

\* QueryEdgesForBFS: what r derives from.
Bases(r) == {s \in Records : <<r, s>> \in derived}

\* ComputeInferenceDistance: the records first reached after each number of
\* hops, one when none of them derives from tier 2.
Frontier(r) ==
    LET f[n \in 0..Cardinality(Records)] ==
            IF n = 0 THEN [queue |-> {r}, visited |-> {r}]
            ELSE LET prev == f[n - 1]
                     next == (UNION {Bases(q) : q \in prev.queue}) \ prev.visited
                 IN  [queue |-> next, visited |-> prev.visited \cup next]
    IN  f

\* Mutant: depth is not counted.
AlwaysOne(r) == 1

InferenceDistance(r) ==
    LET f == Frontier(r)
        hits == {n \in DOMAIN f : \E q \in f[n].queue : Bases(q) \cap T2 # {}}
    IN  IF hits = {} THEN 1 ELSE Min(hits) + 1

RunDecay ==
    /\ decaying = {} /\ Decayable # {} /\ calls < MaxCalls /\ calls' = calls + 1
    /\ decaying' = {r \in Decayable : BelowThreshold(r)}
    /\ UNCHANGED <<records, graph, pass, replacing, faults>>

\* UpdateVerificationState; the snapshot decides, whatever the row says now.
FlagStale(r) ==
    /\ r \in decaying
    /\ decaying' = decaying \ {r}
    /\ vstate' = [vstate EXCEPT ![r] = "stale"]
    /\ UNCHANGED <<rows, stated, aged, graph, pass, replacing, faults, calls>>

DecayFails ==
    /\ decaying # {} /\ faults < MaxFaults /\ faults' = faults + 1
    /\ decaying' = {}
    /\ UNCHANGED <<records, graph, pass, replacing, calls>>

-----------------------------------------------------------------------------
(* Entities: InvalidateEntity and SupersedeEntity.                          *)

\* Mutant: t_expired IS NULL is left out.
ExpiresAgain(e) == e \in rows \cap T5

\* UPDATE ... WHERE id = ? AND t_expired IS NULL touches a row.
Expires(e) == e \in (rows \cap T5) \ expired

InvalidateEntity(e) ==
    /\ Expires(e) /\ calls < MaxCalls /\ calls' = calls + 1
    /\ expired' = expired \cup {e} /\ retired' = retired \cup {e}
    /\ UNCHANGED <<records, derived, supersedes, pass, decaying, caller, broken, faults>>

\* SupersedeEntity, first statement.  The successor has an ID of its own.
Supersede(c, old, new) ==
    /\ caller[c].at = "idle" /\ new \in T5 \ rows /\ Expires(old)
    /\ calls < MaxCalls /\ calls' = calls + 1
    /\ expired' = expired \cup {old}
    /\ caller' = [caller EXCEPT ![c] = [at |-> "upsert", old |-> old, new |-> new]]
    /\ UNCHANGED <<records, derived, supersedes, pass, decaying, retired, broken, faults>>

InsertSuccessor(c) ==
    /\ caller[c].at = "upsert"
    /\ Upsert(caller[c].new)
    /\ caller' = [caller EXCEPT ![c].at = "link"]
    /\ UNCHANGED <<stated, aged, graph, pass, decaying, retired, broken, faults, calls>>

InsertSupersedesEdge(c) ==
    /\ caller[c].at = "link"
    /\ supersedes' = supersedes \cup {<<caller[c].new, caller[c].old>>}
    /\ caller' = [caller EXCEPT ![c] = NoCall]
    /\ UNCHANGED <<records, derived, expired, pass, decaying, retired, broken, faults, calls>>

\* A statement fails: what was done before it stays.
SupersedeFails(c) ==
    /\ caller[c].at # "idle" /\ faults < MaxFaults /\ faults' = faults + 1
    /\ broken' = broken \cup {caller[c].old}
    /\ caller' = [caller EXCEPT ![c] = NoCall]
    /\ UNCHANGED <<records, graph, pass, decaying, retired, calls>>

\* The process dies with everything it was doing.
Crash ==
    /\ faults < MaxFaults /\ faults' = faults + 1
    /\ Reset /\ decaying' = {}
    /\ broken' = broken \cup ({caller[c].old : c \in Callers} \ {Nobody})
    /\ caller' = [c \in Callers |-> NoCall]
    /\ UNCHANGED <<records, graph, retired, calls>>

Propagate ==
    \/ \E r \in Records : MarkNeedsReview(r) \/ MarkFails(r)
    \/ Expand \/ Propagated \/ Return

Next ==
    \/ \E r \in Records : \/ AppendLog(r) \/ InsertNarrative(r) \/ InsertReflection(r)
                          \/ UpsertEntity(r) \/ TimePasses(r) \/ Distrust(r)
                          \/ FlagStale(r) \/ InvalidateEntity(r)
    \/ \E link \in Links : CreateEdge(link)
    \/ Propagate \/ RunDecay \/ DecayFails \/ Crash
    \/ \E c \in Callers : \/ \E old, new \in T5 : Supersede(c, old, new)
                          \/ InsertSuccessor(c) \/ InsertSupersedesEdge(c) \/ SupersedeFails(c)

Spec == Init /\ [][Next]_vars

\* A pass that has been called runs on until it returns.
FairSpec == Spec /\ WF_vars(Propagate)

-----------------------------------------------------------------------------
(* Properties.                                                              *)

\* Downstream of r along edges E: what is in every set that has r and is
\* closed under derivation.
Closed(S, E) == \A link \in E : link[2] \in S => link[1] \in S
Downstream(r, E) == {d \in Records : \A S \in SUBSET Records : r \in S /\ Closed(S, E) => d \in S}

\* When PropagateDistrust returns without a failure, everything that derived
\* from the source when it was called, over any number of hops, has been
\* marked for review, although edges are added while it walks; and at no time
\* has it marked anything that does not derive from the source.
DistrustIsExact ==
    /\ distrust = "done" /\ ~missed => Downstream(source, before) \ {source} \subseteq marked
    /\ marked \subseteq (IF source = Nobody THEN {} ELSE Downstream(source, derived))

\* PropagateDistrust returns: cycles of derived_from edges, and edges added
\* while it runs, do not keep it going.
PropagationEnds == distrust # "idle" ~> distrust = "idle"

\* The records n derived_from hops away from r.
Away(r) ==
    LET f[n \in 0..Cardinality(Records)] == IF n = 0 THEN {r} ELSE UNION {Bases(q) : q \in f[n - 1]}
    IN  f

\* ComputeInferenceDistance, which drops the records it has visited and stops
\* at the first tier 2 entry it meets, finds the least number of hops to direct
\* experience whatever cycles the edges have; one where there is none.
DistanceIsLeast ==
    \A r \in rows \ T2 :
        LET f == Away(r)
            hops == {n \in DOMAIN f : f[n] \cap T2 # {}}
        IN  InferenceDistance(r) = IF hops = {} THEN 1 ELSE Min(hops)

\* Callers of SupersedeEntity that race for one entity leave one successor,
\* and what has a successor is no longer believed (the RowsAffected check of
\* InvalidateEntity).  "The old belief can always be traced from the new one":
\* an expired entity was retired on purpose, is being replaced, or has its
\* successor's edge; except that a failure or crash between the statements of
\* SupersedeEntity leaves it with neither.
Lineage ==
    /\ \A x, y \in supersedes : x[2] = y[2] => x = y
    /\ \A x \in supersedes : x[2] \in expired /\ x[1] \in rows
    /\ \A e \in expired : \/ e \in retired \cup broken
                          \/ \E c \in Callers : caller[c].old = e
                          \/ \E x \in supersedes : x[2] = e

\* The consent boundary of tier 4: the decay pass (LoadBeliefRecords,
\* FlagStaleBeliefs) calls a reflection stale only if the agent itself gave it
\* a confidence and that confidence has decayed.
ReflectionConsent == \A r \in T4 : vstate[r] = "stale" => r \in stated \cap aged
=============================================================================

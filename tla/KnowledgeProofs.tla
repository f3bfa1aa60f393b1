-------------------------- MODULE KnowledgeProofs --------------------------
(***************************************************************************)
(* Proofs about Knowledge: for any records, derivations, callers and       *)
(* bounds, with statements failing and the process crashing anywhere.      *)
(***************************************************************************)
EXTENDS Knowledge, FiniteSetTheorems, WellFoundedInduction, TLAPS

-----------------------------------------------------------------------------
(* Types.                                                                   *)

LEMMA TypeInit == Init => TypeOK
<1> SUFFICES ASSUME Init PROVE TypeOK
  OBVIOUS
<1>1. missed \in BOOLEAN  BY Zenon DEF Init
<1>2. caller \in [Callers -> {NoCall} \cup [at : {"upsert", "link"}, old : T5, new : T5]]
  BY DEF Init
<1>3. vstate \in [Records -> States] /\ \A r \in T2 : vstate[r] = "none"
  BY DEF Init, States, Records
<1>4. faults \in 0..MaxFaults /\ calls \in 0..MaxCalls
  BY BoundAssumption DEF Init
<1> QED  BY <1>1, <1>2, <1>3, <1>4 DEF Init, TypeOK

\* Writing records and edges.
LEMMA TypeWrite ==
    ASSUME TypeOK,
           \/ \E r \in Records : \/ AppendLog(r) \/ InsertNarrative(r) \/ InsertReflection(r)
                                 \/ UpsertEntity(r) \/ TimePasses(r)
           \/ \E link \in Links : CreateEdge(link)
    PROVE  TypeOK'
<1> USE TierAssumption DEF TypeOK, Records, Beliefs, States
<1>1. ASSUME NEW r \in Records, AppendLog(r) PROVE TypeOK'
  BY <1>1 DEF AppendLog, graph, pass, replacing
<1>2. ASSUME NEW r \in Records, InsertNarrative(r) PROVE TypeOK'
  BY <1>2 DEF InsertNarrative, graph, pass, replacing
<1>3. ASSUME NEW r \in Records, InsertReflection(r) PROVE TypeOK'
  BY <1>3 DEF InsertReflection, graph, pass, replacing
<1>4. ASSUME NEW r \in Records, UpsertEntity(r) PROVE TypeOK'
  BY <1>4 DEF UpsertEntity, Upsert, graph, pass, replacing
<1>5. ASSUME NEW r \in Records, TimePasses(r) PROVE TypeOK'
  BY <1>5 DEF TimePasses, graph, pass, replacing
<1>6. ASSUME NEW link \in Links, CreateEdge(link) PROVE TypeOK'
  BY <1>6, LinkAssumption DEF CreateEdge, records, pass, replacing
<1> QED  BY <1>1, <1>2, <1>3, <1>4, <1>5, <1>6

\* PropagateDistrust.
LEMMA TypeWalk ==
    ASSUME TypeOK, Propagate \/ \E r \in Records : Distrust(r)
    PROVE  TypeOK'
<1> USE BoundAssumption DEF TypeOK, States
<1>1. ASSUME NEW r \in Records, Distrust(r) PROVE TypeOK'
  <2>1. missed' \in BOOLEAN  BY <1>1, Zenon DEF Distrust
  <2> QED  BY <1>1, <2>1 DEF Distrust, Dependents, records, graph, replacing
<1>2. ASSUME NEW r \in Records, MarkNeedsReview(r) PROVE TypeOK'
  BY <1>2 DEF MarkNeedsReview, graph, replacing
<1>3. ASSUME NEW r \in Records, MarkFails(r) PROVE TypeOK'
  BY <1>3 DEF MarkFails, records, graph, replacing
<1>4. CASE Expand  BY <1>4 DEF Expand, Dependents, records, graph, replacing
<1>5. CASE Propagated  BY <1>5 DEF Propagated, records, graph, replacing
<1>6. CASE Return
  <2>1. missed' \in BOOLEAN  BY <1>6, Zenon DEF Return, Reset
  <2> QED  BY <1>6, <2>1 DEF Return, Reset, records, graph, replacing
<1> QED  BY <1>1, <1>2, <1>3, <1>4, <1>5, <1>6 DEF Propagate

\* The decay pass.
LEMMA TypeDecay ==
    ASSUME TypeOK, RunDecay \/ DecayFails \/ \E r \in Records : FlagStale(r)
    PROVE  TypeOK'
<1> USE BoundAssumption, TierAssumption DEF TypeOK, States
<1>1. CASE RunDecay
  BY <1>1 DEF RunDecay, Decayable, Records, Beliefs, records, graph, pass, replacing
<1>2. CASE DecayFails  BY <1>2 DEF DecayFails, records, graph, pass, replacing
<1>3. ASSUME NEW r \in Records, FlagStale(r) PROVE TypeOK'
  BY <1>3 DEF FlagStale, graph, pass, replacing
<1> QED  BY <1>1, <1>2, <1>3

\* Replacing entities, and the crash.
LEMMA TypeReplace ==
    ASSUME TypeOK,
           \/ Crash
           \/ \E e \in Records : InvalidateEntity(e)
           \/ \E c \in Callers : \/ \E old, new \in T5 : Supersede(c, old, new)
                                 \/ InsertSuccessor(c) \/ InsertSupersedesEdge(c) \/ SupersedeFails(c)
    PROVE  TypeOK'
<1> USE BoundAssumption, TierAssumption, NobodyAssumption DEF TypeOK, States
<1>1. ASSUME NEW e \in Records, InvalidateEntity(e) PROVE TypeOK'
  BY <1>1 DEF InvalidateEntity, Expires, records, pass
<1>2. ASSUME NEW c \in Callers, NEW old \in T5, NEW new \in T5, Supersede(c, old, new) PROVE TypeOK'
  BY <1>2 DEF Supersede, records, pass
<1>3. ASSUME NEW c \in Callers, InsertSuccessor(c) PROVE TypeOK'
  <2>1. caller[c] \in [at : {"upsert", "link"}, old : T5, new : T5]
    BY <1>3 DEF InsertSuccessor, NoCall
  <2>2. caller' \in [Callers -> {NoCall} \cup [at : {"upsert", "link"}, old : T5, new : T5]]
    BY <1>3, <2>1 DEF InsertSuccessor
  <2>3. caller[c].new \in Records \ T2
    BY <2>1 DEF Records, Beliefs
  <2> QED  BY <1>3, <2>2, <2>3 DEF InsertSuccessor, Upsert, graph, pass
<1>4. ASSUME NEW c \in Callers, InsertSupersedesEdge(c) PROVE TypeOK'
  <2>1. caller[c] \in [at : {"upsert", "link"}, old : T5, new : T5]
    BY <1>4 DEF InsertSupersedesEdge, NoCall
  <2> QED  BY <1>4, <2>1 DEF InsertSupersedesEdge, records, pass
<1>5. ASSUME NEW c \in Callers, SupersedeFails(c) PROVE TypeOK'
  <2>1. caller[c] \in [at : {"upsert", "link"}, old : T5, new : T5]
    BY <1>5 DEF SupersedeFails, NoCall
  <2> QED  BY <1>5, <2>1 DEF SupersedeFails, records, graph, pass
<1>6. CASE Crash
  <2>1. missed' \in BOOLEAN  BY <1>6, Zenon DEF Crash, Reset
  <2>2. broken' \subseteq T5
    <3>1. \A c \in Callers : caller[c].old \in T5 \cup {Nobody}  BY DEF NoCall
    <3> QED  BY <1>6, <3>1 DEF Crash
  <2> QED  BY <1>6, <2>1, <2>2 DEF Crash, Reset, records, graph
<1> QED  BY <1>1, <1>2, <1>3, <1>4, <1>5, <1>6

\* Every step keeps the types.
LEMMA TypeStep == TypeOK /\ [Next]_vars => TypeOK'
<1> SUFFICES ASSUME TypeOK, [Next]_vars PROVE TypeOK'
  OBVIOUS
<1>1. CASE UNCHANGED vars
  BY <1>1 DEF TypeOK, vars, records, graph, pass, replacing
<1> QED  BY <1>1, TypeWrite, TypeWalk, TypeDecay, TypeReplace DEF Next

\* The types, for any records and bounds.
THEOREM TypeCorrect == Spec => []TypeOK
<1> QED  BY TypeInit, TypeStep, PTL DEF Spec

-----------------------------------------------------------------------------
(* The consent boundary of tier 4.                                          *)

\* What the decay pass has in hand of tier 4 was stated by the agent and has
\* aged; and what it has called stale.
ConsentInv == ReflectionConsent /\ \A r \in decaying : r \in T4 => r \in stated \cap aged

LEMMA ConsentStep == TypeOK /\ ConsentInv /\ [Next]_vars => ConsentInv'
<1> SUFFICES ASSUME TypeOK, ConsentInv, [Next]_vars PROVE ConsentInv'
  OBVIOUS
<1> USE TierAssumption DEF ConsentInv, ReflectionConsent
<1>0. vstate \in [Records -> States] /\ T4 \subseteq Records /\ T5 \subseteq Records
  BY DEF TypeOK, Records
<1>1. ASSUME NEW r \in Records,
             AppendLog(r) \/ InsertNarrative(r) \/ InsertReflection(r) \/ UpsertEntity(r) \/ TimePasses(r)
      PROVE  ConsentInv'
  BY <1>0, <1>1 DEF AppendLog, InsertNarrative, InsertReflection, UpsertEntity, Upsert, TimePasses
<1>2. ASSUME NEW r \in Records, FlagStale(r) PROVE ConsentInv'
  BY <1>0, <1>2 DEF FlagStale
<1>3. ASSUME NEW r \in Records, MarkNeedsReview(r) PROVE ConsentInv'
  BY <1>0, <1>3 DEF MarkNeedsReview
<1>4. CASE RunDecay
  BY <1>4 DEF RunDecay, Decayable, BelowThreshold, records
<1>5. CASE \/ \E r \in Records : Distrust(r) \/ MarkFails(r) \/ InvalidateEntity(r)
           \/ \E link \in Links : CreateEdge(link)
           \/ Expand \/ Propagated \/ Return \/ DecayFails \/ Crash
           \/ \E c \in Callers : \/ \E old, new \in T5 : Supersede(c, old, new)
                                 \/ InsertSupersedesEdge(c) \/ SupersedeFails(c)
           \/ UNCHANGED vars
  <2>1. UNCHANGED <<vstate, stated, aged>> /\ decaying' \subseteq decaying
    BY <1>5 DEF Distrust, MarkFails, InvalidateEntity, CreateEdge, Expand, Propagated, Return,
       DecayFails, Crash, Supersede, InsertSupersedesEdge, SupersedeFails, vars, records
  <2> QED  BY <2>1
<1>6. ASSUME NEW c \in Callers, InsertSuccessor(c) PROVE ConsentInv'
  <2>1. vstate' = [vstate EXCEPT ![caller[c].new] = "unverified"] /\ UNCHANGED <<stated, aged, decaying>>
    BY <1>6 DEF InsertSuccessor, Upsert
  <2> QED  BY <1>0, <2>1
<1> QED  BY <1>1, <1>2, <1>3, <1>4, <1>5, <1>6 DEF Next, Propagate

\* FlagStaleBeliefs never calls a reflection stale against the agent's consent,
\* however the pass interleaves with writes, distrust and crashes.
THEOREM ConsentIsKept == Spec => []ReflectionConsent
<1>1. Init => ConsentInv
  BY DEF Init, ConsentInv, ReflectionConsent, Records
<1>2. ConsentInv => ReflectionConsent
  BY DEF ConsentInv
<1> QED  BY <1>1, <1>2, ConsentStep, TypeCorrect, PTL DEF Spec

-----------------------------------------------------------------------------
(* Entities and their successors.                                           *)

\* An entity that is being replaced is expired, has no successor yet and no
\* second caller; the successor's row is there before the edge.
Replacing(c) == caller[c].at \in {"upsert", "link"}
ReplacingInv ==
    /\ \A c \in Callers : Replacing(c) =>
          /\ caller[c].old \in expired
          /\ \A x \in supersedes : x[2] # caller[c].old
          /\ caller[c].at = "link" => caller[c].new \in rows
    /\ \A c, d \in Callers : Replacing(c) /\ Replacing(d) /\ caller[c].old = caller[d].old => c = d
LineageInv == Lineage /\ ReplacingInv

LEMMA CallerFacts ==
    ASSUME TypeOK, NEW c \in Callers
    PROVE  /\ Replacing(c) => caller[c] \in [at : {"upsert", "link"}, old : T5, new : T5]
           /\ ~Replacing(c) => caller[c] = NoCall
           /\ caller[c].old # Nobody => Replacing(c)
BY DEF TypeOK, Replacing, NoCall

LEMMA LineageStep == TypeOK /\ LineageInv /\ [Next]_vars => LineageInv'
<1> SUFFICES ASSUME TypeOK, LineageInv, [Next]_vars PROVE LineageInv'
  OBVIOUS
<1>1. CASE rows \subseteq rows' /\ UNCHANGED <<supersedes, expired, caller, retired, broken>>
  BY <1>1 DEF LineageInv, Lineage, ReplacingInv, Replacing
<1>2. CASE \/ \E r \in Records : \/ AppendLog(r) \/ InsertNarrative(r) \/ InsertReflection(r)
                                 \/ UpsertEntity(r) \/ TimePasses(r) \/ Distrust(r)
                                 \/ MarkNeedsReview(r) \/ MarkFails(r) \/ FlagStale(r)
           \/ \E link \in Links : CreateEdge(link)
           \/ Expand \/ Propagated \/ Return \/ RunDecay \/ DecayFails
           \/ UNCHANGED vars
  <2>1. rows \subseteq rows' /\ UNCHANGED <<supersedes, expired, caller, retired, broken>>
    BY <1>2 DEF AppendLog, InsertNarrative, InsertReflection, UpsertEntity, Upsert, TimePasses,
       Distrust, MarkNeedsReview, MarkFails, FlagStale, CreateEdge, Expand, Propagated, Return,
       RunDecay, DecayFails, vars, records, graph, replacing
  <2> QED  BY <1>1, <2>1
<1>3. ASSUME NEW e \in Records, InvalidateEntity(e) PROVE LineageInv'
  BY <1>3 DEF InvalidateEntity, records, LineageInv, Lineage, ReplacingInv, Replacing
<1>4. ASSUME NEW c \in Callers, NEW old \in T5, NEW new \in T5, Supersede(c, old, new)
      PROVE  LineageInv'
  <2>1. /\ caller' = [caller EXCEPT ![c] = [at |-> "upsert", old |-> old, new |-> new]]
        /\ old \notin expired /\ expired' = expired \cup {old}
        /\ UNCHANGED <<rows, supersedes, retired, broken>> /\ ~Replacing(c)
        /\ caller[c].old = Nobody
    BY <1>4, CallerFacts DEF Supersede, Expires, records, Replacing, NoCall
  <2>2. /\ \A d \in Callers \ {c} : caller'[d] = caller[d]
        /\ caller'[c].old = old /\ caller'[c].new = new /\ caller'[c].at = "upsert"
    BY <2>1 DEF TypeOK
  <2>3. ReplacingInv'
    BY <2>1, <2>2 DEF LineageInv, Lineage, ReplacingInv, Replacing
  <2>4. Lineage'
    <3>1. \A e \in expired' : \/ e \in retired \cup broken
                               \/ \E d \in Callers : caller'[d].old = e
                               \/ \E x \in supersedes : x[2] = e
      <4> SUFFICES ASSUME NEW e \in expired, e \notin retired \cup broken,
                          ~ \E x \in supersedes : x[2] = e
                   PROVE  \E d \in Callers : caller'[d].old = e
        BY <2>1, <2>2
      <4>1. PICK d \in Callers : caller[d].old = e  BY DEF LineageInv, Lineage
      <4>2. d # c
        BY <2>1, <4>1, NobodyAssumption DEF TypeOK, Records
      <4> QED  BY <2>2, <4>1, <4>2
    <3> QED  BY <2>1, <3>1 DEF LineageInv, Lineage
  <2> QED  BY <2>3, <2>4 DEF LineageInv
<1>5. ASSUME NEW c \in Callers, InsertSuccessor(c) PROVE LineageInv'
  <2>1. caller[c] \in [at : {"upsert", "link"}, old : T5, new : T5]
    BY <1>5, CallerFacts DEF InsertSuccessor, Replacing
  <2>2. /\ \A d \in Callers : caller'[d].old = caller[d].old /\ caller'[d].new = caller[d].new
        /\ \A d \in Callers \ {c} : caller'[d].at = caller[d].at
        /\ caller'[c].at = "link" /\ Replacing(c)
        /\ rows' = rows \cup {caller[c].new}
        /\ UNCHANGED <<supersedes, expired, retired, broken>>
    BY <1>5, <2>1 DEF InsertSuccessor, Upsert, graph, TypeOK, Replacing
  <2>3. ReplacingInv'
    BY <2>2 DEF LineageInv, ReplacingInv, Replacing
  <2>4. Lineage'
    BY <2>2 DEF LineageInv, Lineage
  <2> QED  BY <2>3, <2>4 DEF LineageInv
<1>6. ASSUME NEW c \in Callers, InsertSupersedesEdge(c) PROVE LineageInv'
  <2>1. Replacing(c) /\ caller[c].at = "link" /\ caller[c].old \in T5
    BY <1>6, CallerFacts DEF InsertSupersedesEdge, Replacing
  <2>2. /\ supersedes' = supersedes \cup {<<caller[c].new, caller[c].old>>}
        /\ \A d \in Callers \ {c} : caller'[d] = caller[d]
        /\ caller'[c] = NoCall
        /\ UNCHANGED <<rows, expired, retired, broken>>
    BY <1>6 DEF InsertSupersedesEdge, records, TypeOK
  <2>3. ReplacingInv'
    BY <2>1, <2>2 DEF LineageInv, ReplacingInv, Replacing, NoCall
  <2>4. Lineage'
    <3> DEFINE edge == <<caller[c].new, caller[c].old>>
    <3>1. edge[1] = caller[c].new /\ edge[2] = caller[c].old  OBVIOUS
    <3>2. edge[2] \in expired /\ edge[1] \in rows /\ \A x \in supersedes : x[2] # edge[2]
      BY <2>1, <3>1 DEF LineageInv, ReplacingInv
    <3>3. supersedes' = supersedes \cup {edge}  BY <2>2
    <3> HIDE DEF edge
    <3>4. /\ \A x, y \in supersedes' : x[2] = y[2] => x = y
          /\ \A x \in supersedes' : x[2] \in expired' /\ x[1] \in rows'
      BY <2>2, <3>2, <3>3 DEF LineageInv, Lineage
    <3>5. \A e \in expired' : \/ e \in retired' \cup broken'
                               \/ \E d \in Callers : caller'[d].old = e
                               \/ \E x \in supersedes' : x[2] = e
      BY <2>2, <3>1, <3>3 DEF LineageInv, Lineage
    <3> QED  BY <3>4, <3>5 DEF Lineage
  <2> QED  BY <2>3, <2>4 DEF LineageInv
<1>7. ASSUME NEW c \in Callers, SupersedeFails(c) PROVE LineageInv'
  <2>1. /\ broken' = broken \cup {caller[c].old}
        /\ \A d \in Callers \ {c} : caller'[d] = caller[d]
        /\ caller'[c] = NoCall
        /\ UNCHANGED <<rows, supersedes, expired, retired>>
    BY <1>7 DEF SupersedeFails, records, graph, TypeOK
  <2>2. ReplacingInv'
    BY <2>1 DEF LineageInv, ReplacingInv, Replacing, NoCall
  <2>3. Lineage'
    BY <2>1 DEF LineageInv, Lineage
  <2> QED  BY <2>2, <2>3 DEF LineageInv
<1>8. CASE Crash
  <2>1. /\ broken' = broken \cup ({caller[c].old : c \in Callers} \ {Nobody})
        /\ \A c \in Callers : caller'[c] = NoCall
        /\ UNCHANGED <<rows, supersedes, expired, retired>>
    BY <1>8 DEF Crash, records, graph
  <2>2. ReplacingInv'
    BY <2>1 DEF ReplacingInv, Replacing, NoCall
  <2>3. \A e \in expired : e # Nobody
    BY NobodyAssumption DEF TypeOK, Records
  <2>4. Lineage'
    BY <2>1, <2>3 DEF LineageInv, Lineage
  <2> QED  BY <2>2, <2>4 DEF LineageInv
<1> QED  BY <1>2, <1>3, <1>4, <1>5, <1>6, <1>7, <1>8 DEF Next, Propagate

\* An entity has one successor however many callers of SupersedeEntity race for
\* it, and an expired one without a successor is accounted for.
THEOREM LineageIsKept == Spec => []Lineage
<1>1. Init => LineageInv
  BY DEF Init, LineageInv, Lineage, ReplacingInv, Replacing, NoCall
<1>2. LineageInv => Lineage
  BY DEF LineageInv
<1> QED  BY <1>1, <1>2, LineageStep, TypeCorrect, PTL DEF Spec

-----------------------------------------------------------------------------
(* PropagateDistrust.                                                       *)

\* Downstream is the least set that holds r and is closed under derivation.
LEMMA DownstreamHolds ==
    ASSUME NEW E, NEW r \in Records
    PROVE  r \in Downstream(r, E)
BY DEF Downstream

LEMMA DownstreamLeast ==
    ASSUME NEW E, NEW r \in Records, NEW S \in SUBSET Records, r \in S, Closed(S, E)
    PROVE  Downstream(r, E) \subseteq S
BY DEF Downstream

LEMMA DownstreamClosed ==
    ASSUME NEW E, NEW r, NEW x \in Downstream(r, E), NEW d \in Records, <<d, x>> \in E
    PROVE  d \in Downstream(r, E)
<1> SUFFICES ASSUME NEW S \in SUBSET Records, r \in S, Closed(S, E)
             PROVE  d \in S
  BY DEF Downstream
<1>1. x \in S  BY DEF Downstream
<1>2. <<d, x>>[1] = d /\ <<d, x>>[2] = x  OBVIOUS
<1> QED  BY <1>1, <1>2 DEF Closed

\* An edge more leaves what was downstream downstream.
LEMMA DownstreamGrows ==
    ASSUME NEW E, NEW F, E \subseteq F, NEW r
    PROVE  Downstream(r, E) \subseteq Downstream(r, F)
<1>1. \A S : Closed(S, F) => Closed(S, E)  BY DEF Closed
<1> QED  BY <1>1 DEF Downstream

\* While a pass runs.  What it has visited is the source, what it has marked and
\* what is queued, unless a mark failed; of all these but the record it is about
\* to expand, what derived from them at the call has been visited; and all of
\* it derives from the source by now.
Walking == distrust # "idle"
Reached == {source} \cup marked
WalkInv ==
    /\ before \subseteq derived
    /\ ~Walking => marked = {}
    /\ Walking =>
          /\ source \in Records
          /\ Reached \cup queue \subseteq visited
          /\ ~missed => visited \subseteq Reached \cup queue
          /\ \A x \in Reached, d \in Records :
                <<d, x>> \in before => d \in visited \/ (distrust = "expanding" /\ x = current)
          /\ visited \subseteq Downstream(source, derived)
          /\ distrust = "expanding" => current \in marked
          /\ distrust = "done" => queue = {}

\* A finished pass without a failed mark has visited a closed set.
LEMMA WalkIsExact == TypeOK /\ WalkInv => DistrustIsExact
<1> SUFFICES ASSUME TypeOK, WalkInv PROVE DistrustIsExact
  OBVIOUS
<1>1. ASSUME distrust = "done", ~missed
      PROVE  Downstream(source, before) \ {source} \subseteq marked
  <2>1. source \in Records /\ visited = Reached /\ visited \subseteq Records
    BY <1>1 DEF WalkInv, Walking, TypeOK
  <2>2. Closed(visited, before)
    <3> SUFFICES ASSUME NEW link \in before, link[2] \in visited PROVE link[1] \in visited
      BY DEF Closed
    <3>1. link = <<link[1], link[2]>> /\ link[1] \in Records  BY DEF TypeOK
    <3> QED  BY <1>1, <2>1, <3>1 DEF WalkInv, Walking
  <2>3. Downstream(source, before) \subseteq visited
    BY <2>1, <2>2, DownstreamLeast DEF Reached
  <2> QED  BY <2>1, <2>3 DEF Reached
<1>2. marked \subseteq (IF source = Nobody THEN {} ELSE Downstream(source, derived))
  BY NobodyAssumption DEF WalkInv, Reached
<1> QED  BY <1>1, <1>2 DEF DistrustIsExact

LEMMA WalkStep == TypeOK /\ WalkInv /\ [Next]_vars => WalkInv'
<1> SUFFICES ASSUME TypeOK, WalkInv, [Next]_vars PROVE WalkInv'
  OBVIOUS
<1>1. ASSUME NEW r \in Records, Distrust(r) PROVE WalkInv'
  <2>1. /\ distrust' = "marking" /\ source' = r /\ before' = derived /\ derived' = derived
        /\ visited' = {r} \cup Dependents(r) /\ queue' = Dependents(r) \ {r}
        /\ marked' = {} /\ missed' = FALSE
    BY <1>1 DEF Distrust, graph
  <2>2. Reached' = {r}  BY <2>1 DEF Reached
  <2>3. visited' \subseteq Downstream(r, derived)
    <3>1. r \in Downstream(r, derived)  BY DownstreamHolds
    <3>2. \A d \in Dependents(r) : d \in Downstream(r, derived)
      BY <3>1, DownstreamClosed DEF Dependents
    <3> QED  BY <2>1, <3>1, <3>2
  <2>4. \A d \in Records : <<d, r>> \in derived => d \in visited'
    BY <2>1 DEF Dependents
  <2> QED  BY <2>1, <2>2, <2>3, <2>4 DEF WalkInv, Walking
<1>2. ASSUME NEW r \in Records, MarkNeedsReview(r) PROVE WalkInv'
  <2>1. /\ distrust = "marking" /\ r \in queue /\ queue' = queue \ {r} /\ current' = r
        /\ distrust' = "expanding" /\ marked' = marked \cup {r}
        /\ UNCHANGED <<source, visited, missed, before, derived>>
    BY <1>2 DEF MarkNeedsReview, graph
  <2> QED  BY <2>1 DEF WalkInv, Walking, Reached
<1>3. ASSUME NEW r \in Records, MarkFails(r) PROVE WalkInv'
  <2>1. /\ distrust = "marking" /\ queue' = queue \ {r} /\ missed'
        /\ UNCHANGED <<distrust, source, current, visited, marked, before, derived>>
    BY <1>3 DEF MarkFails, graph
  <2> QED  BY <2>1 DEF WalkInv, Walking, Reached
<1>4. CASE Expand
  <2>1. /\ distrust = "expanding" /\ distrust' = "marking"
        /\ visited' = visited \cup Dependents(current)
        /\ queue' = queue \cup (Dependents(current) \ visited)
        /\ UNCHANGED <<source, marked, missed, before, derived>>
    BY <1>4 DEF Expand, graph
  <2>2. current \in marked /\ current \in Downstream(source, derived)
    BY <2>1 DEF WalkInv, Walking, Reached
  <2>3. \A d \in Dependents(current) : d \in Downstream(source, derived)
    BY <2>2, DownstreamClosed DEF Dependents
  <2>4. \A d \in Records : <<d, current>> \in before => d \in visited'
    BY <2>1 DEF WalkInv, Dependents
  <2> QED  BY <2>1, <2>3, <2>4 DEF WalkInv, Walking, Reached
<1>5. CASE Propagated
  <2>1. /\ distrust = "marking" /\ queue = {} /\ distrust' = "done"
        /\ UNCHANGED <<source, queue, current, visited, marked, missed, before, derived>>
    BY <1>5 DEF Propagated, graph
  <2> QED  BY <2>1 DEF WalkInv, Walking, Reached
<1>6. CASE Return \/ Crash
  BY <1>6 DEF Return, Crash, Reset, WalkInv, Walking
<1>7. CASE derived \subseteq derived' /\ UNCHANGED pass
  <2>1. UNCHANGED <<distrust, source, queue, current, visited, marked, missed, before>>
    BY <1>7 DEF pass
  <2>2. Downstream(source, derived) \subseteq Downstream(source, derived')
    BY <1>7, DownstreamGrows
  <2> QED  BY <1>7, <2>1, <2>2 DEF WalkInv, Walking, Reached
<1>8. CASE \/ \E r \in Records : \/ AppendLog(r) \/ InsertNarrative(r) \/ InsertReflection(r)
                                 \/ UpsertEntity(r) \/ TimePasses(r) \/ FlagStale(r)
                                 \/ InvalidateEntity(r)
           \/ \E link \in Links : CreateEdge(link)
           \/ RunDecay \/ DecayFails
           \/ \E c \in Callers : \/ \E old, new \in T5 : Supersede(c, old, new)
                                 \/ InsertSuccessor(c) \/ InsertSupersedesEdge(c) \/ SupersedeFails(c)
           \/ UNCHANGED vars
  <2>1. derived \subseteq derived' /\ UNCHANGED pass
    BY <1>8 DEF AppendLog, InsertNarrative, InsertReflection, UpsertEntity, TimePasses, FlagStale,
       InvalidateEntity, CreateEdge, RunDecay, DecayFails, Supersede, InsertSuccessor,
       InsertSupersedesEdge, SupersedeFails, vars, graph
  <2> QED  BY <1>7, <2>1
<1> QED  BY <1>1, <1>2, <1>3, <1>4, <1>5, <1>6, <1>8 DEF Next, Propagate

\* PropagateDistrust marks what derives from the source and nothing else, over
\* any number of hops, through cycles, and with edges added while it walks.
THEOREM DistrustReachesAll == Spec => []DistrustIsExact
<1>1. Init => WalkInv
  BY DEF Init, WalkInv, Walking
<1> QED  BY <1>1, WalkStep, WalkIsExact, TypeCorrect, PTL DEF Spec

-----------------------------------------------------------------------------
(* ComputeInferenceDistance.  The library's induction theorems take an      *)
(* operator; a smallest counterexample takes a set, and does as well.       *)

LEMMA LeastNatural ==
    ASSUME NEW S \in SUBSET Nat, S # {}
    PROVE  \E n \in S : \A m \in S : n =< m
<1>1. PICK n \in S : \A m \in S : ~(<<m, n>> \in OpToRel(<, Nat))
  BY NatLessThanWellFounded, WFMin
<1>2. \A m \in S : ~(m < n)
  BY <1>1 DEF OpToRel
<1> QED  BY <1>2

\* A value and a step determine a function on 0..N.
IsIteration(g, V, v, step, N) ==
    g \in [0..N -> V] /\ g[0] = v /\ \A n \in 1..N : g[n] = step[g[n - 1]]

LEMMA Iterates ==
    ASSUME NEW V, NEW v \in V, NEW step \in [V -> V], NEW N \in Nat
    PROVE  \E g : IsIteration(g, V, v, step, N)
<1> DEFINE Good(g, k) == g \in [0..N -> V] /\ g[0] = v /\ \A n \in 1..k : g[n] = step[g[n - 1]]
           Bad == {k \in 0..N : ~ \E g : Good(g, k)}
<1>1. ASSUME Bad # {} PROVE FALSE
  <2>0. Bad \in SUBSET Nat /\ Bad \subseteq 0..N  OBVIOUS
  <2>1. PICK k \in Bad : \A m \in Bad : k =< m
    <3> HIDE DEF Bad
    <3> QED  BY <1>1, <2>0, LeastNatural
  <2>2. CASE k = 0
    <3>1. Good([n \in 0..N |-> v], 0)  OBVIOUS
    <3> QED  BY <2>1, <2>2, <3>1
  <2>3. CASE k # 0
    <3>1. k - 1 \in 0..N /\ k - 1 \notin Bad
      <4> HIDE DEF Bad
      <4> QED  BY <2>0, <2>1, <2>3
    <3>2. PICK g : Good(g, k - 1)  BY <3>1
    <3> DEFINE h == [g EXCEPT ![k] = step[g[k - 1]]]
    <3>3. Good(h, k)  BY <2>3, <3>1, <3>2
    <3> QED  BY <2>1, <3>3
  <2> QED  BY <2>2, <2>3
<1>2. N \in 0..N /\ N \notin Bad
  <2> HIDE DEF Bad
  <2> QED  BY <1>1
<1> QED  BY <1>2 DEF IsIteration

\* The two recursive definitions, unfolded.
Hops == 0..Cardinality(Records)

LEMMA HopsFacts ==
    Cardinality(Records) \in Nat
BY TierAssumption, FS_CardinalityType

LEMMA HopInduction ==
    ASSUME NEW S \in SUBSET Hops, 0 \in S,
           \A n \in Hops \ {0} : n - 1 \in S => n \in S
    PROVE  \A n \in Hops : n \in S
<1> DEFINE Bad == Hops \ S
<1>1. ASSUME Bad # {} PROVE FALSE
  <2>1. Bad \in SUBSET Nat  BY DEF Hops
  <2>2. PICK n \in Bad : \A m \in Bad : n =< m
    <3> HIDE DEF Bad
    <3> QED  BY <1>1, <2>1, LeastNatural
  <2>3. n - 1 \in Hops /\ n \in Hops \ {0}  BY HopsFacts DEF Hops
  <2>4. n - 1 \in S  BY <2>1, <2>2, <2>3
  <2> QED  BY <2>2, <2>3, <2>4
<1> QED  BY <1>1

Level == [queue : SUBSET Records, visited : SUBSET Records]
NextLevel(prev) ==
    LET next == (UNION {Bases(q) : q \in prev.queue}) \ prev.visited
    IN  [queue |-> next, visited |-> prev.visited \cup next]

LEMMA BasesFacts ==
    ASSUME NEW Q \in SUBSET Records
    PROVE  UNION {Bases(q) : q \in Q} \in SUBSET Records
BY DEF Bases

LEMMA FrontierUnfolds ==
    ASSUME NEW r \in Records
    PROVE  LET f == Frontier(r)
           IN  /\ f \in [Hops -> Level]
               /\ f[0] = [queue |-> {r}, visited |-> {r}]
               /\ \A n \in Hops \ {0} : f[n] = NextLevel(f[n - 1])
<1> DEFINE first == [queue |-> {r}, visited |-> {r}]
           step == [l \in Level |-> NextLevel(l)]
           Rec(f) == f = [n \in Hops |-> IF n = 0 THEN first ELSE NextLevel(f[n - 1])]
<1>1. step \in [Level -> Level]
  <2>1. \A l \in Level : NextLevel(l) \in Level
    <3> TAKE l \in Level
    <3>1. UNION {Bases(q) : q \in l.queue} \in SUBSET Records  BY BasesFacts DEF Level
    <3> QED  BY <3>1 DEF NextLevel, Level
  <2> QED  BY <2>1
<1>2. first \in Level  BY DEF Level
<1>3. PICK g \in [Hops -> Level] : g[0] = first /\ \A n \in 1..Cardinality(Records) : g[n] = step[g[n - 1]]
  <2> HIDE DEF step, first
  <2>1. \E g : IsIteration(g, Level, first, step, Cardinality(Records))
    BY <1>1, <1>2, HopsFacts, Iterates, Zenon
  <2> QED  BY <2>1 DEF Hops, IsIteration
<1>4. \A n \in Hops \ {0} : n \in 1..Cardinality(Records) /\ n - 1 \in Hops
  BY HopsFacts DEF Hops
<1>5. Rec(g)
  <2>1. \A n \in Hops : g[n] = IF n = 0 THEN first ELSE NextLevel(g[n - 1])
    <3> TAKE n \in Hops
    <3>1. CASE n = 0  BY <1>3, <3>1
    <3>2. CASE n # 0
      <4>1. g[n] = step[g[n - 1]] /\ g[n - 1] \in Level  BY <1>3, <1>4, <3>2
      <4> QED  BY <3>2, <4>1
    <3> QED  BY <3>1, <3>2
  <2> QED  BY <2>1
<1>6. Frontier(r) = CHOOSE f : Rec(f)
  BY DEF Frontier, NextLevel, Hops
<1>7. Rec(Frontier(r))
  BY <1>5, <1>6
<1> DEFINE F == Frontier(r)
<1>8. /\ F[0] = first /\ 0 \in Hops
      /\ \A n \in Hops \ {0} : F[n] = NextLevel(F[n - 1])
      /\ F = [n \in Hops |-> F[n]]
  <2> HIDE DEF F, first
  <2>1. 0 \in Hops  BY HopsFacts DEF Hops
  <2>2. Rec(F)  BY <1>7 DEF F
  <2> QED  BY <2>1, <2>2
<1>9. \A n \in Hops : F[n] \in Level
  <2> DEFINE S == {n \in Hops : F[n] \in Level}
  <2>1. S \in SUBSET Hops /\ 0 \in S
    <3> HIDE DEF F, first
    <3> QED  BY <1>2, <1>8
  <2>2. ASSUME NEW n \in Hops \ {0}, n - 1 \in S PROVE n \in S
    <3> HIDE DEF F, first
    <3>1. F[n] = step[F[n - 1]]  BY <1>8, <2>2
    <3> QED  BY <1>1, <2>2, <3>1
  <2>3. \A n \in Hops : n \in S
    <3> HIDE DEF S
    <3> QED  BY <2>1, <2>2, HopInduction
  <2> QED  BY <2>3
<1> QED
  <2>1. F \in [Hops -> Level]
    <3> HIDE DEF F
    <3> QED  BY <1>8, <1>9
  <2> QED  BY <1>8, <2>1

LEMMA AwayUnfolds ==
    ASSUME NEW r \in Records
    PROVE  LET a == Away(r)
           IN  /\ a \in [Hops -> SUBSET Records]
               /\ a[0] = {r}
               /\ \A n \in Hops \ {0} : a[n] = UNION {Bases(q) : q \in a[n - 1]}
<1> DEFINE step == [Q \in SUBSET Records |-> UNION {Bases(q) : q \in Q}]
           Rec(a) == a = [n \in Hops |-> IF n = 0 THEN {r} ELSE UNION {Bases(q) : q \in a[n - 1]}]
<1>1. step \in [SUBSET Records -> SUBSET Records]
  BY BasesFacts
<1>2. {r} \in SUBSET Records  OBVIOUS
<1>3. PICK g \in [Hops -> SUBSET Records] :
          g[0] = {r} /\ \A n \in 1..Cardinality(Records) : g[n] = step[g[n - 1]]
  <2> HIDE DEF step
  <2>1. \E g : IsIteration(g, SUBSET Records, {r}, step, Cardinality(Records))
    BY <1>1, <1>2, HopsFacts, Iterates, Zenon
  <2> QED  BY <2>1 DEF Hops, IsIteration
<1>4. \A n \in Hops \ {0} : n \in 1..Cardinality(Records) /\ n - 1 \in Hops
  BY HopsFacts DEF Hops
<1>5. Rec(g)
  <2>1. \A n \in Hops : g[n] = IF n = 0 THEN {r} ELSE UNION {Bases(q) : q \in g[n - 1]}
    <3> TAKE n \in Hops
    <3>1. CASE n = 0  BY <1>3, <3>1
    <3>2. CASE n # 0
      <4>1. g[n] = step[g[n - 1]] /\ g[n - 1] \in SUBSET Records  BY <1>3, <1>4, <3>2
      <4> QED  BY <3>2, <4>1
    <3> QED  BY <3>1, <3>2
  <2> QED  BY <2>1
<1>6. Away(r) = CHOOSE a : Rec(a)
  BY DEF Away, Hops
<1>7. Rec(Away(r))
  BY <1>5, <1>6
<1> DEFINE A == Away(r)
<1>8. /\ A[0] = {r} /\ 0 \in Hops
      /\ \A n \in Hops \ {0} : A[n] = UNION {Bases(q) : q \in A[n - 1]}
      /\ A = [n \in Hops |-> A[n]]
  <2> HIDE DEF A
  <2>1. 0 \in Hops  BY HopsFacts DEF Hops
  <2>2. Rec(A)  BY <1>7 DEF A
  <2> QED  BY <2>1, <2>2
<1>9. \A n \in Hops : A[n] \in SUBSET Records
  <2> HIDE DEF A
  <2> TAKE n \in Hops
  <2>1. CASE n = 0  BY <1>8, <2>1
  <2>2. CASE n # 0
    <3>1. \A q : Bases(q) \subseteq Records  BY DEF Bases
    <3>2. UNION {Bases(q) : q \in A[n - 1]} \subseteq Records  BY <3>1
    <3> QED  BY <1>8, <2>2, <3>2
  <2> QED  BY <2>1, <2>2
<1> QED
  <2>1. A \in [Hops -> SUBSET Records]
    <3> HIDE DEF A
    <3> QED  BY <1>8, <1>9
  <2> QED  BY <1>8, <2>1

\* What a walk by levels and a walk by hops have been asked to be.
IsFrontier(f, r) ==
    /\ f \in [Hops -> Level]
    /\ f[0] = [queue |-> {r}, visited |-> {r}]
    /\ \A n \in Hops \ {0} : f[n] = NextLevel(f[n - 1])

IsAway(a, r) ==
    /\ a \in [Hops -> SUBSET Records]
    /\ a[0] = {r}
    /\ \A n \in Hops \ {0} : a[n] = UNION {Bases(q) : q \in a[n - 1]}

\* A visited record was first reached at some level.
LEMMA VisitedIsQueued ==
    ASSUME NEW r \in Records, NEW f, IsFrontier(f, r)
    PROVE  \A n \in Hops : \A x \in f[n].visited : \E m \in 0..n : m \in Hops /\ x \in f[m].queue
<1> DEFINE P(n) == \A x \in f[n].visited : \E m \in 0..n : m \in Hops /\ x \in f[m].queue
           S == {n \in Hops : P(n)}
<1>1. S \in SUBSET Hops /\ 0 \in S
  BY HopsFacts DEF IsFrontier, Hops
<1>2. ASSUME NEW n \in Hops \ {0}, n - 1 \in S PROVE n \in S
  <2>1. f[n] = NextLevel(f[n - 1])  BY DEF IsFrontier
  <2>2. f[n].visited = f[n - 1].visited \cup f[n].queue  BY <2>1 DEF NextLevel
  <2>3. n \in Nat /\ n \in 0..n /\ 0..(n - 1) \subseteq 0..n  BY DEF Hops
  <2> SUFFICES ASSUME NEW x \in f[n].visited
               PROVE  \E m \in 0..n : m \in Hops /\ x \in f[m].queue
    OBVIOUS
  <2>4. CASE x \in f[n].queue  BY <2>3, <2>4
  <2>5. CASE x \in f[n - 1].visited
    <3>1. PICK m \in 0..(n - 1) : m \in Hops /\ x \in f[m].queue  BY <1>2, <2>5
    <3> QED  BY <2>3, <3>1
  <2> QED  BY <2>2, <2>4, <2>5
<1>3. \A n \in Hops : n \in S
  <2> HIDE DEF S
  <2> QED  BY <1>1, <1>2, HopInduction
<1> QED  BY <1>3

\* What is first reached after n hops is n hops away, and what is n hops away
\* has been reached by then: no record is dropped on the way.
LEMMA QueuedIsAway ==
    ASSUME NEW r \in Records, NEW f, NEW a, IsFrontier(f, r), IsAway(a, r)
    PROVE  \A n \in Hops : f[n].queue \subseteq a[n] /\ a[n] \subseteq f[n].visited
<1> DEFINE P(n) == /\ f[n].queue \subseteq a[n] /\ a[n] \subseteq f[n].visited
                   /\ \A m \in Hops : m < n => \A q \in f[m].queue : Bases(q) \subseteq f[n].visited
           S == {n \in Hops : P(n)}
<1>1. S \in SUBSET Hops /\ 0 \in S
  BY HopsFacts DEF IsFrontier, IsAway, Hops
<1>2. ASSUME NEW n \in Hops \ {0}, n - 1 \in S PROVE n \in S
  <2>1. /\ f[n] = NextLevel(f[n - 1]) /\ a[n] = UNION {Bases(q) : q \in a[n - 1]}
        /\ n - 1 \in Hops /\ n \in Nat
    BY HopsFacts DEF IsFrontier, IsAway, Hops
  <2>2. /\ f[n].queue = (UNION {Bases(q) : q \in f[n - 1].queue}) \ f[n - 1].visited
        /\ f[n].visited = f[n - 1].visited \cup UNION {Bases(q) : q \in f[n - 1].queue}
    <3>1. /\ f[n].queue = (UNION {Bases(q) : q \in f[n - 1].queue}) \ f[n - 1].visited
          /\ f[n].visited = f[n - 1].visited \cup f[n].queue
      BY <2>1 DEF NextLevel
    <3> QED  BY <3>1, Zenon
  <2>3. f[n].queue \subseteq a[n]
    BY <1>2, <2>1, <2>2
  <2>4. ASSUME NEW m \in Hops, m < n, NEW q \in f[m].queue PROVE Bases(q) \subseteq f[n].visited
    <3>1. CASE m = n - 1  BY <2>2, <2>4, <3>1
    <3>2. CASE m < n - 1  BY <1>2, <2>2, <2>4, <3>2
    <3> QED  BY <2>1, <2>4, <3>1, <3>2 DEF Hops
  <2>5. ASSUME NEW x \in a[n] PROVE x \in f[n].visited
    <3>1. PICK q \in a[n - 1] : x \in Bases(q)  BY <2>1
    <3>2. q \in f[n - 1].visited  BY <1>2
    <3>3. PICK m \in 0..(n - 1) : m \in Hops /\ q \in f[m].queue
      BY <2>1, <3>2, VisitedIsQueued
    <3>4. m < n  BY <2>1, <3>3
    <3> QED  BY <2>4, <3>1, <3>3, <3>4
  <2> QED  BY <2>3, <2>4, <2>5
<1>3. \A n \in Hops : n \in S
  <2> HIDE DEF S
  <2> QED  BY <1>1, <1>2, HopInduction
<1> QED  BY <1>3

\* Every level adds a record, so that there is none left for the last.
LEMMA LastLevelEmpty ==
    ASSUME NEW r \in Records, NEW f, IsFrontier(f, r)
    PROVE  f[Cardinality(Records)].queue = {}
<1> DEFINE P(n) == f[n].queue # {} => Cardinality(f[n].visited) >= n + 1
           S == {n \in Hops : P(n)}
<1>0. ASSUME NEW V \in SUBSET Records
      PROVE  IsFiniteSet(V) /\ Cardinality(V) \in Nat /\ Cardinality(V) =< Cardinality(Records)
  <2>1. V \subseteq Records /\ IsFiniteSet(Records)  BY <1>0, TierAssumption
  <2>2. IsFiniteSet(V) /\ Cardinality(V) =< Cardinality(Records)  BY <2>1, FS_Subset
  <2> QED  BY <2>2, FS_CardinalityType
<1>1. S \in SUBSET Hops /\ 0 \in S
  <2>1. f[0].visited = {r} /\ 0 \in Hops  BY HopsFacts DEF IsFrontier, Hops
  <2>2. Cardinality({r}) = 1  BY FS_Singleton
  <2> QED  BY <2>1, <2>2
<1>2. ASSUME NEW n \in Hops \ {0}, n - 1 \in S PROVE n \in S
  <2> DEFINE V == f[n - 1].visited
             W == f[n].visited
  <2>1. f[n] = NextLevel(f[n - 1]) /\ n - 1 \in Hops /\ n \in Nat
    BY HopsFacts DEF IsFrontier, Hops
  <2>2. /\ f[n].queue = (UNION {Bases(q) : q \in f[n - 1].queue}) \ V
        /\ W = V \cup f[n].queue
    BY <2>1 DEF NextLevel
  <2>3. V \in SUBSET Records /\ W \in SUBSET Records
    BY <2>1 DEF IsFrontier, Level
  <2> SUFFICES ASSUME f[n].queue # {} PROVE Cardinality(W) >= n + 1
    OBVIOUS
  <2>3a. PICK x : x \in f[n].queue  OBVIOUS
  <2>4. x \notin V /\ x \in W
    <3> HIDE DEF V, W
    <3> QED  BY <2>2, <2>3a, Zenon
  <2>5. f[n - 1].queue # {}  BY <2>2
  <2> HIDE DEF V, W
  <2>6. Cardinality(V) >= n  BY <1>2, <2>1, <2>5 DEF V
  <2>7. IsFiniteSet(V) /\ Cardinality(V) \in Nat /\ IsFiniteSet(W) /\ Cardinality(W) \in Nat
    BY <1>0, <2>3
  <2>8. IsFiniteSet(V \cup {x}) /\ Cardinality(V \cup {x}) = Cardinality(V) + 1
    BY <2>4, <2>7, FS_AddElement
  <2>9. V \cup {x} \subseteq W  BY <2>2, <2>4
  <2>10. Cardinality(V \cup {x}) =< Cardinality(W)  BY <2>7, <2>9, FS_Subset
  <2> QED  BY <2>1, <2>6, <2>7, <2>8, <2>10
<1>3. \A n \in Hops : n \in S
  <2> HIDE DEF S
  <2> QED  BY <1>1, <1>2, HopInduction
<1> DEFINE N == Cardinality(Records)
<1>4. N \in Hops /\ N \in Nat  BY HopsFacts DEF Hops
<1>5. f[N].visited \in SUBSET Records  BY <1>4 DEF IsFrontier, Level
<1>6. Cardinality(f[N].visited) \in Nat /\ Cardinality(f[N].visited) =< N  BY <1>0, <1>5
<1> QED  BY <1>3, <1>4, <1>6

LEMMA LeastOf ==
    ASSUME NEW S \in SUBSET Nat, S # {}
    PROVE  Min(S) \in S /\ \A m \in S : Min(S) =< m
<1>1. PICK n \in S : \A m \in S : n =< m  BY LeastNatural
<1>2. \E x \in S : \A m \in S : x =< m  BY <1>1
<1> QED  BY <1>2 DEF Min

LEMMA DistanceOf ==
    ASSUME NEW r \in Records \ T2
    PROVE  LET a == Away(r)
               hops == {n \in DOMAIN a : a[n] \cap T2 # {}}
           IN  InferenceDistance(r) = IF hops = {} THEN 1 ELSE Min(hops)
<1> DEFINE f == Frontier(r)
           a == Away(r)
           hits == {n \in DOMAIN f : \E q \in f[n].queue : Bases(q) \cap T2 # {}}
           hops == {n \in DOMAIN a : a[n] \cap T2 # {}}
           N == Cardinality(Records)
<1>1. IsFrontier(f, r)  BY FrontierUnfolds DEF IsFrontier
<1>2. IsAway(a, r)  BY AwayUnfolds DEF IsAway
<1>3. InferenceDistance(r) = IF hits = {} THEN 1 ELSE Min(hits) + 1
  BY DEF InferenceDistance
<1> HIDE DEF f, a
<1>4. DOMAIN f = Hops /\ DOMAIN a = Hops  BY <1>1, <1>2 DEF IsFrontier, IsAway
<1>5. ASSUME NEW n \in hits PROVE n + 1 \in hops
  <2>1. PICK q \in f[n].queue : Bases(q) \cap T2 # {}  OBVIOUS
  <2>2. n \in Hops /\ n # N  BY <1>1, <1>4, <2>1, LastLevelEmpty
  <2>3. n + 1 \in Hops \ {0} /\ (n + 1) - 1 = n  BY <2>2, HopsFacts DEF Hops
  <2>4. q \in a[n]  BY <1>1, <1>2, <2>1, <2>2, QueuedIsAway
  <2>5. a[n + 1] = UNION {Bases(p) : p \in a[n]}
    <3>1. a[n + 1] = UNION {Bases(p) : p \in a[(n + 1) - 1]}  BY <1>2, <2>3 DEF IsAway
    <3> QED  BY <2>3, <3>1
  <2>6. a[n + 1] \cap T2 # {}  BY <2>1, <2>4, <2>5
  <2> QED  BY <1>4, <2>3, <2>6
<1>6. ASSUME NEW m \in hops PROVE \E k \in hits : k + 1 =< m
  <2>1. m \in Hops /\ m # 0  BY <1>2, <1>4 DEF IsAway
  <2>2. a[m] = UNION {Bases(q) : q \in a[m - 1]} /\ m - 1 \in Hops /\ m \in Nat
    BY <1>2, <2>1, HopsFacts DEF IsAway, Hops
  <2>3. PICK q \in a[m - 1] : Bases(q) \cap T2 # {}  BY <1>6, <2>2
  <2>4. q \in f[m - 1].visited  BY <1>1, <1>2, <2>2, QueuedIsAway
  <2>5. PICK k \in 0..(m - 1) : k \in Hops /\ q \in f[k].queue
    BY <1>1, <2>2, <2>4, VisitedIsQueued
  <2>6. k \in hits  BY <1>4, <2>3, <2>5
  <2> QED  BY <2>2, <2>5, <2>6
<1>7. hits \in SUBSET Nat /\ hops \in SUBSET Nat  BY <1>4 DEF Hops
<1> HIDE DEF hits, hops
<1>8. CASE hits = {}
  BY <1>3, <1>6, <1>8 DEF hops, a
<1>9. CASE hits # {}
  <2>1. Min(hits) \in hits /\ \A m \in hits : Min(hits) =< m  BY <1>7, <1>9, LeastOf
  <2>2. hops # {}  BY <1>5, <2>1
  <2>3. Min(hops) \in hops /\ \A m \in hops : Min(hops) =< m  BY <1>7, <2>2, LeastOf
  <2>4. Min(hops) =< Min(hits) + 1  BY <1>5, <2>1, <2>3
  <2>5. PICK k \in hits : k + 1 =< Min(hops)  BY <1>6, <2>3
  <2>6. Min(hits) =< k  BY <2>1, <2>5
  <2>7. Min(hits) \in Nat /\ Min(hops) \in Nat /\ k \in Nat  BY <1>7, <2>1, <2>3, <2>5
  <2>8. Min(hops) = Min(hits) + 1  BY <2>4, <2>5, <2>6, <2>7
  <2>9. InferenceDistance(r) = IF hops = {} THEN 1 ELSE Min(hops)  BY <1>3, <1>9, <2>2, <2>8
  <2> QED  BY <2>9 DEF hops, a
<1> QED  BY <1>8, <1>9

\* ComputeInferenceDistance finds the least number of derived_from hops to
\* direct experience, for every graph the edges can form.
THEOREM DistanceIsShortest == Spec => []DistanceIsLeast
<1>1. TypeOK => DistanceIsLeast
  <2> SUFFICES ASSUME TypeOK PROVE DistanceIsLeast  OBVIOUS
  <2>1. rows \subseteq Records  BY DEF TypeOK
  <2> QED  BY <2>1, DistanceOf DEF DistanceIsLeast
<1> QED  BY <1>1, TypeCorrect, PTL
=============================================================================

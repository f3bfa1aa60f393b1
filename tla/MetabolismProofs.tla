-------------------------- MODULE MetabolismProofs --------------------------
(***************************************************************************)
(* Theorems about Metabolism for every set of processes and jobs and every *)
(* value of the bounds.                                                    *)
(***************************************************************************)
EXTENDS Metabolism, TLAPS

(* The inductive invariant.  Its parts speak of one job each.               *)

\* A row and the tokens minted for it.
RowInv(j) ==
    /\ jobs[j].claims = minted[j]
    /\ jobs[j].token <= minted[j]
    /\ jobs[j].claims <= MaxClaimCount
    /\ jobs[j].retries <= jobs[j].claims
    /\ jobs[j].status = "running" => jobs[j].retries < jobs[j].claims
    /\ jobs[j].status \in {"absent", "pending"} =>
        jobs[j].token = NoToken /\ jobs[j].claims = 0
    /\ jobs[j].status = "absent" => t2[j].kind = "none"

\* The memory tiers and the row.
TierInv(j) ==
    /\ t2[j].kind # "clean" => t2[j].link = NoToken
    /\ t2[j].link = NoToken => t3[j] = {}
    /\ t2[j].link # NoToken => t2[j].link \in t3[j]
    /\ jobs[j].status = "completed" => t2[j].kind = "none" \/ t2[j].link # NoToken
    /\ jobs[j].status = "review_required" => t2[j].kind = "unscreened"

\* A goroutine between Claim and its last statement.
HolderInv(p, j) ==
    /\ worker[p][j].pc # "idle" => jobs[j].status # "absent"
    /\ j \in todo[p] => jobs[j].status # "absent"
    /\ worker[p][j].pc \in Holding =>
        /\ worker[p][j].token > NoToken
        /\ worker[p][j].token <= minted[j]
        /\ worker[p][j].token = jobs[j].token => jobs[j].status = "running"
    /\ worker[p][j].pc = "loaded" => t2[j].kind # "none"
    /\ worker[p][j].pc = "complete" => t2[j].kind = "none" \/ t2[j].link # NoToken
    /\ worker[p][j].pc = "review" => t2[j].kind = "unscreened"

\* No claim is held by two goroutines.
ExclusiveInv(j) ==
    \A p, q \in Procs :
        /\ p # q
        /\ worker[p][j].pc \in Holding
        /\ worker[q][j].pc \in Holding
        => worker[p][j].token # worker[q][j].token

Inv ==
    /\ TypeOK
    /\ \A j \in Jobs : RowInv(j) /\ TierInv(j) /\ ExclusiveInv(j)
    /\ \A p \in Procs, j \in Jobs : HolderInv(p, j)

-----------------------------------------------------------------------------
(* Type correctness.                                                        *)

\* What the statements of the job store make of a row is a row.
LEMMA RowTypes ==
    ASSUME NEW r \in Row, NEW tok \in Nat
    PROVE  /\ Committed \in Row
           /\ Claimed(r, tok) \in Row
           /\ Completed(r) \in Row
           /\ Failed(r) \in Row
           /\ ReviewRequired(r) \in Row
           /\ LeaseLapsed(r) \in Row
<1> USE DEF Row, JobStatus, Lease
<1>1. Committed \in Row
  BY DEF NoRow, Committed, NoToken
<1>2. Claimed(r, tok) \in Row
  BY DEF Claimed
<1>3. Completed(r) \in Row
  BY DEF Completed
<1>4. Failed(r) \in Row
  BY DEF Failed
<1>5. ReviewRequired(r) \in Row
  BY DEF ReviewRequired
<1>6. LeaseLapsed(r) \in Row
  BY DEF LeaseLapsed
<1> QED
  BY <1>1, <1>2, <1>3, <1>4, <1>5, <1>6

\* A goroutine that moves on or returns is a goroutine.
LEMMA GoroutineTypes ==
    ASSUME NEW w \in Goroutine, NEW pc \in WorkerPC, NEW tok \in Nat
    PROVE  /\ Idle \in Goroutine
           /\ [w EXCEPT !.pc = pc] \in Goroutine
           /\ [pc |-> pc, token |-> tok] \in Goroutine
BY DEF Goroutine, Idle, WorkerPC, NoToken

\* One goroutine moves; the others stay where they are.
LEMMA WorkerUpdate ==
    ASSUME TypeOK, NEW p \in Procs, NEW j \in Jobs, NEW w \in Goroutine,
           worker' = [worker EXCEPT ![p][j] = w]
    PROVE  /\ worker' \in [Procs -> [Jobs -> Goroutine]]
           /\ worker'[p][j] = w
           /\ \A q \in Procs, k \in Jobs : q # p \/ k # j => worker'[q][k] = worker[q][k]
BY DEF TypeOK

LEMMA TypeInit == Init => TypeOK
<1> SUFFICES ASSUME Init PROVE TypeOK
  OBVIOUS
<1>1. NoRow \in Row
  BY DEF NoRow, Row, JobStatus, Lease, NoToken
<1>2. Idle \in Goroutine
  BY DEF Goroutine, Idle, WorkerPC, NoToken
<1>3. [kind |-> "none", link |-> NoToken] \in Logs
  BY DEF Logs, LogKind, NoToken
<1> QED
  BY <1>1, <1>2, <1>3 DEF Init, TypeOK, Mode

\* Every action of a goroutine keeps the types.
LEMMA TypeRun ==
    ASSUME TypeOK, NEW p \in Procs, NEW j \in Jobs, Run(p, j)
    PROVE  TypeOK'
<1> DEFINE w == worker[p][j]
<1>1. /\ jobs[j] \in Row /\ minted[j] \in Nat /\ w \in Goroutine /\ w.token \in Nat
      /\ minted[j] + 1 \in Nat
  BY DEF TypeOK, Goroutine
<1>2. /\ Claimed(jobs[j], minted[j] + 1) \in Row
      /\ Completed(jobs[j]) \in Row
      /\ Failed(jobs[j]) \in Row
      /\ ReviewRequired(jobs[j]) \in Row
  BY <1>1, RowTypes
<1>3. \A pc \in WorkerPC : [w EXCEPT !.pc = pc] \in Goroutine
  BY <1>1, GoroutineTypes
<1>4. Idle \in Goroutine /\ [pc |-> "claimed", token |-> minted[j] + 1] \in Goroutine
  BY <1>1 DEF Goroutine, Idle, WorkerPC, NoToken
<1>5. [t2[j] EXCEPT !.link = w.token] \in Logs
  BY <1>1 DEF TypeOK, Logs
<1>6. Succeeds(p) \/ Errors(p) \/ AnswerLost(p) => disruptions' \in Nat
  BY DEF TypeOK, Succeeds, Errors, AnswerLost, Disrupt
<1>7. /\ \A pc \in WorkerPC : Goto(p, j, pc) => worker' \in [Procs -> [Jobs -> Goroutine]]
      /\ Return(p, j) => worker' \in [Procs -> [Jobs -> Goroutine]]
  BY <1>3, <1>4, WorkerUpdate DEF Goto, Return
<1>8. CASE Claim(p, j)
  <2>1. worker' \in [Procs -> [Jobs -> Goroutine]]
    BY <1>4, <1>7, <1>8, WorkerUpdate DEF Claim
  <2>2. disruptions' \in Nat
    BY <1>6, <1>8 DEF Claim
  <2>3. jobs' \in [Jobs -> Row] /\ minted' \in [Jobs -> Nat] /\ UNCHANGED <<t2, t3>>
    BY <1>1, <1>2, <1>8 DEF Claim, ClaimApplied, store, TypeOK
  <2> QED
    BY <1>8, <2>1, <2>2, <2>3 DEF Claim, TypeOK, procs
<1>9. CASE LoadLogs(p, j)
  <2>1. worker' \in [Procs -> [Jobs -> Goroutine]] /\ disruptions' \in Nat
    BY <1>6, <1>7, <1>9 DEF LoadLogs, WorkerPC
  <2> QED
    BY <1>9, <2>1 DEF LoadLogs, TypeOK, store, procs
<1>10. CASE Compress(p, j)
  <2>1. worker' \in [Procs -> [Jobs -> Goroutine]]
    BY <1>7, <1>10 DEF Compress, WorkerPC
  <2> QED
    BY <1>10, <2>1 DEF Compress, TypeOK, store, procs
<1>11. CASE CommitNarrative(p, j)
  <2>1. worker' \in [Procs -> [Jobs -> Goroutine]] /\ disruptions' \in Nat
    BY <1>6, <1>7, <1>11 DEF CommitNarrative, WorkerPC
  <2>2. CASE NarrativeApplied(p, j)
    <3>1. t2' \in [Jobs -> Logs]
      BY <1>5, <2>2 DEF NarrativeApplied, TypeOK
    <3>2. t3[j] \cup {w.token} \in SUBSET Nat
      BY <1>1 DEF TypeOK
    <3>3. t3' \in [Jobs -> SUBSET Nat]
      BY <2>2, <3>2 DEF NarrativeApplied, TypeOK
    <3> QED
      BY <1>11, <2>1, <2>2, <3>1, <3>3 DEF CommitNarrative, NarrativeApplied, TypeOK, procs
  <2>3. CASE UNCHANGED store
    BY <1>11, <2>1, <2>3 DEF CommitNarrative, TypeOK, store, procs
  <2> QED
    BY <1>11, <2>2, <2>3 DEF CommitNarrative
<1>12. ASSUME NEW row \in Row, RecordOutcome(p, j, row) PROVE TypeOK'
  <2>1. worker' \in [Procs -> [Jobs -> Goroutine]] /\ disruptions' \in Nat
    BY <1>6, <1>7, <1>12 DEF RecordOutcome
  <2>2. jobs' \in [Jobs -> Row]
    BY <1>12 DEF RecordOutcome, TypeOK
  <2> QED
    BY <1>12, <2>1, <2>2 DEF RecordOutcome, TypeOK, procs
<1> QED
  BY <1>2, <1>8, <1>9, <1>10, <1>11, <1>12 DEF Run, Complete, Fail, MarkReviewRequired

\* So does every action of a daemon.
LEMMA TypeDaemon ==
    ASSUME TypeOK, NEW p \in Procs, Daemon(p)
    PROVE  TypeOK'
<1>1. Idle \in Goroutine /\ [pc |-> "queued", token |-> NoToken] \in Goroutine
  BY DEF Goroutine, Idle, WorkerPC, NoToken
<1>2. Disrupt => disruptions' \in Nat
  BY DEF TypeOK, Disrupt
<1>3. CASE Start(p)
  BY <1>2, <1>3 DEF Start, TypeOK, Mode, store
<1>4. ASSUME NEW j \in Jobs, NEW kind \in LogKind, Submit(p, j, kind) PROVE TypeOK'
  <2>1. Committed \in Row
    BY DEF NoRow, Committed, Row, JobStatus, Lease, NoToken
  <2>2. [t2[j] EXCEPT !.kind = kind] \in Logs
    BY DEF TypeOK, Logs
  <2>3. mode' \in [Procs -> Mode] /\ todo' \in [Procs -> SUBSET Jobs] /\ disruptions' \in Nat
    <3>1. \/ /\ Succeeds(p) /\ mode' = [mode EXCEPT ![p] = "submitting"]
             /\ todo' = [todo EXCEPT ![p] = {j}]
          \/ AnswerLost(p) /\ UNCHANGED <<mode, todo>>
      BY <1>4 DEF Submit
    <3>2. disruptions' \in Nat
      BY <1>2, <3>1 DEF Succeeds, AnswerLost, TypeOK
    <3>3. mode \in [Procs -> Mode] /\ todo \in [Procs -> SUBSET Jobs]
      BY DEF TypeOK
    <3>4. [mode EXCEPT ![p] = "submitting"] \in [Procs -> Mode]
      BY <3>3 DEF Mode
    <3>5. [todo EXCEPT ![p] = {j}] \in [Procs -> SUBSET Jobs]
      BY <3>3
    <3> QED
      BY <3>1, <3>2, <3>3, <3>4, <3>5
  <2> QED
    BY <1>4, <2>1, <2>2, <2>3 DEF Submit, TypeOK
<1>5. ASSUME NEW j \in Jobs, Dispatch(p, j) PROVE TypeOK'
  BY <1>1, <1>5 DEF Dispatch, TypeOK, store
<1>6. CASE DispatchDone(p)
  BY <1>6 DEF DispatchDone, TypeOK, store, Mode
<1>7. CASE Signal(p)
  BY <1>2, <1>7 DEF Signal, TypeOK, store
<1>8. CASE BeginDrain(p)
  BY <1>8 DEF BeginDrain, TypeOK, store, Mode
<1>9. ASSUME NEW how \in Mode, Stop(p, how), disruptions' \in Nat PROVE TypeOK'
  BY <1>1, <1>9 DEF Stop, TypeOK, store
<1>10. CASE DrainDone(p)
  BY <1>9, <1>10 DEF DrainDone, Mode, TypeOK
<1>11. CASE DrainTimeout(p)
  BY <1>2, <1>9, <1>11 DEF DrainTimeout, Mode
<1>12. CASE Crash(p)
  BY <1>2, <1>9, <1>12 DEF Crash, Mode
<1> QED
  BY <1>3, <1>4, <1>5, <1>6, <1>7, <1>8, <1>10, <1>11, <1>12 DEF Daemon

LEMMA TypeStep == TypeOK /\ [Next]_vars => TypeOK'
<1> SUFFICES ASSUME TypeOK, [Next]_vars PROVE TypeOK'
  OBVIOUS
<1>1. ASSUME NEW p \in Procs, Daemon(p) PROVE TypeOK'
  BY <1>1, TypeDaemon
<1>2. ASSUME NEW p \in Procs, NEW j \in Jobs, Run(p, j) PROVE TypeOK'
  BY <1>2, TypeRun
<1>3. ASSUME NEW j \in Jobs, LeaseLapse(j) PROVE TypeOK'
  <2>1. LeaseLapsed(jobs[j]) \in Row
    BY RowTypes DEF TypeOK
  <2> QED
    BY <1>3, <2>1 DEF LeaseLapse, TypeOK, procs
<1>4. CASE UNCHANGED vars
  BY <1>4 DEF vars, TypeOK
<1> QED
  BY <1>1, <1>2, <1>3, <1>4 DEF Next

\* Every variable keeps its type in every behaviour of the store, the
\* goroutines and the daemons.
THEOREM TypeCorrect == Spec => []TypeOK
BY TypeInit, TypeStep, PTL DEF Spec

-----------------------------------------------------------------------------
(* The invariant is inductive.                                              *)

\* The types of the fields the invariant compares.
LEMMA FieldTypes ==
    ASSUME TypeOK
    PROVE  /\ \A j \in Jobs :
               /\ jobs[j] \in Row
               /\ jobs[j].status \in JobStatus
               /\ jobs[j].token \in Nat /\ jobs[j].claims \in Nat /\ jobs[j].retries \in Nat
               /\ t2[j].kind \in LogKind /\ t2[j].link \in Nat
               /\ t3[j] \subseteq Nat
               /\ minted[j] \in Nat
           /\ \A p \in Procs, j \in Jobs :
               /\ worker[p][j] \in Goroutine
               /\ worker[p][j].pc \in WorkerPC
               /\ worker[p][j].token \in Nat
BY DEF TypeOK, Row, Logs, Goroutine

LEMMA InvInit == Init => Inv
<1> SUFFICES ASSUME Init PROVE Inv
  OBVIOUS
<1>1. TypeOK
  BY TypeInit
<1>2. ASSUME NEW j \in Jobs PROVE RowInv(j) /\ TierInv(j)
  BY BoundsAssumption DEF Init, RowInv, TierInv, NoRow, NoToken
<1>3. ASSUME NEW p \in Procs, NEW j \in Jobs
      PROVE  worker[p][j].pc = "idle" /\ HolderInv(p, j)
  BY DEF Init, HolderInv, Idle, Holding
<1>4. ASSUME NEW j \in Jobs PROVE ExclusiveInv(j)
  BY <1>3 DEF ExclusiveInv, Holding
<1> QED
  BY <1>1, <1>2, <1>3, <1>4 DEF Inv

\* A step that leaves the database alone keeps the invariant if every
\* goroutine that holds a claim afterwards held the same one before.
LEMMA InvStoreUnchanged ==
    ASSUME Inv, TypeOK', UNCHANGED store,
           \A q \in Procs, k \in Jobs :
               /\ HolderInv(q, k)'
               /\ worker'[q][k].pc \in Holding =>
                    /\ worker[q][k].pc \in Holding
                    /\ worker'[q][k].token = worker[q][k].token
    PROVE  Inv'
<1>1. ASSUME NEW k \in Jobs PROVE RowInv(k)' /\ TierInv(k)'
  BY DEF Inv, RowInv, TierInv, store
<1>2. ASSUME NEW k \in Jobs PROVE ExclusiveInv(k)'
  BY DEF Inv, ExclusiveInv
<1> QED
  BY <1>1, <1>2 DEF Inv

\* A goroutine moves within Run, or returns, without touching the database.
LEMMA InvMove ==
    ASSUME Inv, TypeOK', UNCHANGED store, UNCHANGED todo,
           NEW p \in Procs, NEW j \in Jobs, NEW w \in Goroutine,
           worker[p][j].pc # "idle",
           worker' = [worker EXCEPT ![p][j] = w],
           w.pc \in Holding => /\ worker[p][j].pc \in Holding
                               /\ w.token = worker[p][j].token,
           w.pc = "loaded" => t2[j].kind # "none",
           w.pc = "complete" => t2[j].kind = "none" \/ t2[j].link # NoToken,
           w.pc = "review" => t2[j].kind = "unscreened"
    PROVE  Inv'
<1>1. /\ worker'[p][j] = w
      /\ \A q \in Procs, k \in Jobs : q # p \/ k # j => worker'[q][k] = worker[q][k]
  <2>1. worker \in [Procs -> [Jobs -> Goroutine]]
    BY DEF Inv, TypeOK
  <2> QED
    BY ONLY <2>1, worker' = [worker EXCEPT ![p][j] = w], p \in Procs, j \in Jobs, w \in Goroutine
<1>2. ASSUME NEW q \in Procs, NEW k \in Jobs PROVE HolderInv(q, k)'
  <2>1. HolderInv(q, k)
    BY DEF Inv
  <2>2. CASE q = p /\ k = j
    <3>1. worker'[q][k] = w
      BY <1>1, <2>2
    <3> QED
      BY <2>1, <2>2, <3>1 DEF HolderInv, store
  <2>3. CASE q # p \/ k # j
    BY <1>1, <2>1, <2>3 DEF HolderInv, store
  <2> QED
    BY <2>2, <2>3
<1>3. ASSUME NEW q \in Procs, NEW k \in Jobs, worker'[q][k].pc \in Holding
      PROVE  worker[q][k].pc \in Holding /\ worker'[q][k].token = worker[q][k].token
  BY <1>1, <1>3
<1> QED
  BY <1>2, <1>3, InvStoreUnchanged

\* Claim: the new token is larger than any other, so the row's old holder, if
\* it still runs, no longer matches.  w is what becomes of the claimer.
LEMMA InvClaimApplied ==
    ASSUME Inv, TypeOK', NEW p \in Procs, NEW j \in Jobs, NEW w \in Goroutine,
           ClaimApplied(j), UNCHANGED todo,
           worker' = [worker EXCEPT ![p][j] = w],
           w = Idle \/ w = [pc |-> "claimed", token |-> minted[j] + 1]
    PROVE  Inv'
<1>1. /\ worker'[p][j] = w
      /\ \A q \in Procs, k \in Jobs : q # p \/ k # j => worker'[q][k] = worker[q][k]
  <2>1. worker \in [Procs -> [Jobs -> Goroutine]]
    BY DEF Inv, TypeOK
  <2> QED
    BY ONLY <2>1, worker' = [worker EXCEPT ![p][j] = w], p \in Procs, j \in Jobs, w \in Goroutine
<1>2. /\ \A k \in Jobs : k # j => jobs'[k] = jobs[k] /\ minted'[k] = minted[k]
      /\ jobs'[j] = Claimed(jobs[j], minted[j] + 1)
      /\ minted'[j] = minted[j] + 1
      /\ t2' = t2 /\ t3' = t3
  BY DEF ClaimApplied, Inv, TypeOK
<1>3. /\ jobs'[j].status = "running"
      /\ jobs'[j].token = minted[j] + 1
      /\ jobs'[j].claims = jobs[j].claims + 1
      /\ jobs'[j].retries = jobs[j].retries
  BY <1>2 DEF Claimed
<1>4. jobs[j].claims < MaxClaimCount /\ jobs[j].status \in {"pending", "failed", "running"}
  BY DEF ClaimApplied, Claimable
<1>5. ASSUME NEW k \in Jobs PROVE RowInv(k)' /\ TierInv(k)'
  <2>1. RowInv(k) /\ TierInv(k) /\ RowInv(j) /\ TierInv(j)
    BY DEF Inv
  <2>2. CASE k = j
    BY <1>2, <1>3, <1>4, <2>1, <2>2, FieldTypes, BoundsAssumption
       DEF Inv, RowInv, TierInv
  <2>3. CASE k # j
    BY <1>2, <2>1, <2>3 DEF RowInv, TierInv
  <2> QED
    BY <2>2, <2>3
<1>6. ASSUME NEW q \in Procs, NEW k \in Jobs PROVE HolderInv(q, k)'
  <2>1. HolderInv(q, k) /\ RowInv(k)
    BY DEF Inv
  <2>2. CASE k # j
    BY <1>1, <1>2, <2>1, <2>2 DEF HolderInv
  <2>3. CASE k = j /\ q # p
    <3>1. worker'[q][k] = worker[q][k]
      BY <1>1, <2>3
    <3> QED
      BY <1>2, <1>3, <1>4, <2>1, <2>3, <3>1, FieldTypes DEF Inv, HolderInv
  <2>4. CASE k = j /\ q = p
    <3>1. worker'[q][k] = w
      BY <1>1, <2>4
    <3> QED
      BY <1>2, <1>3, <2>4, <3>1, FieldTypes DEF Inv, HolderInv, Idle, Holding, NoToken
  <2> QED
    BY <2>2, <2>3, <2>4
<1>7. ASSUME NEW k \in Jobs PROVE ExclusiveInv(k)'
  <2> SUFFICES ASSUME NEW q \in Procs, NEW r \in Procs, q # r,
                      worker'[q][k].pc \in Holding, worker'[r][k].pc \in Holding
               PROVE  worker'[q][k].token # worker'[r][k].token
    BY DEF ExclusiveInv
  <2>1. ExclusiveInv(k) /\ HolderInv(q, k) /\ HolderInv(r, k)
    BY DEF Inv
  <2>2. CASE k # j \/ (q # p /\ r # p)
    BY <1>1, <2>1, <2>2 DEF ExclusiveInv
  <2>3. CASE k = j /\ q = p
    BY <1>1, <2>1, <2>3, FieldTypes DEF Inv, HolderInv, Idle, Holding
  <2>4. CASE k = j /\ r = p
    BY <1>1, <2>1, <2>4, FieldTypes DEF Inv, HolderInv, Idle, Holding
  <2> QED
    BY <2>2, <2>3, <2>4
<1> QED
  BY <1>5, <1>6, <1>7 DEF Inv

\* The consolidation transaction: a narrative and the back-links to it.  w is
\* where the writer goes, knowing of the commit or not.
LEMMA InvNarrativeApplied ==
    ASSUME Inv, TypeOK', NEW p \in Procs, NEW j \in Jobs, NEW w \in Goroutine,
           worker[p][j].pc = "loaded", t2[j].kind = "clean",
           NarrativeApplied(p, j), UNCHANGED todo,
           worker' = [worker EXCEPT ![p][j] = w],
           w.pc \in {"complete", "fail"}, w.token = worker[p][j].token
    PROVE  Inv'
<1>1. /\ worker'[p][j] = w
      /\ \A q \in Procs, k \in Jobs : q # p \/ k # j => worker'[q][k] = worker[q][k]
  <2>1. worker \in [Procs -> [Jobs -> Goroutine]]
    BY DEF Inv, TypeOK
  <2> QED
    BY ONLY <2>1, worker' = [worker EXCEPT ![p][j] = w], p \in Procs, j \in Jobs, w \in Goroutine
<1>2. /\ \A k \in Jobs : k # j => t2'[k] = t2[k] /\ t3'[k] = t3[k]
      /\ t2'[j].kind = "clean"
      /\ t2'[j].link = worker[p][j].token
      /\ t3'[j] = t3[j] \cup {worker[p][j].token}
      /\ jobs' = jobs /\ minted' = minted
  BY DEF NarrativeApplied, Inv, TypeOK, Logs
<1>3. worker[p][j].token # NoToken /\ worker[p][j].pc \in Holding
  BY FieldTypes DEF Inv, HolderInv, Holding, NoToken
<1>4. ASSUME NEW k \in Jobs PROVE RowInv(k)' /\ TierInv(k)'
  <2>1. RowInv(k) /\ TierInv(k) /\ HolderInv(p, k)
    BY DEF Inv
  <2>2. CASE k = j
    BY <1>2, <1>3, <2>1, <2>2 DEF RowInv, TierInv, HolderInv
  <2>3. CASE k # j
    BY <1>2, <2>1, <2>3 DEF RowInv, TierInv
  <2> QED
    BY <2>2, <2>3
<1>5. ASSUME NEW q \in Procs, NEW k \in Jobs PROVE HolderInv(q, k)'
  <2>1. HolderInv(q, k)
    BY DEF Inv
  <2>2. CASE k # j
    BY <1>1, <1>2, <2>1, <2>2 DEF HolderInv
  <2>3. CASE k = j /\ q # p
    <3>1. worker'[q][k] = worker[q][k]
      BY <1>1, <2>3
    <3> QED
      BY <1>2, <1>3, <2>1, <2>3, <3>1 DEF HolderInv
  <2>4. CASE k = j /\ q = p
    <3>1. worker'[q][k] = w
      BY <1>1, <2>4
    <3> QED
      BY <1>2, <1>3, <2>1, <2>4, <3>1 DEF HolderInv, Holding
  <2> QED
    BY <2>2, <2>3, <2>4
<1>6. ASSUME NEW k \in Jobs PROVE ExclusiveInv(k)'
  <2>1. ExclusiveInv(k)
    BY DEF Inv
  <2>2. \A q \in Procs : worker'[q][k].pc \in Holding =>
            worker[q][k].pc \in Holding /\ worker'[q][k].token = worker[q][k].token
    BY <1>1, <1>3
  <2> QED
    BY <2>1, <2>2 DEF ExclusiveInv
<1> QED
  BY <1>4, <1>5, <1>6 DEF Inv

\* Complete, Fail and MarkReviewRequired on the row that the goroutine holds:
\* no other goroutine holds it, and the row is running.
LEMMA InvRecordOutcome ==
    ASSUME Inv, TypeOK', NEW p \in Procs, NEW j \in Jobs, NEW row \in Row,
           worker[p][j].pc \in Holding, RecordOutcome(p, j, row),
           row.token = jobs[j].token, row.claims = jobs[j].claims,
           \/ row.status = "failed" /\ row.retries = jobs[j].retries + 1
           \/ /\ row.retries = jobs[j].retries
              /\ \/ row.status = "completed" /\ worker[p][j].pc = "complete"
                 \/ row.status = "review_required" /\ worker[p][j].pc = "review"
    PROVE  Inv'
<1>1. Idle \in Goroutine /\ worker' = [worker EXCEPT ![p][j] = Idle]
  <2>1. Idle \in Goroutine
    BY DEF Goroutine, Idle, WorkerPC, NoToken
  <2> QED
    BY <2>1 DEF RecordOutcome, Return
<1>2. /\ worker'[p][j] = Idle
      /\ \A q \in Procs, k \in Jobs : q # p \/ k # j => worker'[q][k] = worker[q][k]
  <2>1. worker \in [Procs -> [Jobs -> Goroutine]]
    BY DEF Inv, TypeOK
  <2> QED
    BY ONLY <1>1, <2>1, p \in Procs, j \in Jobs
<1>3. worker'[p][j].pc = "idle"
  BY <1>2 DEF Idle
<1>4. t2' = t2 /\ t3' = t3 /\ minted' = minted /\ todo' = todo
  BY DEF RecordOutcome, procs
<1>5. CASE jobs' = jobs
  <2>1. Idle.pc = "idle" /\ Idle.pc \notin Holding /\ worker[p][j].pc # "idle"
    BY DEF Idle, Holding
  <2>2. UNCHANGED store /\ UNCHANGED todo
    BY <1>4, <1>5 DEF store
  <2> QED
    BY <1>1, <2>1, <2>2, InvMove
<1>6. CASE Holds(jobs[j], worker[p][j].token) /\ jobs' = [jobs EXCEPT ![j] = row]
  <2>1. jobs'[j] = row /\ \A k \in Jobs : k # j => jobs'[k] = jobs[k]
    BY <1>6 DEF Inv, TypeOK
  <2>2. jobs[j].status = "running" /\ worker[p][j].token = jobs[j].token
    BY <1>6 DEF Inv, HolderInv, Holds
  <2>3. ASSUME NEW k \in Jobs PROVE RowInv(k)' /\ TierInv(k)'
    <3>1. RowInv(k) /\ TierInv(k) /\ HolderInv(p, k)
      BY DEF Inv
    <3>2. CASE k = j
      BY <1>4, <2>1, <2>2, <3>1, <3>2, FieldTypes DEF Inv, RowInv, TierInv, HolderInv
    <3>3. CASE k # j
      BY <1>4, <2>1, <3>1, <3>3 DEF RowInv, TierInv
    <3> QED
      BY <3>2, <3>3
  <2>4. ASSUME NEW q \in Procs, NEW k \in Jobs PROVE HolderInv(q, k)'
    <3>1. HolderInv(q, k) /\ ExclusiveInv(k)
      BY DEF Inv
    <3>2. CASE k # j
      BY <1>2, <1>4, <2>1, <3>1, <3>2 DEF HolderInv
    <3>3. CASE k = j /\ q = p
      <4>1. worker'[q][k].pc = "idle" /\ "idle" \notin Holding
        BY <1>3, <3>3 DEF Holding
      <4> QED
        BY <1>4, <2>1, <3>1, <3>3, <4>1 DEF HolderInv
    <3>4. CASE k = j /\ q # p
      <4>1. worker'[q][k] = worker[q][k]
        BY <1>2, <3>4
      <4>2. worker[q][k].pc \in Holding => worker[q][k].token # jobs[j].token
        BY <2>2, <3>1, <3>4 DEF ExclusiveInv
      <4> QED
        BY <1>4, <2>1, <2>2, <3>1, <3>4, <4>1, <4>2 DEF HolderInv
    <3> QED
      BY <3>2, <3>3, <3>4
  <2>5. ASSUME NEW k \in Jobs PROVE ExclusiveInv(k)'
    <3>1. ExclusiveInv(k)
      BY DEF Inv
    <3>2. \A q \in Procs : worker'[q][k].pc \in Holding => worker'[q][k] = worker[q][k]
      BY <1>2, <1>3 DEF Holding
    <3> QED
      BY <3>1, <3>2 DEF ExclusiveInv
  <2> QED
    BY <2>3, <2>4, <2>5 DEF Inv
<1>7. jobs' = jobs \/ (Holds(jobs[j], worker[p][j].token) /\ jobs' = [jobs EXCEPT ![j] = row])
  BY DEF RecordOutcome, Inv, TypeOK
<1> QED
  BY <1>5, <1>6, <1>7

LEMMA InvRun ==
    ASSUME Inv, NEW p \in Procs, NEW j \in Jobs, Run(p, j)
    PROVE  Inv'
<1> DEFINE w == worker[p][j]
<1>1. TypeOK /\ TypeOK'
  BY TypeRun DEF Inv
<1>2. /\ jobs[j] \in Row /\ w \in Goroutine /\ Idle \in Goroutine
      /\ \A pc \in WorkerPC : [w EXCEPT !.pc = pc] \in Goroutine
      /\ minted[j] \in Nat
      /\ [pc |-> "claimed", token |-> minted[j] + 1] \in Goroutine
  <2>1. jobs[j] \in Row /\ w \in Goroutine /\ minted[j] \in Nat
    BY <1>1 DEF TypeOK
  <2>2. \A pc \in WorkerPC : [w EXCEPT !.pc = pc] \in Goroutine
    BY <2>1, GoroutineTypes
  <2>3. Idle \in Goroutine /\ [pc |-> "claimed", token |-> minted[j] + 1] \in Goroutine
    BY <2>1 DEF Goroutine, Idle, WorkerPC, NoToken
  <2> QED
    BY <2>1, <2>2, <2>3
<1>3. /\ Idle.pc \notin Holding
      /\ Idle.pc \notin {"loaded", "complete", "review"}
      /\ \A pc \in WorkerPC : [w EXCEPT !.pc = pc].pc = pc /\ [w EXCEPT !.pc = pc].token = w.token
  BY <1>2 DEF Idle, Holding, Goroutine
<1>4. ASSUME Return(p, j), UNCHANGED <<store, procs>>, w.pc # "idle" PROVE Inv'
  <2>1. UNCHANGED store /\ UNCHANGED todo
    BY <1>4 DEF procs
  <2> QED
    BY <1>1, <1>2, <1>3, <1>4, <2>1, InvMove DEF Return
<1>5. ASSUME NEW pc \in WorkerPC, Goto(p, j, pc), UNCHANGED <<store, procs>>,
             w.pc \in Holding,
             pc = "loaded" => t2[j].kind # "none",
             pc = "complete" => t2[j].kind = "none" \/ t2[j].link # NoToken,
             pc = "review" => t2[j].kind = "unscreened"
      PROVE  Inv'
  <2>1. UNCHANGED store /\ UNCHANGED todo /\ w.pc # "idle"
    BY <1>5 DEF procs, Holding
  <2> DEFINE v == [w EXCEPT !.pc = pc]
  <2>2. worker' = [worker EXCEPT ![p][j] = v]
    BY <1>5 DEF Goto
  <2>3. v \in Goroutine /\ v.pc = pc /\ v.token = w.token
    BY <1>2, <1>3
  <2> HIDE DEF v
  <2> QED
    BY <1>1, <1>5, <2>1, <2>2, <2>3, InvMove
<1>6. CASE Claim(p, j)
  <2>1. w.pc = "queued" /\ UNCHANGED procs /\ UNCHANGED todo
    BY <1>6 DEF Claim, procs
  <2>2. CASE /\ ClaimApplied(j)
             /\ worker' = [worker EXCEPT ![p][j] = [pc |-> "claimed", token |-> minted[j] + 1]]
    BY <1>1, <1>2, <2>1, <2>2, InvClaimApplied
  <2>3. CASE ClaimApplied(j) /\ Return(p, j)
    BY <1>1, <1>2, <2>1, <2>3, InvClaimApplied DEF Return
  <2>4. CASE Return(p, j) /\ UNCHANGED store
    BY <1>4, <2>1, <2>4
  <2> QED
    BY <1>6, <2>2, <2>3, <2>4 DEF Claim
<1>7. CASE LoadLogs(p, j)
  <2>1. w.pc \in Holding /\ UNCHANGED <<store, procs>>
    BY <1>7 DEF LoadLogs, Holding
  <2>2. CASE Goto(p, j, "fail")
    BY <1>5, <2>1, <2>2 DEF WorkerPC
  <2>3. CASE HasLogsToProcess(j) /\ Goto(p, j, "loaded")
    BY <1>5, <2>1, <2>3 DEF WorkerPC, HasLogsToProcess
  <2>4. CASE ~HasLogsToProcess(j) /\ Goto(p, j, "complete")
    BY <1>5, <2>1, <2>4 DEF WorkerPC, HasLogsToProcess
  <2> QED
    BY <1>7, <2>2, <2>3, <2>4 DEF LoadLogs
<1>8. CASE Compress(p, j)
  <2>1. w.pc \in Holding /\ UNCHANGED <<store, procs>>
    BY <1>8 DEF Compress, Holding
  <2>2. CASE Goto(p, j, "fail")
    BY <1>5, <2>1, <2>2 DEF WorkerPC
  <2>3. CASE t2[j].kind = "unscreened" /\ Goto(p, j, "review")
    BY <1>5, <2>1, <2>3 DEF WorkerPC
  <2> QED
    BY <1>8, <2>2, <2>3 DEF Compress
<1>9. CASE CommitNarrative(p, j)
  <2>1. /\ w.pc = "loaded" /\ w.pc \in Holding /\ t2[j].kind = "clean"
        /\ UNCHANGED procs /\ UNCHANGED todo
    BY <1>9 DEF CommitNarrative, Holding, procs
  <2>2. CASE NarrativeApplied(p, j) /\ Goto(p, j, "complete")
    BY <1>1, <1>2, <1>3, <2>1, <2>2, InvNarrativeApplied DEF Goto, WorkerPC
  <2>3. CASE NarrativeApplied(p, j) /\ Goto(p, j, "fail")
    BY <1>1, <1>2, <1>3, <2>1, <2>3, InvNarrativeApplied DEF Goto, WorkerPC
  <2>4. CASE Goto(p, j, "fail") /\ UNCHANGED store
    BY <1>5, <2>1, <2>4 DEF WorkerPC
  <2> QED
    BY <1>9, <2>2, <2>3, <2>4 DEF CommitNarrative
<1>10. CASE Complete(p, j)
  <2>1. /\ w.pc = "complete" /\ w.pc \in Holding
        /\ RecordOutcome(p, j, Completed(jobs[j]))
    BY <1>10 DEF Complete, Holding
  <2>2. /\ Completed(jobs[j]) \in Row
        /\ Completed(jobs[j]).status = "completed"
        /\ Completed(jobs[j]).token = jobs[j].token
        /\ Completed(jobs[j]).claims = jobs[j].claims
        /\ Completed(jobs[j]).retries = jobs[j].retries
    BY <1>2 DEF Completed, Row, JobStatus
  <2> QED
    BY <1>1, <2>1, <2>2, InvRecordOutcome
<1>11. CASE Fail(p, j)
  <2>1. /\ w.pc \in Holding
        /\ RecordOutcome(p, j, Failed(jobs[j]))
    BY <1>11 DEF Fail, Holding
  <2>2. /\ Failed(jobs[j]) \in Row
        /\ Failed(jobs[j]).status = "failed"
        /\ Failed(jobs[j]).token = jobs[j].token
        /\ Failed(jobs[j]).claims = jobs[j].claims
        /\ Failed(jobs[j]).retries = jobs[j].retries + 1
    BY <1>2 DEF Failed, Row, JobStatus
  <2> QED
    BY <1>1, <2>1, <2>2, InvRecordOutcome
<1>12. CASE MarkReviewRequired(p, j)
  <2>1. /\ w.pc = "review" /\ w.pc \in Holding
        /\ RecordOutcome(p, j, ReviewRequired(jobs[j]))
    BY <1>12 DEF MarkReviewRequired, Holding
  <2>2. /\ ReviewRequired(jobs[j]) \in Row
        /\ ReviewRequired(jobs[j]).status = "review_required"
        /\ ReviewRequired(jobs[j]).token = jobs[j].token
        /\ ReviewRequired(jobs[j]).claims = jobs[j].claims
        /\ ReviewRequired(jobs[j]).retries = jobs[j].retries
    BY <1>2 DEF ReviewRequired, Row, JobStatus
  <2> QED
    BY <1>1, <2>1, <2>2, InvRecordOutcome
<1> QED
  BY <1>6, <1>7, <1>8, <1>9, <1>10, <1>11, <1>12 DEF Run

LEMMA InvDaemon ==
    ASSUME Inv, NEW p \in Procs, Daemon(p)
    PROVE  Inv'
<1>1. TypeOK /\ TypeOK'
  BY TypeDaemon DEF Inv
<1>2. CASE Start(p)
  <2>1. UNCHANGED store /\ UNCHANGED worker
    BY <1>2 DEF Start
  <2>2. ASSUME NEW q \in Procs, NEW k \in Jobs PROVE HolderInv(q, k)'
    <3>1. k \in todo'[q] => k \in todo[q] \/ Recoverable(jobs[k])
      BY <1>1, <1>2 DEF Start, TypeOK
    <3>2. Recoverable(jobs[k]) => jobs[k].status # "absent"
      BY DEF Recoverable
    <3>3. HolderInv(q, k)
      BY DEF Inv
    <3> QED
      BY <2>1, <3>1, <3>2, <3>3 DEF HolderInv, store
  <2> QED
    BY <1>1, <2>1, <2>2, InvStoreUnchanged
<1>3. ASSUME NEW j \in Jobs, NEW kind \in LogKind, Submit(p, j, kind) PROVE Inv'
  <2>1. /\ jobs[j].status = "absent"
        /\ jobs'[j] = Committed /\ \A k \in Jobs : k # j => jobs'[k] = jobs[k]
        /\ t2'[j].kind = kind /\ t2'[j].link = t2[j].link
        /\ \A k \in Jobs : k # j => t2'[k] = t2[k]
        /\ t3' = t3 /\ minted' = minted /\ worker' = worker
    BY <1>1, <1>3 DEF Submit, TypeOK, Logs
  <2>0. \A q \in Procs, k \in Jobs : k \in todo'[q] => k = j \/ k \in todo[q]
    <3>1. todo' = [todo EXCEPT ![p] = {j}] \/ todo' = todo
      BY <1>3, Zenon DEF Submit
    <3>2. todo \in [Procs -> SUBSET Jobs]
      BY <1>1 DEF TypeOK
    <3> QED
      BY ONLY <3>1, <3>2, p \in Procs
  <2>2. /\ jobs'[j].status = "pending" /\ jobs'[j].token = NoToken
        /\ jobs'[j].claims = 0 /\ jobs'[j].retries = 0
    BY <2>1 DEF Committed, NoRow
  <2>3. \A q \in Procs : worker[q][j].pc = "idle"
    BY <2>1 DEF Inv, HolderInv
  <2>4. ASSUME NEW k \in Jobs PROVE RowInv(k)' /\ TierInv(k)'
    <3>1. RowInv(k) /\ TierInv(k) /\ RowInv(j) /\ TierInv(j)
      BY DEF Inv
    <3>2. CASE k = j
      <4>1. t2[j].link = NoToken /\ t3[j] = {}
        BY <2>1, <3>1 DEF RowInv, TierInv
      <4>2. minted[j] = 0
        BY <2>1, <3>1 DEF RowInv
      <4> QED
        BY <2>1, <2>2, <3>1, <3>2, <4>1, <4>2, BoundsAssumption DEF RowInv, TierInv, NoToken
    <3>3. CASE k # j
      BY <2>1, <3>1, <3>3 DEF RowInv, TierInv
    <3> QED
      BY <3>2, <3>3
  <2>5. ASSUME NEW q \in Procs, NEW k \in Jobs PROVE HolderInv(q, k)'
    <3>1. HolderInv(q, k)
      BY DEF Inv
    <3>2. CASE k = j
      BY <2>1, <2>2, <2>3, <3>1, <3>2 DEF HolderInv, Holding
    <3>3. CASE k # j
      BY <2>0, <2>1, <3>1, <3>3 DEF HolderInv
    <3> QED
      BY <3>2, <3>3
  <2>6. ASSUME NEW k \in Jobs PROVE ExclusiveInv(k)'
    BY <2>1 DEF Inv, ExclusiveInv
  <2> QED
    BY <1>1, <2>4, <2>5, <2>6 DEF Inv
<1>4. ASSUME NEW j \in Jobs, Dispatch(p, j) PROVE Inv'
  <2> DEFINE w == [pc |-> "queued", token |-> NoToken]
  <2>1. w \in Goroutine /\ worker' = [worker EXCEPT ![p][j] = w]
    BY <1>4 DEF Dispatch, Goroutine, WorkerPC, NoToken
  <2>2. w.pc = "queued" /\ w.pc \notin Holding
    BY DEF Holding
  <2> HIDE DEF w
  <2>3. /\ worker'[p][j] = w
        /\ \A q \in Procs, k \in Jobs : q # p \/ k # j => worker'[q][k] = worker[q][k]
    <3>1. worker \in [Procs -> [Jobs -> Goroutine]]
      BY <1>1 DEF TypeOK
    <3> QED
      BY ONLY <2>1, <3>1, p \in Procs, j \in Jobs
  <2>4. UNCHANGED store
    BY <1>4 DEF Dispatch
  <2>5. ASSUME NEW q \in Procs, NEW k \in Jobs PROVE HolderInv(q, k)'
    <3>1. HolderInv(q, k)
      BY DEF Inv
    <3>2. k \in todo'[q] => k \in todo[q]
      BY <1>1, <1>4 DEF Dispatch, TypeOK
    <3>3. CASE q = p /\ k = j
      <4>1. worker'[q][k].pc = "queued" /\ k \in todo[q]
        BY <1>4, <2>2, <2>3, <3>3 DEF Dispatch
      <4> QED
        BY <2>4, <3>1, <4>1 DEF HolderInv, Holding, store
    <3>4. CASE q # p \/ k # j
      BY <2>3, <2>4, <3>1, <3>2, <3>4 DEF HolderInv, store
    <3> QED
      BY <3>3, <3>4
  <2>6. ASSUME NEW q \in Procs, NEW k \in Jobs, worker'[q][k].pc \in Holding
        PROVE  worker[q][k].pc \in Holding /\ worker'[q][k].token = worker[q][k].token
    BY <2>2, <2>3, <2>6
  <2> QED
    BY <1>1, <2>4, <2>5, <2>6, InvStoreUnchanged
<1>5. ASSUME UNCHANGED <<store, worker, todo>> PROVE Inv'
  <2>1. UNCHANGED store /\ UNCHANGED worker /\ UNCHANGED todo
    BY <1>5
  <2>2. ASSUME NEW q \in Procs, NEW k \in Jobs PROVE HolderInv(q, k)'
    BY <2>1 DEF Inv, HolderInv, store
  <2> QED
    BY <1>1, <2>1, <2>2, InvStoreUnchanged
<1>6. ASSUME NEW how, Stop(p, how) PROVE Inv'
  <2>1. UNCHANGED store
    BY <1>6 DEF Stop
  <2>2. ASSUME NEW q \in Procs, NEW k \in Jobs
        PROVE  /\ worker'[q][k].pc = "idle" \/ worker'[q][k] = worker[q][k]
               /\ k \in todo'[q] => k \in todo[q]
    BY <1>1, <1>6 DEF Stop, TypeOK, Idle
  <2>3. ASSUME NEW q \in Procs, NEW k \in Jobs PROVE HolderInv(q, k)'
    <3>1. HolderInv(q, k)
      BY DEF Inv
    <3>2. CASE worker'[q][k].pc = "idle"
      BY <2>1, <2>2, <3>1, <3>2 DEF HolderInv, store, Holding
    <3>3. CASE worker'[q][k] = worker[q][k]
      BY <2>1, <2>2, <3>1, <3>3 DEF HolderInv, store
    <3> QED
      BY <2>2, <3>2, <3>3
  <2>4. ASSUME NEW q \in Procs, NEW k \in Jobs, worker'[q][k].pc \in Holding
        PROVE  worker[q][k].pc \in Holding /\ worker'[q][k].token = worker[q][k].token
    BY <2>2, <2>4 DEF Holding
  <2> QED
    BY <1>1, <2>1, <2>3, <2>4, InvStoreUnchanged
<1>7. CASE DispatchDone(p) \/ Signal(p) \/ BeginDrain(p)
  BY <1>5, <1>7 DEF DispatchDone, Signal, BeginDrain
<1>8. CASE DrainDone(p) \/ DrainTimeout(p) \/ Crash(p)
  BY <1>6, <1>8 DEF DrainDone, DrainTimeout, Crash
<1> QED
  BY <1>2, <1>3, <1>4, <1>7, <1>8 DEF Daemon

LEMMA InvStep == Inv /\ [Next]_vars => Inv'
<1> SUFFICES ASSUME Inv, [Next]_vars PROVE Inv'
  OBVIOUS
<1>1. TypeOK /\ TypeOK'
  BY TypeStep DEF Inv
<1>2. ASSUME NEW p \in Procs, Daemon(p) PROVE Inv'
  BY <1>2, InvDaemon
<1>3. ASSUME NEW p \in Procs, NEW j \in Jobs, Run(p, j) PROVE Inv'
  BY <1>3, InvRun
<1>4. ASSUME NEW j \in Jobs, LeaseLapse(j) PROVE Inv'
  <2>1. /\ t2' = t2 /\ t3' = t3 /\ minted' = minted /\ worker' = worker /\ todo' = todo
        /\ jobs' = [jobs EXCEPT ![j] = LeaseLapsed(@)]
    BY <1>4 DEF LeaseLapse, procs
  <2>2. \A k \in Jobs : /\ jobs'[k].status = jobs[k].status
                        /\ jobs'[k].token = jobs[k].token
                        /\ jobs'[k].claims = jobs[k].claims
                        /\ jobs'[k].retries = jobs[k].retries
    BY <1>1, <2>1 DEF LeaseLapsed, TypeOK, Row
  <2>3. ASSUME NEW k \in Jobs PROVE RowInv(k)' /\ TierInv(k)' /\ ExclusiveInv(k)'
    BY <2>1, <2>2 DEF Inv, RowInv, TierInv, ExclusiveInv
  <2>4. ASSUME NEW q \in Procs, NEW k \in Jobs PROVE HolderInv(q, k)'
    BY <2>1, <2>2 DEF Inv, HolderInv
  <2> QED
    BY <1>1, <2>3, <2>4 DEF Inv
<1>5. CASE UNCHANGED vars
  <2>1. UNCHANGED store /\ worker' = worker /\ todo' = todo
    BY <1>5 DEF vars, store
  <2>2. ASSUME NEW q \in Procs, NEW k \in Jobs PROVE HolderInv(q, k)'
    BY <2>1 DEF Inv, HolderInv, store
  <2> QED
    BY <1>1, <2>1, <2>2, InvStoreUnchanged
<1> QED
  BY <1>2, <1>3, <1>4, <1>5 DEF Next

\* Inv holds in every reachable state.
THEOREM Invariance == Spec => []Inv
BY InvInit, InvStep, PTL DEF Spec

-----------------------------------------------------------------------------
(* What the invariant gives.                                                *)

\* Claims and recorded failures stay within bounds (AttemptsBounded).
THEOREM AttemptsAreBounded == Spec => []AttemptsBounded
<1>1. Inv => AttemptsBounded
  BY DEF Inv, RowInv, AttemptsBounded
<1> QED
  BY <1>1, Invariance, PTL

\* Completion is reported only for covered sessions (CompletedIsCovered).
THEOREM CompletionIsHonest == Spec => []CompletedIsCovered
<1>1. Inv => CompletedIsCovered
  BY DEF Inv, TierInv, CompletedIsCovered
<1> QED
  BY <1>1, Invariance, PTL

\* The compression gate holds (UnscreenedNotPromoted).
THEOREM GateHolds == Spec => []UnscreenedNotPromoted
<1>1. Inv => UnscreenedNotPromoted
  BY DEF Inv, TierInv, UnscreenedNotPromoted
<1> QED
  BY <1>1, Invariance, PTL

\* What a step can do to one row: nothing, the insertion, a claim, the lapse
\* of its lease, or the outcome its holder records.
LEMMA RowStep ==
    ASSUME Inv, [Next]_vars, NEW j \in Jobs
    PROVE  \/ jobs'[j] = jobs[j]
           \/ jobs[j].status = "absent" /\ jobs'[j] = Committed
           \/ Claimable(jobs[j]) /\ jobs'[j] = Claimed(jobs[j], minted[j] + 1)
           \/ jobs[j].status = "running" /\ jobs'[j] = LeaseLapsed(jobs[j])
           \/ /\ jobs[j].status = "running"
              /\ \E p \in Procs :
                    \/ worker[p][j].pc = "complete" /\ jobs'[j] = Completed(jobs[j])
                    \/ worker[p][j].pc = "fail" /\ jobs'[j] = Failed(jobs[j])
                    \/ worker[p][j].pc = "review" /\ jobs'[j] = ReviewRequired(jobs[j])
<1> DEFINE Goal == \/ jobs'[j] = jobs[j]
                   \/ jobs[j].status = "absent" /\ jobs'[j] = Committed
                   \/ Claimable(jobs[j]) /\ jobs'[j] = Claimed(jobs[j], minted[j] + 1)
                   \/ jobs[j].status = "running" /\ jobs'[j] = LeaseLapsed(jobs[j])
                   \/ /\ jobs[j].status = "running"
                      /\ \E p \in Procs :
                            \/ worker[p][j].pc = "complete" /\ jobs'[j] = Completed(jobs[j])
                            \/ worker[p][j].pc = "fail" /\ jobs'[j] = Failed(jobs[j])
                            \/ worker[p][j].pc = "review" /\ jobs'[j] = ReviewRequired(jobs[j])
<1>1. jobs \in [Jobs -> Row]
  BY DEF Inv, TypeOK
<1>2. ASSUME NEW p \in Procs, Daemon(p) PROVE Goal
  <2>1. ASSUME NEW k \in Jobs, NEW kind \in LogKind, Submit(p, k, kind) PROVE Goal
    BY <1>1, <2>1 DEF Submit
  <2>2. CASE jobs' = jobs
    BY <2>2
  <2> QED
    BY <1>2, <2>1, <2>2 DEF Daemon, Start, Dispatch, DispatchDone, Signal, BeginDrain,
        DrainDone, DrainTimeout, Crash, Stop, store
<1>3. ASSUME NEW p \in Procs, NEW k \in Jobs, Run(p, k) PROVE Goal
  <2>1. CASE Claim(p, k)
    BY <1>1, <2>1 DEF Claim, ClaimApplied, store
  <2>2. CASE LoadLogs(p, k) \/ Compress(p, k) \/ CommitNarrative(p, k)
    BY <2>2 DEF LoadLogs, Compress, CommitNarrative, NarrativeApplied, store
  <2>3. ASSUME NEW row, RecordOutcome(p, k, row), worker[p][k].pc \in Holding
        PROVE  \/ jobs'[j] = jobs[j]
               \/ k = j /\ jobs[j].status = "running" /\ jobs'[j] = row
    <3>1. worker[p][k].token = jobs[k].token => jobs[k].status = "running"
      BY <2>3 DEF Inv, HolderInv
    <3> QED
      BY <1>1, <2>3, <3>1 DEF RecordOutcome, Holds
  <2>4. CASE Complete(p, k)
    BY <2>3, <2>4 DEF Complete, Holding
  <2>5. CASE Fail(p, k)
    BY <2>3, <2>5 DEF Fail, Holding
  <2>6. CASE MarkReviewRequired(p, k)
    BY <2>3, <2>6 DEF MarkReviewRequired, Holding
  <2> QED
    BY <1>3, <2>1, <2>2, <2>4, <2>5, <2>6 DEF Run
<1>4. ASSUME NEW k \in Jobs, LeaseLapse(k) PROVE Goal
  BY <1>1, <1>4 DEF LeaseLapse
<1>5. CASE UNCHANGED vars
  BY <1>5 DEF vars
<1> QED
  BY <1>2, <1>3, <1>4, <1>5 DEF Next

\* A terminal status is never left (TerminalIsFinal), although no statement of
\* the store but Claim looks at the status.
THEOREM TerminalStays == Spec => TerminalIsFinal
<1>1. Inv /\ [Next]_vars => [\A j \in Jobs : jobs[j].status \in Terminal => jobs'[j] = jobs[j]]_vars
  <2> SUFFICES ASSUME Inv, [Next]_vars, NEW j \in Jobs, jobs[j].status \in Terminal
               PROVE  jobs'[j] = jobs[j]
    OBVIOUS
  <2> QED
    BY RowStep DEF Terminal, Claimable
<1> QED
  BY <1>1, Invariance, PTL DEF Spec, TerminalIsFinal

\* What a step can do to the tiers of one session: nothing, the logs of a new
\* job, or a narrative that a goroutine with loaded logs was allowed to link.
LEMMA TierStep ==
    ASSUME Inv, [Next]_vars, NEW j \in Jobs
    PROVE  \/ t2'[j] = t2[j] /\ t3'[j] = t3[j]
           \/ /\ jobs[j].status = "absent" /\ jobs'[j].status = "pending"
              /\ t2'[j].link = t2[j].link /\ t3'[j] = t3[j]
              /\ jobs'[j].claims = 0
           \/ \E p \in Procs :
                /\ worker[p][j].pc = "loaded" /\ t2[j].kind = "clean"
                /\ worker'[p][j].pc \in {"complete", "fail"}
                /\ LinkAllowed(j, worker[p][j].token)
                /\ t2'[j].kind = "clean" /\ t2'[j].link = worker[p][j].token
                /\ t3'[j] = t3[j] \cup {worker[p][j].token}
                /\ jobs'[j] = jobs[j]
<1> DEFINE Goal == \/ t2'[j] = t2[j] /\ t3'[j] = t3[j]
                   \/ /\ jobs[j].status = "absent" /\ jobs'[j].status = "pending"
                      /\ t2'[j].link = t2[j].link /\ t3'[j] = t3[j]
                      /\ jobs'[j].claims = 0
                   \/ \E p \in Procs :
                        /\ worker[p][j].pc = "loaded" /\ t2[j].kind = "clean"
                        /\ worker'[p][j].pc \in {"complete", "fail"}
                        /\ LinkAllowed(j, worker[p][j].token)
                        /\ t2'[j].kind = "clean" /\ t2'[j].link = worker[p][j].token
                        /\ t3'[j] = t3[j] \cup {worker[p][j].token}
                        /\ jobs'[j] = jobs[j]
<1>1. TypeOK
  BY DEF Inv
<1>2. CASE UNCHANGED <<t2, t3>>
  BY <1>2
<1>3. ASSUME NEW p \in Procs, Daemon(p) PROVE Goal
  <2>1. ASSUME NEW k \in Jobs, NEW kind \in LogKind, Submit(p, k, kind) PROVE Goal
    BY <1>1, <2>1 DEF Submit, TypeOK, Logs, Committed, NoRow
  <2> QED
    BY <1>2, <1>3, <2>1 DEF Daemon, Start, Dispatch, DispatchDone, Signal, BeginDrain,
        DrainDone, DrainTimeout, Crash, Stop, store
<1>4. ASSUME NEW p \in Procs, NEW k \in Jobs, Run(p, k) PROVE Goal
  <2>1. CASE CommitNarrative(p, k) /\ NarrativeApplied(p, k)
    <3>1. CASE k # j
      BY <1>1, <2>1, <3>1 DEF NarrativeApplied, TypeOK
    <3>2. CASE k = j
      <4>1. /\ t2'[j].kind = "clean" /\ t2'[j].link = worker[p][j].token
            /\ t3'[j] = t3[j] \cup {worker[p][j].token}
            /\ jobs'[j] = jobs[j]
            /\ LinkAllowed(j, worker[p][j].token)
        BY <1>1, <2>1, <3>2 DEF CommitNarrative, NarrativeApplied, TypeOK, Logs
      <4>2. Goto(p, j, "complete") \/ Goto(p, j, "fail")
        BY <2>1, <3>2 DEF CommitNarrative
      <4>3. worker'[p][j].pc \in {"complete", "fail"}
        BY <1>1, <4>2 DEF Goto, TypeOK, Goroutine
      <4> QED
        BY <2>1, <3>2, <4>1, <4>3 DEF CommitNarrative
    <3> QED
      BY <3>1, <3>2
  <2>2. CASE CommitNarrative(p, k) /\ UNCHANGED store
    BY <1>2, <2>2 DEF store
  <2> QED
    BY <1>2, <1>4, <2>1, <2>2 DEF Run, Claim, ClaimApplied, LoadLogs, Compress,
        CommitNarrative, Complete, Fail, MarkReviewRequired, RecordOutcome, store
<1>5. ASSUME NEW k \in Jobs, LeaseLapse(k) PROVE Goal
  BY <1>2, <1>5 DEF LeaseLapse
<1>6. CASE UNCHANGED vars
  BY <1>6 DEF vars
<1> QED
  BY <1>3, <1>4, <1>5, <1>6 DEF Next

\* With the fenced transaction of the fallback path, a goroutine that was
\* superseded never writes (StaleNeverWrites).
THEOREM FallbackIsFenced ==
    ASSUME ~Consolidation
    PROVE  Spec => StaleNeverWrites
<1>1. Inv /\ [Next]_vars => [\A j \in Jobs : \A n \in t3'[j] \ t3[j] : n = jobs[j].token]_vars
  <2> SUFFICES ASSUME Inv, [Next]_vars, NEW j \in Jobs, NEW n \in t3'[j] \ t3[j]
               PROVE  n = jobs[j].token
    OBVIOUS
  <2> QED
    BY TierStep DEF LinkAllowed, Holds
<1> QED
  BY <1>1, Invariance, PTL DEF Spec, StaleNeverWrites

\* A goroutine that has loaded logs is the only one that may link them.
SoleOwnerInv ==
    /\ \A j \in Jobs : \A n \in t3[j] : n = t2[j].link
    /\ \A p \in Procs, j \in Jobs : worker[p][j].pc = "loaded" => t2[j].link = NoToken

\* Where a goroutine with loaded logs can have come from.
LEMMA LoadedStep ==
    ASSUME Inv, [Next]_vars, Consolidation,
           NEW p \in Procs, NEW j \in Jobs, worker'[p][j].pc = "loaded"
    PROVE  worker[p][j].pc = "loaded" \/ (t2[j].link = NoToken /\ t2' = t2)
<1> DEFINE Goal == worker[p][j].pc = "loaded" \/ (t2[j].link = NoToken /\ t2' = t2)
<1>1. TypeOK
  BY DEF Inv
<1>2. CASE worker' = worker
  BY <1>2
<1>3. ASSUME NEW q \in Procs, Daemon(q) PROVE Goal
  <2>1. ASSUME NEW k \in Jobs, Dispatch(q, k) PROVE Goal
    BY <1>1, <2>1 DEF Dispatch, TypeOK
  <2>2. ASSUME NEW how, Stop(q, how) PROVE Goal
    BY <1>1, <2>2 DEF Stop, TypeOK, Idle
  <2> QED
    BY <1>2, <1>3, <2>1, <2>2 DEF Daemon, Start, Submit, DispatchDone, Signal, BeginDrain,
        DrainDone, DrainTimeout, Crash
<1>4. ASSUME NEW q \in Procs, NEW k \in Jobs, Run(q, k) PROVE Goal
  <2>1. ASSUME NEW w \in Goroutine, worker' = [worker EXCEPT ![q][k] = w], w.pc # "loaded"
        PROVE  Goal
    <3>1. /\ worker'[q][k] = w
          /\ \A a \in Procs, b \in Jobs : a # q \/ b # k => worker'[a][b] = worker[a][b]
      <4>1. worker \in [Procs -> [Jobs -> Goroutine]]
        BY <1>1 DEF TypeOK
      <4>2. worker' = [worker EXCEPT ![q][k] = w]
        BY <2>1
      <4> QED
        BY ONLY <4>1, <4>2, q \in Procs, k \in Jobs, w \in Goroutine
    <3> QED
      BY <2>1, <3>1
  <2>2. /\ Idle \in Goroutine /\ Idle.pc # "loaded"
        /\ \A pc \in WorkerPC : /\ [worker[q][k] EXCEPT !.pc = pc] \in Goroutine
                                /\ [worker[q][k] EXCEPT !.pc = pc].pc = pc
    <3>1. worker[q][k] \in Goroutine
      BY <1>1 DEF TypeOK
    <3>2. Idle \in Goroutine /\ Idle.pc # "loaded"
      BY DEF Goroutine, Idle, WorkerPC, NoToken
    <3> QED
      BY <3>1, <3>2, GoroutineTypes DEF Goroutine
  <2>3. /\ Return(q, k) => Goal
        /\ \A pc \in WorkerPC : pc # "loaded" /\ Goto(q, k, pc) => Goal
    BY <2>1, <2>2 DEF Return, Goto
  <2>4. CASE Claim(q, k)
    <3>1. LET w == [pc |-> "claimed", token |-> minted[k] + 1]
          IN  w \in Goroutine /\ w.pc # "loaded"
      BY <1>1 DEF TypeOK, Goroutine, WorkerPC
    <3> QED
      BY <2>1, <2>3, <2>4, <3>1 DEF Claim
  <2>5. CASE LoadLogs(q, k)
    <3>1. CASE Goto(q, k, "loaded") /\ HasLogsToProcess(k)
      <4>1. t2' = t2 /\ t2[k].link = NoToken
        BY <2>5, <3>1 DEF LoadLogs, HasLogsToProcess, store
      <4>2. LET w == [worker[q][k] EXCEPT !.pc = "loaded"]
            IN  w \in Goroutine /\ worker' = [worker EXCEPT ![q][k] = w]
        BY <2>2, <3>1 DEF Goto, WorkerPC
      <4>3. q # p \/ k # j => worker'[p][j] = worker[p][j]
        <5>1. worker \in [Procs -> [Jobs -> Goroutine]]
          BY <1>1 DEF TypeOK
        <5> QED
          BY ONLY <4>2, <5>1, q \in Procs, k \in Jobs, p \in Procs, j \in Jobs
      <4> QED
        BY <4>1, <4>3
    <3>2. CASE Goto(q, k, "complete") \/ Goto(q, k, "fail")
      BY <2>3, <3>2 DEF WorkerPC
    <3> QED
      BY <2>5, <3>1, <3>2 DEF LoadLogs
  <2>6. CASE Compress(q, k) \/ CommitNarrative(q, k)
    BY <2>3, <2>6 DEF Compress, CommitNarrative, WorkerPC
  <2>7. CASE Complete(q, k) \/ Fail(q, k) \/ MarkReviewRequired(q, k)
    BY <2>3, <2>7 DEF Complete, Fail, MarkReviewRequired, RecordOutcome
  <2> QED
    BY <1>4, <2>4, <2>5, <2>6, <2>7 DEF Run
<1>5. ASSUME NEW k \in Jobs, LeaseLapse(k) PROVE Goal
  BY <1>2, <1>5 DEF LeaseLapse
<1>6. CASE UNCHANGED vars
  BY <1>2, <1>6 DEF vars
<1> QED
  BY <1>3, <1>4, <1>5, <1>6 DEF Next

\* A lone production daemon never compresses a session twice, across any
\* number of crashes, restarts, lost answers and retries (AtMostOneNarrative).
THEOREM RetriesAreIdempotent ==
    ASSUME Consolidation, \A p, q \in Procs : p = q
    PROVE  Spec => []AtMostOneNarrative
<1>1. Init => SoleOwnerInv
  BY DEF Init, SoleOwnerInv, Idle, NoToken
<1>2. Inv /\ SoleOwnerInv /\ [Next]_vars => SoleOwnerInv'
  <2> SUFFICES ASSUME Inv, SoleOwnerInv, [Next]_vars PROVE SoleOwnerInv'
    OBVIOUS
  <2>1. ASSUME NEW j \in Jobs, NEW n \in t3'[j] PROVE n = t2'[j].link
    <3>1. t2[j].link = NoToken => t3[j] = {}
      BY DEF Inv, TierInv
    <3>2. \A p \in Procs : worker[p][j].pc = "loaded" => t3[j] = {}
      BY <3>1 DEF SoleOwnerInv
    <3> QED
      BY <2>1, <3>2, TierStep DEF SoleOwnerInv
  <2>2. ASSUME NEW p \in Procs, NEW j \in Jobs, worker'[p][j].pc = "loaded"
        PROVE  t2'[j].link = NoToken
    <3>1. worker[p][j].pc = "loaded" \/ (t2[j].link = NoToken /\ t2' = t2)
      BY <2>2, LoadedStep
    <3>2. \A q \in Procs : worker'[q][j].pc \notin {"complete", "fail"}
      BY <2>2
    <3>3. t2'[j].link = t2[j].link
      BY <3>2, TierStep
    <3> QED
      BY <3>1, <3>3 DEF SoleOwnerInv
  <2> QED
    BY <2>1, <2>2 DEF SoleOwnerInv
<1>3. SoleOwnerInv => AtMostOneNarrative
  BY DEF SoleOwnerInv, AtMostOneNarrative
<1> QED
  BY <1>1, <1>2, <1>3, Invariance, PTL DEF Spec

-----------------------------------------------------------------------------
(* Metabolism implements JobContract.                                       *)

\* A step touches the row and the tiers of at most one job.
LEMMA OneJob ==
    ASSUME TypeOK, [Next]_vars
    PROVE  \/ jobs' = jobs /\ t2' = t2
           \/ \E j \in Jobs : \A k \in Jobs :
                k # j => jobs'[k] = jobs[k] /\ t2'[k] = t2[k]
<1> DEFINE Goal == \/ jobs' = jobs /\ t2' = t2
                   \/ \E j \in Jobs : \A k \in Jobs :
                        k # j => jobs'[k] = jobs[k] /\ t2'[k] = t2[k]
<1>1. ASSUME NEW p \in Procs, Daemon(p) PROVE Goal
  <2>1. ASSUME NEW j \in Jobs, NEW kind \in LogKind, Submit(p, j, kind) PROVE Goal
    <3>1. \A k \in Jobs : k # j => jobs'[k] = jobs[k] /\ t2'[k] = t2[k]
      BY <2>1 DEF Submit, TypeOK
    <3> QED
      BY <3>1
  <2> QED
    BY <1>1, <2>1 DEF Daemon, Start, Dispatch, DispatchDone, Signal, BeginDrain,
        DrainDone, DrainTimeout, Crash, Stop, store
<1>2. ASSUME NEW p \in Procs, NEW j \in Jobs, Run(p, j) PROVE Goal
  <2>1. \A k \in Jobs : k # j => jobs'[k] = jobs[k]
    BY <1>2 DEF Run, Claim, ClaimApplied, LoadLogs, Compress, CommitNarrative,
        NarrativeApplied, Complete, Fail, MarkReviewRequired, RecordOutcome, store, TypeOK
  <2>2. \A k \in Jobs : k # j => t2'[k] = t2[k]
    BY <1>2 DEF Run, Claim, ClaimApplied, LoadLogs, Compress, CommitNarrative,
        NarrativeApplied, Complete, Fail, MarkReviewRequired, RecordOutcome, store, TypeOK
  <2> QED
    BY <2>1, <2>2
<1>3. ASSUME NEW j \in Jobs, LeaseLapse(j) PROVE Goal
  <2>1. \A k \in Jobs : k # j => jobs'[k] = jobs[k] /\ t2'[k] = t2[k]
    BY <1>3 DEF LeaseLapse, TypeOK
  <2> QED
    BY <2>1
<1>4. CASE UNCHANGED vars
  BY <1>4 DEF vars
<1> QED
  BY <1>1, <1>2, <1>3, <1>4 DEF Next

\* The contract's view of one row and of one session's logs.
PhaseOf(r) == CASE r.status = "absent" -> "absent"
                [] r.status = "completed" -> "completed"
                [] r.status = "review_required" -> "review"
                [] OTHER -> "open"
Empty(logs) == logs.kind = "none" \/ logs.link # NoToken

\* The refinement mapping before and after a step, job by job.
LEMMA Views ==
    /\ Phases = [k \in Jobs |-> PhaseOf(jobs[k])]
    /\ Phases' = [k \in Jobs |-> PhaseOf(jobs'[k])]
    /\ Attempts = [k \in Jobs |-> jobs[k].claims]
    /\ Attempts' = [k \in Jobs |-> jobs'[k].claims]
    /\ Covered = {k \in Jobs : Empty(t2[k])}
    /\ Covered' = {k \in Jobs : Empty(t2'[k])}
BY DEF Phases, PhaseOf, Attempts, Covered, Empty

\* Every step of a daemon, a goroutine or the clock is a step of the contract
\* or leaves its variables unchanged.
LEMMA ContractStep ==
    ASSUME Inv, Inv', [Next]_vars
    PROVE  [Contract!Next]_(Contract!contractVars)
<1> DEFINE Goal == [Contract!Next]_(Contract!contractVars)
<1>1. CASE jobs' = jobs /\ t2' = t2
  BY <1>1, Views DEF Contract!contractVars
<1>2. ASSUME NEW j \in Jobs,
             \A k \in Jobs : k # j => jobs'[k] = jobs[k] /\ t2'[k] = t2[k]
      PROVE  Goal
  <2>1. /\ jobs[j] \in Row /\ jobs'[j] \in Row
        /\ RowInv(j) /\ TierInv(j)
        /\ jobs[j].claims \in Nat /\ minted[j] \in Nat
    BY DEF Inv, TypeOK, Row
  <2>2. /\ PhaseOf(jobs'[j]) = PhaseOf(jobs[j]) => Phases' = Phases
        /\ jobs'[j].claims = jobs[j].claims => Attempts' = Attempts
        /\ (Empty(t2'[j]) <=> Empty(t2[j])) => Covered' = Covered
        /\ Phases' = [Phases EXCEPT ![j] = PhaseOf(jobs'[j])]
        /\ Attempts' = [Attempts EXCEPT ![j] = jobs'[j].claims]
        /\ Phases[j] = PhaseOf(jobs[j])
        /\ Attempts[j] = jobs[j].claims
        /\ j \in Covered <=> Empty(t2[j])
        /\ Covered' \in {Covered \cup {j}, Covered \ {j}}
    BY <1>2, Views
  <2>3. CASE jobs'[j] = jobs[j] /\ t2'[j] = t2[j]
    BY <2>2, <2>3 DEF Contract!contractVars
  <2>4. CASE jobs[j].status = "absent" /\ jobs'[j] = Committed
    <3>1. PhaseOf(jobs[j]) = "absent" /\ PhaseOf(jobs'[j]) = "open"
      BY <2>4 DEF PhaseOf, Committed, NoRow
    <3>2. jobs'[j].claims = jobs[j].claims
      BY <2>1, <2>4 DEF Committed, NoRow, RowInv
    <3>3. j \in Covered
      BY <2>1, <2>2, <2>4 DEF RowInv, Empty
    <3>4. Contract!Open(j)
      BY <2>2, <3>1, <3>2, <3>3 DEF Contract!Open
    <3> QED
      BY <3>4 DEF Contract!Next
  <2>5. ASSUME NEW p \in Procs,
               worker[p][j].pc = "loaded", t2[j].kind = "clean", jobs'[j] = jobs[j],
               t2'[j].link = worker[p][j].token
        PROVE  Goal
    <3>1. HolderInv(p, j) /\ worker[p][j].token \in Nat
      BY DEF Inv, TypeOK, Goroutine
    <3>2. Empty(t2'[j]) /\ jobs[j].claims > 0 /\ jobs[j].status # "absent"
      BY <2>1, <2>5, <3>1 DEF HolderInv, RowInv, Holding, Empty, NoToken
    <3>3. CASE Empty(t2[j])
      BY <2>2, <2>5, <3>2, <3>3 DEF Contract!contractVars
    <3>4. CASE ~Empty(t2[j])
      <4>1. PhaseOf(jobs[j]) = "open"
        BY <2>1, <2>5, <3>2, <3>4 DEF TierInv, Empty, PhaseOf
      <4>2. Covered' = Covered \cup {j}
        BY <3>2, Views, <2>2
      <4>3. Contract!Cover(j)
        BY <2>2, <2>5, <3>2, <3>4, <4>1, <4>2 DEF Contract!Cover
      <4> QED
        BY <4>3 DEF Contract!Next
    <3> QED
      BY <3>3, <3>4
  <2>6. CASE t2'[j] = t2[j] /\ Claimable(jobs[j]) /\ jobs'[j] = Claimed(jobs[j], minted[j] + 1)
    <3>1. /\ PhaseOf(jobs[j]) = "open" /\ PhaseOf(jobs'[j]) = "open"
          /\ jobs'[j].claims = jobs[j].claims + 1
          /\ jobs[j].claims < MaxClaimCount
      BY <2>6 DEF PhaseOf, Claimed, Claimable
    <3>2. Contract!Attempt(j)
      BY <2>2, <2>6, <3>1 DEF Contract!Attempt
    <3> QED
      BY <3>2 DEF Contract!Next
  <2>7. ASSUME t2'[j] = t2[j], jobs[j].status = "running",
               jobs'[j].status \in {"running", "failed"}, jobs'[j].claims = jobs[j].claims
        PROVE  Goal
    <3>1. PhaseOf(jobs[j]) = PhaseOf(jobs'[j])
      BY <2>7 DEF PhaseOf
    <3> QED
      BY <2>2, <2>7, <3>1 DEF Contract!contractVars
  <2>8. CASE /\ t2'[j] = t2[j]
             /\ jobs[j].status = "running"
             /\ \E p \in Procs :
                  \/ worker[p][j].pc = "complete" /\ jobs'[j] = Completed(jobs[j])
                  \/ worker[p][j].pc = "review" /\ jobs'[j] = ReviewRequired(jobs[j])
    <3>1. PICK p \in Procs :
                  \/ worker[p][j].pc = "complete" /\ jobs'[j] = Completed(jobs[j])
                  \/ worker[p][j].pc = "review" /\ jobs'[j] = ReviewRequired(jobs[j])
      BY <2>8
    <3>2. HolderInv(p, j)
      BY DEF Inv
    <3>3. PhaseOf(jobs[j]) = "open" /\ jobs[j].claims > 0
      <4>1. PhaseOf(jobs[j]) = "open"
        BY <2>8 DEF PhaseOf
      <4>2. jobs[j].retries \in Nat /\ jobs[j].retries < jobs[j].claims
        BY <2>1, <2>8 DEF RowInv, Row
      <4> QED
        BY <2>1, <4>1, <4>2
    <3>4. jobs'[j].claims = jobs[j].claims
      BY <2>1, <3>1 DEF Completed, ReviewRequired, Row
    <3>5. PhaseOf(jobs'[j]) = IF j \in Covered THEN "completed" ELSE "review"
      <4>1. CASE worker[p][j].pc = "complete" /\ jobs'[j] = Completed(jobs[j])
        <5>1. jobs'[j].status = "completed"
          BY <2>1, <4>1 DEF Completed, Row
        <5> QED
          BY <2>2, <3>2, <4>1, <5>1 DEF PhaseOf, HolderInv, Empty
      <4>2. CASE worker[p][j].pc = "review" /\ jobs'[j] = ReviewRequired(jobs[j])
        <5>1. jobs'[j].status = "review_required"
          BY <2>1, <4>2 DEF ReviewRequired, Row
        <5> QED
          BY <2>1, <2>2, <3>2, <4>2, <5>1 DEF PhaseOf, HolderInv, TierInv, Empty
      <4> QED
        BY <3>1, <4>1, <4>2
    <3>6. Contract!Settle(j)
      BY <2>2, <2>8, <3>3, <3>4, <3>5 DEF Contract!Settle
    <3> QED
      BY <3>6 DEF Contract!Next
  <2>9. /\ jobs'[j] = LeaseLapsed(jobs[j]) =>
              jobs'[j].status = jobs[j].status /\ jobs'[j].claims = jobs[j].claims
        /\ jobs'[j] = Failed(jobs[j]) =>
              jobs'[j].status = "failed" /\ jobs'[j].claims = jobs[j].claims
    BY <2>1 DEF LeaseLapsed, Failed, Row
  <2>10. t2'[j] = t2[j] \/ jobs[j].status = "absent" \/ jobs'[j] = jobs[j]
    BY TierStep
  <2>11. CASE t2'[j] = t2[j]
    BY <2>3, <2>4, <2>6, <2>7, <2>8, <2>9, <2>11, RowStep
  <2>12. CASE t2'[j] # t2[j] /\ jobs'[j] = jobs[j]
    BY <2>5, <2>12, TierStep
  <2>13. CASE jobs[j].status = "absent" /\ jobs'[j] # jobs[j]
    BY <2>4, <2>13, RowStep DEF Claimable
  <2> QED
    BY <2>10, <2>11, <2>12, <2>13
<1> QED
  BY <1>1, <1>2, OneJob DEF Inv

\* The detailed system, with its processes, leases, tokens and failures,
\* implements the contract (ImplementsContract).
THEOREM Refinement == Spec => ImplementsContract
<1>1. Init => Contract!Init
  <2> SUFFICES ASSUME Init PROVE Contract!Init
    OBVIOUS
  <2>1. Phases = [j \in Jobs |-> "absent"] /\ Attempts = [j \in Jobs |-> 0]
    BY Views DEF Init, NoRow, PhaseOf
  <2>2. Covered = Jobs
    BY Views DEF Init, Empty
  <2> QED
    BY <2>1, <2>2 DEF Contract!Init
<1>2. Inv /\ Inv' /\ [Next]_vars => [Contract!Next]_(Contract!contractVars)
  BY ContractStep
<1> QED
  BY <1>1, <1>2, Invariance, PTL DEF Spec, ImplementsContract, Contract!Spec
=============================================================================

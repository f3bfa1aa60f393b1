----------------------------- MODULE Metabolism -----------------------------
(***************************************************************************)
(* Post-session metabolism: daemon processes that share one database, each *)
(* with a Supervisor that dispatches a bounded number of JobRunner         *)
(* goroutines.  A runner claims the job of a session, loads the session's  *)
(* T2 logs, compresses them (an LLM call that may outlive the lease) and   *)
(* writes a T3 narrative with its T2 back-links, then records the outcome. *)
(*                                                                         *)
(* RunSession submits exactly one job per session, so a job stands for its *)
(* session.  All logs of a session are loaded and linked together, so one  *)
(* link per session stands for the back-links of its logs.  A narrative is *)
(* named by the claim that wrote it (a claim writes at most one).          *)
(***************************************************************************)
EXTENDS JobStore, FiniteSets

CONSTANTS Procs,           \* daemon processes that may run against the database
          Jobs,            \* one metabolism job per ended session
          Slots,           \* concurrency bound of a Supervisor (2 in the code)
          Consolidation,   \* TRUE: ConsolidationStore wired (production);
                           \* FALSE: the AtomicT2T3Link fallback
          MaxDisruptions   \* bound on crashes, signals, forced exits and store errors

ASSUME MetabolismAssumption ==
    /\ Slots \in Nat \ {0}
    /\ Consolidation \in BOOLEAN
    /\ MaxDisruptions \in Nat
    /\ IsFiniteSet(Jobs)

VARIABLES
    jobs,        \* metabolism_jobs
    t2,          \* experiential_logs of the session: what they hold, narrative_summary_id
    t3,          \* narrative_summaries of the session
    minted,      \* claim tokens handed out so far for the job (newID never repeats)
    worker,      \* the goroutine of a process running the job, if any
    mode,        \* where the daemon goroutine of a process is
    todo,        \* jobs the daemon goroutine has yet to hand to a goroutine
    cancelled,   \* the process's root context has been cancelled by a signal
    disruptions  \* failures injected so far

store == <<jobs, t2, t3, minted>>
procs == <<mode, todo, cancelled>>
vars  == <<jobs, t2, t3, minted, worker, mode, todo, cancelled, disruptions>>

\* none: nothing logged; clean: compressible; unscreened: external content
\* without an annotation while no Aegis gateway is wired.
LogKind == {"none", "clean", "unscreened"}
Logs    == [kind: LogKind, link: Nat]

\* Where a goroutine is in JobRunner.Run.  The last three have the pipeline's
\* result in hand and still have to record it.
WorkerPC  == {"idle", "queued", "claimed", "loaded", "complete", "fail", "review"}
Holding   == {"claimed", "loaded", "complete", "fail", "review"}
Goroutine == [pc: WorkerPC, token: Nat]
Idle      == [pc |-> "idle", token |-> NoToken]

Mode    == {"exited", "crashed", "recovering", "serving", "submitting", "draining"}
Offline == {"exited", "crashed"}

TypeOK ==
    /\ jobs \in [Jobs -> Row]
    /\ t2 \in [Jobs -> Logs]
    /\ t3 \in [Jobs -> SUBSET Nat]
    /\ minted \in [Jobs -> Nat]
    /\ worker \in [Procs -> [Jobs -> Goroutine]]
    /\ mode \in [Procs -> Mode]
    /\ todo \in [Procs -> SUBSET Jobs]
    /\ cancelled \in [Procs -> BOOLEAN]
    /\ disruptions \in Nat

Init ==
    /\ jobs = [j \in Jobs |-> NoRow]
    /\ t2 = [j \in Jobs |-> [kind |-> "none", link |-> NoToken]]
    /\ t3 = [j \in Jobs |-> {}]
    /\ minted = [j \in Jobs |-> 0]
    /\ worker = [p \in Procs |-> [j \in Jobs |-> Idle]]
    /\ mode = [p \in Procs |-> "exited"]
    /\ todo = [p \in Procs |-> {}]
    /\ cancelled = [p \in Procs |-> FALSE]
    /\ disruptions = 0

-----------------------------------------------------------------------------
(* How a call on the database may end.  Every call of a process carries its *)
(* root context, so after a signal none succeeds.                           *)

Disrupt == disruptions < MaxDisruptions /\ disruptions' = disruptions + 1

Succeeds(p) == ~cancelled[p] /\ UNCHANGED disruptions

Errors(p) == \/ cancelled[p] /\ UNCHANGED disruptions
             \/ ~cancelled[p] /\ Disrupt

\* Applied by the database, but the caller sees an error.
AnswerLost(p) == ~cancelled[p] /\ Disrupt

Active(p) == {j \in Jobs : worker[p][j].pc # "idle"}

SlotFree(p) == Cardinality(Active(p)) < Slots

Goto(p, j, pc) == worker' = [worker EXCEPT ![p][j] = [@ EXCEPT !.pc = pc]]

\* Mutant of Return: Run retries in its slot instead of giving it back.
ReturnRetries(p, j) == Goto(p, j, "queued")

Return(p, j) == worker' = [worker EXCEPT ![p][j] = Idle]

-----------------------------------------------------------------------------
(* JobRunner.Run, one goroutine per process and job.                        *)

ClaimApplied(j) ==
    /\ Claimable(jobs[j])
    /\ minted' = [minted EXCEPT ![j] = @ + 1]
    /\ jobs' = [jobs EXCEPT ![j] = Claimed(@, minted[j] + 1)]
    /\ UNCHANGED <<t2, t3>>

Claim(p, j) ==
    /\ worker[p][j].pc = "queued"
    /\ \/ Succeeds(p) /\ ClaimApplied(j)
          /\ worker' = [worker EXCEPT ![p][j] = [pc |-> "claimed", token |-> minted[j] + 1]]
       \/ AnswerLost(p) /\ ClaimApplied(j) /\ Return(p, j)
       \/ Succeeds(p) /\ ~Claimable(jobs[j]) /\ Return(p, j) /\ UNCHANGED store
       \/ Errors(p) /\ Return(p, j) /\ UNCHANGED store
    /\ UNCHANGED procs

\* Mutant of HasLogsToProcess: every log of the session, linked or not.
HasAnyLogs(j) == t2[j].kind # "none"

\* ConsolidationStore.UncoveredLogs skips linked logs; T2QueryStore.QueryLogs
\* returns every log of the session.
HasLogsToProcess(j) ==
    /\ t2[j].kind # "none"
    /\ Consolidation => t2[j].link = NoToken

\* Mutant of LoadLogs: an error while loading is taken for an empty session.
LoadLogsSwallowsError(p, j) ==
    /\ worker[p][j].pc = "claimed"
    /\ \/ Succeeds(p) /\ Goto(p, j, IF HasLogsToProcess(j) THEN "loaded" ELSE "complete")
       \/ Errors(p) /\ Goto(p, j, "complete")
    /\ UNCHANGED <<store, procs>>

LoadLogs(p, j) ==
    /\ worker[p][j].pc = "claimed"
    /\ \/ Succeeds(p) /\ Goto(p, j, IF HasLogsToProcess(j) THEN "loaded" ELSE "complete")
       \/ Errors(p) /\ Goto(p, j, "fail")
    /\ UNCHANGED <<store, procs>>

\* CompressSession refuses before it calls the LLM, or the LLM call fails.
Compress(p, j) ==
    /\ worker[p][j].pc = "loaded"
    /\ \/ t2[j].kind = "unscreened" /\ Goto(p, j, "review")
       \/ t2[j].kind = "clean" /\ Goto(p, j, "fail")
    /\ UNCHANGED <<store, procs, disruptions>>

\* Mutant of LinkAllowed: the fence of the fallback dropped.
LinkUnfenced(j, tok) == TRUE

\* AtomicT2T3Link compares the claim token inside its transaction;
\* CommitNarrative is not given one.
LinkAllowed(j, tok) == Consolidation \/ Holds(jobs[j], tok)

NarrativeApplied(p, j) ==
    /\ LinkAllowed(j, worker[p][j].token)
    /\ t3' = [t3 EXCEPT ![j] = @ \cup {worker[p][j].token}]
    /\ t2' = [t2 EXCEPT ![j] = [@ EXCEPT !.link = worker[p][j].token]]
    /\ UNCHANGED <<jobs, minted>>

CommitNarrative(p, j) ==
    /\ worker[p][j].pc = "loaded"
    /\ t2[j].kind = "clean"
    /\ \/ Succeeds(p) /\ NarrativeApplied(p, j) /\ Goto(p, j, "complete")
       \/ AnswerLost(p) /\ NarrativeApplied(p, j) /\ Goto(p, j, "fail")
       \/ /\ Succeeds(p)
          /\ ~LinkAllowed(j, worker[p][j].token)
          /\ Goto(p, j, "fail")
          /\ UNCHANGED store
       \/ Errors(p) /\ Goto(p, j, "fail") /\ UNCHANGED store
    /\ UNCHANGED procs

\* Run returns whatever the outcome; a fenced or failed statement is logged.
RecordOutcome(p, j, newRow) ==
    /\ \/ /\ Succeeds(p)
          /\ jobs' = [jobs EXCEPT ![j] = IF Holds(@, worker[p][j].token) THEN newRow ELSE @]
       \/ Errors(p) /\ UNCHANGED jobs
    /\ Return(p, j)
    /\ UNCHANGED <<t2, t3, minted, procs>>

Complete(p, j) ==
    /\ worker[p][j].pc = "complete"
    /\ RecordOutcome(p, j, Completed(jobs[j]))

Fail(p, j) ==
    /\ worker[p][j].pc = "fail"
    /\ RecordOutcome(p, j, Failed(jobs[j]))

MarkReviewRequired(p, j) ==
    /\ worker[p][j].pc = "review"
    /\ RecordOutcome(p, j, ReviewRequired(jobs[j]))

Run(p, j) ==
    \/ Claim(p, j)
    \/ LoadLogs(p, j)
    \/ Compress(p, j)
    \/ CommitNarrative(p, j)
    \/ Complete(p, j)
    \/ Fail(p, j)
    \/ MarkReviewRequired(p, j)

-----------------------------------------------------------------------------
(* The daemon goroutine of a process: Daemon.Run and its Supervisor.        *)

\* Startup: Supervisor.Recover scans first.  A failed scan is only logged.
Start(p) ==
    /\ mode[p] \in Offline
    /\ mode' = [mode EXCEPT ![p] = "recovering"]
    /\ cancelled' = [cancelled EXCEPT ![p] = FALSE]
    /\ \/ /\ todo' = [todo EXCEPT ![p] = {j \in Jobs : Recoverable(jobs[j])}]
          /\ UNCHANGED disruptions
       \/ Disrupt /\ todo' = [todo EXCEPT ![p] = {}]
    /\ UNCHANGED <<store, worker>>

\* The durable row is committed before a slot is awaited.  If its answer is
\* lost, the row waits for the next startup.
Submit(p, j, kind) ==
    /\ mode[p] = "serving"
    /\ jobs[j].status = "absent"
    /\ jobs' = [jobs EXCEPT ![j] = Committed]
    /\ t2' = [t2 EXCEPT ![j] = [@ EXCEPT !.kind = kind]]
    /\ \/ /\ Succeeds(p)
          /\ mode' = [mode EXCEPT ![p] = "submitting"]
          /\ todo' = [todo EXCEPT ![p] = {j}]
       \/ AnswerLost(p) /\ UNCHANGED <<mode, todo>>
    /\ UNCHANGED <<t3, minted, worker, cancelled>>

\* Acquire a slot and start the goroutine, for Submit and for Recover.
Dispatch(p, j) ==
    /\ mode[p] \in {"recovering", "submitting"}
    /\ j \in todo[p]
    /\ SlotFree(p)
    /\ worker' = [worker EXCEPT ![p][j] = [pc |-> "queued", token |-> NoToken]]
    /\ todo' = [todo EXCEPT ![p] = @ \ {j}]
    /\ UNCHANGED <<store, mode, cancelled, disruptions>>

DispatchDone(p) ==
    /\ mode[p] \in {"recovering", "submitting"}
    /\ todo[p] = {}
    /\ mode' = [mode EXCEPT ![p] = "serving"]
    /\ UNCHANGED <<store, worker, todo, cancelled, disruptions>>

\* SIGINT or SIGTERM cancels the root context.
Signal(p) ==
    /\ mode[p] \notin Offline
    /\ ~cancelled[p]
    /\ Disrupt
    /\ cancelled' = [cancelled EXCEPT ![p] = TRUE]
    /\ UNCHANGED <<store, worker, mode, todo>>

\* The loop saw the cancellation, the channels closed, or the one-shot
\* session returned.
BeginDrain(p) ==
    /\ mode[p] = "serving"
    /\ mode' = [mode EXCEPT ![p] = "draining"]
    /\ UNCHANGED <<store, worker, todo, cancelled, disruptions>>

Stop(p, how) ==
    /\ mode' = [mode EXCEPT ![p] = how]
    /\ worker' = [worker EXCEPT ![p] = [j \in Jobs |-> Idle]]
    /\ todo' = [todo EXCEPT ![p] = {}]
    /\ UNCHANGED <<store, cancelled>>

\* Drain returns when the WaitGroup is done, or when its timeout fires; the
\* process then exits and takes the remaining goroutines with it.
DrainDone(p) ==
    /\ mode[p] = "draining"
    /\ Active(p) = {}
    /\ Stop(p, "exited")
    /\ UNCHANGED disruptions

DrainTimeout(p) ==
    /\ mode[p] = "draining"
    /\ Active(p) # {}
    /\ Disrupt
    /\ Stop(p, "exited")

Crash(p) ==
    /\ mode[p] \notin Offline
    /\ Disrupt
    /\ Stop(p, "crashed")

\* Five minutes pass since started_at.
LeaseLapse(j) ==
    /\ jobs[j].status = "running"
    /\ jobs[j].lease = "fresh"
    /\ jobs' = [jobs EXCEPT ![j] = LeaseLapsed(@)]
    /\ UNCHANGED <<t2, t3, minted, worker, procs, disruptions>>

Daemon(p) ==
    \/ Start(p)
    \/ \E j \in Jobs, kind \in LogKind : Submit(p, j, kind)
    \/ \E j \in Jobs : Dispatch(p, j)
    \/ DispatchDone(p)
    \/ Signal(p)
    \/ BeginDrain(p)
    \/ DrainDone(p)
    \/ DrainTimeout(p)
    \/ Crash(p)

Next ==
    \/ \E p \in Procs : Daemon(p)
    \/ \E p \in Procs, j \in Jobs : Run(p, j)
    \/ \E j \in Jobs : LeaseLapse(j)

Spec == Init /\ [][Next]_vars

(* Goroutines are scheduled, calls return, time passes, and a service       *)
(* manager restarts a process that has stopped.  Nothing makes a process    *)
(* stop, a session end or a failure happen.                                 *)
Fairness ==
    /\ \A p \in Procs :
        /\ WF_vars(Start(p))
        /\ WF_vars(\E j \in Jobs : Dispatch(p, j))
        /\ WF_vars(DispatchDone(p))
        /\ WF_vars(cancelled[p] /\ BeginDrain(p))
        /\ WF_vars(DrainDone(p))
        /\ \A j \in Jobs : WF_vars(Run(p, j))
    /\ \A j \in Jobs : WF_vars(LeaseLapse(j))

FairSpec == Spec /\ Fairness

-----------------------------------------------------------------------------
(* Properties.                                                              *)

\* The lease bookkeeping of Claim and Fail: a job is claimed at most
\* MaxClaimCount times, and every recorded failure belongs to a claim of its
\* own, whatever crashes, fenced writes and lost answers lie between.
AttemptsBounded ==
    \A j \in Jobs : /\ jobs[j].claims <= MaxClaimCount
                    /\ jobs[j].retries <= jobs[j].claims

\* What Run's last step claims: a job is completed only when no log of its
\* session is left without a narrative.
CompletedIsCovered ==
    \A j \in Jobs : jobs[j].status = "completed" =>
        t2[j].kind = "none" \/ t2[j].link \in t3[j]

\* The compression gate (ErrReviewRequired): external content nobody screened
\* never reaches T3, and its job never reports plain completion.
UnscreenedNotPromoted ==
    \A j \in Jobs : t2[j].kind = "unscreened" =>
        t3[j] = {} /\ jobs[j].status # "completed"

\* Retries are idempotent: UncoveredLogs keeps a rerun after a crash or a lost
\* answer from compressing a session twice.
AtMostOneNarrative == \A j \in Jobs : \A m, n \in t3[j] : m = n

\* Complete, Fail and MarkReviewRequired do not look at the status; still no
\* goroutine ever moves a job out of a terminal status.
TerminalIsFinal ==
    [][\A j \in Jobs : jobs[j].status \in Terminal => jobs'[j] = jobs[j]]_vars

\* The fence in AtomicT2T3Link: a narrative is written only by the goroutine
\* whose claim is current, never by one that a successor has replaced.
StaleNeverWrites ==
    [][\A j \in Jobs : \A n \in t3'[j] \ t3[j] : n = jobs[j].token]_vars

\* Recover holds the daemon goroutine while it waits for slots; it always
\* gets through, so the daemon always comes to serve or stops.
RecoveryFinishes ==
    \A p \in Procs : mode[p] = "recovering" ~> mode[p] # "recovering"

Resolved(j) == jobs[j].status \in Terminal \/ ~Recoverable(jobs[j])

\* A submitted job is eventually settled or used up, provided the daemon keeps
\* being restarted: recovery runs only at startup.
EventuallyResolved ==
    (\A p \in Procs : []<>(mode[p] \in Offline)) =>
        \A j \in Jobs : [](jobs[j].status # "absent" => <>Resolved(j))

(* Metabolism implements JobContract.                                       *)
Phases == [j \in Jobs |-> CASE jobs[j].status = "absent" -> "absent"
                            [] jobs[j].status = "completed" -> "completed"
                            [] jobs[j].status = "review_required" -> "review"
                            [] OTHER -> "open"]
Attempts == [j \in Jobs |-> jobs[j].claims]
Covered  == {j \in Jobs : t2[j].kind = "none" \/ t2[j].link # NoToken}

Contract == INSTANCE JobContract WITH
    MaxAttempts <- MaxClaimCount, phase <- Phases, attempts <- Attempts, covered <- Covered

\* However many processes race, stall past their lease, crash or lose answers,
\* each job of the store goes through the one-attempt-at-a-time life of
\* JobContract: coverage precedes completion and nothing is settled twice.
ImplementsContract == Contract!Spec

=============================================================================

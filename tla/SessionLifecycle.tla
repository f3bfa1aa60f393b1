-------------------------- MODULE SessionLifecycle --------------------------
(***************************************************************************)
(* One daemon process over its crashes and restarts: the startup scan, the *)
(* event loop, and RunSession with every row it writes before, during and  *)
(* after the engine loop.  RunSession runs on the daemon goroutine; beside *)
(* it only the metabolism of earlier sessions makes progress.               *)
(*                                                                         *)
(* Queries of the form ORDER BY ... DESC LIMIT 1 are variables that hold   *)
(* the row they return (lastPlan, lastApplied, lastCheckpoint, lastJob):   *)
(* sessions follow one another, so the row written last is the newest one. *)
(* Sessions are numbered in the order in which NewSession creates them.    *)
(***************************************************************************)
EXTENDS Naturals

CONSTANTS Policies,        \* contents of a valid lifecycle.json
          LightPolicies,   \* those whose assembly_profile is light
          OtherFiles,      \* subset of {"missing", "invalid"}
          MaxSessions,     \* bound on sessions
          MaxTurns,        \* MaxIterations of the engine loop (25 in the code)
          Modes,           \* subset of {"oneshot", "events"}: without and with channels
          MaxDisruptions   \* bound on crashes, signals and failed calls

ASSUME LifecycleAssumption ==
    /\ LightPolicies \subseteq Policies
    /\ OtherFiles \subseteq {"missing", "invalid"}
    /\ Policies \cup OtherFiles # {}
    /\ \A p \in Policies : p \notin {"missing", "invalid", "default", "none"}
    /\ Modes \subseteq {"oneshot", "events"} /\ Modes # {}
    /\ MaxSessions \in Nat /\ MaxDisruptions \in Nat
    /\ MaxTurns \in Nat \ {0}

VARIABLES
    plans,           \* sessions with a lifecycle_plans row
    lastPlan,        \* the policy columns of the newest plan
    wakeFacts,       \* sessions with a wake_facts row
    disclosures,     \* sessions with a configuration_applied row
    lastApplied,     \* the policy_hash of the newest of them
    manifests,       \* sessions with an assembly_manifests row
    checkpoint,      \* session_checkpoints: the state of a session's row
    lastCheckpoint,  \* the session whose row was written last
    t2,              \* experiential_logs: the entries of a session, counted by turn
    job,             \* metabolism_jobs: the status of a session's row
    lastJob,         \* the session whose row was inserted last
    pc,              \* where the daemon goroutine is
    mode,            \* "oneshot" when no channel runs, else "events"
    note,            \* whether the startup scan left a note for the first event
    cancelled,       \* whether a signal has cancelled the root context
    wake,            \* local variables of RunSession
    sessions,        \* how many sessions NewSession has created
    told,            \* history: what the system prompt of a session said
    ended,           \* history: sessions for which End has returned
    crashed,         \* history: sessions that died with the process
    disruptions

records  == <<plans, lastPlan, wakeFacts, disclosures, lastApplied, manifests>>
outcome  == <<checkpoint, lastCheckpoint, t2, job, lastJob>>
process  == <<pc, mode, note, cancelled, wake>>
history  == <<told, ended, crashed>>
vars     == <<records, outcome, process, history, sessions, disruptions>>

Sessions  == 1 .. MaxSessions
NoSession == 0
Files     == Policies \cup OtherFiles
Hashes    == Policies \cup {"none"}
YesNo     == {"yes", "no"}

\* temporal_mode, bridge_policy and metabolism_policy in one value, and the
\* assembly profile, which the resolver may replace.
Policy        == [base: Policies \cup {"default"}, assembly: {"full", "light"}]
DefaultPolicy == [base |-> "default", assembly |-> "full"]
NoPlan        == [base |-> "none", assembly |-> "full"]
PolicyOf(p)   == [base |-> p, assembly |-> IF p \in LightPolicies THEN "light" ELSE "full"]

CheckpointState == {"none", "active", "completed", "interrupted"}
JobStatus       == {"none", "pending", "running", "completed", "failed", "review_required"}
MetabolismStatus == {"", "not_required", "queued", "running", "complete",
                     "failed_retryable", "failed_terminal"}

\* hash is "" in the code when it is "none" here; checked: HasChanged answered;
\* change: a disclosure note was generated; prior: PriorRuntimeStatus; meta:
\* PriorMetabolismStatus; judged: the session whose job gave it.
Wake == [session: Sessions \cup {NoSession}, policy: Policy, plan: Policy,
         source: {"valid", "missing", "invalid"}, hash: Hashes, checked: YesNo, change: YesNo,
         prior: {"", "ended", "interrupted"}, meta: MetabolismStatus,
         judged: Sessions \cup {NoSession},
         noted: YesNo, inbound: YesNo, turns: 0 .. MaxTurns]
NoWake == [session |-> NoSession, policy |-> DefaultPolicy, plan |-> DefaultPolicy,
           source |-> "missing", hash |-> "none", checked |-> "no", change |-> "no",
           prior |-> "", meta |-> "", judged |-> NoSession,
           noted |-> "no", inbound |-> "no", turns |-> 0]

\* What the wake of a session rested on, and which notes reached its prompt.
Told == [lived: YesNo, policy: Policy, source: {"valid", "missing", "invalid"}, hash: Hashes,
         checked: YesNo, prior: {"", "ended", "interrupted"},
         judged: Sessions \cup {NoSession},
         note: YesNo, change: YesNo, continuity: YesNo, meta: YesNo]
NotTold == [lived |-> "no", policy |-> DefaultPolicy, source |-> "missing", hash |-> "none",
            checked |-> "no", prior |-> "", judged |-> NoSession,
            note |-> "no", change |-> "no", continuity |-> "no", meta |-> "no"]

\* RunSession, named by the next thing it does.
InSession == {"resolve", "plan", "facts", "disclose", "assemble", "manifest", "inbound", "loop",
              "active", "end", "completed", "submit"}
PC        == InSession \cup {"down", "serving"}

TypeOK ==
    /\ plans \subseteq Sessions /\ wakeFacts \subseteq Sessions
    /\ disclosures \subseteq Sessions /\ manifests \subseteq Sessions
    /\ lastPlan \in Policy \cup {NoPlan}
    /\ lastApplied \in Hashes
    /\ checkpoint \in [Sessions -> CheckpointState]
    /\ lastCheckpoint \in Sessions \cup {NoSession}
    /\ t2 \in [Sessions -> 0 .. MaxTurns + 1]
    /\ job \in [Sessions -> JobStatus]
    /\ lastJob \in Sessions \cup {NoSession}
    /\ pc \in PC
    /\ mode \in {"oneshot", "events"} /\ note \in YesNo /\ cancelled \in YesNo
    /\ wake \in Wake
    /\ sessions \in 0 .. MaxSessions
    /\ told \in [Sessions -> Told]
    /\ ended \subseteq Sessions /\ crashed \subseteq Sessions
    /\ disruptions \in 0 .. MaxDisruptions

Init ==
    /\ plans = {} /\ lastPlan = NoPlan /\ wakeFacts = {}
    /\ disclosures = {} /\ lastApplied = "none" /\ manifests = {}
    /\ checkpoint = [s \in Sessions |-> "none"] /\ lastCheckpoint = NoSession
    /\ t2 = [s \in Sessions |-> 0]
    /\ job = [s \in Sessions |-> "none"] /\ lastJob = NoSession
    /\ pc = "down" /\ mode = "events" /\ note = "no" /\ cancelled = "no" /\ wake = NoWake
    /\ sessions = 0
    /\ told = [s \in Sessions |-> NotTold]
    /\ ended = {} /\ crashed = {}
    /\ disruptions = 0

-----------------------------------------------------------------------------
(***************************************************************************)
(* Calls on the database and the model, all made with the root context.    *)
(***************************************************************************)

Disrupt == disruptions < MaxDisruptions /\ disruptions' = disruptions + 1

Succeeds == cancelled = "no" /\ UNCHANGED disruptions

\* The call returns an error and did nothing.
Refused == \/ cancelled = "yes" /\ UNCHANGED disruptions
           \/ cancelled = "no" /\ Disrupt

\* The call returns an error although the database has done what it asked.
AnswerLost == cancelled = "no" /\ Disrupt

\* RunSession goes on with what comes next, or returns to its caller: a
\* one-shot daemon stops then, the other one waits for an event.
GoOn(next) == pc' = next /\ UNCHANGED wake
Returns    == pc' = (IF mode = "oneshot" THEN "down" ELSE "serving") /\ wake' = NoWake

\* An insert that RunSession does not survive: on any error it returns
\* before the engine loop, whether or not the row was written.
FailClosed(insert, skip, next) ==
    \/ Succeeds /\ insert /\ GoOn(next)
    \/ AnswerLost /\ insert /\ Returns
    \/ Refused /\ skip /\ Returns

\* A write whose error is only logged.
WarnOnly(write, skip) ==
    \/ Succeeds /\ write
    \/ AnswerLost /\ write
    \/ Refused /\ skip

-----------------------------------------------------------------------------
(***************************************************************************)
(* The daemon                                                              *)
(***************************************************************************)

\* Mutant: the scan does not look at the state of a row.
StaleAny(cutoff) == {s \in 1 .. cutoff : checkpoint[s] # "none"}

\* UPDATE ... WHERE state = 'active' AND created_at < cutoff.  Rows are
\* written in the order of their sessions, so a cutoff is a session number.
StaleActive(cutoff) == {s \in 1 .. cutoff : checkpoint[s] = "active"}
InterruptStaleCheckpoints(rows) ==
    checkpoint' = [s \in Sessions |-> IF s \in rows THEN "interrupted" ELSE checkpoint[s]]

\* The scan leaves a note if it is told that it changed rows.
scanInterruptedSessions(n) ==
    \/ /\ \E cutoff \in 0 .. MaxSessions :
            /\ InterruptStaleCheckpoints(StaleActive(cutoff))
            /\ n = IF StaleActive(cutoff) = {} THEN "no" ELSE "yes"
       /\ UNCHANGED disruptions
    \/ /\ n = "no" /\ Disrupt
       /\ \/ UNCHANGED checkpoint
          \/ \E cutoff \in 0 .. MaxSessions : InterruptStaleCheckpoints(StaleActive(cutoff))

\* Startup up to the first wait for an event, or the only RunSession.
Boot ==
    /\ pc = "down"
    /\ \E n \in YesNo, m \in Modes :
         /\ scanInterruptedSessions(n)
         /\ mode' = m
         /\ \/ m = "events" /\ note' = n /\ pc' = "serving" /\ UNCHANGED wake
            \/ m = "oneshot" /\ note' = "no" /\ pc' = "resolve"
               /\ sessions < MaxSessions
               /\ wake' = [NoWake EXCEPT !.noted = n]
    /\ cancelled' = "no"
    /\ UNCHANGED <<records, lastCheckpoint, t2, job, lastJob, history, sessions>>

\* The first event takes the note, whether or not Aegis and ShouldWake let
\* it wake the agent.
DeclineEvent ==
    /\ pc = "serving"
    /\ note' = "no"
    /\ UNCHANGED <<records, outcome, pc, mode, cancelled, wake, history, sessions, disruptions>>

WakeEvent ==
    /\ pc = "serving" /\ sessions < MaxSessions
    /\ note' = "no" /\ pc' = "resolve"
    /\ wake' = [NoWake EXCEPT !.noted = note, !.inbound = "yes"]
    /\ UNCHANGED <<records, outcome, mode, cancelled, history, sessions, disruptions>>

\* Mutant: the drain has no timeout.
ShutdownAwaitsJobs ==
    /\ pc = "serving" /\ cancelled = "yes"
    /\ \A s \in Sessions : job[s] # "running"
    /\ pc' = "down"
    /\ UNCHANGED <<records, outcome, mode, note, cancelled, wake, history, sessions, disruptions>>

\* The context is done: the supervisor is drained and Run returns.
Shutdown ==
    /\ pc = "serving" /\ cancelled = "yes"
    /\ pc' = "down"
    /\ UNCHANGED <<records, outcome, mode, note, cancelled, wake, history, sessions, disruptions>>

-----------------------------------------------------------------------------
(***************************************************************************)
(* RunSession                                                              *)
(***************************************************************************)

\* The policy columns of the newest plan, or the built-in policy when there
\* is none or the query fails.
queryLastPolicy(failing) ==
    IF lastPlan = NoPlan \/ "policy" \in failing THEN DefaultPolicy ELSE lastPlan

\* What Read makes of lifecycle.json; failing is the set of queries of this
\* step that return an error.
ReadPolicy(file, failing) ==
    CASE file \in Policies -> [policy |-> PolicyOf(file), source |-> "valid", hash |-> file]
      [] file = "missing"  -> [policy |-> DefaultPolicy, source |-> "missing", hash |-> "none"]
      [] file = "invalid"  -> [policy |-> queryLastPolicy(failing), source |-> "invalid",
                               hash |-> "none"]

\* HasChanged compares with the newest configuration_applied row; it is not
\* asked about a file without a hash.
Checked(hash, failing) == IF hash # "none" /\ "applied" \notin failing THEN "yes" ELSE "no"
HasChangedSincePlan(hash, failing) ==  \* mutant: compares with the newest plan
    IF Checked(hash, failing) = "yes" /\ hash # lastPlan.base THEN "yes" ELSE "no"
HasChangedOnce(hash, failing) ==       \* mutant: sees the first policy only
    IF Checked(hash, failing) = "yes" /\ lastApplied = "none" THEN "yes" ELSE "no"
HasChanged(hash, failing) ==
    IF Checked(hash, failing) = "yes" /\ hash # lastApplied THEN "yes" ELSE "no"

\* The newest job's status, in the resolver's vocabulary.
jobStatusToMetabolism(status) ==
    CASE status = "pending"         -> "queued"
      [] status = "running"         -> "running"
      [] status = "completed"       -> "complete"
      [] status = "failed"          -> "failed_retryable"
      [] status = "review_required" -> "failed_terminal"
      [] OTHER                      -> "not_required"
JudgedJob(failing)    == IF "jobs" \in failing THEN NoSession ELSE lastJob
PriorMetabolism(judged) == IF judged = NoSession THEN "" ELSE jobStatusToMetabolism(job[judged])

PriorRuntime(failing) ==
    IF "checkpoint" \in failing \/ lastCheckpoint = NoSession THEN ""
    ELSE IF checkpoint[lastCheckpoint] \in {"active", "interrupted"} THEN "interrupted"
    ELSE "ended"

\* A short gap makes the assembly light; how long ago the newest wake was is
\* not modelled.  An interrupted prior session makes it full again.
resolveAssemblyProfile(policy, prior, failing) ==
    IF prior = "interrupted" THEN {"full"}
    ELSE {policy.assembly} \cup {a \in {"light"} : "gap" \notin failing /\ wakeFacts # {}}

Queries == {"policy", "applied", "gap", "jobs", "checkpoint"}
Answers(failing) ==
    \/ cancelled = "yes" /\ failing = Queries /\ UNCHANGED disruptions
    \/ cancelled = "no" /\ failing = {} /\ UNCHANGED disruptions
    \/ cancelled = "no" /\ failing # {} /\ Disrupt

\* Everything up to NewSession: reads only.  The file may have been edited,
\* removed or damaged since it was read last; nothing else looks at it.
Resolve ==
    /\ pc = "resolve"
    /\ sessions' = sessions + 1
    /\ \E file \in Files, failing \in SUBSET Queries :
         /\ Answers(failing)
         /\ LET read  == ReadPolicy(file, failing)
                prior == PriorRuntime(failing)
            IN \E a \in resolveAssemblyProfile(read.policy, prior, failing) :
                 wake' = [session |-> sessions + 1,
                          policy  |-> read.policy,
                          plan    |-> [base |-> read.policy.base, assembly |-> a],
                          source  |-> read.source,
                          hash    |-> read.hash,
                          checked |-> Checked(read.hash, failing),
                          change  |-> HasChanged(read.hash, failing),
                          prior   |-> prior,
                          meta    |-> PriorMetabolism(JudgedJob(failing)),
                          judged  |-> JudgedJob(failing),
                          noted   |-> wake.noted,
                          inbound |-> wake.inbound,
                          turns   |-> 0]
    /\ pc' = "plan"
    /\ UNCHANGED <<records, outcome, mode, note, cancelled, history>>

RecordPlan ==
    /\ pc = "plan"
    /\ FailClosed(plans' = plans \cup {wake.session} /\ lastPlan' = wake.plan,
                  UNCHANGED <<plans, lastPlan>>, "facts")
    /\ UNCHANGED <<wakeFacts, disclosures, lastApplied, manifests, outcome,
                   mode, note, cancelled, history, sessions>>

\* The row hangs on the session's plan row.
RecordWakeFacts ==
    /\ pc = "facts"
    /\ FailClosed(wake.session \in plans /\ wakeFacts' = wakeFacts \cup {wake.session},
                  UNCHANGED wakeFacts, "disclose")
    /\ UNCHANGED <<plans, lastPlan, disclosures, lastApplied, manifests, outcome,
                   mode, note, cancelled, history, sessions>>

RecordDisclosure ==
    /\ pc = "disclose"
    /\ \/ /\ wake.change = "yes"
          /\ FailClosed(disclosures' = disclosures \cup {wake.session} /\ lastApplied' = wake.hash,
                        UNCHANGED <<disclosures, lastApplied>>, "assemble")
       \/ /\ wake.change = "no"
          /\ GoOn("assemble")
          /\ UNCHANGED <<disclosures, lastApplied, disruptions>>
    /\ UNCHANGED <<plans, lastPlan, wakeFacts, manifests, outcome,
                   mode, note, cancelled, history, sessions>>

\* The identity phase is fatal.  The continuity phase carries the metabolism
\* note and is dropped when the narrative search fails; the incoming phase
\* carries the startup note and the policy disclosure and always runs.
MetabolismNoteOnFailure(status) ==  \* mutant: pending work is not mentioned
    IF status \in {"failed_retryable", "failed_terminal"} THEN "yes" ELSE "no"
MetabolismNote(status) ==
    IF status \in {"queued", "running", "failed_retryable", "failed_terminal"} THEN "yes" ELSE "no"
Assemble ==
    /\ pc = "assemble"
    /\ \/ Refused /\ Returns /\ UNCHANGED told
       \/ /\ \E continuity \in YesNo :
               /\ IF continuity = "yes" THEN Succeeds ELSE Refused
               /\ told' = [told EXCEPT ![wake.session] =
                             [lived |-> "no", policy |-> wake.policy, source |-> wake.source,
                              hash |-> wake.hash, checked |-> wake.checked,
                              prior |-> wake.prior, judged |-> wake.judged,
                              note |-> wake.noted, change |-> wake.change,
                              continuity |-> continuity,
                              meta |-> IF continuity = "yes" THEN MetabolismNote(wake.meta)
                                       ELSE "no"]]
          /\ GoOn("manifest")
    /\ UNCHANGED <<records, outcome, mode, note, cancelled, ended, crashed, sessions>>

\* Mutant: the error of the insert is only logged.
RecordManifestFailOpen ==
    /\ pc = "manifest"
    /\ WarnOnly(manifests' = manifests \cup {wake.session}, UNCHANGED manifests)
    /\ GoOn("inbound")
    /\ UNCHANGED <<plans, lastPlan, wakeFacts, disclosures, lastApplied, outcome,
                   mode, note, cancelled, history, sessions>>

RecordManifest ==
    /\ pc = "manifest"
    /\ FailClosed(manifests' = manifests \cup {wake.session}, UNCHANGED manifests, "inbound")
    /\ UNCHANGED <<plans, lastPlan, wakeFacts, disclosures, lastApplied, outcome,
                   mode, note, cancelled, history, sessions>>

\* The triggering event is archived, and the agent starts to live.
AppendInbound ==
    /\ pc = "inbound"
    /\ \/ /\ wake.inbound = "yes"
          /\ WarnOnly(t2' = [t2 EXCEPT ![wake.session] = 1], UNCHANGED t2)
       \/ wake.inbound = "no" /\ UNCHANGED <<t2, disruptions>>
    /\ told' = [told EXCEPT ![wake.session].lived = "yes"]
    /\ GoOn("loop")
    /\ UNCHANGED <<records, checkpoint, lastCheckpoint, job, lastJob,
                   mode, note, cancelled, ended, crashed, sessions>>

\* T2LoggerHook archives a turn, unless it has no content or was truncated.
LogTurn(n) == t2' = [t2 EXCEPT ![wake.session] = @ + n]

\* Mutant: a truncated turn starts the count of iterations again.
TurnUncounted ==
    /\ pc = "loop" /\ wake.turns < MaxTurns
    /\ Succeeds
    /\ \/ /\ \E n \in {0, 1} : LogTurn(n)
          /\ wake' = [wake EXCEPT !.turns = @ + 1]
          /\ pc' \in {"active"} \cup {l \in {"loop"} : wake.turns + 1 < MaxTurns}
       \/ wake' = [wake EXCEPT !.turns = 0] /\ UNCHANGED <<t2, pc>>
    /\ UNCHANGED <<records, checkpoint, lastCheckpoint, job, lastJob,
                   mode, note, cancelled, history, sessions>>

\* One iteration of RunLoop.  It was the last one if the model made no tool
\* call, a tool or the budget stopped the loop, or iterations ran out.
Turn ==
    /\ pc = "loop" /\ wake.turns < MaxTurns
    /\ Succeeds
    /\ \E n \in {0, 1} : LogTurn(n)
    /\ wake' = [wake EXCEPT !.turns = @ + 1]
    /\ pc' \in {"active"} \cup {l \in {"loop"} : wake.turns + 1 < MaxTurns}
    /\ UNCHANGED <<records, checkpoint, lastCheckpoint, job, lastJob,
                   mode, note, cancelled, history, sessions>>

\* The model or the critical hook fails; the hook may have archived a part.
TurnFails ==
    /\ pc = "loop" /\ wake.turns < MaxTurns
    /\ \/ Refused /\ UNCHANGED t2
       \/ AnswerLost /\ LogTurn(1)
    /\ Returns
    /\ UNCHANGED <<records, checkpoint, lastCheckpoint, job, lastJob,
                   mode, note, cancelled, history, sessions>>

WriteCheckpoint(state) ==
    WarnOnly(checkpoint' = [checkpoint EXCEPT ![wake.session] = state]
                 /\ lastCheckpoint' = wake.session,
             UNCHANGED <<checkpoint, lastCheckpoint>>)

\* Mutant: one checkpoint, that says completed, before the session has ended.
WriteCompletedEarly ==
    /\ pc = "active"
    /\ WriteCheckpoint("completed")
    /\ GoOn("end")
    /\ UNCHANGED <<records, t2, job, lastJob, mode, note, cancelled, history, sessions>>

WriteActive ==
    /\ pc = "active"
    /\ WriteCheckpoint("active")
    /\ GoOn("end")
    /\ UNCHANGED <<records, t2, job, lastJob, mode, note, cancelled, history, sessions>>

End ==
    /\ pc = "end"
    /\ ended' = ended \cup {wake.session}
    /\ GoOn("completed")
    /\ UNCHANGED <<records, outcome, mode, note, cancelled, told, crashed, sessions, disruptions>>

WriteCompleted ==
    /\ pc = "completed"
    /\ WriteCheckpoint("completed")
    /\ GoOn("submit")
    /\ UNCHANGED <<records, t2, job, lastJob, mode, note, cancelled, history, sessions>>

\* The job row.  What the supervisor does with it, the wait for a slot before
\* Submit returns included, is in the module Metabolism.
Submit ==
    /\ pc = "submit"
    /\ WarnOnly(job' = [job EXCEPT ![wake.session] = "pending"] /\ lastJob' = wake.session,
                UNCHANGED <<job, lastJob>>)
    /\ Returns
    /\ UNCHANGED <<records, checkpoint, lastCheckpoint, t2,
                   mode, note, cancelled, history, sessions>>

-----------------------------------------------------------------------------
(***************************************************************************)
(* Beside the daemon goroutine                                             *)
(***************************************************************************)

\* A row of metabolism_jobs as the workers move it (module Metabolism).
NextStatus(status) ==
    CASE status = "pending" -> {"running"}
      [] status = "running" -> {"completed", "failed", "review_required"}
      [] status = "failed"  -> {"running"}
      [] OTHER              -> {}
Metabolise ==
    /\ pc # "down"
    /\ \E s \in Sessions : \E next \in NextStatus(job[s]) : job' = [job EXCEPT ![s] = next]
    /\ UNCHANGED <<records, checkpoint, lastCheckpoint, t2, lastJob, process, history, sessions, disruptions>>

Signal ==
    /\ pc # "down" /\ cancelled = "no"
    /\ cancelled' = "yes" /\ Disrupt
    /\ UNCHANGED <<records, outcome, pc, mode, note, wake, history, sessions>>

Crash ==
    /\ pc # "down"
    /\ pc' = "down" /\ wake' = NoWake /\ Disrupt
    /\ crashed' = crashed \cup ({wake.session} \cap Sessions)
    /\ UNCHANGED <<records, outcome, mode, note, cancelled, told, ended, sessions>>

-----------------------------------------------------------------------------
RunSession ==
    \/ Resolve \/ RecordPlan \/ RecordWakeFacts \/ RecordDisclosure
    \/ Assemble \/ RecordManifest \/ AppendInbound \/ Turn \/ TurnFails
    \/ WriteActive \/ End \/ WriteCompleted \/ Submit

Next ==
    \/ Boot \/ DeclineEvent \/ WakeEvent \/ Shutdown
    \/ RunSession
    \/ Metabolise \/ Signal \/ Crash

Spec == Init /\ [][Next]_vars

\* The daemon goroutine is scheduled, every call it makes returns (the HTTP
\* client has a timeout, MaxIterations bounds the loop), and select does not
\* pass over a closed Done channel for ever.
FairSpec == Spec /\ WF_vars(RunSession) /\ SF_vars(Shutdown)

-----------------------------------------------------------------------------
(***************************************************************************)
(* Properties                                                              *)
(***************************************************************************)

Lived(s) == told[s].lived = "yes"

\* No experience without its records: a session whose agent has lived - and
\* with it everything in T2 and every metabolism job - has its plan, its wake
\* facts and its assembly manifest, and a configuration_applied row if its
\* prompt announced a policy change ("fail-closed" in RunSession), whatever
\* calls failed and wherever the process died.
NoUnrecordedWake ==
    \A s \in Sessions :
        (Lived(s) \/ t2[s] > 0 \/ job[s] # "none") =>
            /\ Lived(s)
            /\ s \in plans \cap wakeFacts \cap manifests
            /\ told[s].change = "yes" => s \in disclosures

\* If two sessions lived under different policy files, and HasChanged answered
\* in both, then a configuration_applied row was written between them: a
\* crash or a failed call may cost the agent the note in its prompt, never
\* the record of the change.
ChangeLeavesRecord ==
    \A s, t \in Sessions :
        /\ s < t /\ Lived(s) /\ Lived(t)
        /\ told[s].checked = "yes" /\ told[t].checked = "yes"
        /\ told[s].hash # told[t].hash
        => \E d \in disclosures : s < d /\ d <= t

\* A session whose prompt was assembled with the continuity phase and without
\* a metabolism note, after the status of the newest job had been read, woke
\* after that job had completed: the status may move while the prompt is
\* assembled, never so that silence becomes wrong.
SilenceMeansCovered ==
    \A s \in Sessions :
        /\ Lived(s) /\ told[s].continuity = "yes" /\ told[s].meta = "no"
        /\ told[s].judged # NoSession
        => job[told[s].judged] = "completed"

\* A job row promises that T2 is complete: once it exists the session logs
\* nothing more, so no compression misses a later turn.
LogsBeforeJob == [][\A s \in Sessions : job[s] # "none" => t2'[s] = t2[s]]_vars

\* A session recorded as completed or interrupted stays so: the startup scan
\* takes only active rows, and no checkpoint is written twice after it.
CheckpointIsFinal ==
    [][\A s \in Sessions : checkpoint[s] \in {"completed", "interrupted"} =>
            checkpoint'[s] = checkpoint[s]]_vars

\* RunSession returns: whatever fails, the loop is bounded and every error
\* path ends in a return.  (That the supervisor's slots come free again, for
\* which Submit waits, is RecoveryFinishes of the module Metabolism.)
SessionReturns == (pc \in InSession) ~> (pc \in {"serving", "down"})

\* A signal stops the daemon, from inside a session or from the select.
SignalStops == (cancelled = "yes") ~> (pc = "down")

\* "Changes since the prior wake generate a visible disclosure": as long as no
\* call has failed and no session found the file missing, every change of
\* policy between two successive lives is announced in the prompt.
Successive(s, t) == s < t /\ Lived(s) /\ Lived(t) /\ \A u \in Sessions : s < u /\ u < t => ~Lived(u)
DisclosedUnlessFailed ==
    disruptions = 0 /\ (\A s \in Sessions : Lived(s) => told[s].source # "missing") =>
        \A s, t \in Sessions :
            Successive(s, t) /\ told[s].policy.base # told[t].policy.base => told[t].change = "yes"

\* What the records say of a session's end is what happened to it: it is
\* recorded as completed, or handed to metabolism, only once it has ended, and
\* called interrupted only if the process died in it or the record of its end
\* was lost; the agent is told of an interruption, and the resolver finds one,
\* only where an earlier session has such a record.
EndingsAreTrue ==
    \A s \in Sessions :
        /\ checkpoint[s] = "completed" \/ job[s] # "none" => s \in ended
        /\ checkpoint[s] = "interrupted" => s \in crashed \cup ended
        /\ Lived(s) /\ told[s].note = "yes" =>
               \E u \in 1 .. s - 1 : checkpoint[u] = "interrupted"
        /\ Lived(s) /\ told[s].prior = "interrupted" =>
               \E u \in 1 .. s - 1 : checkpoint[u] \in {"active", "interrupted"}

=============================================================================

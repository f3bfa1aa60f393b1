----------------------- MODULE SessionLifecycleProofs -----------------------
(***************************************************************************)
(* Theorems about SessionLifecycle for every set of policies, every number *)
(* of sessions and turns and any number of disruptions.                    *)
(***************************************************************************)
EXTENDS SessionLifecycle, TLAPS

(* The inductive invariant.                                                 *)

\* RunSession before and after the agent starts to live.
Waking  == {"plan", "facts", "disclose", "assemble", "manifest", "inbound"}
Living  == {"loop", "active", "end", "completed", "submit"}

\* The session in hand is the newest one, and t2 stays within its turns.
PlaceInv ==
    /\ pc = "resolve" => sessions < MaxSessions
    /\ pc \in Waking \cup Living => wake.session = sessions /\ wake.session \in Sessions
    /\ pc \in {"down", "serving", "resolve"} => wake.session = NoSession
    /\ pc = "loop" => t2[wake.session] <= wake.turns + 1

\* Sessions that NewSession has not created have left no trace.
FreshInv ==
    \A s \in Sessions : s > sessions =>
        /\ s \notin disclosures /\ checkpoint[s] = "none"
        /\ t2[s] = 0 /\ job[s] = "none" /\ ~Lived(s)

\* What the session in hand has left so far.
ProgressInv ==
    /\ pc \in Waking =>
        t2[wake.session] = 0 /\ job[wake.session] = "none" /\ ~Lived(wake.session)
    /\ pc \in Living => Lived(wake.session) /\ job[wake.session] = "none"
    /\ pc \in Waking \cup {"loop", "active"} => checkpoint[wake.session] = "none"
    /\ pc \in {"end", "completed"} => checkpoint[wake.session] \in {"none", "active"}

\* The records that exist before the agent lives.
RecordInv ==
    /\ pc \in Waking \ {"plan"} => wake.session \in plans
    /\ pc \in Waking \ {"plan", "facts"} => wake.session \in wakeFacts
    /\ pc \in {"assemble", "manifest", "inbound"} /\ wake.change = "yes" =>
        wake.session \in disclosures
    /\ pc \in {"manifest", "inbound"} =>
        told[wake.session].change = wake.change
    /\ pc = "inbound" => wake.session \in manifests

\* The policy of the session in hand and the newest configuration_applied row.
PolicyInv ==
    /\ pc \in Waking /\ wake.checked = "yes" /\ wake.change = "no" => wake.hash = lastApplied
    /\ pc \in {"assemble", "manifest", "inbound"} /\ wake.checked = "yes" =>
        wake.hash = lastApplied
    /\ pc \in {"manifest", "inbound"} =>
        /\ told[wake.session].checked = wake.checked
        /\ told[wake.session].hash = wake.hash
    /\ \A s \in Sessions :
        Lived(s) /\ told[s].checked = "yes" /\ told[s].hash # lastApplied =>
            \E d \in disclosures : s < d

\* The job that the session in hand has judged.
JudgedInv ==
    /\ lastJob # NoSession => job[lastJob] # "none"
    /\ pc \in Waking /\ wake.judged # NoSession /\ MetabolismNote(wake.meta) = "no" =>
        job[wake.judged] = "completed"
    /\ pc \in {"manifest", "inbound"} =>
        /\ told[wake.session].judged = wake.judged
        /\ told[wake.session].continuity = "yes" =>
            told[wake.session].meta = MetabolismNote(wake.meta)

Inv == /\ TypeOK /\ PlaceInv /\ FreshInv /\ ProgressInv /\ RecordInv /\ PolicyInv /\ JudgedInv
       /\ NoUnrecordedWake /\ ChangeLeavesRecord /\ SilenceMeansCovered

-----------------------------------------------------------------------------
(* Type correctness.                                                        *)

\* Policies read from a file, the built-in one and the plans made of them.
LEMMA PolicyTypes ==
    /\ DefaultPolicy \in Policy
    /\ \A p \in Policies : PolicyOf(p) \in Policy
    /\ \A q \in Policy, a \in {"full", "light"} : [base |-> q.base, assembly |-> a] \in Policy
BY DEF DefaultPolicy, Policy, PolicyOf

\* The locals of RunSession before NewSession and after a turn.
LEMMA WakeTypes ==
    /\ NoWake \in Wake /\ NoWake.session = NoSession
    /\ \A n \in YesNo :
        /\ [NoWake EXCEPT !.noted = n] \in Wake
        /\ [NoWake EXCEPT !.noted = n].session = NoSession
        /\ [NoWake EXCEPT !.noted = n, !.inbound = "yes"] \in Wake
        /\ [NoWake EXCEPT !.noted = n, !.inbound = "yes"].session = NoSession
    /\ \A w \in Wake : w.turns < MaxTurns =>
        /\ [w EXCEPT !.turns = @ + 1] \in Wake
        /\ [w EXCEPT !.turns = @ + 1].session = w.session
        /\ [w EXCEPT !.turns = @ + 1].turns = w.turns + 1
<1> USE LifecycleAssumption
<1>1. NoWake \in Wake /\ NoWake.session = NoSession
    BY PolicyTypes DEF NoWake, Wake, YesNo, Hashes, MetabolismStatus, NoSession
<1>2. ASSUME NEW n \in YesNo
      PROVE  /\ [NoWake EXCEPT !.noted = n] \in Wake
             /\ [NoWake EXCEPT !.noted = n].session = NoSession
    BY <1>1 DEF Wake
<1>3. ASSUME NEW n \in YesNo
      PROVE  /\ [NoWake EXCEPT !.noted = n, !.inbound = "yes"] \in Wake
             /\ [NoWake EXCEPT !.noted = n, !.inbound = "yes"].session = NoSession
    BY <1>1 DEF Wake, YesNo
<1>4. ASSUME NEW w \in Wake, w.turns < MaxTurns
      PROVE  /\ [w EXCEPT !.turns = @ + 1] \in Wake
             /\ [w EXCEPT !.turns = @ + 1].session = w.session
             /\ [w EXCEPT !.turns = @ + 1].turns = w.turns + 1
    <2>1. w.turns \in 0 .. MaxTurns
        BY DEF Wake
    <2>2. w.turns + 1 \in 0 .. MaxTurns
        BY <1>4, <2>1
    <2>3. ASSUME NEW m \in 0 .. MaxTurns
          PROVE  /\ [w EXCEPT !.turns = m] \in Wake
                 /\ [w EXCEPT !.turns = m].session = w.session
                 /\ [w EXCEPT !.turns = m].turns = m
        BY DEF Wake
    <2> QED BY <2>2, <2>3
<1> QED BY <1>1, <1>2, <1>3, <1>4

\* The number of turns taken.
LEMMA WakeFields ==
    ASSUME NEW w \in Wake
    PROVE  w.turns \in Nat
<1>1. w.turns \in 0 .. MaxTurns
    BY DEF Wake
<1> QED BY <1>1, LifecycleAssumption

\* What becomes of a session's entry when its agent starts to live.
LEMMA ToldLived ==
    ASSUME NEW e \in Told, NEW f, f = [e EXCEPT !.lived = "yes"]
    PROVE  /\ f \in Told /\ f.lived = "yes" /\ f.change = e.change
           /\ f.checked = e.checked /\ f.hash = e.hash /\ f.judged = e.judged
           /\ f.continuity = e.continuity /\ f.meta = e.meta
BY DEF Told, YesNo

\* A fresh database and no process.
LEMMA TypeInit == Init => TypeOK
<1> SUFFICES ASSUME Init PROVE TypeOK OBVIOUS
<1> USE LifecycleAssumption
<1>1. NotTold \in Told
    BY PolicyTypes DEF NotTold, Told, YesNo, Hashes, NoSession
<1> QED BY <1>1, WakeTypes
        DEF Init, TypeOK, CheckpointState, JobStatus, PC, YesNo, Hashes, NoSession
-----------------------------------------------------------------------------
(* One lemma per action: it preserves Inv.                                  *)

\* Actions of the daemon that only move pc, the note or the context.
LEMMA DaemonStep ==
    ASSUME Inv, DeclineEvent \/ WakeEvent \/ Shutdown \/ Signal \/ Crash
    PROVE  Inv'
<1> USE LifecycleAssumption DEF Inv, records, outcome, history
<1>1. UNCHANGED <<records, outcome, told, ended, sessions>>
    BY DEF DeclineEvent, WakeEvent, Shutdown, Signal, Crash
<1>2. \/ UNCHANGED <<pc, wake>>
      \/ /\ wake' \in Wake /\ wake'.session = NoSession
         /\ pc' \in {"down", "serving", "resolve"}
         /\ pc' = "resolve" => sessions < MaxSessions
    <2>1. CASE DeclineEvent \/ Signal
        BY <2>1 DEF DeclineEvent, Signal
    <2>2. CASE WakeEvent
        <3>1. wake' = [NoWake EXCEPT !.noted = note, !.inbound = "yes"] /\ note \in YesNo
            BY <2>2 DEF WakeEvent, TypeOK
        <3> QED BY <2>2, <3>1, WakeTypes DEF WakeEvent
    <2>3. CASE Shutdown
        BY <2>3 DEF Shutdown, PlaceInv, TypeOK
    <2>4. CASE Crash
        BY <2>4, WakeTypes DEF Crash
    <2> QED BY <2>1, <2>2, <2>3, <2>4
<1>3. /\ mode' = mode /\ note' \in YesNo /\ cancelled' \in YesNo
      /\ disruptions' \in 0 .. MaxDisruptions /\ crashed' \subseteq Sessions
    BY DEF DeclineEvent, WakeEvent, Shutdown, Signal, Crash, Disrupt, TypeOK, YesNo, process
<1>4. TypeOK'
    BY <1>1, <1>2, <1>3 DEF TypeOK, PC, InSession
<1>5. PlaceInv'
    BY <1>1, <1>2 DEF PlaceInv, Waking, Living
<1>6. FreshInv' /\ ProgressInv' /\ RecordInv'
    BY <1>1, <1>2 DEF FreshInv, ProgressInv, RecordInv, Waking, Living, Lived
<1>7. PolicyInv' /\ JudgedInv'
    BY <1>1, <1>2 DEF PolicyInv, JudgedInv, Waking, Lived
<1>8. NoUnrecordedWake' /\ ChangeLeavesRecord' /\ SilenceMeansCovered'
    BY <1>1 DEF NoUnrecordedWake, ChangeLeavesRecord, SilenceMeansCovered, Lived
<1> QED BY <1>4, <1>5, <1>6, <1>7, <1>8

\* The startup scan turns active checkpoints into interrupted ones.
LEMMA BootStep ==
    ASSUME Inv, Boot
    PROVE  Inv'
<1> USE LifecycleAssumption DEF Inv, records, outcome, history
<1>1. /\ checkpoint' \in [Sessions -> CheckpointState]
      /\ \A s \in Sessions : checkpoint[s] = "none" => checkpoint'[s] = "none"
    <2>1. ASSUME NEW c \in 0 .. MaxSessions, InterruptStaleCheckpoints(StaleActive(c))
          PROVE  /\ checkpoint' \in [Sessions -> CheckpointState]
                 /\ \A s \in Sessions : checkpoint[s] = "none" => checkpoint'[s] = "none"
        BY <2>1 DEF InterruptStaleCheckpoints, StaleActive, CheckpointState, TypeOK
    <2>2. \/ UNCHANGED checkpoint
          \/ \E c \in 0 .. MaxSessions : InterruptStaleCheckpoints(StaleActive(c))
        BY DEF Boot, scanInterruptedSessions
    <2> QED BY <2>1, <2>2 DEF TypeOK
<1>2. disruptions' \in 0 .. MaxDisruptions
    BY DEF Boot, scanInterruptedSessions, Disrupt, TypeOK
<1>3. /\ UNCHANGED <<records, lastCheckpoint, t2, job, lastJob, history, sessions>>
      /\ mode' \in {"oneshot", "events"} /\ note' \in YesNo /\ cancelled' \in YesNo
    BY DEF Boot, YesNo
<1>4. /\ wake' \in Wake /\ wake'.session = NoSession
      /\ pc' \in {"serving", "resolve"}
      /\ pc' = "resolve" => sessions < MaxSessions
    <2>1. PICK n \in YesNo, m \in Modes :
            \/ m = "events" /\ note' = n /\ pc' = "serving" /\ UNCHANGED wake
            \/ m = "oneshot" /\ note' = "no" /\ pc' = "resolve"
               /\ sessions < MaxSessions
               /\ wake' = [NoWake EXCEPT !.noted = n]
        BY DEF Boot
    <2>2. wake \in Wake /\ wake.session = NoSession
        BY DEF Boot, PlaceInv, TypeOK
    <2> QED BY <2>1, <2>2, WakeTypes
<1>5. TypeOK'
    BY <1>1, <1>2, <1>3, <1>4 DEF TypeOK, PC, InSession
<1>6. PlaceInv'
    BY <1>3, <1>4 DEF PlaceInv, Waking, Living
<1>7. FreshInv' /\ ProgressInv' /\ RecordInv'
    BY <1>1, <1>3, <1>4 DEF FreshInv, ProgressInv, RecordInv, Waking, Living, Lived
<1>8. PolicyInv' /\ JudgedInv'
    BY <1>3, <1>4 DEF PolicyInv, JudgedInv, Waking, Lived
<1>9. NoUnrecordedWake' /\ ChangeLeavesRecord' /\ SilenceMeansCovered'
    BY <1>3 DEF NoUnrecordedWake, ChangeLeavesRecord, SilenceMeansCovered, Lived
<1> QED BY <1>5, <1>6, <1>7, <1>8, <1>9

\* What an insert of RunSession leaves of the process: it goes on with the
\* same session, or returns.
LEMMA FailClosedPlace ==
    ASSUME Inv, NEW next \in Waking, pc \in Waking, UNCHANGED <<t2, sessions>>,
           (pc' = next /\ UNCHANGED wake) \/ Returns
    PROVE  /\ wake' \in Wake /\ PlaceInv' /\ pc' \in PC
           /\ \/ pc' = next /\ UNCHANGED wake
              \/ pc' \in {"serving", "down"} /\ wake' = NoWake
BY WakeTypes DEF Inv, TypeOK, PlaceInv, Returns, Waking, Living, PC, InSession

\* The inserts before the engine loop that touch one table each.
LEMMA InsertStep ==
    ASSUME Inv, RecordPlan \/ RecordWakeFacts \/ RecordManifest
    PROVE  Inv'
<1> USE LifecycleAssumption DEF Inv, records, outcome, history
<1>1. /\ UNCHANGED <<disclosures, lastApplied, outcome, mode, note, cancelled, history, sessions>>
      /\ disruptions' \in 0 .. MaxDisruptions
    BY DEF RecordPlan, RecordWakeFacts, RecordManifest, FailClosed, Succeeds, AnswerLost, Refused,
           Disrupt, TypeOK
<1>2. wake.session \in Sessions /\ wake.plan \in Policy
    BY DEF RecordPlan, RecordWakeFacts, RecordManifest, PlaceInv, TypeOK, Wake, Waking
<1>3. /\ plans \subseteq plans' /\ wakeFacts \subseteq wakeFacts' /\ manifests \subseteq manifests'
      /\ plans' \subseteq Sessions /\ wakeFacts' \subseteq Sessions /\ manifests' \subseteq Sessions
      /\ lastPlan' \in Policy \cup {NoPlan}
    BY <1>2 DEF RecordPlan, RecordWakeFacts, RecordManifest, FailClosed, TypeOK
<1>4. /\ pc \in {"plan", "facts", "manifest"}
      /\ \/ Returns
         \/ /\ UNCHANGED wake
            /\ \/ pc = "plan" /\ pc' = "facts" /\ wake.session \in plans'
               \/ pc = "facts" /\ pc' = "disclose" /\ wake.session \in wakeFacts'
               \/ pc = "manifest" /\ pc' = "inbound" /\ wake.session \in manifests'
    BY DEF RecordPlan, RecordWakeFacts, RecordManifest, FailClosed, GoOn
<1>5. /\ wake' \in Wake /\ PlaceInv' /\ pc' \in PC
      /\ \/ pc' \in {"serving", "down"} /\ wake' = NoWake
         \/ /\ UNCHANGED wake
            /\ \/ pc = "plan" /\ pc' = "facts" /\ wake.session \in plans'
               \/ pc = "facts" /\ pc' = "disclose" /\ wake.session \in wakeFacts'
               \/ pc = "manifest" /\ pc' = "inbound" /\ wake.session \in manifests'
    BY <1>1, <1>4, FailClosedPlace DEF Waking
<1>6. TypeOK'
    BY <1>1, <1>3, <1>5 DEF TypeOK
<1>7. FreshInv' /\ ProgressInv'
    BY <1>1, <1>4, <1>5 DEF FreshInv, ProgressInv, Waking, Living, Lived
<1>8. RecordInv'
    BY <1>1, <1>3, <1>4, <1>5 DEF RecordInv, Waking
<1>9. PolicyInv' /\ JudgedInv'
    BY <1>1, <1>4, <1>5 DEF PolicyInv, JudgedInv, Waking, Lived
<1>10. NoUnrecordedWake' /\ ChangeLeavesRecord' /\ SilenceMeansCovered'
    BY <1>1, <1>3 DEF NoUnrecordedWake, ChangeLeavesRecord, SilenceMeansCovered, Lived
<1> QED BY <1>5, <1>6, <1>7, <1>8, <1>9, <1>10

\* The configuration_applied row becomes the one HasChanged compares with.
LEMMA RecordDisclosureStep ==
    ASSUME Inv, RecordDisclosure
    PROVE  Inv'
<1> USE LifecycleAssumption DEF Inv, records, outcome, history
<1>1. /\ UNCHANGED <<plans, lastPlan, wakeFacts, manifests, outcome, mode, note, cancelled,
                     history, sessions>>
      /\ disruptions' \in 0 .. MaxDisruptions
    BY DEF RecordDisclosure, FailClosed, Succeeds, AnswerLost, Refused, Disrupt, TypeOK
<1>2. /\ pc = "disclose" /\ wake.session = sessions /\ wake.session \in Sessions
      /\ wake.hash \in Hashes /\ wake.change \in {"yes", "no"}
      /\ sessions \in Nat
    <2>1. pc = "disclose" /\ wake \in Wake /\ sessions \in 0 .. MaxSessions
        BY DEF RecordDisclosure, TypeOK
    <2>2. wake.hash \in Hashes /\ wake.change \in {"yes", "no"}
        BY <2>1 DEF Wake, YesNo
    <2> QED BY <2>1, <2>2 DEF PlaceInv, Waking
<1>3. \/ UNCHANGED <<disclosures, lastApplied>>
      \/ disclosures' = disclosures \cup {wake.session} /\ lastApplied' = wake.hash
    BY DEF RecordDisclosure, FailClosed
<1>4. \/ Returns
      \/ /\ pc' = "assemble" /\ UNCHANGED wake
         /\ wake.change = "yes" => wake.session \in disclosures' /\ lastApplied' = wake.hash
         /\ wake.change = "no" => UNCHANGED lastApplied
    BY DEF RecordDisclosure, FailClosed, GoOn
<1>5. /\ wake' \in Wake /\ PlaceInv' /\ pc' \in PC
      /\ \/ pc' \in {"serving", "down"} /\ wake' = NoWake
         \/ /\ pc' = "assemble" /\ UNCHANGED wake
            /\ wake.change = "yes" => wake.session \in disclosures' /\ lastApplied' = wake.hash
            /\ wake.change = "no" => UNCHANGED lastApplied
    BY <1>1, <1>2, <1>4, FailClosedPlace DEF Waking
<1>6. TypeOK'
    BY <1>1, <1>2, <1>3, <1>5 DEF TypeOK
<1>7. FreshInv' /\ ProgressInv'
    BY <1>1, <1>2, <1>3, <1>5 DEF FreshInv, ProgressInv, Waking, Living, Lived, Sessions
<1>8. RecordInv'
    BY <1>1, <1>2, <1>5 DEF RecordInv, Waking
<1>9. ASSUME NEW s \in Sessions, Lived(s) PROVE s < wake.session
    <2>1. s # wake.session
        BY <1>2, <1>9 DEF ProgressInv, Waking
    <2>2. ~(s > sessions)
        BY <1>9 DEF FreshInv
    <2> QED BY <1>2, <2>1, <2>2 DEF Sessions
<1>10. PolicyInv'
    <2>1. ASSUME NEW s \in Sessions, Lived(s), told[s].checked = "yes", told[s].hash # lastApplied'
          PROVE  \E d \in disclosures' : s < d
        BY <1>2, <1>3, <1>9, <2>1 DEF PolicyInv
    <2>2. pc \in Waking /\ wake.checked = "yes" /\ wake.change = "no" => wake.hash = lastApplied
        BY DEF PolicyInv
    <2> QED BY <1>1, <1>2, <1>5, <2>1, <2>2 DEF PolicyInv, Waking, Lived
<1>11. JudgedInv'
    BY <1>1, <1>2, <1>5 DEF JudgedInv, Waking
<1>12. NoUnrecordedWake' /\ ChangeLeavesRecord' /\ SilenceMeansCovered'
    BY <1>1, <1>3 DEF NoUnrecordedWake, ChangeLeavesRecord, SilenceMeansCovered, Lived
<1> QED BY <1>5, <1>6, <1>7, <1>8, <1>10, <1>11, <1>12

\* A step of the engine loop: T2 of the session in hand grows within its bound.
LEMMA LoopStep ==
    ASSUME Inv, Turn \/ TurnFails
    PROVE  Inv'
<1> USE LifecycleAssumption
<1>1. PICK n \in {0, 1} : t2' = [t2 EXCEPT ![wake.session] = t2[wake.session] + n]
    BY DEF Turn, TurnFails, LogTurn, Inv, TypeOK
<1>2. /\ wake.session \in Sessions /\ wake.session = sessions
      /\ wake \in Wake /\ wake.turns \in Nat /\ wake.turns < MaxTurns
      /\ pc = "loop" /\ Lived(wake.session)
      /\ t2[wake.session] \in Nat /\ t2[wake.session] <= wake.turns + 1
      /\ UNCHANGED <<records, checkpoint, lastCheckpoint, job, lastJob, mode, note, cancelled,
                     history, sessions>>
    <2>1. /\ pc = "loop" /\ wake \in Wake /\ wake.turns < MaxTurns
          /\ t2 \in [Sessions -> 0 .. MaxTurns + 1]
        BY DEF Turn, TurnFails, Inv, TypeOK
    <2>2. wake.turns \in Nat
        BY <2>1, WakeFields
    <2>3. wake.session \in Sessions /\ wake.session = sessions /\ Lived(wake.session)
          /\ t2[wake.session] <= wake.turns + 1
        BY <2>1 DEF Inv, PlaceInv, ProgressInv, Living
    <2>4. UNCHANGED <<records, checkpoint, lastCheckpoint, job, lastJob, mode, note, cancelled,
                      history, sessions>>
        BY DEF Turn, TurnFails
    <2> QED BY <2>1, <2>2, <2>3, <2>4
<1>3. /\ t2' \in [Sessions -> 0 .. MaxTurns + 1]
      /\ t2'[wake.session] = t2[wake.session] + n
      /\ \A s \in Sessions : s # wake.session => t2'[s] = t2[s]
    BY <1>1, <1>2 DEF Inv, TypeOK
<1>4. /\ wake' \in Wake
      /\ \/ wake' = NoWake /\ pc' \in {"down", "serving"}
         \/ /\ wake'.session = wake.session /\ wake'.turns = wake.turns + 1
            /\ pc' \in {"loop", "active"}
    <2>1. \/ Returns
          \/ wake' = [wake EXCEPT !.turns = @ + 1] /\ pc' \in {"loop", "active"}
        BY DEF Turn, TurnFails
    <2> QED BY <1>2, <2>1, WakeTypes DEF Returns
<1>5. disruptions' \in 0 .. MaxDisruptions
    BY DEF Turn, TurnFails, Succeeds, Refused, AnswerLost, Disrupt, Inv, TypeOK
<1> USE DEF Inv, records, history
<1>6. TypeOK'
    BY <1>2, <1>3, <1>4, <1>5 DEF TypeOK, PC, InSession
<1>7. PlaceInv'
    <2>1. CASE wake' = NoWake /\ pc' \in {"down", "serving"}
        BY <2>1, WakeTypes DEF PlaceInv, Waking, Living
    <2>2. CASE /\ wake'.session = wake.session /\ wake'.turns = wake.turns + 1
               /\ pc' \in {"loop", "active"}
        <3>1. t2'[wake'.session] <= wake'.turns + 1
            BY <1>2, <1>3, <2>2
        <3> QED BY <1>2, <2>2, <3>1 DEF PlaceInv, Waking, Living
    <2> QED BY <1>4, <2>1, <2>2
<1>8. FreshInv'
    BY <1>2, <1>3 DEF FreshInv, Lived, Sessions
<1>9. ProgressInv' /\ RecordInv'
    BY <1>2, <1>4 DEF ProgressInv, RecordInv, Waking, Living, Lived
<1>10. PolicyInv' /\ JudgedInv'
    BY <1>2, <1>4 DEF PolicyInv, JudgedInv, Waking, Lived
<1>11. NoUnrecordedWake' /\ ChangeLeavesRecord' /\ SilenceMeansCovered'
    BY <1>2, <1>3 DEF NoUnrecordedWake, ChangeLeavesRecord, SilenceMeansCovered, Lived
<1> QED BY <1>6, <1>7, <1>8, <1>9, <1>10, <1>11

\* The two checkpoints and End: the row moves from none to active to completed.
LEMMA CheckpointStep ==
    ASSUME Inv, WriteActive \/ WriteCompleted \/ End
    PROVE  Inv'
<1> USE LifecycleAssumption DEF Inv, records, history
<1>1. /\ UNCHANGED <<records, t2, job, lastJob, mode, note, cancelled, wake, told, crashed, sessions>>
      /\ pc \in {"active", "end", "completed"} /\ pc' \in {"end", "completed", "submit"}
      /\ pc' = "end" <=> pc = "active"
      /\ pc' = "submit" <=> pc = "completed"
    BY DEF WriteActive, WriteCompleted, End, GoOn, outcome
<1>2. disruptions' \in 0 .. MaxDisruptions
    BY DEF WriteActive, WriteCompleted, End, WriteCheckpoint, WarnOnly, Succeeds, AnswerLost,
           Refused, Disrupt, TypeOK
<1>3. /\ wake.session = sessions /\ wake.session \in Sessions /\ sessions \in Nat
      /\ Lived(wake.session) /\ job[wake.session] = "none"
      /\ pc = "active" => checkpoint[wake.session] = "none"
      /\ checkpoint[wake.session] \in {"none", "active"}
    BY <1>1 DEF PlaceInv, ProgressInv, TypeOK, Living
<1>4. \/ UNCHANGED <<checkpoint, lastCheckpoint>>
      \/ /\ pc = "active" /\ checkpoint' = [checkpoint EXCEPT ![wake.session] = "active"]
         /\ lastCheckpoint' = wake.session
      \/ /\ pc = "completed" /\ checkpoint' = [checkpoint EXCEPT ![wake.session] = "completed"]
         /\ lastCheckpoint' = wake.session
    BY DEF WriteActive, WriteCompleted, End, WriteCheckpoint, WarnOnly, outcome
<1>5. /\ checkpoint' \in [Sessions -> CheckpointState] /\ lastCheckpoint' \in Sessions \cup {NoSession}
      /\ \A s \in Sessions : s # wake.session => checkpoint'[s] = checkpoint[s]
      /\ pc # "completed" => checkpoint'[wake.session] \in {"none", "active"}
    BY <1>3, <1>4 DEF TypeOK, CheckpointState
<1>6. ended' \subseteq Sessions
    BY <1>3 DEF WriteActive, WriteCompleted, End, TypeOK
<1>7. TypeOK' /\ PlaceInv'
    BY <1>1, <1>2, <1>3, <1>5, <1>6 DEF TypeOK, PlaceInv, PC, InSession, Waking, Living
<1>8. FreshInv'
    BY <1>1, <1>3, <1>5 DEF FreshInv, Lived, Sessions
<1>9. ProgressInv'
    BY <1>1, <1>3, <1>5 DEF ProgressInv, Lived, Waking, Living
<1>10. RecordInv' /\ PolicyInv' /\ JudgedInv'
    BY <1>1 DEF RecordInv, PolicyInv, JudgedInv, Lived, Waking
<1>11. NoUnrecordedWake' /\ ChangeLeavesRecord' /\ SilenceMeansCovered'
    BY <1>1 DEF NoUnrecordedWake, ChangeLeavesRecord, SilenceMeansCovered, Lived
<1> QED BY <1>7, <1>8, <1>9, <1>10, <1>11

\* The job row of a session that has lived.
LEMMA SubmitStep ==
    ASSUME Inv, Submit
    PROVE  Inv'
<1> USE LifecycleAssumption DEF Inv, records, outcome, history
<1>1. /\ UNCHANGED <<records, checkpoint, lastCheckpoint, t2, mode, note, cancelled, history,
                     sessions>>
      /\ disruptions' \in 0 .. MaxDisruptions
      /\ pc' \in {"serving", "down"} /\ wake' = NoWake
    BY DEF Submit, WarnOnly, Succeeds, AnswerLost, Refused, Disrupt, Returns, TypeOK
<1>2. /\ wake.session = sessions /\ wake.session \in Sessions
      /\ job[wake.session] = "none" /\ Lived(wake.session)
    BY DEF Submit, PlaceInv, ProgressInv, Living
<1>3. \/ UNCHANGED <<job, lastJob>>
      \/ job' = [job EXCEPT ![wake.session] = "pending"] /\ lastJob' = wake.session
    BY DEF Submit, WarnOnly
<1>4. /\ job' \in [Sessions -> JobStatus] /\ lastJob' \in Sessions \cup {NoSession}
      /\ \A s \in Sessions : s # wake.session => job'[s] = job[s]
      /\ \A s \in Sessions : job[s] # "none" => job'[s] = job[s]
      /\ lastJob' # NoSession => job'[lastJob'] # "none"
    BY <1>2, <1>3 DEF TypeOK, JobStatus, JudgedInv
<1>5. TypeOK'
    BY <1>1, <1>4, WakeTypes DEF TypeOK, PC, InSession
<1>6. PlaceInv'
    BY <1>1, WakeTypes DEF PlaceInv, Waking, Living
<1>7. FreshInv'
    BY <1>1, <1>2, <1>4 DEF FreshInv, Lived, Sessions
<1>8. ProgressInv' /\ RecordInv' /\ PolicyInv' /\ JudgedInv'
    BY <1>1, <1>4 DEF ProgressInv, RecordInv, PolicyInv, JudgedInv, Lived, Waking, Living
<1>9. NoUnrecordedWake' /\ ChangeLeavesRecord'
    BY <1>1, <1>2, <1>4 DEF NoUnrecordedWake, ChangeLeavesRecord, Lived
<1>10. SilenceMeansCovered'
    BY <1>1, <1>4 DEF SilenceMeansCovered, Lived, Told, TypeOK
<1> QED BY <1>5, <1>6, <1>7, <1>8, <1>9, <1>10

\* A worker never takes a job back to none nor out of completed.
LEMMA MetaboliseStep ==
    ASSUME Inv, Metabolise
    PROVE  Inv'
<1> USE LifecycleAssumption DEF Inv, records, process, history
<1>1. /\ job' \in [Sessions -> JobStatus]
      /\ \A s \in Sessions : job[s] \in {"none", "completed"} => job'[s] = job[s]
      /\ \A s \in Sessions : job[s] # "none" => job'[s] # "none"
    BY DEF Metabolise, NextStatus, TypeOK, JobStatus
<1>2. UNCHANGED <<records, checkpoint, lastCheckpoint, t2, lastJob, process, history, sessions,
                  disruptions>>
    BY DEF Metabolise
<1>3. TypeOK' /\ PlaceInv'
    BY <1>1, <1>2 DEF TypeOK, PlaceInv
<1>4. FreshInv'
    BY <1>1, <1>2 DEF FreshInv, Lived
<1>5. ProgressInv' /\ RecordInv' /\ PolicyInv'
    BY <1>1, <1>2 DEF ProgressInv, RecordInv, PolicyInv, PlaceInv, Lived, Waking, Living
<1>6. JudgedInv'
    BY <1>1, <1>2 DEF JudgedInv, TypeOK, Wake
<1>7. NoUnrecordedWake' /\ ChangeLeavesRecord'
    BY <1>1, <1>2 DEF NoUnrecordedWake, ChangeLeavesRecord, Lived
<1>8. SilenceMeansCovered'
    BY <1>1, <1>2 DEF SilenceMeansCovered, TypeOK, Told, Lived
<1> QED BY <1>3, <1>4, <1>5, <1>6, <1>7, <1>8

\* What the queries of Resolve return is well typed.
LEMMA ReadTypes ==
    ASSUME TypeOK, NEW file \in Files, NEW failing \in SUBSET Queries
    PROVE  /\ ReadPolicy(file, failing).policy \in Policy
           /\ ReadPolicy(file, failing).source \in {"valid", "missing", "invalid"}
           /\ ReadPolicy(file, failing).hash \in Hashes
<1> USE LifecycleAssumption
<1>1. queryLastPolicy(failing) \in Policy
    BY PolicyTypes DEF queryLastPolicy, TypeOK
<1>2. CASE file \in Policies
    BY <1>2, PolicyTypes DEF ReadPolicy, Hashes
<1>3. CASE file = "missing"
    BY <1>3, PolicyTypes DEF ReadPolicy, Hashes
<1>4. CASE file = "invalid"
    BY <1>1, <1>4 DEF ReadPolicy, Hashes
<1> QED BY <1>2, <1>3, <1>4 DEF Files

\* The new session, what it found out about the policy and the job it judged.
LEMMA ResolveStep ==
    ASSUME Inv, Resolve
    PROVE  Inv'
<1> USE LifecycleAssumption DEF Inv, records, outcome, history
<1>1. /\ pc = "resolve" /\ pc' = "plan" /\ sessions' = sessions + 1
      /\ UNCHANGED <<records, outcome, mode, note, cancelled, history>>
    BY DEF Resolve
<1>2. PICK file \in Files, failing \in SUBSET Queries :
        /\ Answers(failing)
        /\ \E a \in resolveAssemblyProfile(ReadPolicy(file, failing).policy,
                                           PriorRuntime(failing), failing) :
             wake' = [session |-> sessions + 1,
                      policy  |-> ReadPolicy(file, failing).policy,
                      plan    |-> [base |-> ReadPolicy(file, failing).policy.base, assembly |-> a],
                      source  |-> ReadPolicy(file, failing).source,
                      hash    |-> ReadPolicy(file, failing).hash,
                      checked |-> Checked(ReadPolicy(file, failing).hash, failing),
                      change  |-> HasChanged(ReadPolicy(file, failing).hash, failing),
                      prior   |-> PriorRuntime(failing),
                      meta    |-> PriorMetabolism(JudgedJob(failing)),
                      judged  |-> JudgedJob(failing),
                      noted   |-> wake.noted,
                      inbound |-> wake.inbound,
                      turns   |-> 0]
    BY DEF Resolve
<1> DEFINE read == ReadPolicy(file, failing)
<1>3. PICK a \in resolveAssemblyProfile(read.policy, PriorRuntime(failing), failing) :
        wake' = [session |-> sessions + 1,
                 policy  |-> read.policy,
                 plan    |-> [base |-> read.policy.base, assembly |-> a],
                 source  |-> read.source,
                 hash    |-> read.hash,
                 checked |-> Checked(read.hash, failing),
                 change  |-> HasChanged(read.hash, failing),
                 prior   |-> PriorRuntime(failing),
                 meta    |-> PriorMetabolism(JudgedJob(failing)),
                 judged  |-> JudgedJob(failing),
                 noted   |-> wake.noted,
                 inbound |-> wake.inbound,
                 turns   |-> 0]
    BY <1>2
<1>4. /\ read.policy \in Policy /\ read.hash \in Hashes
      /\ read.source \in {"valid", "missing", "invalid"}
    BY ReadTypes
<1> HIDE DEF read
<1>5. sessions \in 0 .. MaxSessions /\ sessions + 1 \in Sessions
    BY <1>1 DEF PlaceInv, TypeOK, Sessions
<1>6. /\ Checked(read.hash, failing) \in YesNo /\ HasChanged(read.hash, failing) \in YesNo
      /\ Checked(read.hash, failing) = "yes" /\ HasChanged(read.hash, failing) = "no" =>
            read.hash = lastApplied
    BY DEF Checked, HasChanged, YesNo
<1>7. /\ JudgedJob(failing) \in Sessions \cup {NoSession}
      /\ PriorMetabolism(JudgedJob(failing)) \in MetabolismStatus
      /\ JudgedJob(failing) # NoSession
         /\ MetabolismNote(PriorMetabolism(JudgedJob(failing))) = "no" =>
            job[JudgedJob(failing)] = "completed"
    <2>1. JudgedJob(failing) \in {NoSession, lastJob}
        BY DEF JudgedJob
    <2>2. CASE JudgedJob(failing) = NoSession
        BY <2>2 DEF PriorMetabolism, MetabolismStatus
    <2>3. CASE JudgedJob(failing) # NoSession
        <3>1. /\ JudgedJob(failing) \in Sessions
              /\ job[JudgedJob(failing)] \in JobStatus \ {"none"}
            BY <2>1, <2>3 DEF TypeOK, JudgedInv
        <3> QED BY <2>3, <3>1 DEF PriorMetabolism, jobStatusToMetabolism, MetabolismStatus,
                                  MetabolismNote, JobStatus
    <2> QED BY <2>2, <2>3
<1>8. a \in {"full", "light"} /\ PriorRuntime(failing) \in {"", "ended", "interrupted"}
    BY <1>3, <1>4 DEF resolveAssemblyProfile, PriorRuntime, Policy
<1>9. wake.noted \in YesNo /\ wake.inbound \in YesNo
    BY DEF TypeOK, Wake
<1>10. /\ wake' \in Wake
       /\ wake'.session = sessions'
       /\ wake'.checked = "yes" /\ wake'.change = "no" => wake'.hash = lastApplied
       /\ wake'.judged # NoSession /\ MetabolismNote(wake'.meta) = "no" =>
            job[wake'.judged] = "completed"
    <2>1. [base |-> read.policy.base, assembly |-> a] \in Policy
        BY <1>4, <1>8, PolicyTypes
    <2>2. 0 \in 0 .. MaxTurns
        OBVIOUS
    <2>3. wake' \in Wake
        BY ONLY <1>3, <1>4, <1>5, <1>6, <1>7, <1>8, <1>9, <2>1, <2>2 DEF Wake
    <2> QED BY <1>1, <1>3, <1>6, <1>7, <2>3
<1>11. disruptions' \in 0 .. MaxDisruptions
    BY <1>2 DEF Answers, Disrupt, TypeOK
<1>12. TypeOK'
    BY <1>1, <1>5, <1>10, <1>11 DEF TypeOK, PC, InSession, Sessions
<1>13. PlaceInv'
    BY <1>1, <1>5, <1>10 DEF PlaceInv, Waking, Living
<1>14. FreshInv' /\ ProgressInv'
    BY <1>1, <1>5, <1>10 DEF FreshInv, ProgressInv, Waking, Living, Lived, Sessions
<1>15. RecordInv' /\ PolicyInv'
    BY <1>1, <1>10 DEF RecordInv, PolicyInv, Waking, Lived
<1>16. JudgedInv'
    BY <1>1, <1>10 DEF JudgedInv
<1>17. NoUnrecordedWake' /\ ChangeLeavesRecord' /\ SilenceMeansCovered'
    BY <1>1 DEF NoUnrecordedWake, ChangeLeavesRecord, SilenceMeansCovered, Lived
<1> QED BY <1>12, <1>13, <1>14, <1>15, <1>16, <1>17

\* The prompt of the session in hand is written; nobody lives yet.
LEMMA AssembleStep ==
    ASSUME Inv, Assemble
    PROVE  Inv'
<1> USE LifecycleAssumption DEF Inv, records, outcome, history
<1>1. /\ pc = "assemble"
      /\ UNCHANGED <<records, outcome, mode, note, cancelled, ended, crashed, sessions>>
      /\ disruptions' \in 0 .. MaxDisruptions
    <2>1. Succeeds \/ Refused
        BY DEF Assemble
    <2>2. disruptions' \in 0 .. MaxDisruptions
        BY <2>1 DEF Succeeds, Refused, Disrupt, TypeOK
    <2> QED BY <2>2 DEF Assemble
<1>2. /\ wake.session \in Sessions /\ wake.session = sessions /\ ~Lived(wake.session)
      /\ wake \in Wake /\ told \in [Sessions -> Told]
    BY <1>1 DEF PlaceInv, ProgressInv, TypeOK, Waking
<1> DEFINE entry(c) ==
        [lived |-> "no", policy |-> wake.policy, source |-> wake.source,
         hash |-> wake.hash, checked |-> wake.checked,
         prior |-> wake.prior, judged |-> wake.judged,
         note |-> wake.noted, change |-> wake.change,
         continuity |-> c,
         meta |-> IF c = "yes" THEN MetabolismNote(wake.meta) ELSE "no"]
<1>3. \/ Returns /\ UNCHANGED told
      \/ /\ \E c \in YesNo : told' = [told EXCEPT ![wake.session] = entry(c)]
         /\ pc' = "manifest" /\ UNCHANGED wake
    BY DEF Assemble, GoOn
<1>4. ASSUME NEW c \in YesNo PROVE entry(c) \in Told
    BY <1>2 DEF Wake, Told, MetabolismNote, YesNo
<1>5. ASSUME NEW c \in YesNo
      PROVE  /\ entry(c).lived = "no" /\ entry(c).change = wake.change
             /\ entry(c).checked = wake.checked /\ entry(c).hash = wake.hash
             /\ entry(c).judged = wake.judged /\ entry(c).continuity = c
             /\ c = "yes" => entry(c).meta = MetabolismNote(wake.meta)
    OBVIOUS
<1> HIDE DEF entry
<1>6. /\ wake' \in Wake /\ PlaceInv' /\ pc' \in PC
      /\ pc' \in {"serving", "down"} \/ (pc' = "manifest" /\ UNCHANGED wake)
    BY <1>1, <1>3, FailClosedPlace DEF Waking
<1>7. /\ told' \in [Sessions -> Told]
      /\ \A s \in Sessions : Lived(s)' <=> Lived(s)
      /\ \A s \in Sessions : Lived(s) => told'[s] = told[s]
      /\ pc' = "manifest" =>
            /\ told'[wake.session].change = wake.change
            /\ told'[wake.session].checked = wake.checked
            /\ told'[wake.session].hash = wake.hash
            /\ told'[wake.session].judged = wake.judged
            /\ told'[wake.session].continuity = "yes" =>
                told'[wake.session].meta = MetabolismNote(wake.meta)
    <2>1. CASE Returns /\ UNCHANGED told
        BY <1>2, <2>1 DEF Returns, Lived
    <2>2. ASSUME NEW c \in YesNo, told' = [told EXCEPT ![wake.session] = entry(c)]
          PROVE  /\ told' \in [Sessions -> Told] /\ told'[wake.session] = entry(c)
                 /\ \A s \in Sessions : s # wake.session => told'[s] = told[s]
        BY <1>2, <1>4, <2>2
    <2>3. CASE \E c \in YesNo : told' = [told EXCEPT ![wake.session] = entry(c)]
        <3>1. PICK c \in YesNo : told' = [told EXCEPT ![wake.session] = entry(c)]
            BY <2>3
        <3>2. /\ told' \in [Sessions -> Told] /\ told'[wake.session] = entry(c)
              /\ \A s \in Sessions : s # wake.session => told'[s] = told[s]
            BY <2>2, <3>1
        <3>3. told'[wake.session].lived = "no"
            BY <1>5, <3>2
        <3> QED BY <1>2, <1>5, <3>2, <3>3 DEF Lived
    <2> QED BY <1>3, <2>1, <2>3
<1>8. TypeOK'
    BY <1>1, <1>6, <1>7 DEF TypeOK
<1>9. FreshInv' /\ ProgressInv'
    BY <1>1, <1>2, <1>6, <1>7 DEF FreshInv, ProgressInv, Waking, Living
<1>10. RecordInv'
    BY <1>1, <1>6, <1>7 DEF RecordInv, Waking
<1>11. PolicyInv'
    BY <1>1, <1>6, <1>7 DEF PolicyInv, Waking
<1>12. JudgedInv'
    BY <1>1, <1>6, <1>7 DEF JudgedInv, Waking
<1>13. NoUnrecordedWake'
    BY <1>1, <1>7 DEF NoUnrecordedWake
<1>14. ChangeLeavesRecord' /\ SilenceMeansCovered'
    BY <1>1, <1>7 DEF ChangeLeavesRecord, SilenceMeansCovered
<1> QED BY <1>6, <1>8, <1>9, <1>10, <1>11, <1>12, <1>13, <1>14

\* The agent starts to live: every property of lived sessions is due here.
LEMMA AppendInboundStep ==
    ASSUME Inv, AppendInbound
    PROVE  Inv'
<1> USE LifecycleAssumption DEF Inv, records, outcome, history
<1>1. /\ pc = "inbound" /\ pc' = "loop" /\ UNCHANGED wake
      /\ UNCHANGED <<records, checkpoint, lastCheckpoint, job, lastJob, mode, note, cancelled,
                     ended, crashed, sessions>>
      /\ disruptions' \in 0 .. MaxDisruptions
    BY DEF AppendInbound, GoOn, WarnOnly, Succeeds, AnswerLost, Refused, Disrupt, TypeOK
<1>2. /\ wake.session \in Sessions /\ wake.session = sessions /\ sessions \in Nat
      /\ ~Lived(wake.session) /\ t2[wake.session] = 0
      /\ t2 \in [Sessions -> 0 .. MaxTurns + 1] /\ told \in [Sessions -> Told]
    BY <1>1 DEF PlaceInv, ProgressInv, TypeOK, Waking
<1>3. wake \in Wake /\ wake.turns \in Nat
    BY WakeFields DEF TypeOK
<1>4. /\ t2' \in [Sessions -> 0 .. MaxTurns + 1] /\ t2'[wake.session] \in {0, 1}
      /\ \A s \in Sessions : s # wake.session => t2'[s] = t2[s]
    <2>1. t2' = t2 \/ t2' = [t2 EXCEPT ![wake.session] = 1]
        BY DEF AppendInbound, WarnOnly
    <2> QED BY <1>2, <2>1
<1>5. /\ told' \in [Sessions -> Told]
      /\ \A s \in Sessions : s # wake.session => told'[s] = told[s]
      /\ told'[wake.session] = [told[wake.session] EXCEPT !.lived = "yes"]
    <2>1. told' = [told EXCEPT ![wake.session] = [told[wake.session] EXCEPT !.lived = "yes"]]
        BY DEF AppendInbound
    <2>2. [told[wake.session] EXCEPT !.lived = "yes"] \in Told
        BY <1>2, ToldLived
    <2> QED BY <1>2, <2>1, <2>2
<1>6. /\ told'[wake.session].lived = "yes"
      /\ told'[wake.session].change = told[wake.session].change
      /\ told'[wake.session].checked = told[wake.session].checked
      /\ told'[wake.session].hash = told[wake.session].hash
      /\ told'[wake.session].judged = told[wake.session].judged
      /\ told'[wake.session].continuity = told[wake.session].continuity
      /\ told'[wake.session].meta = told[wake.session].meta
    BY <1>2, <1>5, ToldLived
<1>7. /\ \A s \in Sessions : s # wake.session => (Lived(s)' <=> Lived(s))
      /\ Lived(wake.session)'
    BY <1>1, <1>5, <1>6 DEF Lived
<1>8. ASSUME NEW s \in Sessions, Lived(s) PROVE s < wake.session
    <2>1. s # wake.session /\ ~(s > sessions)
        BY <1>2, <1>8 DEF FreshInv
    <2> QED BY <1>2, <2>1 DEF Sessions
<1>9. TypeOK'
    BY <1>1, <1>3, <1>4, <1>5 DEF TypeOK, PC, InSession
<1>10. PlaceInv'
    BY <1>1, <1>2, <1>3, <1>4 DEF PlaceInv, Waking, Living
<1>11. FreshInv'
    BY <1>1, <1>2, <1>4, <1>7 DEF FreshInv, Sessions
<1>12. ProgressInv' /\ RecordInv'
    BY <1>1, <1>2, <1>7 DEF ProgressInv, RecordInv, Waking, Living
<1>13. NoUnrecordedWake'
    <2>1. /\ wake.session \in plans \cap wakeFacts \cap manifests
          /\ told'[wake.session].change = "yes" => wake.session \in disclosures
        BY <1>1, <1>6 DEF RecordInv, Waking
    <2>2. ASSUME NEW s \in Sessions, s # wake.session,
                 Lived(s) \/ t2'[s] > 0 \/ job[s] # "none"
          PROVE  /\ Lived(s) /\ s \in plans \cap wakeFacts \cap manifests
                 /\ told'[s].change = "yes" => s \in disclosures
        BY <1>4, <1>5, <2>2 DEF NoUnrecordedWake
    <2> QED BY <1>1, <1>7, <2>1, <2>2 DEF NoUnrecordedWake
<1>14. /\ told'[wake.session].checked = "yes" => told'[wake.session].hash = lastApplied
       /\ told'[wake.session].hash = wake.hash
    BY <1>1, <1>6 DEF PolicyInv
<1>15. PolicyInv'
    BY <1>1, <1>5, <1>7, <1>14 DEF PolicyInv, Waking
<1>16. ChangeLeavesRecord'
    <2>1. ASSUME NEW s \in Sessions, NEW t \in Sessions, s < t, Lived(s)', Lived(t)',
                 told'[s].checked = "yes", told'[t].checked = "yes", told'[s].hash # told'[t].hash
          PROVE  \E d \in disclosures : s < d /\ d <= t
        <3>1. s # wake.session
            BY <1>2, <1>7, <1>8, <2>1 DEF Sessions
        <3>2. Lived(s) /\ told'[s] = told[s]
            BY <1>5, <1>7, <2>1, <3>1
        <3>3. CASE t # wake.session
            <4>1. Lived(t) /\ told'[t] = told[t]
                BY <1>5, <1>7, <2>1, <3>3
            <4> QED BY <2>1, <3>2, <4>1 DEF ChangeLeavesRecord
        <3>4. CASE t = wake.session
            <4>1. told[s].hash # lastApplied
                BY <1>14, <2>1, <3>2, <3>4
            <4>2. PICK d \in disclosures : s < d
                BY <2>1, <3>2, <4>1 DEF PolicyInv
            <4>3. d <= sessions
                BY <1>2 DEF FreshInv, TypeOK, Sessions
            <4> QED BY <1>2, <3>4, <4>2, <4>3
        <3> QED BY <3>3, <3>4
    <2> QED BY <1>1, <2>1 DEF ChangeLeavesRecord
<1>17. JudgedInv'
    BY <1>1 DEF JudgedInv, Waking
<1>18. SilenceMeansCovered'
    <2>1. /\ told'[wake.session].continuity = "yes" /\ told'[wake.session].meta = "no"
          /\ told'[wake.session].judged # NoSession
          => job[told'[wake.session].judged] = "completed"
        BY <1>1, <1>6 DEF JudgedInv, Waking
    <2>2. ASSUME NEW s \in Sessions, s # wake.session, Lived(s)',
                 told'[s].continuity = "yes", told'[s].meta = "no", told'[s].judged # NoSession
          PROVE  job[told'[s].judged] = "completed"
        BY <1>5, <1>7, <2>2 DEF SilenceMeansCovered
    <2> QED BY <1>1, <2>1, <2>2 DEF SilenceMeansCovered
<1> QED BY <1>9, <1>10, <1>11, <1>12, <1>13, <1>15, <1>16, <1>17, <1>18

-----------------------------------------------------------------------------
(* The theorems.                                                            *)

\* The invariant holds at first ...
LEMMA InvInit == Init => Inv
<1> SUFFICES ASSUME Init PROVE Inv OBVIOUS
<1>1. TypeOK
    BY TypeInit
<1>2. /\ pc = "down" /\ wake.session = NoSession /\ lastJob = NoSession
      /\ disclosures = {} /\ sessions = 0
      /\ \A s \in Sessions : checkpoint[s] = "none" /\ t2[s] = 0 /\ job[s] = "none" /\ ~Lived(s)
    BY WakeTypes DEF Init, Lived, NotTold
<1>3. PlaceInv /\ FreshInv /\ ProgressInv /\ RecordInv /\ PolicyInv /\ JudgedInv
    BY <1>2 DEF PlaceInv, FreshInv, ProgressInv, RecordInv, PolicyInv, JudgedInv, Waking, Living
<1>4. NoUnrecordedWake /\ ChangeLeavesRecord /\ SilenceMeansCovered
    BY <1>2 DEF NoUnrecordedWake, ChangeLeavesRecord, SilenceMeansCovered
<1> QED BY <1>1, <1>3, <1>4 DEF Inv

\* ... and after every step.
LEMMA InvStep == Inv /\ [Next]_vars => Inv'
<1> SUFFICES ASSUME Inv, [Next]_vars PROVE Inv' OBVIOUS
<1>1. CASE Boot
    BY <1>1, BootStep
<1>2. CASE DeclineEvent \/ WakeEvent \/ Shutdown \/ Signal \/ Crash
    BY <1>2, DaemonStep
<1>3. CASE RunSession
    <2>1. CASE Resolve
        BY <2>1, ResolveStep
    <2>2. CASE RecordPlan \/ RecordWakeFacts \/ RecordManifest
        BY <2>2, InsertStep
    <2>3. CASE RecordDisclosure
        BY <2>3, RecordDisclosureStep
    <2>4. CASE Assemble
        BY <2>4, AssembleStep
    <2>5. CASE AppendInbound
        BY <2>5, AppendInboundStep
    <2>6. CASE Turn \/ TurnFails
        BY <2>6, LoopStep
    <2>7. CASE WriteActive \/ WriteCompleted \/ End
        BY <2>7, CheckpointStep
    <2>8. CASE Submit
        BY <2>8, SubmitStep
    <2> QED BY <1>3, <2>1, <2>2, <2>3, <2>4, <2>5, <2>6, <2>7, <2>8 DEF RunSession
<1>4. CASE Metabolise
    BY <1>4, MetaboliseStep
<1>5. CASE UNCHANGED vars
    BY <1>5 DEF vars, records, outcome, process, history, Inv, TypeOK, PlaceInv, FreshInv,
                ProgressInv, RecordInv, PolicyInv, JudgedInv, NoUnrecordedWake,
                ChangeLeavesRecord, SilenceMeansCovered, Lived
<1> QED BY <1>1, <1>2, <1>3, <1>4, <1>5 DEF Next

\* The inductive invariant holds in every reachable state, the types of the
\* tables, of RunSession's locals and of the history among them.
THEOREM Invariance == Spec => []Inv
BY InvInit, InvStep, PTL DEF Spec

\* Every reachable state is well typed; in particular T2 of a session never
\* exceeds the inbound event and one entry per iteration.
THEOREM TypeCorrect == Spec => []TypeOK
<1>1. Inv => TypeOK
    BY DEF Inv
<1> QED BY <1>1, Invariance, PTL

\* No experience without its records: whatever call of RunSession fails and
\* wherever the process dies, an agent that lives has its plan, wake facts,
\* manifest and, after a policy change, its configuration_applied row.
THEOREM WakesAreRecorded == Spec => []NoUnrecordedWake
<1>1. Inv => NoUnrecordedWake
    BY DEF Inv
<1> QED BY <1>1, Invariance, PTL

\* A change of policy between two lives always leaves a configuration_applied
\* row between them, whatever happened to the sessions that detected it.
THEOREM ChangesAreRecorded == Spec => []ChangeLeavesRecord
<1>1. Inv => ChangeLeavesRecord
    BY DEF Inv
<1> QED BY <1>1, Invariance, PTL

\* A prompt without a metabolism note is never wrong about the newest job,
\* although workers move it while the prompt is assembled.
THEOREM SilenceIsHonest == Spec => []SilenceMeansCovered
<1>1. Inv => SilenceMeansCovered
    BY DEF Inv
<1> QED BY <1>1, Invariance, PTL

\* No session logs a turn once its metabolism job exists.
THEOREM JobsSeeAllLogs == Spec => LogsBeforeJob
<1>1. ASSUME Inv, [Next]_vars, NEW s \in Sessions, job[s] # "none" PROVE t2'[s] = t2[s]
    <2>1. CASE Turn \/ TurnFails \/ AppendInbound
        <3>1. s # wake.session
            BY <1>1, <2>1 DEF Inv, ProgressInv, Turn, TurnFails, AppendInbound, Waking, Living
        <3>2. UNCHANGED t2 \/ \E n : t2' = [t2 EXCEPT ![wake.session] = n]
            BY <2>1 DEF Turn, TurnFails, AppendInbound, LogTurn, WarnOnly
        <3> QED BY <1>1, <3>1, <3>2 DEF Inv, TypeOK
    <2>2. CASE UNCHANGED t2
        BY <2>2
    <2>3. \/ Turn \/ TurnFails \/ AppendInbound
          \/ UNCHANGED t2
        BY <1>1 DEF Next, RunSession, Boot, DeclineEvent, WakeEvent, Shutdown, Resolve, RecordPlan,
                    RecordWakeFacts, RecordDisclosure, Assemble, RecordManifest, WriteActive, End,
                    WriteCompleted, Submit, Metabolise, Signal, Crash, outcome, vars
    <2> QED BY <2>1, <2>2, <2>3
<1>2. Inv /\ [Next]_vars => [\A s \in Sessions : job[s] # "none" => t2'[s] = t2[s]]_vars
    BY <1>1
<1> QED BY <1>2, Invariance, PTL DEF Spec, LogsBeforeJob

\* Rows that say completed or interrupted are final, and only the session in
\* hand, or the scan, changes an active one.
LEMMA RowsMove ==
    ASSUME Inv, [Next]_vars, NEW s \in Sessions
    PROVE  /\ checkpoint[s] \in {"completed", "interrupted"} => checkpoint'[s] = checkpoint[s]
           /\ checkpoint[s] = "active" /\ s < sessions => checkpoint'[s] \in {"active", "interrupted"}
<1>1. CASE WriteActive \/ WriteCompleted
    <2>1. /\ checkpoint[wake.session] \in {"none", "active"} /\ wake.session = sessions
          /\ sessions \in Nat
        BY <1>1 DEF Inv, ProgressInv, PlaceInv, TypeOK, WriteActive, WriteCompleted, Waking, Living
    <2>2. s < sessions => s # wake.session
        BY <2>1 DEF Sessions
    <2>3. UNCHANGED checkpoint \/ \E c : checkpoint' = [checkpoint EXCEPT ![wake.session] = c]
        BY <1>1 DEF WriteActive, WriteCompleted, WriteCheckpoint, WarnOnly
    <2> QED BY <2>1, <2>2, <2>3 DEF Inv, TypeOK
<1>2. CASE Boot
    <2>1. \/ UNCHANGED checkpoint
          \/ \E c \in 0 .. MaxSessions : InterruptStaleCheckpoints(StaleActive(c))
        BY <1>2 DEF Boot, scanInterruptedSessions
    <2> QED BY <2>1 DEF InterruptStaleCheckpoints, StaleActive
<1>3. CASE UNCHANGED checkpoint
    BY <1>3
<1>4. \/ WriteActive \/ WriteCompleted \/ Boot
      \/ UNCHANGED checkpoint
    BY DEF Next, RunSession, DeclineEvent, WakeEvent, Shutdown, Resolve, RecordPlan,
           RecordWakeFacts, RecordDisclosure, Assemble, RecordManifest, AppendInbound, Turn,
           TurnFails, End, Submit, Metabolise, Signal, Crash, outcome, vars
<1> QED BY <1>1, <1>2, <1>3, <1>4

\* A checkpoint that says completed or interrupted is never overwritten.
THEOREM SessionEndsAreFinal == Spec => CheckpointIsFinal
<1>1. ASSUME Inv, [Next]_vars, NEW s \in Sessions, checkpoint[s] \in {"completed", "interrupted"}
      PROVE  checkpoint'[s] = checkpoint[s]
    BY <1>1, RowsMove
<1>2. Inv /\ [Next]_vars =>
        [\A s \in Sessions : checkpoint[s] \in {"completed", "interrupted"} =>
            checkpoint'[s] = checkpoint[s]]_vars
    BY <1>1
<1> QED BY <1>2, Invariance, PTL DEF Spec, CheckpointIsFinal

-----------------------------------------------------------------------------
(* How a session ended, and what later ones were told of it.                *)

Interrupted(c, s) == \E u \in 1 .. s - 1 : c[u] = "interrupted"
Unfinished(c, s)  == \E u \in 1 .. s - 1 : c[u] \in {"active", "interrupted"}

\* A row stays active only in a session that was cut off or had ended already.
EndInv ==
    /\ \A s \in Sessions :
        /\ checkpoint[s] = "completed" \/ job[s] # "none" => s \in ended
        /\ checkpoint[s] = "interrupted" => s \in crashed \cup ended
        /\ checkpoint[s] = "active" => s \in crashed \cup ended \/ (pc = "end" /\ s = wake.session)
    /\ pc \in {"completed", "submit"} => wake.session \in ended

\* What the prompt says is what RunSession found.
CopyInv ==
    pc \in {"manifest", "inbound"} =>
        /\ told[wake.session].note = wake.noted /\ told[wake.session].prior = wake.prior
        /\ told[wake.session].source = wake.source /\ told[wake.session].policy = wake.policy

\* The startup note and the finding of the resolver, from the scan and the
\* query on to the prompts of the sessions that lived.
NoteInv ==
    /\ note = "yes" => Interrupted(checkpoint, sessions + 1)
    /\ pc = "resolve" /\ wake.noted = "yes" => Interrupted(checkpoint, sessions + 1)
    /\ pc \in Waking /\ wake.noted = "yes" => Interrupted(checkpoint, sessions)
    /\ pc \in Waking /\ wake.prior = "interrupted" => Unfinished(checkpoint, sessions)
    /\ \A s \in Sessions :
        /\ Lived(s) /\ told[s].note = "yes" => Interrupted(checkpoint, s)
        /\ Lived(s) /\ told[s].prior = "interrupted" => Unfinished(checkpoint, s)

-----------------------------------------------------------------------------
(* Policy changes while nothing fails.                                      *)

\* The hash that a policy leaves in configuration_applied.
AppliedOf(base) == IF base \in Policies THEN base ELSE "none"

\* Every session lives.
AliveInv ==
    disruptions = 0 =>
        /\ cancelled = "no"
        /\ \A s \in Sessions : s < sessions \/ (s = sessions /\ pc \notin Waking) => Lived(s)

Clean == disruptions = 0 /\ \A s \in Sessions : Lived(s) => told[s].source # "missing"

\* Between sessions the newest plan is the newest life's, and the newest
\* configuration_applied row agrees with it.
SettledInv ==
    Clean /\ pc \notin Waking =>
        /\ lastApplied = AppliedOf(lastPlan.base)
        /\ sessions > 0 => lastPlan.base = told[sessions].policy.base

\* Within one, a policy that is not the one before is going to be disclosed.
TakingInv ==
    Clean /\ pc \in Waking /\ wake.source # "missing" =>
        /\ wake.plan.base = wake.policy.base
        /\ pc # "plan" => lastPlan.base = wake.policy.base
        /\ pc \in {"plan", "facts", "disclose"} /\ wake.change = "yes" =>
              wake.hash = AppliedOf(wake.policy.base)
        /\ pc \in {"plan", "facts", "disclose"} /\ wake.change = "no" =>
              lastApplied = AppliedOf(wake.policy.base)
        /\ pc \in {"assemble", "manifest", "inbound"} => lastApplied = AppliedOf(wake.policy.base)
        /\ sessions > 1 /\ told[sessions - 1].policy.base # wake.policy.base => wake.change = "yes"

More == EndInv /\ CopyInv /\ NoteInv /\ AliveInv /\ SettledInv /\ TakingInv

LEMMA EndStep ==
    ASSUME Inv, EndInv, [Next]_vars PROVE EndInv'
<1> USE LifecycleAssumption DEF records, outcome, process, history
<1>1. TypeOK /\ PlaceInv
    BY DEF Inv
<1>2. CASE Boot
    <2>1. /\ pc = "down" /\ pc' \in {"serving", "resolve"} /\ UNCHANGED <<job, ended, crashed>>
          /\ \/ UNCHANGED checkpoint
             \/ \E c \in 0 .. MaxSessions : InterruptStaleCheckpoints(StaleActive(c))
        BY <1>2 DEF Boot, scanInterruptedSessions
    <2>2. \A s \in Sessions : \/ checkpoint'[s] = checkpoint[s]
                              \/ checkpoint[s] = "active" /\ checkpoint'[s] = "interrupted"
        BY <2>1 DEF InterruptStaleCheckpoints, StaleActive
    <2> QED BY <2>1, <2>2 DEF EndInv
<1>3. CASE Crash
    <2>1. /\ pc' = "down" /\ UNCHANGED <<checkpoint, job, ended>>
          /\ crashed' = crashed \cup ({wake.session} \cap Sessions)
        BY <1>3 DEF Crash
    <2> QED BY <2>1 DEF EndInv
<1>4. CASE WriteActive
    <2>1. /\ pc = "active" /\ pc' = "end" /\ UNCHANGED <<wake, job, ended, crashed>>
          /\ wake.session \in Sessions
          /\ UNCHANGED checkpoint \/ checkpoint' = [checkpoint EXCEPT ![wake.session] = "active"]
        BY <1>1, <1>4 DEF WriteActive, WriteCheckpoint, WarnOnly, GoOn, PlaceInv, Living
    <2> QED BY <1>1, <2>1 DEF EndInv, TypeOK
<1>5. CASE End
    <2>1. /\ pc = "end" /\ pc' = "completed" /\ UNCHANGED <<wake, checkpoint, job, crashed>>
          /\ ended' = ended \cup {wake.session}
        BY <1>5 DEF End, GoOn
    <2> QED BY <2>1 DEF EndInv
<1>6. CASE WriteCompleted
    <2>1. /\ pc = "completed" /\ pc' = "submit" /\ UNCHANGED <<wake, job, ended, crashed>>
          /\ wake.session \in Sessions
          /\ UNCHANGED checkpoint \/ checkpoint' = [checkpoint EXCEPT ![wake.session] = "completed"]
        BY <1>1, <1>6 DEF WriteCompleted, WriteCheckpoint, WarnOnly, GoOn, PlaceInv, Living
    <2> QED BY <1>1, <2>1 DEF EndInv, TypeOK
<1>7. CASE Submit
    <2>1. /\ pc = "submit" /\ pc' \in {"down", "serving"} /\ UNCHANGED <<checkpoint, ended, crashed>>
          /\ wake.session \in Sessions
          /\ UNCHANGED job \/ job' = [job EXCEPT ![wake.session] = "pending"]
        BY <1>1, <1>7 DEF Submit, WarnOnly, Returns, PlaceInv, Living
    <2> QED BY <1>1, <2>1 DEF EndInv, TypeOK
<1>8. CASE Metabolise
    <2>1. UNCHANGED <<pc, wake, checkpoint, ended, crashed>>
        BY <1>8 DEF Metabolise
    <2>2. \A s \in Sessions : job'[s] # "none" => job[s] # "none"
        BY <1>1, <1>8 DEF Metabolise, NextStatus, TypeOK
    <2> QED BY <2>1, <2>2 DEF EndInv
<1>9. CASE /\ UNCHANGED <<checkpoint, job, ended, crashed>>
           /\ \/ UNCHANGED <<pc, wake>>
              \/ pc \notin {"end", "completed", "submit"} /\ pc' \notin {"completed", "submit"}
    BY <1>9 DEF EndInv
<1>10. CASE DeclineEvent \/ WakeEvent \/ Shutdown \/ Signal \/ UNCHANGED vars
    <2>1. /\ UNCHANGED <<checkpoint, job, ended, crashed>>
          /\ \/ UNCHANGED <<pc, wake>>
             \/ pc \notin {"end", "completed", "submit"} /\ pc' \notin {"completed", "submit"}
        BY <1>10 DEF DeclineEvent, WakeEvent, Shutdown, Signal, vars
    <2> QED BY <1>9, <2>1
<1>11. CASE Resolve \/ RecordPlan \/ RecordWakeFacts \/ RecordDisclosure \/ Assemble \/ RecordManifest
            \/ AppendInbound \/ Turn \/ TurnFails
    <2>1. UNCHANGED <<checkpoint, job, ended, crashed>> /\ pc \notin {"end", "completed", "submit"}
        BY <1>11 DEF Resolve, RecordPlan, RecordWakeFacts, RecordDisclosure, Assemble, RecordManifest,
                     AppendInbound, Turn, TurnFails
    <2>2. pc' \notin {"completed", "submit"}
        BY <1>11 DEF Resolve, RecordPlan, RecordWakeFacts, RecordDisclosure, Assemble, RecordManifest,
                     AppendInbound, Turn, TurnFails, FailClosed, GoOn, Returns
    <2> QED BY <1>9, <2>1, <2>2
<1> QED BY <1>2, <1>3, <1>4, <1>5, <1>6, <1>7, <1>8, <1>10, <1>11 DEF Next, RunSession

\* A step that creates no session, writes no prompt and wakes nobody.
Quiet ==
    /\ UNCHANGED <<told, sessions>> /\ note' \in {note, "no"}
    /\ pc' = "resolve" => pc = "resolve" /\ UNCHANGED wake
    /\ pc' \in Waking => pc \in Waking /\ UNCHANGED wake
    /\ pc' \in {"manifest", "inbound"} => pc \in {"manifest", "inbound"}

LEMMA KindsOfSteps ==
    ASSUME [Next]_vars
    PROVE  Boot \/ WakeEvent \/ Resolve \/ Assemble \/ AppendInbound \/ Quiet
<1> USE DEF records, outcome, process, history
<1>1. CASE DeclineEvent \/ Shutdown \/ Signal \/ Crash \/ Metabolise \/ UNCHANGED vars
    BY <1>1 DEF DeclineEvent, Shutdown, Signal, Crash, Metabolise, vars, Quiet, Waking
<1>2. CASE RecordPlan \/ RecordWakeFacts \/ RecordDisclosure
    BY <1>2 DEF RecordPlan, RecordWakeFacts, RecordDisclosure, FailClosed, GoOn, Returns,
                Quiet, Waking
<1>3. CASE RecordManifest
    BY <1>3 DEF RecordManifest, FailClosed, GoOn, Returns, Quiet, Waking
<1>4. CASE Turn \/ TurnFails \/ WriteActive \/ End \/ WriteCompleted \/ Submit
    BY <1>4 DEF Turn, TurnFails, WriteActive, End, WriteCompleted, Submit, GoOn, Returns, Quiet, Waking
<1> QED BY <1>1, <1>2, <1>3, <1>4 DEF Next, RunSession

\* What the prompt of a session says when it is written.
LEMMA PromptWritten ==
    ASSUME Inv, Assemble
    PROVE  /\ pc = "assemble" /\ UNCHANGED <<records, outcome, note, sessions>>
           /\ wake.session = sessions /\ wake.session \in Sessions /\ ~Lived(wake.session)
           /\ \A s \in Sessions : s # wake.session => told'[s] = told[s]
           /\ told'[wake.session].lived # "yes"
           /\ \/ pc' \in {"down", "serving"} /\ (disruptions' # 0 \/ cancelled = "yes")
              \/ /\ pc' = "manifest" /\ UNCHANGED wake
                 /\ told'[wake.session].note = wake.noted /\ told'[wake.session].prior = wake.prior
                 /\ told'[wake.session].source = wake.source
                 /\ told'[wake.session].policy = wake.policy
<1> USE LifecycleAssumption
<1>1. /\ pc = "assemble" /\ UNCHANGED <<records, outcome, note, sessions>>
    BY DEF Assemble
<1>2. /\ wake.session \in Sessions /\ wake.session = sessions /\ ~Lived(wake.session)
      /\ told \in [Sessions -> Told] /\ disruptions \in Nat
    BY <1>1 DEF Inv, PlaceInv, ProgressInv, TypeOK, Waking
<1>3. CASE Refused /\ Returns /\ UNCHANGED told
    <2>1. pc' \in {"down", "serving"}
        BY <1>3 DEF Returns
    <2>2. disruptions' # 0 \/ cancelled = "yes"
        BY <1>2, <1>3 DEF Refused, Disrupt
    <2> QED BY <1>1, <1>2, <1>3, <2>1, <2>2 DEF Lived
<1>4. ASSUME NEW e, told' = [told EXCEPT ![wake.session] = e], GoOn("manifest"),
             e.lived = "no", e.note = wake.noted, e.prior = wake.prior,
             e.source = wake.source, e.policy = wake.policy
      PROVE  /\ \A s \in Sessions : s # wake.session => told'[s] = told[s]
             /\ told'[wake.session].lived # "yes"
             /\ pc' = "manifest" /\ UNCHANGED wake
             /\ told'[wake.session].note = wake.noted /\ told'[wake.session].prior = wake.prior
             /\ told'[wake.session].source = wake.source
             /\ told'[wake.session].policy = wake.policy
    <2>1. told'[wake.session] = e /\ \A s \in Sessions : s # wake.session => told'[s] = told[s]
        BY <1>2, <1>4
    <2>2. pc' = "manifest" /\ UNCHANGED wake
        BY <1>4 DEF GoOn
    <2> QED BY <1>4, <2>1, <2>2 DEF Lived
<1>5. CASE /\ \E c \in YesNo :
                 told' = [told EXCEPT ![wake.session] =
                            [lived |-> "no", policy |-> wake.policy, source |-> wake.source,
                             hash |-> wake.hash, checked |-> wake.checked,
                             prior |-> wake.prior, judged |-> wake.judged,
                             note |-> wake.noted, change |-> wake.change,
                             continuity |-> c,
                             meta |-> IF c = "yes" THEN MetabolismNote(wake.meta) ELSE "no"]]
           /\ GoOn("manifest")
    <2>1. PICK c \in YesNo :
                 told' = [told EXCEPT ![wake.session] =
                            [lived |-> "no", policy |-> wake.policy, source |-> wake.source,
                             hash |-> wake.hash, checked |-> wake.checked,
                             prior |-> wake.prior, judged |-> wake.judged,
                             note |-> wake.noted, change |-> wake.change,
                             continuity |-> c,
                             meta |-> IF c = "yes" THEN MetabolismNote(wake.meta) ELSE "no"]]
        BY <1>5
    <2> DEFINE e == [lived |-> "no", policy |-> wake.policy, source |-> wake.source,
                     hash |-> wake.hash, checked |-> wake.checked,
                     prior |-> wake.prior, judged |-> wake.judged,
                     note |-> wake.noted, change |-> wake.change,
                     continuity |-> c,
                     meta |-> IF c = "yes" THEN MetabolismNote(wake.meta) ELSE "no"]
    <2>2. /\ told' = [told EXCEPT ![wake.session] = e]
          /\ e.lived = "no" /\ e.note = wake.noted /\ e.prior = wake.prior
          /\ e.source = wake.source /\ e.policy = wake.policy
        BY <2>1
    <2> HIDE DEF e
    <2> QED BY <1>1, <1>2, <1>4, <1>5, <2>2
<1> QED BY <1>3, <1>5 DEF Assemble

\* What it says when the agent starts to live.
LEMMA LifeStarts ==
    ASSUME Inv, AppendInbound
    PROVE  /\ pc = "inbound" /\ pc' = "loop" /\ UNCHANGED <<records, checkpoint, note, sessions, wake>>
           /\ wake.session = sessions /\ wake.session \in Sessions /\ ~Lived(wake.session)
           /\ \A s \in Sessions : s # wake.session => told'[s] = told[s]
           /\ told'[wake.session].lived = "yes"
           /\ told'[wake.session].note = told[wake.session].note
           /\ told'[wake.session].prior = told[wake.session].prior
           /\ told'[wake.session].source = told[wake.session].source
           /\ told'[wake.session].policy = told[wake.session].policy
           /\ told'[wake.session].change = told[wake.session].change
<1>1. pc = "inbound" /\ pc' = "loop" /\ UNCHANGED <<records, checkpoint, note, sessions, wake>>
    BY DEF AppendInbound, GoOn
<1>2. /\ wake.session \in Sessions /\ wake.session = sessions /\ ~Lived(wake.session)
      /\ told \in [Sessions -> Told]
    BY <1>1 DEF Inv, PlaceInv, ProgressInv, TypeOK, Waking
<1> DEFINE e == [told[wake.session] EXCEPT !.lived = "yes"]
<1>3. told' = [told EXCEPT ![wake.session] = e] /\ told[wake.session] \in Told
    BY <1>2 DEF AppendInbound
<1>4. /\ e.lived = "yes" /\ e.note = told[wake.session].note /\ e.prior = told[wake.session].prior
      /\ e.source = told[wake.session].source /\ e.policy = told[wake.session].policy
      /\ e.change = told[wake.session].change
    BY <1>3 DEF Told
<1> HIDE DEF e
<1>5. told'[wake.session] = e /\ \A s \in Sessions : s # wake.session => told'[s] = told[s]
    BY <1>2, <1>3
<1> QED BY <1>1, <1>2, <1>4, <1>5 DEF Lived

LEMMA CopyStep ==
    ASSUME Inv, CopyInv, [Next]_vars PROVE CopyInv'
<1>1. CASE Boot \/ WakeEvent \/ Resolve
    BY <1>1 DEF Boot, WakeEvent, Resolve, CopyInv
<1>2. CASE Assemble
    BY <1>2, PromptWritten DEF CopyInv
<1>3. CASE AppendInbound
    BY <1>3, LifeStarts DEF CopyInv
<1>4. CASE Quiet
    BY <1>4 DEF Quiet, CopyInv, Waking
<1> QED BY <1>1, <1>2, <1>3, <1>4, KindsOfSteps

LEMMA NoteStep ==
    ASSUME Inv, CopyInv, NoteInv, [Next]_vars PROVE NoteInv'
<1> USE LifecycleAssumption
<1>1. TypeOK /\ PlaceInv /\ FreshInv /\ sessions \in 0 .. MaxSessions /\ sessions \in Nat
    BY DEF Inv, TypeOK
\* What was interrupted or unfinished stays so.
<1>2. ASSUME NEW t \in Nat, t <= sessions + 1, Interrupted(checkpoint, t) PROVE Interrupted(checkpoint', t)
    <2>1. PICK u \in 1 .. t - 1 : checkpoint[u] = "interrupted"
        BY <1>2 DEF Interrupted
    <2>2. u \in Sessions
        BY <1>1, <1>2, <2>1 DEF Sessions
    <2>3. checkpoint'[u] = "interrupted"
        BY <2>1, <2>2, RowsMove
    <2> QED BY <2>3 DEF Interrupted
<1>3. ASSUME NEW t \in Nat, t <= sessions, Unfinished(checkpoint, t) PROVE Unfinished(checkpoint', t)
    <2>1. PICK u \in 1 .. t - 1 : checkpoint[u] \in {"active", "interrupted"}
        BY <1>3 DEF Unfinished
    <2>2. u \in Sessions /\ u < sessions
        BY <1>1, <1>3, <2>1 DEF Sessions
    <2>3. checkpoint'[u] \in {"active", "interrupted"}
        BY <2>1, <2>2, RowsMove
    <2> QED BY <2>3 DEF Unfinished
<1>4. ASSUME NEW t \in Sessions, Lived(t)
      PROVE  /\ told[t].note = "yes" => Interrupted(checkpoint', t)
             /\ told[t].prior = "interrupted" => Unfinished(checkpoint', t)
    <2>1. t \in Nat /\ t <= sessions /\ t <= sessions + 1
        BY <1>1, <1>4 DEF FreshInv, Sessions
    <2> QED BY <1>2, <1>3, <1>4, <2>1 DEF NoteInv
<1>5. note = "yes" => Interrupted(checkpoint', sessions + 1)
    <2>1. sessions + 1 \in Nat /\ sessions + 1 <= sessions + 1 /\ sessions <= sessions
        BY <1>1
    <2> QED BY <1>2, <2>1 DEF NoteInv
<1>6. /\ pc = "resolve" /\ wake.noted = "yes" => Interrupted(checkpoint', sessions + 1)
      /\ pc \in Waking /\ wake.noted = "yes" => Interrupted(checkpoint', sessions)
      /\ pc \in Waking /\ wake.prior = "interrupted" => Unfinished(checkpoint', sessions)
    <2>1. sessions + 1 \in Nat /\ sessions + 1 <= sessions + 1 /\ sessions <= sessions + 1
          /\ sessions <= sessions
        BY <1>1
    <2> QED BY <1>1, <1>2, <1>3, <2>1 DEF NoteInv
<1>7. CASE Boot
    <2>1. /\ pc' \in {"serving", "resolve"} /\ UNCHANGED <<told, sessions>>
          /\ note' = "yes" \/ (pc' = "resolve" /\ wake'.noted = "yes") => Interrupted(checkpoint', sessions + 1)
        <3>1. PICK n \in YesNo, m \in Modes :
                /\ scanInterruptedSessions(n)
                /\ \/ m = "events" /\ note' = n /\ pc' = "serving" /\ UNCHANGED wake
                   \/ m = "oneshot" /\ note' = "no" /\ pc' = "resolve"
                      /\ wake' = [NoWake EXCEPT !.noted = n]
            BY <1>7 DEF Boot
        <3>2. UNCHANGED <<told, sessions>> /\ pc' \in {"serving", "resolve"}
            BY <1>7, <3>1 DEF Boot, history
        <3>3. note' = "yes" \/ (pc' = "resolve" /\ wake'.noted = "yes") => n = "yes"
            BY <3>1 DEF NoWake
        <3>4. ASSUME n = "yes" PROVE Interrupted(checkpoint', sessions + 1)
            <4>1. PICK c \in 0 .. MaxSessions : InterruptStaleCheckpoints(StaleActive(c)) /\ StaleActive(c) # {}
                BY <3>1, <3>4 DEF scanInterruptedSessions
            <4>2. PICK u \in 1 .. c : checkpoint[u] = "active"
                BY <4>1 DEF StaleActive
            <4>3. u \in Sessions /\ u \in StaleActive(c)
                BY <4>2 DEF Sessions, StaleActive
            <4>4. checkpoint'[u] = "interrupted"
                BY <4>1, <4>3 DEF InterruptStaleCheckpoints
            <4>5. u \in 1 .. (sessions + 1) - 1
                BY <1>1, <4>2, <4>3 DEF FreshInv, Sessions
            <4> QED BY <4>4, <4>5 DEF Interrupted
        <3> QED BY <3>2, <3>3, <3>4
    <2> QED BY <1>4, <2>1 DEF NoteInv, Lived, Waking
<1>8. CASE WakeEvent
    <2>1. /\ UNCHANGED <<told, sessions>> /\ pc' = "resolve" /\ note' = "no"
          /\ wake' = [NoWake EXCEPT !.noted = note, !.inbound = "yes"]
        BY <1>8 DEF WakeEvent, history
    <2>2. wake'.noted = note
        BY <2>1 DEF NoWake
    <2> QED BY <1>4, <1>5, <2>1, <2>2 DEF NoteInv, Lived, Waking
<1>9. CASE Resolve
    <2>1. /\ UNCHANGED <<told, note, checkpoint>> /\ pc = "resolve" /\ pc' = "plan"
          /\ sessions' = sessions + 1
        BY <1>9 DEF Resolve, history, outcome
    <2>2. /\ wake'.noted = wake.noted
          /\ \E failing \in SUBSET Queries : wake'.prior = PriorRuntime(failing)
        BY <1>9 DEF Resolve
    <2>3. wake'.prior = "interrupted" => Unfinished(checkpoint', sessions + 1)
        <3> SUFFICES ASSUME wake'.prior = "interrupted" PROVE Unfinished(checkpoint, sessions + 1)
            BY <2>1
        <3>1. lastCheckpoint # NoSession /\ checkpoint[lastCheckpoint] \in {"active", "interrupted"}
            BY <2>2 DEF PriorRuntime
        <3>2. lastCheckpoint \in Sessions
            BY <1>1, <3>1 DEF TypeOK
        <3>3. lastCheckpoint \in 1 .. (sessions + 1) - 1
            BY <1>1, <3>1, <3>2 DEF FreshInv, Sessions
        <3> QED BY <3>1, <3>3 DEF Unfinished
    <2>4. note' = "yes" => Interrupted(checkpoint', sessions' + 1)
        <3> SUFFICES ASSUME note = "yes" PROVE Interrupted(checkpoint, (sessions + 1) + 1)
            BY <2>1
        <3>1. PICK u \in 1 .. (sessions + 1) - 1 : checkpoint[u] = "interrupted"
            BY DEF NoteInv, Interrupted
        <3>2. u \in 1 .. ((sessions + 1) + 1) - 1
            BY <1>1, <3>1
        <3> QED BY <3>1, <3>2 DEF Interrupted
    <2> QED BY <1>4, <1>6, <2>1, <2>2, <2>3, <2>4 DEF NoteInv, Lived
<1>10. CASE Assemble
    <2>1. UNCHANGED <<note, sessions>> /\ \A t \in Sessions : Lived(t)' => Lived(t) /\ told'[t] = told[t]
        BY <1>10, PromptWritten DEF Lived
    <2>2. pc' \in {"down", "serving"} \/ (pc' = "manifest" /\ UNCHANGED wake /\ pc \in Waking)
        BY <1>10, PromptWritten DEF Waking
    <2> QED BY <1>4, <1>5, <1>6, <2>1, <2>2 DEF NoteInv, Waking
<1>11. CASE AppendInbound
    <2>1. /\ UNCHANGED <<note, sessions, wake>> /\ pc = "inbound" /\ pc' = "loop"
          /\ wake.session = sessions
          /\ \A t \in Sessions : t # wake.session => told'[t] = told[t]
          /\ told'[wake.session].note = wake.noted /\ told'[wake.session].prior = wake.prior
        BY <1>11, LifeStarts DEF CopyInv
    <2>2. ASSUME NEW t \in Sessions, Lived(t)'
          PROVE  /\ told'[t].note = "yes" => Interrupted(checkpoint', t)
                 /\ told'[t].prior = "interrupted" => Unfinished(checkpoint', t)
        <3>1. CASE t = wake.session
            BY <1>6, <2>1, <3>1 DEF Waking
        <3>2. CASE t # wake.session
            BY <1>4, <2>1, <2>2, <3>2 DEF Lived
        <3> QED BY <3>1, <3>2
    <2> QED BY <1>5, <2>1, <2>2 DEF NoteInv, Waking
<1>12. CASE Quiet
    BY <1>4, <1>5, <1>6, <1>12 DEF Quiet, NoteInv, Lived
<1> QED BY <1>7, <1>8, <1>9, <1>10, <1>11, <1>12, KindsOfSteps

\* The prompt of a session that lived is never written again, and only
\* AppendInbound starts a life.
LEMMA LivesAreKept ==
    ASSUME Inv, [Next]_vars
    PROVE  \A s \in Sessions :
             /\ Lived(s) => Lived(s)' /\ told'[s] = told[s]
             /\ ~AppendInbound /\ Lived(s)' => Lived(s)
<1>1. CASE Boot \/ WakeEvent \/ Resolve \/ Quiet
    <2>1. UNCHANGED told
        BY <1>1 DEF Boot, WakeEvent, Resolve, Quiet, history
    <2> QED BY <2>1 DEF Lived
<1>2. CASE Assemble
    BY <1>2, PromptWritten DEF Lived
<1>3. CASE AppendInbound
    BY <1>3, LifeStarts DEF Lived
<1> QED BY <1>1, <1>2, <1>3, KindsOfSteps

\* The steps of a daemon for which nothing fails, outside and inside the part
\* of RunSession that writes the records.
Rests ==
    /\ pc \notin Waking /\ pc' \notin Waking
    /\ UNCHANGED <<lastPlan, lastApplied, told, sessions>>
Proceeds ==
    /\ pc \in Waking /\ pc' \in Waking /\ UNCHANGED <<wake, told, sessions>>
    /\ \/ pc = "plan" /\ pc' = "facts" /\ lastPlan' = wake.plan /\ UNCHANGED lastApplied
       \/ /\ pc = "disclose" /\ pc' = "assemble" /\ UNCHANGED lastPlan
          /\ lastApplied' = IF wake.change = "yes" THEN wake.hash ELSE lastApplied
       \/ /\ UNCHANGED <<lastPlan, lastApplied>>
          /\ <<pc, pc'>> \in {<<"facts", "disclose">>, <<"manifest", "inbound">>} \/ UNCHANGED pc

LEMMA CalmSteps ==
    ASSUME Inv, AliveInv, [Next]_vars, disruptions' = 0
    PROVE  /\ disruptions = 0 /\ cancelled = "no" /\ cancelled' = "no"
           /\ Resolve \/ Assemble \/ AppendInbound \/ Rests \/ Proceeds
<1> USE DEF records, outcome, process, history
<1>1. ~Disrupt /\ ~AnswerLost /\ (Refused => cancelled = "yes")
    <2>1. disruptions \in Nat
        BY LifecycleAssumption DEF Inv, TypeOK
    <2> QED BY <2>1 DEF Disrupt, AnswerLost, Refused
<1>2. disruptions = 0
    <2>1. UNCHANGED disruptions \/ Disrupt
        BY DEF Next, RunSession, Boot, scanInterruptedSessions, DeclineEvent, WakeEvent, Shutdown,
               Resolve, Answers, RecordPlan, RecordWakeFacts, RecordDisclosure, Assemble,
               RecordManifest, AppendInbound, Turn, TurnFails, WriteActive, End, WriteCompleted,
               Submit, WriteCheckpoint, FailClosed, WarnOnly, Succeeds, AnswerLost, Refused,
               Metabolise, Signal, Crash, vars
    <2> QED BY <1>1, <2>1
<1>3. cancelled = "no"
    BY <1>2 DEF AliveInv
<1>4. ~Refused /\ ~Signal /\ ~Crash
    BY <1>1, <1>3 DEF Signal, Crash
<1>5. cancelled' = "no"
    BY <1>3, <1>4 DEF Next, RunSession, Boot, DeclineEvent, WakeEvent, Shutdown, Resolve, RecordPlan,
               RecordWakeFacts, RecordDisclosure, Assemble, RecordManifest, AppendInbound, Turn,
               TurnFails, WriteActive, End, WriteCompleted, Submit, Metabolise, vars
<1>6. CASE Boot \/ DeclineEvent \/ WakeEvent \/ Shutdown
    BY <1>2, <1>3, <1>5, <1>6 DEF Boot, DeclineEvent, WakeEvent, Shutdown, Rests, Waking
<1>7. CASE Turn \/ TurnFails \/ WriteActive \/ End \/ WriteCompleted \/ Submit
    BY <1>2, <1>3, <1>5, <1>7 DEF Turn, TurnFails, WriteActive, End, WriteCompleted, Submit, GoOn,
                                    Returns, Rests, Waking
<1>8. CASE Metabolise \/ UNCHANGED vars
    BY <1>2, <1>3, <1>5, <1>8 DEF Metabolise, vars, Rests, Proceeds
<1>9. CASE RecordPlan
    <2>1. /\ pc = "plan" /\ pc' = "facts" /\ UNCHANGED wake /\ lastPlan' = wake.plan
          /\ UNCHANGED <<lastApplied, told, sessions>>
        BY <1>1, <1>4, <1>9 DEF RecordPlan, FailClosed, GoOn
    <2> QED BY <1>2, <1>3, <1>5, <2>1 DEF Proceeds, Waking
<1>10. CASE RecordWakeFacts \/ RecordManifest
    <2>1. /\ <<pc, pc'>> \in {<<"facts", "disclose">>, <<"manifest", "inbound">>}
          /\ UNCHANGED <<wake, lastPlan, lastApplied, told, sessions>>
        BY <1>1, <1>4, <1>10 DEF RecordWakeFacts, RecordManifest, FailClosed, GoOn
    <2> QED BY <1>2, <1>3, <1>5, <2>1 DEF Proceeds, Waking
<1>11. CASE RecordDisclosure
    <2>1. /\ pc = "disclose" /\ pc' = "assemble" /\ UNCHANGED <<wake, lastPlan, told, sessions>>
          /\ lastApplied' = IF wake.change = "yes" THEN wake.hash ELSE lastApplied
        BY <1>1, <1>4, <1>11 DEF RecordDisclosure, FailClosed, GoOn
    <2> QED BY <1>2, <1>3, <1>5, <2>1 DEF Proceeds, Waking
<1> QED BY <1>2, <1>3, <1>4, <1>5, <1>6, <1>7, <1>8, <1>9, <1>10, <1>11 DEF Next, RunSession

\* What Assemble does when nothing fails.
LEMMA CalmAssemble ==
    ASSUME Inv, Assemble, disruptions' = 0, cancelled = "no"
    PROVE  /\ pc = "assemble" /\ pc' = "manifest"
           /\ UNCHANGED <<lastPlan, lastApplied, sessions, wake>>
           /\ \A s \in Sessions : s # sessions => told'[s] = told[s]
<1>1. /\ UNCHANGED records /\ pc = "assemble" /\ sessions' = sessions /\ wake.session = sessions
      /\ \A s \in Sessions : s # wake.session => told'[s] = told[s]
      /\ pc' = "manifest" /\ UNCHANGED wake
    BY PromptWritten
<1> QED BY <1>1 DEF records

LEMMA AliveStep ==
    ASSUME Inv, AliveInv, [Next]_vars PROVE AliveInv'
<1> SUFFICES ASSUME disruptions' = 0
             PROVE  /\ cancelled' = "no"
                    /\ \A s \in Sessions : s < sessions' \/ (s = sessions' /\ pc' \notin Waking) => Lived(s)'
    BY DEF AliveInv
<1>1. /\ disruptions = 0 /\ cancelled = "no" /\ cancelled' = "no"
      /\ Resolve \/ Assemble \/ AppendInbound \/ Rests \/ Proceeds
    BY CalmSteps
<1>2. \A s \in Sessions : s < sessions \/ (s = sessions /\ pc \notin Waking) => Lived(s)'
    BY <1>1, LivesAreKept DEF AliveInv
<1>3. sessions \in Nat
    BY LifecycleAssumption DEF Inv, TypeOK
<1>4. CASE Resolve
    <2>1. sessions' = sessions + 1 /\ pc = "resolve" /\ pc' = "plan"
        BY <1>4 DEF Resolve
    <2> QED BY <1>1, <1>2, <1>3, <2>1 DEF Sessions, Waking
<1>5. CASE Assemble
    BY <1>1, <1>2, <1>5, CalmAssemble DEF Waking
<1>6. CASE AppendInbound
    <2>1. sessions' = sessions /\ wake.session = sessions /\ told'[wake.session].lived = "yes"
        BY <1>6, LifeStarts
    <2> QED BY <1>1, <1>2, <2>1 DEF Lived
<1>7. CASE Rests \/ Proceeds
    BY <1>1, <1>2, <1>7 DEF Rests, Proceeds
<1> QED BY <1>1, <1>4, <1>5, <1>6, <1>7

\* A history that is clean has been so all along.
LEMMA CleanBefore ==
    ASSUME Inv, AliveInv, [Next]_vars, Clean' PROVE Clean
<1>1. disruptions' = 0 /\ \A s \in Sessions : Lived(s)' => told'[s].source # "missing"
    BY DEF Clean
<1>2. disruptions = 0
    BY <1>1, CalmSteps
<1> QED BY <1>1, <1>2, LivesAreKept DEF Clean

\* The session that starts to live in a clean history found a policy file.
LEMMA CleanLife ==
    ASSUME Inv, CopyInv, AppendInbound, Clean' PROVE wake.source # "missing"
<1>1. told'[wake.session].lived = "yes" /\ wake.session \in Sessions /\ pc = "inbound"
      /\ told'[wake.session].source = told[wake.session].source
    BY LifeStarts
<1>2. told'[wake.session].source # "missing"
    BY <1>1 DEF Clean, Lived
<1> QED BY <1>1, <1>2 DEF CopyInv

LEMMA SettledStep ==
    ASSUME Inv, CopyInv, AliveInv, SettledInv, TakingInv, [Next]_vars PROVE SettledInv'
<1> SUFFICES ASSUME Clean', pc' \notin Waking
             PROVE  /\ lastApplied' = AppliedOf(lastPlan'.base)
                    /\ sessions' > 0 => lastPlan'.base = told'[sessions'].policy.base
    BY DEF SettledInv, AppliedOf
<1>1. disruptions' = 0 /\ Clean
    BY CleanBefore DEF Clean
<1>2. cancelled = "no" /\ (Resolve \/ Assemble \/ AppendInbound \/ Rests \/ Proceeds)
    BY <1>1, CalmSteps
<1>3. CASE Resolve \/ Proceeds
    BY <1>3 DEF Resolve, Proceeds, Waking
<1>4. CASE Assemble
    BY <1>1, <1>2, <1>4, CalmAssemble DEF Waking
<1>5. CASE Rests
    BY <1>1, <1>5 DEF Rests, SettledInv
<1>6. CASE AppendInbound
    <2>1. /\ pc = "inbound" /\ UNCHANGED <<records, sessions>> /\ wake.session = sessions
          /\ told'[wake.session].policy = told[wake.session].policy
        BY <1>6, LifeStarts
    <2>2. told[wake.session].policy = wake.policy
        BY <2>1 DEF CopyInv
    <2>3. lastPlan.base = wake.policy.base /\ lastApplied = AppliedOf(wake.policy.base)
        BY <1>1, <1>6, <2>1, CleanLife DEF TakingInv, Waking
    <2> QED BY <2>1, <2>2, <2>3 DEF records
<1> QED BY <1>2, <1>3, <1>4, <1>5, <1>6

\* What RunSession makes of the file when no query fails.
LEMMA CalmResolve ==
    ASSUME Inv, Resolve, disruptions = 0, disruptions' = 0, cancelled = "no"
    PROVE  \E file \in Files :
             LET read == ReadPolicy(file, {})
             IN  /\ wake'.policy = read.policy /\ wake'.plan.base = read.policy.base
                 /\ wake'.source = read.source /\ wake'.hash = read.hash
                 /\ wake'.change = HasChanged(read.hash, {})
<1>1. PICK file \in Files, failing \in SUBSET Queries :
        /\ Answers(failing)
        /\ LET read  == ReadPolicy(file, failing)
               prior == PriorRuntime(failing)
           IN \E a \in resolveAssemblyProfile(read.policy, prior, failing) :
                wake' = [session |-> sessions + 1,
                         policy  |-> read.policy,
                         plan    |-> [base |-> read.policy.base, assembly |-> a],
                         source  |-> read.source,
                         hash    |-> read.hash,
                         checked |-> Checked(read.hash, failing),
                         change  |-> HasChanged(read.hash, failing),
                         prior   |-> prior,
                         meta    |-> PriorMetabolism(JudgedJob(failing)),
                         judged  |-> JudgedJob(failing),
                         noted   |-> wake.noted,
                         inbound |-> wake.inbound,
                         turns   |-> 0]
    BY DEF Resolve
<1>2. failing = {}
    BY <1>1 DEF Answers, Disrupt
<1> QED BY <1>1, <1>2

LEMMA TakingResolve ==
    ASSUME Inv, SettledInv, Clean, Resolve, disruptions' = 0, cancelled = "no",
           wake'.source # "missing"
    PROVE  /\ wake'.plan.base = wake'.policy.base
           /\ wake'.change = "yes" => wake'.hash = AppliedOf(wake'.policy.base)
           /\ wake'.change # "yes" => lastApplied = AppliedOf(wake'.policy.base)
           /\ sessions > 0 /\ told[sessions].policy.base # wake'.policy.base => wake'.change = "yes"
<1> USE LifecycleAssumption
<1>1. pc = "resolve" /\ pc \notin Waking /\ disruptions = 0
    BY DEF Resolve, Waking, Clean
<1>2. /\ lastApplied = AppliedOf(lastPlan.base)
      /\ sessions > 0 => lastPlan.base = told[sessions].policy.base
    BY <1>1 DEF SettledInv
<1>3. PICK file \in Files :
             /\ wake'.policy = ReadPolicy(file, {}).policy
             /\ wake'.plan.base = ReadPolicy(file, {}).policy.base
             /\ wake'.source = ReadPolicy(file, {}).source /\ wake'.hash = ReadPolicy(file, {}).hash
             /\ wake'.change = HasChanged(ReadPolicy(file, {}).hash, {})
    BY <1>1, CalmResolve
<1>4. CASE file \in Policies
    <2>1. ReadPolicy(file, {}).policy.base = file /\ ReadPolicy(file, {}).hash = file
        BY <1>4 DEF ReadPolicy, PolicyOf
    <2>2. file # "none" /\ AppliedOf(file) = file
        BY <1>4 DEF AppliedOf
    <2>3. wake'.change = IF file # lastApplied THEN "yes" ELSE "no"
        BY <1>3, <2>1, <2>2 DEF HasChanged, Checked
    <2>4. lastPlan.base # file => lastApplied # file
        BY <1>2, <2>2 DEF AppliedOf
    <2> QED BY <1>2, <1>3, <2>1, <2>2, <2>3, <2>4
<1>5. CASE file = "invalid"
    <2>1. file \notin Policies
        BY <1>5
    <2>2. ReadPolicy(file, {}).policy = queryLastPolicy({}) /\ ReadPolicy(file, {}).hash = "none"
        BY <1>5, <2>1 DEF ReadPolicy
    <2>3. wake'.change = "no"
        BY <1>3, <2>2 DEF HasChanged, Checked
    <2>4. CASE lastPlan = NoPlan
        <3>1. lastPlan.base = "none" /\ wake'.policy.base = "default"
            BY <1>3, <2>2, <2>4 DEF NoPlan, DefaultPolicy, queryLastPolicy
        <3>2. lastApplied = "none" /\ AppliedOf("default") = "none"
            BY <1>2, <3>1 DEF AppliedOf
        <3>3. ~(sessions > 0)
            <4>1. ASSUME sessions > 0 PROVE FALSE
                <5>1. sessions \in Sessions /\ told \in [Sessions -> Told]
                    BY <4>1 DEF Inv, TypeOK, Sessions
                <5>2. told[sessions].policy \in Policy
                    BY <5>1 DEF Told
                <5>3. told[sessions].policy.base # "none"
                    BY <5>2 DEF Policy
                <5> QED BY <1>2, <3>1, <4>1, <5>3
            <4> QED BY <4>1
        <3> QED BY <1>3, <2>3, <3>1, <3>2, <3>3
    <2>5. CASE lastPlan # NoPlan
        <3>1. wake'.policy = lastPlan
            BY <1>3, <2>2, <2>5 DEF queryLastPolicy
        <3> QED BY <1>2, <1>3, <2>3, <3>1
    <2> QED BY <2>4, <2>5
<1>6. CASE file = "missing"
    <2>1. ReadPolicy(file, {}).source = "missing"
        BY <1>6 DEF ReadPolicy
    <2> QED BY <1>3, <2>1
<1> QED BY <1>4, <1>5, <1>6 DEF Files

LEMMA TakingStep ==
    ASSUME Inv, AliveInv, SettledInv, TakingInv, [Next]_vars PROVE TakingInv'
<1> SUFFICES ASSUME Clean', pc' \in Waking, wake'.source # "missing"
             PROVE  TakingInv'
    BY DEF TakingInv
<1>1. disruptions' = 0 /\ Clean /\ sessions \in Nat /\ sessions \in 0 .. MaxSessions
    BY CleanBefore, LifecycleAssumption DEF Clean, Inv, TypeOK
<1>2. cancelled = "no" /\ (Resolve \/ Assemble \/ AppendInbound \/ Rests \/ Proceeds)
    BY <1>1, CalmSteps
<1>3. CASE Resolve
    <2>1. /\ pc = "resolve" /\ pc' = "plan" /\ sessions' = sessions + 1
          /\ UNCHANGED <<lastPlan, lastApplied, told>>
        BY <1>3 DEF Resolve, records, history
    <2>2. /\ wake'.plan.base = wake'.policy.base
          /\ wake'.change = "yes" => wake'.hash = AppliedOf(wake'.policy.base)
          /\ wake'.change # "yes" => lastApplied = AppliedOf(wake'.policy.base)
          /\ sessions > 0 /\ told[sessions].policy.base # wake'.policy.base => wake'.change = "yes"
        BY <1>1, <1>2, <1>3, TakingResolve
    <2>3. sessions' - 1 = sessions /\ (sessions' > 1 => sessions > 0)
        BY <1>1, <2>1
    <2> QED BY <2>1, <2>2, <2>3 DEF TakingInv, AppliedOf
<1>4. CASE Assemble
    <2>1. /\ pc = "assemble" /\ pc' = "manifest" /\ UNCHANGED <<lastPlan, lastApplied, sessions, wake>>
          /\ \A s \in Sessions : s # sessions => told'[s] = told[s]
        BY <1>1, <1>2, <1>4, CalmAssemble
    <2>2. sessions > 1 => told'[sessions - 1] = told[sessions - 1]
        <3>1. ASSUME sessions > 1 PROVE sessions - 1 \in Sessions /\ sessions - 1 # sessions
            BY <1>1, <3>1, LifecycleAssumption DEF Sessions
        <3> QED BY <2>1, <3>1
    <2> QED BY <1>1, <2>1, <2>2 DEF TakingInv, AppliedOf, Waking
<1>5. CASE AppendInbound
    BY <1>5, LifeStarts DEF Waking
<1>6. CASE Rests
    BY <1>6 DEF Rests
<1>7. CASE Proceeds
    <2>1. /\ wake.plan.base = wake.policy.base
          /\ pc # "plan" => lastPlan.base = wake.policy.base
          /\ pc \in {"plan", "facts", "disclose"} /\ wake.change = "yes" =>
                wake.hash = AppliedOf(wake.policy.base)
          /\ pc \in {"plan", "facts", "disclose"} /\ wake.change = "no" =>
                lastApplied = AppliedOf(wake.policy.base)
          /\ pc \in {"assemble", "manifest", "inbound"} => lastApplied = AppliedOf(wake.policy.base)
          /\ sessions > 1 /\ told[sessions - 1].policy.base # wake.policy.base => wake.change = "yes"
        BY <1>1, <1>7 DEF Proceeds, TakingInv
    <2>2. wake.change \in {"yes", "no"} /\ pc \in Waking /\ UNCHANGED <<wake, told, sessions>>
        <3>1. wake \in Wake
            BY DEF Inv, TypeOK
        <3> QED BY <1>7, <3>1 DEF Proceeds, Wake, YesNo
    <2>3. CASE pc = "plan" /\ pc' = "facts" /\ lastPlan' = wake.plan /\ UNCHANGED lastApplied
        BY <2>1, <2>2, <2>3 DEF TakingInv, AppliedOf
    <2>4. CASE /\ pc = "disclose" /\ pc' = "assemble" /\ UNCHANGED lastPlan
               /\ lastApplied' = IF wake.change = "yes" THEN wake.hash ELSE lastApplied
        BY <2>1, <2>2, <2>4 DEF TakingInv, AppliedOf
    <2>5. CASE UNCHANGED <<lastPlan, lastApplied, pc>>
        BY <2>1, <2>2, <2>5 DEF TakingInv, AppliedOf
    <2>6. CASE UNCHANGED <<lastPlan, lastApplied>> /\
               <<pc, pc'>> \in {<<"facts", "disclose">>, <<"manifest", "inbound">>}
        BY <2>1, <2>2, <2>6 DEF TakingInv, AppliedOf
    <2> QED BY <1>7, <2>3, <2>4, <2>5, <2>6 DEF Proceeds
<1> QED BY <1>2, <1>3, <1>4, <1>5, <1>6, <1>7

LEMMA DisclosedStep ==
    ASSUME Inv, CopyInv, AliveInv, TakingInv, DisclosedUnlessFailed, [Next]_vars
    PROVE  DisclosedUnlessFailed'
<1> SUFFICES ASSUME Clean', NEW s \in Sessions, NEW t \in Sessions, Successive(s, t)',
                    told'[s].policy.base # told'[t].policy.base
             PROVE  told'[t].change = "yes"
    BY DEF DisclosedUnlessFailed, Clean
<1>1. Clean /\ disruptions = 0
    BY CleanBefore DEF Clean
<1>2. /\ s < t /\ Lived(s)' /\ Lived(t)'
      /\ \A u \in Sessions : s < u /\ u < t => ~Lived(u)'
    BY DEF Successive
<1>3. ASSUME Successive(s, t) PROVE told'[t].change = "yes"
    <2>1. told'[s] = told[s] /\ told'[t] = told[t]
        BY <1>3, LivesAreKept DEF Successive
    <2> QED BY <1>1, <1>3, <2>1 DEF DisclosedUnlessFailed, Clean
<1>4. ASSUME Lived(s), Lived(t) PROVE told'[t].change = "yes"
    <2>1. \A u \in Sessions : s < u /\ u < t => ~Lived(u)
        BY <1>2, LivesAreKept
    <2> QED BY <1>2, <1>3, <1>4, <2>1 DEF Successive
<1>5. CASE ~AppendInbound
    BY <1>2, <1>4, <1>5, LivesAreKept
<1>6. CASE AppendInbound
    <2>1. /\ pc = "inbound" /\ wake.session = sessions /\ sessions \in Sessions
          /\ \A u \in Sessions : u # sessions => told'[u] = told[u]
          /\ told'[sessions].policy = told[sessions].policy
          /\ told'[sessions].change = told[sessions].change
        BY <1>6, LifeStarts
    <2>2. \A u \in Sessions : u # sessions /\ Lived(u)' => Lived(u)
        BY <2>1 DEF Lived
    <2>3. \A u \in Sessions : Lived(u) => u <= sessions
        BY <2>1 DEF Inv, FreshInv, Sessions
    <2>4. s # sessions
        BY <1>2, <2>1, <2>2, <2>3 DEF Sessions
    <2>5. CASE t # sessions
        BY <1>2, <1>4, <2>2, <2>4, <2>5
    <2>6. CASE t = sessions
        <3>1. s = sessions - 1 /\ sessions > 1
            <4>1. sessions - 1 \in Sessions /\ sessions > 1 /\ s <= sessions - 1
                BY <1>2, <2>1, <2>6, LifecycleAssumption DEF Sessions
            <4>2. sessions - 1 < sessions /\ sessions - 1 # sessions
                BY <2>1, LifecycleAssumption DEF Sessions
            <4>3. Lived(sessions - 1)
                BY <1>1, <4>1, <4>2 DEF AliveInv
            <4>4. told'[sessions - 1] = told[sessions - 1]
                BY <2>1, <4>1, <4>2
            <4>5. told'[sessions - 1].lived = "yes"
                BY <4>3, <4>4 DEF Lived
            <4>6. ~(s < sessions - 1)
                BY <1>2, <2>6, <4>1, <4>2, <4>5 DEF Lived
            <4> QED BY <2>1, <4>1, <4>6 DEF Sessions
        <3>2. told'[s].policy = told[sessions - 1].policy /\ told'[t].policy = wake.policy
              /\ told'[t].change = wake.change
            BY <2>1, <2>4, <2>6, <3>1 DEF CopyInv, Inv, RecordInv
        <3>3. told[sessions - 1].policy.base # wake.policy.base
            BY <3>2
        <3>4. wake.source # "missing"
            BY <1>6, CleanLife
        <3>5. wake.change = "yes"
            BY <1>1, <2>1, <3>1, <3>3, <3>4 DEF TakingInv, Waking
        <3> QED BY <3>2, <3>5
    <2> QED BY <2>5, <2>6
<1> QED BY <1>5, <1>6

LEMMA MoreInit == Init => More /\ DisclosedUnlessFailed
<1> SUFFICES ASSUME Init PROVE More /\ DisclosedUnlessFailed
    OBVIOUS
<1> USE LifecycleAssumption
<1>1. /\ pc = "down" /\ note = "no" /\ cancelled = "no" /\ sessions = 0
      /\ lastPlan.base = "none" /\ lastApplied = "none"
      /\ \A s \in Sessions : checkpoint[s] = "none" /\ job[s] = "none" /\ ~Lived(s)
    BY DEF Init, Lived, NotTold, NoPlan
<1>2. EndInv /\ CopyInv
    BY <1>1 DEF EndInv, CopyInv
<1>3. NoteInv
    BY <1>1 DEF NoteInv, Waking
<1>4. AliveInv
    BY <1>1 DEF AliveInv, Sessions
<1>5. SettledInv /\ TakingInv
    BY <1>1 DEF SettledInv, TakingInv, AppliedOf, Waking
<1>6. DisclosedUnlessFailed
    BY <1>1 DEF DisclosedUnlessFailed, Successive
<1> QED BY <1>2, <1>3, <1>4, <1>5, <1>6 DEF More

\* The second inductive invariant, that carries the ends of sessions and, as
\* long as nothing fails, the chain from a policy file to the prompt.
THEOREM MoreInvariance == Spec => [](Inv /\ More /\ DisclosedUnlessFailed)
<1>1. Init => More /\ DisclosedUnlessFailed
    BY MoreInit
<1>2. Inv /\ More /\ DisclosedUnlessFailed /\ [Next]_vars => (More /\ DisclosedUnlessFailed)'
    <2> SUFFICES ASSUME Inv, More, DisclosedUnlessFailed, [Next]_vars
                 PROVE  (More /\ DisclosedUnlessFailed)'
        OBVIOUS
    <2>1. EndInv /\ CopyInv /\ NoteInv /\ AliveInv /\ SettledInv /\ TakingInv
        BY DEF More
    <2>2. EndInv' /\ CopyInv' /\ NoteInv'
        BY <2>1, EndStep, CopyStep, NoteStep
    <2>3. AliveInv' /\ SettledInv' /\ TakingInv' /\ DisclosedUnlessFailed'
        BY <2>1, AliveStep, SettledStep, TakingStep, DisclosedStep
    <2> QED BY <2>2, <2>3 DEF More
<1> QED BY <1>1, <1>2, Invariance, PTL DEF Spec

\* Checkpoints, jobs, the startup note and the resolver's finding say of a
\* session only what happened to it, wherever the process died and whichever
\* write was lost.
THEOREM EndingsAreHonest == Spec => []EndingsAreTrue
<1>1. More => EndingsAreTrue
    BY DEF More, EndInv, NoteInv, EndingsAreTrue, Interrupted, Unfinished
<1> QED BY <1>1, MoreInvariance, PTL

\* As long as no call fails and no session finds the policy file missing, a
\* change of policy between two successive lives is announced in the prompt
\* of the second.
THEOREM ChangesAreDisclosed == Spec => []DisclosedUnlessFailed
BY MoreInvariance, PTL

=============================================================================

---------------------------- MODULE JobContract -----------------------------
(***************************************************************************)
(* What metabolism promises of one session's job, without leases, tokens,  *)
(* processes or failures: an opened job gets a bounded number of attempts, *)
(* its experience is covered by a narrative once and stays covered, and it *)
(* is settled once - as completed only when nothing is left uncovered, or  *)
(* handed to review only while it is.                                      *)
(***************************************************************************)
EXTENDS Naturals

CONSTANTS Jobs, MaxAttempts

VARIABLES phase,     \* the life of each job
          attempts,  \* attempts made at it
          covered    \* the jobs whose experience a narrative covers, or is empty

contractVars == <<phase, attempts, covered>>

Phase == {"absent", "open", "completed", "review"}

Init ==
    /\ phase = [j \in Jobs |-> "absent"]
    /\ attempts = [j \in Jobs |-> 0]
    /\ covered = Jobs

\* A session that logged nothing has nothing to cover.
Open(j) ==
    /\ phase[j] = "absent"
    /\ phase' = [phase EXCEPT ![j] = "open"]
    /\ covered' \in {covered, covered \ {j}}
    /\ UNCHANGED attempts

Attempt(j) ==
    /\ phase[j] = "open"
    /\ attempts[j] < MaxAttempts
    /\ attempts' = [attempts EXCEPT ![j] = @ + 1]
    /\ UNCHANGED <<phase, covered>>

Cover(j) ==
    /\ phase[j] = "open"
    /\ attempts[j] > 0
    /\ j \notin covered
    /\ covered' = covered \cup {j}
    /\ UNCHANGED <<phase, attempts>>

Settle(j) ==
    /\ phase[j] = "open"
    /\ attempts[j] > 0
    /\ phase' = [phase EXCEPT ![j] = IF j \in covered THEN "completed" ELSE "review"]
    /\ UNCHANGED <<attempts, covered>>

Next == \E j \in Jobs : \/ Open(j)
                        \/ Attempt(j)
                        \/ Cover(j)
                        \/ Settle(j)

Spec == Init /\ [][Next]_contractVars
=============================================================================

------------------------------ MODULE JobStore ------------------------------
(***************************************************************************)
(* The rows of metabolism_jobs and what each statement of the job store    *)
(* does to one row (internal/platform/storage/jobs_sqlite.go; the Postgres *)
(* store issues the same statements in its own dialect).                   *)
(*                                                                         *)
(* Timestamps are abstracted to what the statements compare: a lease has   *)
(* `lapsed' once started_at lies further back than the claimer allows      *)
(* (five minutes).  Claim tokens are numbers; NoToken is SQL NULL.         *)
(***************************************************************************)
EXTENDS Naturals

CONSTANTS MaxClaimCount,  \* claims a job may ever receive (5 in the code)
          MaxRetries      \* recorded failures after which recovery ignores it (3)

ASSUME BoundsAssumption == /\ MaxClaimCount \in Nat \ {0}
                           /\ MaxRetries \in Nat \ {0}

NoToken == 0

JobStatus == {"absent", "pending", "running", "completed", "failed", "review_required"}
Terminal  == {"completed", "review_required"}
Lease     == {"fresh", "lapsed"}

Row == [status: JobStatus, token: Nat, claims: Nat, retries: Nat, lease: Lease]

\* No row yet: the session has not been submitted.
NoRow == [status |-> "absent", token |-> NoToken, claims |-> 0, retries |-> 0, lease |-> "fresh"]

\* The row Commit inserts.
Committed == [NoRow EXCEPT !.status = "pending"]

-----------------------------------------------------------------------------
\* Mutants of Claimable: the claim_count guard dropped; a running row never
\* claimable, however old its lease.
ClaimableUnbounded(r) ==
    \/ r.status \in {"pending", "failed"}
    \/ r.status = "running" /\ r.lease = "lapsed"

ClaimableNeverStale(r) ==
    r.claims < MaxClaimCount /\ r.status \in {"pending", "failed"}

\* The WHERE clause of Claim.
Claimable(r) ==
    /\ r.claims < MaxClaimCount
    /\ \/ r.status \in {"pending", "failed"}
       \/ r.status = "running" /\ r.lease = "lapsed"

Claimed(r, tok) ==
    [status |-> "running", token |-> tok, claims |-> r.claims + 1,
     retries |-> r.retries, lease |-> "fresh"]

\* Mutant of Holds: WHERE id = ? alone.
HoldsUnfenced(r, tok) == TRUE

\* The WHERE clause of Complete, Fail and MarkReviewRequired: the claim token
\* is compared, the status is not.
Holds(r, tok) == r.token = tok

Completed(r) == [r EXCEPT !.status = "completed"]

Failed(r) == [status |-> "failed", token |-> r.token, claims |-> r.claims,
              retries |-> r.retries + 1, lease |-> r.lease]

\* Mutant of ReviewRequired: the status of Complete.
ReviewAsCompleted(r) == Completed(r)

ReviewRequired(r) == [r EXCEPT !.status = "review_required"]

\* The WHERE clause of the startup recovery scan.
Recoverable(r) ==
    /\ r.status \in {"pending", "running", "failed"}
    /\ r.retries < MaxRetries
    /\ r.claims < MaxClaimCount

\* Time passes the lease of a running claim.
LeaseLapsed(r) == [r EXCEPT !.lease = "lapsed"]
=============================================================================

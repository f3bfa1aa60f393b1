------------------------------ MODULE Identity ------------------------------
(***************************************************************************)
(* The identity phase: every session loads the identity documents, checks  *)
(* their hashes against the anchors in the database, anchors the documents *)
(* it sees for the first time, and on a fresh identity asks for a witness  *)
(* letter.  Each query and each upsert is a step of its own, so a crash, a *)
(* failing statement, an edit on disk or another process may come between. *)
(*                                                                         *)
(* A document is represented by its content; SHA-256 is taken to tell      *)
(* contents apart.                                                         *)
(***************************************************************************)
EXTENDS Integers, FiniteSets

CONSTANTS
    Processes,       \* processes that assemble sessions on one database
    Docs,            \* KnownDocs
    Contents,        \* what a document may say
    Absent,          \* no such file, or no such row
    HasAnchorStore,  \* whether cfg.anchors was set
    MaxEdits,        \* bound: changes made to files, and amendments
    MaxFaults        \* bound: failing calls and crashes

ASSUME AbsentAssumption == Absent \notin Contents
ASSUME StoreAssumption == HasAnchorStore \in BOOLEAN
ASSUME BoundAssumption == MaxEdits \in Nat /\ MaxFaults \in Nat

VARIABLES
    disk,        \* the files
    anchors,     \* identity_anchors: doc_name -> sha256_hash
    amendments,  \* identity_amendments: doc_name -> the new_hash values on record
    letter,      \* a witness_letter row is in founding_records
    bypass,      \* the witness_check_bypassed row: "no", "logged", or "lost" in a failed insert
    at,          \* where each process is in IdentityPhase.Assemble
    loaded,      \* the documents it has loaded
    report,      \* its IntegrityReport, one status per document
    todo,        \* New documents whose anchor it has still to write
    skip,        \* its SKIP_WITNESS_CHECK
    edits, faults,
    lived,       \* history: the versions of each document sessions were run with
    woken,       \* history: some session got past this phase
    gap          \* history: a fresh boot ended between an anchor and the verdict

vars == <<disk, anchors, amendments, letter, bypass, at, loaded, report, todo, skip,
          edits, faults, lived, woken, gap>>
database == <<anchors, amendments, letter, bypass>>
history == <<lived, woken, gap>>

Versions == Contents \cup {Absent}
Statuses == {"Unread", "New", "Match", "Amendment", "Tampering"}

TypeOK ==
    /\ disk \in [Docs -> Versions]
    /\ anchors \in [Docs -> Versions]
    /\ amendments \in [Docs -> SUBSET Contents]
    /\ letter \in BOOLEAN /\ bypass \in {"no", "logged", "lost"}
    /\ at \in [Processes -> {"idle", "verifying", "anchoring", "live"}]
    /\ loaded \in [Processes -> [Docs -> Versions]]
    /\ report \in [Processes -> [Docs -> Statuses]]
    /\ todo \in [Processes -> SUBSET Docs]
    /\ skip \in [Processes -> BOOLEAN]
    /\ edits \in 0..MaxEdits /\ faults \in 0..MaxFaults
    /\ lived \in [Docs -> SUBSET Contents]
    /\ woken \in BOOLEAN /\ gap \in BOOLEAN

Init ==
    /\ disk \in [Docs -> Versions]
    /\ anchors = [d \in Docs |-> Absent]
    /\ amendments = [d \in Docs |-> {}]
    /\ letter \in BOOLEAN /\ bypass = "no"
    /\ at = [p \in Processes |-> "idle"]
    /\ loaded = [p \in Processes |-> [d \in Docs |-> Absent]]
    /\ report = [p \in Processes |-> [d \in Docs |-> "Unread"]]
    /\ todo = [p \in Processes |-> {}]
    /\ skip = [p \in Processes |-> FALSE]
    /\ edits = 0 /\ faults = 0
    /\ lived = [d \in Docs |-> {}]
    /\ woken = FALSE /\ gap = FALSE

-----------------------------------------------------------------------------
(* What the phase computes.                                                 *)

\* Mutant: an amendment does not excuse a change.
StatusStrict(current, stored, amended) ==
    CASE stored = Absent -> "New" [] stored = current -> "Match" [] OTHER -> "Tampering"

\* VerifyAnchors, one document: findAmendmentByNewHash looks for the hash in
\* any amendment of the document, whatever its old_hash.
Status(current, stored, amended) ==
    CASE stored = Absent -> "New"
      [] stored = current -> "Match"
      [] stored \notin {Absent, current} /\ current \in amended -> "Amendment"
      [] OTHER -> "Tampering"

OnDisk(p) == {d \in Docs : loaded[p][d] # Absent}

\* Mutant: missing files are optional, anchored or not.
DeletedIsOptional(p) == {}

\* Anchored documents that were not loaded: a deleted file is tampering.
Deleted(p) == {d \in Docs \ OnDisk(p) : anchors[d] # Absent}

HasTampering(p) == Deleted(p) # {} \/ \E d \in OnDisk(p) : report[p][d] = "Tampering"

\* Mutant: a report without files is not a first boot.
AllNewAndSome(p) == OnDisk(p) # {} /\ \A d \in OnDisk(p) : report[p][d] = "New"

\* All files of the report are New; so is a report without files.
AllNew(p) == \A d \in OnDisk(p) : report[p][d] = "New"

\* A boot of a fresh identity that has written an anchor.
InGap(p) == at[p] = "anchoring" /\ AllNew(p) /\ todo[p] # OnDisk(p)

-----------------------------------------------------------------------------
(* IdentityPhase.Assemble.                                                  *)

\* The phase returns no error: the session is run with the loaded documents.
Live(p, docs) ==
    /\ at' = [at EXCEPT ![p] = "live"]
    /\ lived' = [d \in Docs |-> lived[d] \cup ({docs[d]} \ {Absent})]
    /\ woken' = TRUE
    /\ UNCHANGED gap

\* The phase's local state, before it starts and after it is over.
Forget(p) ==
    /\ loaded' = [loaded EXCEPT ![p] = [d \in Docs |-> Absent]]
    /\ report' = [report EXCEPT ![p] = [d \in Docs |-> "Unread"]]
    /\ todo' = [todo EXCEPT ![p] = {}]
    /\ skip' = [skip EXCEPT ![p] = FALSE]

\* A fatal error, or the end of the process: the next session starts over.
Abort(p) ==
    /\ at' = [at EXCEPT ![p] = "idle"]
    /\ gap' = (gap \/ InGap(p))
    /\ Forget(p)
    /\ UNCHANGED <<disk, database, edits, lived, woken>>

\* A call fails, or the process dies.
Fault(p) ==
    /\ at[p] # "idle" /\ faults < MaxFaults
    /\ faults' = faults + 1
    /\ Abort(p)

\* LoadDocuments skips missing files.  Without an anchor store nothing is
\* verified and the phase is over.
LoadDocuments(p) ==
    /\ at[p] = "idle"
    /\ loaded' = [loaded EXCEPT ![p] = disk]
    /\ \E s \in BOOLEAN : skip' = [skip EXCEPT ![p] = s]
    /\ IF HasAnchorStore
       THEN at' = [at EXCEPT ![p] = "verifying"] /\ UNCHANGED history
       ELSE Live(p, disk)
    /\ UNCHANGED <<disk, database, report, todo, edits, faults>>

\* GetAnchor and, if the hash differs, ListAmendments.
VerifyDoc(p, d) ==
    /\ at[p] = "verifying" /\ d \in OnDisk(p) /\ report[p][d] = "Unread"
    /\ report' = [report EXCEPT ![p][d] =
                     Status(loaded[p][d], anchors[d], amendments[d])]
    /\ UNCHANGED <<disk, database, at, loaded, todo, skip, edits, faults, history>>

\* ListAnchoredDocs, and what Assemble makes of the report.
Verified(p) ==
    /\ at[p] = "verifying" /\ \A d \in OnDisk(p) : report[p][d] # "Unread"
    /\ ~HasTampering(p)
    /\ at' = [at EXCEPT ![p] = "anchoring"]
    /\ todo' = [todo EXCEPT ![p] = {d \in OnDisk(p) : report[p][d] = "New"}]
    /\ UNCHANGED <<disk, database, loaded, report, skip, edits, faults, history>>

Refused(p) ==
    /\ at[p] = "verifying" /\ \A d \in OnDisk(p) : report[p][d] # "Unread"
    /\ HasTampering(p)
    /\ Abort(p)
    /\ UNCHANGED faults

\* Mutant: the file is hashed again when its anchor is written.
WriteAnchorReread(p, d) ==
    /\ at[p] = "anchoring" /\ d \in todo[p] /\ disk[d] # Absent
    /\ anchors' = [anchors EXCEPT ![d] = disk[d]]
    /\ todo' = [todo EXCEPT ![p] = @ \ {d}]
    /\ UNCHANGED <<disk, amendments, letter, bypass, at, loaded, report, skip, edits,
                   faults, history>>

\* WriteInitialAnchors, one UpsertAnchor per document.
WriteAnchor(p, d) ==
    /\ at[p] = "anchoring" /\ d \in todo[p]
    /\ anchors' = [anchors EXCEPT ![d] = loaded[p][d]]
    /\ todo' = [todo EXCEPT ![p] = @ \ {d}]
    /\ UNCHANGED <<disk, amendments, letter, bypass, at, loaded, report, skip, edits,
                   faults, history>>

\* No fresh identity, or the letter is there.
Accepted(p) ==
    /\ at[p] = "anchoring" /\ todo[p] = {}
    /\ AllNew(p) => letter
    /\ Live(p, loaded[p])
    /\ UNCHANGED <<disk, database, loaded, report, todo, skip, edits, faults>>

\* No letter, or its query failed; SKIP_WITNESS_CHECK is set.  The row in
\* operator_actions may fail to be written, which is only a warning.
Bypassed(p) ==
    /\ at[p] = "anchoring" /\ todo[p] = {} /\ AllNew(p) /\ skip[p]
    /\ \E queryFails, logFails \in BOOLEAN :
          /\ letter => queryFails
          /\ faults' = faults + (IF queryFails THEN 1 ELSE 0) + (IF logFails THEN 1 ELSE 0)
          /\ faults' \in 0..MaxFaults
          /\ bypass' = IF ~logFails THEN "logged" ELSE IF bypass = "no" THEN "lost" ELSE bypass
    /\ Live(p, loaded[p])
    /\ UNCHANGED <<disk, anchors, amendments, letter, loaded, report, todo, skip, edits>>

\* WitnessRequired: the phase fails after the anchors have been written.
WitnessRequired(p) ==
    /\ at[p] = "anchoring" /\ todo[p] = {} /\ AllNew(p) /\ ~skip[p]
    /\ faults' = faults + (IF letter THEN 1 ELSE 0) /\ faults' \in 0..MaxFaults
    /\ Abort(p)

EndSession(p) ==
    /\ at[p] = "live"
    /\ at' = [at EXCEPT ![p] = "idle"]
    /\ Forget(p)
    /\ UNCHANGED <<disk, database, edits, faults, history>>

-----------------------------------------------------------------------------
(* The world around it.                                                     *)

EditDoc(d) ==
    /\ edits < MaxEdits /\ edits' = edits + 1
    /\ \E c \in Versions : disk' = [disk EXCEPT ![d] = c]
    /\ UNCHANGED <<database, at, loaded, report, todo, skip, faults, history>>

\* The consent flow leaves an amendment record; it does not move the anchor.
InsertAmendment(d) ==
    /\ edits < MaxEdits /\ edits' = edits + 1
    /\ \E c \in Contents : amendments' = [amendments EXCEPT ![d] = @ \cup {c}]
    /\ UNCHANGED <<disk, anchors, letter, bypass, at, loaded, report, todo, skip, faults,
                   history>>

WitnessWrites ==
    /\ ~letter /\ letter' = TRUE
    /\ UNCHANGED <<disk, anchors, amendments, bypass, at, loaded, report, todo, skip,
                   edits, faults, history>>

Step(p) ==
    \/ LoadDocuments(p) \/ Verified(p) \/ Refused(p)
    \/ \E d \in Docs : VerifyDoc(p, d) \/ WriteAnchor(p, d)
    \/ Accepted(p) \/ Bypassed(p) \/ WitnessRequired(p) \/ EndSession(p)

Next ==
    \/ \E p \in Processes : Step(p) \/ Fault(p)
    \/ \E d \in Docs : EditDoc(d) \/ InsertAmendment(d)
    \/ WitnessWrites

Spec == Init /\ [][Next]_vars

\* A process that has begun the phase goes on with it, and sessions keep coming.
FairSpec == Spec /\ \A p \in Processes : WF_vars(Step(p))

-----------------------------------------------------------------------------
(* Properties.                                                              *)

\* One process at a time assembles sessions.
Solo == \A p, q \in Processes : p = q

\* "Unauthorised changes halt startup": leaving out versions an amendment
\* names, all sessions have been run with one and the same version of each
\* document, whatever was edited, and wherever a boot failed or crashed
\* between loading, verifying and anchoring (VerifyAnchors,
\* WriteInitialAnchors).  Processes that overlap on a fresh database may
\* break it: each upserts the anchor of the version it has loaded.
OneVersion == \A d \in Docs : \A a, b \in lived[d] \ amendments[d] : a = b

\* "Deletion halts boot": once a session has been run with a document, none
\* is run without it (the ListAnchoredDocs loop of VerifyAnchors).
NoneForgotten ==
    [][\A p \in Processes, d \in Docs :
          at[p] # "live" /\ at'[p] = "live" /\ lived[d] # {} => loaded'[p][d] # Absent]_vars

\* The witness principle (enforceWitnessCheck): the first session of an agent
\* follows a letter or a bypass that was logged, or whose log row failed.  It
\* holds as far as no fresh boot ended between its first anchor and the
\* verdict: the boot after that finds anchors and does not ask.
WitnessedOrLogged == woken /\ ~gap => letter \/ bypass # "no"

\* The documents on disk are the anchored or amended ones, and the witness letter
\* that a first boot needs is on record.
Bootable ==
    /\ letter
    /\ \A d \in Docs : anchors[d] = Absent \/ disk[d] = anchors[d]
                         \/ disk[d] \in amendments[d]

\* A refused identity is not locked out: once there is a letter and the files have
\* been repaired or amended, sessions run again, whatever boots failed or were
\* interrupted before, at whichever anchor.  It asks nothing of an agent without a
\* letter, whose first boot is refused fail-closed (enforceWitnessCheck).
RepairedBoots == <>[]Bootable => \A p \in Processes : []<>(at[p] = "live")
=============================================================================

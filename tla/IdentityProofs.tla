--------------------------- MODULE IdentityProofs ---------------------------
(***************************************************************************)
(* Proofs about Identity.  Types are proved for any set of processes; the  *)
(* properties for one process at a time (Solo) and a configured anchor     *)
(* store, which is when they hold.                                         *)
(***************************************************************************)
EXTENDS Identity, TLAPS

\* The disjuncts of a process's step.
LEMMA StepCases ==
    ASSUME NEW p \in Processes, Step(p)
    PROVE  \/ LoadDocuments(p) \/ Verified(p) \/ Refused(p)
           \/ \E d \in Docs : VerifyDoc(p, d)
           \/ \E d \in Docs : WriteAnchor(p, d)
           \/ Accepted(p) \/ Bypassed(p) \/ WitnessRequired(p) \/ EndSession(p)
BY DEF Step

\* VerifyAnchors gives a document one of the four statuses, and each says
\* what it says about the anchor and the amendments.
LEMMA StatusFacts ==
    ASSUME NEW c \in Contents, NEW s \in Versions, NEW A \in SUBSET Contents
    PROVE  /\ Status(c, s, A) \in {"New", "Match", "Amendment", "Tampering"}
           /\ Status(c, s, A) = "New" => s = Absent
           /\ Status(c, s, A) = "Match" => s = c
           /\ Status(c, s, A) = "Amendment" => s # Absent /\ c \in A
<1>1. c # Absent  BY AbsentAssumption
<1>2. CASE s = Absent
  <2>1. Status(c, s, A) = "New"  BY <1>1, <1>2 DEF Status
  <2> QED  BY <2>1, <1>2
<1>3. CASE s = c
  <2>1. Status(c, s, A) = "Match"  BY <1>1, <1>3 DEF Status
  <2> QED  BY <2>1, <1>3
<1>4. CASE s \notin {Absent, c} /\ c \in A
  <2>1. Status(c, s, A) = "Amendment"  BY <1>4 DEF Status
  <2> QED  BY <2>1, <1>4
<1>5. CASE s \notin {Absent, c} /\ c \notin A
  <2>1. Status(c, s, A) = "Tampering"  BY <1>5 DEF Status
  <2> QED  BY <2>1
<1> QED  BY <1>2, <1>3, <1>4, <1>5

-----------------------------------------------------------------------------
(* Types.                                                                   *)

LEMMA TypeInit == Init => TypeOK
<1> SUFFICES ASSUME Init PROVE TypeOK
  OBVIOUS
<1>1. skip \in [Processes -> BOOLEAN]
  BY Zenon DEF Init
<1>2. 0 \in 0..MaxEdits /\ 0 \in 0..MaxFaults
  BY BoundAssumption
<1> QED  BY <1>1, <1>2 DEF Init, TypeOK, Versions, Statuses

\* Every step of a process keeps the types.
LEMMA TypeStep ==
    ASSUME TypeOK, NEW p \in Processes, Step(p) \/ Fault(p)
    PROVE  TypeOK'
<1> USE BoundAssumption
<1>1. CASE LoadDocuments(p)
  <2>1. skip' \in [Processes -> BOOLEAN]
    <3>1. PICK s \in BOOLEAN : skip' = [skip EXCEPT ![p] = s]
      BY <1>1 DEF LoadDocuments
    <3> QED  BY <3>1, Zenon DEF TypeOK
  <2>2. /\ at' \in [Processes -> {"idle", "verifying", "anchoring", "live"}]
        /\ lived' \in [Docs -> SUBSET Contents]
        /\ woken' \in BOOLEAN /\ gap' \in BOOLEAN
    <3>1. CASE HasAnchorStore  BY <1>1, <3>1 DEF LoadDocuments, TypeOK, history
    <3>2. CASE ~HasAnchorStore  BY <1>1, <3>2 DEF LoadDocuments, TypeOK, Live, Versions
    <3> QED  BY <3>1, <3>2
  <2> QED  BY <1>1, <2>1, <2>2 DEF TypeOK, LoadDocuments, database
<1>2. ASSUME NEW d \in Docs, VerifyDoc(p, d) PROVE TypeOK'
  <2>1. /\ d \in Docs /\ loaded[p][d] \in Contents /\ anchors[d] \in Versions
        /\ amendments[d] \in SUBSET Contents
    BY <1>2 DEF TypeOK, VerifyDoc, OnDisk, Versions
  <2>2. Status(loaded[p][d], anchors[d], amendments[d]) \in Statuses
    BY <2>1, StatusFacts DEF Statuses
  <2>3. report' \in [Processes -> [Docs -> Statuses]]
    BY <1>2, <2>2 DEF TypeOK, VerifyDoc
  <2> QED  BY <1>2, <2>3 DEF TypeOK, VerifyDoc, database, history
<1>3. CASE Verified(p)
  BY <1>3 DEF TypeOK, Verified, database, history, OnDisk
<1>4. ASSUME Abort(p), faults' \in 0..MaxFaults PROVE TypeOK'
  <2>1. /\ gap' \in BOOLEAN /\ at' \in [Processes -> {"idle", "verifying", "anchoring", "live"}]
    BY <1>4 DEF TypeOK, Abort
  <2> QED
    BY <1>4, <2>1 DEF TypeOK, Abort, Forget, database, Versions, Statuses
<1>5. CASE Refused(p)
  BY <1>5, <1>4 DEF Refused, TypeOK
<1>6. ASSUME NEW d \in Docs, WriteAnchor(p, d) PROVE TypeOK'
  BY <1>6 DEF TypeOK, WriteAnchor, history
<1>7. ASSUME Live(p, loaded[p]) PROVE /\ at' \in [Processes -> {"idle", "verifying", "anchoring", "live"}]
                                      /\ lived' \in [Docs -> SUBSET Contents]
                                      /\ woken' \in BOOLEAN /\ gap' \in BOOLEAN
  BY <1>7 DEF TypeOK, Live, Versions
<1>8. CASE Accepted(p)
  BY <1>8, <1>7 DEF TypeOK, Accepted, database
<1>9. CASE Bypassed(p)
  <2>1. faults' \in 0..MaxFaults /\ bypass' \in {"no", "logged", "lost"}
    BY <1>9 DEF Bypassed, TypeOK
  <2> QED  BY <1>9, <1>7, <2>1 DEF TypeOK, Bypassed
<1>10. CASE WitnessRequired(p)
  BY <1>10, <1>4 DEF WitnessRequired
<1>11. CASE EndSession(p)
  BY <1>11 DEF TypeOK, EndSession, Forget, database, history, Versions, Statuses
<1>12. CASE Fault(p)
  BY <1>12, <1>4 DEF Fault, TypeOK
<1> QED
  BY <1>1, <1>2, <1>3, <1>5, <1>6, <1>8, <1>9, <1>10, <1>11, <1>12, StepCases

\* What happens around the processes keeps the types.
LEMMA TypeWorld ==
    ASSUME TypeOK, WitnessWrites \/ \E d \in Docs : EditDoc(d) \/ InsertAmendment(d)
    PROVE  TypeOK'
<1> USE BoundAssumption
<1>1. CASE WitnessWrites
  BY <1>1 DEF TypeOK, WitnessWrites, history
<1>2. ASSUME NEW d \in Docs, EditDoc(d) PROVE TypeOK'
  BY <1>2 DEF TypeOK, EditDoc, database, history
<1>3. ASSUME NEW d \in Docs, InsertAmendment(d) PROVE TypeOK'
  BY <1>3 DEF TypeOK, InsertAmendment, history
<1> QED  BY <1>1, <1>2, <1>3

\* Every reachable state is well typed, for any set of processes, with or
\* without an anchor store.
THEOREM TypeCorrect == Spec => []TypeOK
<1>1. TypeOK /\ [Next]_vars => TypeOK'
  <2> SUFFICES ASSUME TypeOK, [Next]_vars PROVE TypeOK'
    OBVIOUS
  <2>1. CASE UNCHANGED vars
    BY <2>1 DEF vars, TypeOK
  <2>2. CASE Next
    BY <2>2, TypeStep, TypeWorld DEF Next
  <2> QED  BY <2>1, <2>2
<1> QED  BY TypeInit, <1>1, PTL DEF Spec

-----------------------------------------------------------------------------
(* The inductive invariant, for one process and a configured anchor store.  *)

\* What the report of a boot in progress knows of anchors and amendments.
ReportSound(p, d) ==
    /\ loaded[p][d] = Absent => report[p][d] = "Unread"
    /\ report[p][d] = "Match" => anchors[d] = loaded[p][d]
    /\ report[p][d] = "Amendment" => anchors[d] # Absent /\ loaded[p][d] \in amendments[d]
    /\ at[p] = "verifying" =>
          /\ report[p][d] = "New" => anchors[d] = Absent
          /\ d \notin todo[p]
    /\ at[p] = "anchoring" =>
          /\ d \in todo[p] => anchors[d] = Absent /\ report[p][d] = "New"
          /\ d \notin todo[p] /\ report[p][d] = "New" => anchors[d] = loaded[p][d]
          /\ loaded[p][d] # Absent => report[p][d] \in {"New", "Match", "Amendment"}
          /\ loaded[p][d] = Absent => anchors[d] = Absent

Reports ==
    \A p \in Processes, d \in Docs : at[p] \in {"verifying", "anchoring"} => ReportSound(p, d)

\* Between boots nothing is left of a report.
Quiet ==
    \A p \in Processes, d \in Docs :
        at[p] = "idle" => report[p][d] = "Unread" /\ d \notin todo[p]

\* A version lived without an amendment is the anchored one.
LivedAnchored ==
    \A d \in Docs : /\ \A c \in lived[d] : c \in amendments[d] \/ c = anchors[d]
                    /\ lived[d] # {} => anchors[d] # Absent

\* An anchor was left by a session, by a fresh boot that did not end well, or
\* by the boot in progress.
Origin ==
    \A d \in Docs : anchors[d] # Absent => woken \/ gap \/ \E p \in Processes : InGap(p)

Inv == TypeOK /\ Reports /\ Quiet /\ LivedAnchored /\ Origin /\ WitnessedOrLogged

LEMMA InvInit == Init => Inv
<1> SUFFICES ASSUME Init PROVE Inv
  OBVIOUS
<1>1. TypeOK  BY TypeInit
<1>2. Reports /\ Quiet  BY DEF Init, Reports, Quiet
<1>3. LivedAnchored /\ Origin /\ WitnessedOrLogged
  BY DEF Init, LivedAnchored, Origin, WitnessedOrLogged
<1> QED  BY <1>1, <1>2, <1>3 DEF Inv

\* A boot that is past its report and is not a fresh one found an anchor.
LEMMA NotFresh ==
    ASSUME Inv, Solo, NEW p \in Processes, at[p] = "anchoring", ~AllNew(p)
    PROVE  woken \/ gap
<1>1. PICK d \in OnDisk(p) : report[p][d] # "New"
  BY DEF AllNew
<1>2. d \in Docs /\ loaded[p][d] # Absent
  BY <1>1 DEF OnDisk
<1>3. ReportSound(p, d)
  BY <1>2 DEF Inv, Reports
<1>4. anchors[d] # Absent
  BY <1>1, <1>2, <1>3 DEF ReportSound
<1>5. woken \/ gap \/ \E q \in Processes : InGap(q)
  BY <1>2, <1>4 DEF Inv, Origin
<1>6. ~InGap(p)
  BY DEF InGap
<1> QED  BY <1>5, <1>6 DEF Solo

\* A session that gets past the phase runs with anchored or amended documents.
LEMMA Reviewed ==
    ASSUME Inv, NEW p \in Processes, at[p] = "anchoring", todo[p] = {}, NEW d \in Docs
    PROVE  /\ loaded[p][d] = Absent => anchors[d] = Absent
           /\ loaded[p][d] # Absent => /\ anchors[d] # Absent
                                       /\ loaded[p][d] \in amendments[d] \/ loaded[p][d] = anchors[d]
<1>1. ReportSound(p, d)
  BY DEF Inv, Reports
<1> QED  BY <1>1 DEF ReportSound

\* The end of a boot, by refusal, failure or crash, keeps the invariant.
LEMMA InvAbort ==
    ASSUME Inv, Solo, NEW p \in Processes, Abort(p), TypeOK'
    PROVE  Inv'
<1>1. \A q \in Processes : q = p  BY DEF Solo
<1>2. at'[p] = "idle"  BY DEF Abort, Inv, TypeOK
<1>3. Reports'  BY <1>1, <1>2 DEF Reports
<1>4. Quiet'  BY <1>1 DEF Quiet, Abort, Forget, Inv, TypeOK
<1>5. LivedAnchored'  BY DEF LivedAnchored, Abort, Inv, database
<1>6. Origin'
  <2>1. InGap(p) => gap'  BY DEF Abort
  <2>2. gap => gap'  BY DEF Abort
  <2> QED  BY <1>1, <2>1, <2>2 DEF Origin, Abort, Inv, database
<1>7. WitnessedOrLogged'
  BY DEF WitnessedOrLogged, Abort, Inv, database
<1> QED  BY <1>3, <1>4, <1>5, <1>6, <1>7 DEF Inv

\* A boot that gets through keeps the invariant.
LEMMA InvLive ==
    ASSUME Inv, Solo, NEW p \in Processes, at[p] = "anchoring", todo[p] = {},
           Live(p, loaded[p]), TypeOK',
           UNCHANGED <<anchors, amendments, letter, loaded, report, todo>>,
           AllNew(p) => letter \/ bypass' # "no", bypass # "no" => bypass' # "no"
    PROVE  Inv'
<1>1. \A q \in Processes : q = p  BY DEF Solo
<1>2. at'[p] = "live"  BY DEF Live, Inv, TypeOK
<1>3. Reports' /\ Quiet'  BY <1>1, <1>2 DEF Reports, Quiet
<1>4. ASSUME NEW d \in Docs
      PROVE  /\ \A c \in lived'[d] : c \in amendments'[d] \/ c = anchors'[d]
             /\ lived'[d] # {} => anchors'[d] # Absent
  <2>1. lived'[d] = lived[d] \cup ({loaded[p][d]} \ {Absent})
    BY DEF Live
  <2> QED  BY <2>1, Reviewed DEF Inv, LivedAnchored
<1>5. LivedAnchored'  BY <1>4 DEF LivedAnchored
<1>6. Origin'  BY DEF Origin, Live
<1>7. WitnessedOrLogged'
  <2>1. CASE AllNew(p)  BY <2>1 DEF WitnessedOrLogged
  <2>2. CASE ~AllNew(p)
    <3>1. woken \/ gap  BY <2>2, NotFresh
    <3> QED  BY <3>1 DEF WitnessedOrLogged, Live, Inv
  <2> QED  BY <2>1, <2>2
<1> QED  BY <1>3, <1>5, <1>6, <1>7 DEF Inv

\* Every step of the process keeps the invariant.
LEMMA InvStep ==
    ASSUME Inv, Solo, HasAnchorStore, NEW p \in Processes, Step(p) \/ Fault(p)
    PROVE  Inv'
<1>0. TypeOK'  BY TypeStep DEF Inv
<1>1. \A q \in Processes : q = p  BY DEF Solo
<1>2. CASE LoadDocuments(p)
  <2>1. at[p] = "idle" /\ at'[p] = "verifying" /\ loaded'[p] = disk
    BY <1>2 DEF LoadDocuments, Inv, TypeOK
  <2>2. UNCHANGED <<anchors, amendments, letter, bypass, report, todo, lived, woken, gap>>
    BY <1>2 DEF LoadDocuments, database, history
  <2>3. Reports'
    BY <1>1, <2>1, <2>2 DEF Reports, ReportSound, Inv, Quiet
  <2>4. Quiet'  BY <1>1, <2>1 DEF Quiet
  <2>5. LivedAnchored' /\ WitnessedOrLogged'
    BY <2>2 DEF LivedAnchored, WitnessedOrLogged, Inv
  <2>6. Origin'
    BY <1>1, <2>1, <2>2 DEF Origin, InGap, Inv
  <2> QED  BY <1>0, <2>3, <2>4, <2>5, <2>6 DEF Inv
<1>3. ASSUME NEW d \in Docs, VerifyDoc(p, d) PROVE Inv'
  <2>1. at[p] = "verifying" /\ at' = at /\ loaded[p][d] # Absent
    BY <1>3 DEF VerifyDoc, OnDisk
  <2>2. UNCHANGED <<anchors, amendments, letter, bypass, loaded, todo, lived, woken, gap>>
    BY <1>3 DEF VerifyDoc, database, history
  <2>3. report'[p] = [report[p] EXCEPT ![d] = Status(loaded[p][d], anchors[d], amendments[d])]
    BY <1>3 DEF VerifyDoc, Inv, TypeOK
  <2>4. /\ loaded[p][d] \in Contents /\ anchors[d] \in Versions
        /\ amendments[d] \in SUBSET Contents
    BY <2>1 DEF Inv, TypeOK, Versions
  <2>5. ASSUME NEW e \in Docs PROVE ReportSound(p, e)'
    <3>1. ReportSound(p, e)  BY <2>1 DEF Inv, Reports
    <3>2. CASE e # d
      <4>1. report'[p][e] = report[p][e]  BY <2>3, <3>2 DEF Inv, TypeOK
      <4> QED  BY <3>1, <4>1, <2>1, <2>2 DEF ReportSound
    <3>3. CASE e = d
      <4>1. report'[p][e] = Status(loaded[p][d], anchors[d], amendments[d])
        BY <2>3, <3>3 DEF Inv, TypeOK
      <4> QED  BY <3>1, <3>3, <4>1, <2>1, <2>2, <2>4, StatusFacts DEF ReportSound
    <3> QED  BY <3>2, <3>3
  <2>6. Reports'  BY <1>1, <2>5 DEF Reports
  <2>7. Quiet'  BY <1>1, <2>1 DEF Quiet
  <2>8. LivedAnchored' /\ WitnessedOrLogged'
    BY <2>2 DEF LivedAnchored, WitnessedOrLogged, Inv
  <2>9. Origin'
    BY <1>1, <2>1, <2>2 DEF Origin, InGap, Inv
  <2> QED  BY <1>0, <2>6, <2>7, <2>8, <2>9 DEF Inv
<1>4. CASE Verified(p)
  <2>1. at[p] = "verifying" /\ at'[p] = "anchoring" /\ ~HasTampering(p)
    BY <1>4 DEF Verified, Inv, TypeOK
  <2>2. UNCHANGED <<anchors, amendments, letter, bypass, loaded, report, lived, woken, gap>>
    BY <1>4 DEF Verified, database, history
  <2>3. todo'[p] = {d \in OnDisk(p) : report[p][d] = "New"}
    BY <1>4 DEF Verified, Inv, TypeOK
  <2>4. ASSUME NEW d \in Docs PROVE ReportSound(p, d)'
    <3>1. ReportSound(p, d)  BY <2>1 DEF Inv, Reports
    <3>2. CASE loaded[p][d] = Absent
      <4>1. anchors[d] = Absent
        BY <2>1, <3>2 DEF HasTampering, Deleted, OnDisk
      <4>2. d \notin todo'[p]  BY <2>3, <3>2 DEF OnDisk
      <4> QED  BY <3>1, <3>2, <4>1, <4>2, <2>1, <2>2 DEF ReportSound
    <3>3. CASE loaded[p][d] # Absent
      <4>1. report[p][d] \in {"New", "Match", "Amendment"}
        BY <1>4, <2>1, <3>3 DEF Verified, HasTampering, OnDisk, Inv, TypeOK, Statuses
      <4>2. d \in todo'[p] <=> report[p][d] = "New"
        BY <2>3, <3>3 DEF OnDisk
      <4> QED  BY <3>1, <3>3, <4>1, <4>2, <2>1, <2>2 DEF ReportSound
    <3> QED  BY <3>2, <3>3
  <2>5. Reports'  BY <1>1, <2>4 DEF Reports
  <2>6. Quiet'  BY <1>1, <2>1 DEF Quiet
  <2>7. LivedAnchored' /\ WitnessedOrLogged'
    BY <2>2 DEF LivedAnchored, WitnessedOrLogged, Inv
  <2>8. Origin'
    BY <1>1, <2>1, <2>2 DEF Origin, InGap, Inv
  <2> QED  BY <1>0, <2>5, <2>6, <2>7, <2>8 DEF Inv
<1>5. CASE Refused(p)
  BY <1>5, <1>0, InvAbort DEF Refused
<1>6. ASSUME NEW d \in Docs, WriteAnchor(p, d) PROVE Inv'
  <2>1. at[p] = "anchoring" /\ at' = at /\ d \in todo[p] /\ todo'[p] = todo[p] \ {d}
    BY <1>6 DEF WriteAnchor, Inv, TypeOK
  <2>2. UNCHANGED <<amendments, letter, bypass, loaded, report, lived, woken, gap>>
    BY <1>6 DEF WriteAnchor, history
  <2>3. anchors' = [anchors EXCEPT ![d] = loaded[p][d]]
    BY <1>6 DEF WriteAnchor
  <2>4. ReportSound(p, d)  BY <2>1 DEF Inv, Reports
  <2>5. anchors[d] = Absent /\ report[p][d] = "New" /\ loaded[p][d] # Absent
    BY <2>1, <2>4 DEF ReportSound
  <2>6. ASSUME NEW e \in Docs PROVE ReportSound(p, e)'
    <3>1. ReportSound(p, e)  BY <2>1 DEF Inv, Reports
    <3>2. CASE e # d
      <4>1. anchors'[e] = anchors[e]  BY <2>3, <3>2 DEF Inv, TypeOK
      <4> QED  BY <3>1, <3>2, <4>1, <2>1, <2>2 DEF ReportSound
    <3>3. CASE e = d
      <4>1. anchors'[d] = loaded[p][d]  BY <2>3 DEF Inv, TypeOK
      <4> QED  BY <3>3, <4>1, <2>1, <2>2, <2>5 DEF ReportSound
    <3> QED  BY <3>2, <3>3
  <2>7. Reports'  BY <1>1, <2>6 DEF Reports
  <2>8. Quiet'  BY <1>1, <2>1 DEF Quiet
  <2>9. LivedAnchored'
    <3> SUFFICES ASSUME NEW e \in Docs
                 PROVE  /\ \A c \in lived'[e] : c \in amendments'[e] \/ c = anchors'[e]
                        /\ lived'[e] # {} => anchors'[e] # Absent
      BY DEF LivedAnchored
    <3>1. CASE e # d
      BY <3>1, <2>2, <2>3 DEF Inv, LivedAnchored, TypeOK
    <3>2. CASE e = d
      BY <3>2, <2>2, <2>5 DEF Inv, LivedAnchored
    <3> QED  BY <3>1, <3>2
  <2>10. WitnessedOrLogged'  BY <2>2 DEF WitnessedOrLogged, Inv
  <2>11. woken \/ gap \/ InGap(p)'
    <3>1. CASE AllNew(p)
      <4>1. AllNew(p)'  BY <3>1, <2>2 DEF AllNew, OnDisk
      <4>2. d \in OnDisk(p) /\ OnDisk(p)' = OnDisk(p)  BY <2>2, <2>5 DEF OnDisk
      <4>3. todo'[p] # OnDisk(p)'  BY <2>1, <4>2
      <4> QED  BY <4>1, <4>3, <2>1 DEF InGap
    <3>2. CASE ~AllNew(p)  BY <3>2, <2>1, NotFresh
    <3> QED  BY <3>1, <3>2
  <2>12. Origin'  BY <2>11, <2>2 DEF Origin
  <2> QED  BY <1>0, <2>7, <2>8, <2>9, <2>10, <2>12 DEF Inv
<1>7. CASE Accepted(p)
  BY <1>7, <1>0, InvLive DEF Accepted, database
<1>8. CASE Bypassed(p)
  <2>1. bypass' # "no"  BY <1>8 DEF Bypassed, Inv, TypeOK
  <2> QED  BY <1>8, <1>0, <2>1, InvLive DEF Bypassed
<1>9. CASE WitnessRequired(p)
  BY <1>9, <1>0, InvAbort DEF WitnessRequired
<1>10. CASE EndSession(p)
  <2>1. at[p] = "live" /\ at'[p] = "idle"
    BY <1>10 DEF EndSession, Inv, TypeOK
  <2>2. UNCHANGED <<anchors, amendments, letter, bypass, lived, woken, gap>>
    BY <1>10 DEF EndSession, database, history
  <2>3. Reports'  BY <1>1, <2>1 DEF Reports
  <2>4. Quiet'  BY <1>1, <1>10 DEF Quiet, EndSession, Forget, Inv, TypeOK
  <2>5. LivedAnchored' /\ WitnessedOrLogged'
    BY <2>2 DEF LivedAnchored, WitnessedOrLogged, Inv
  <2>6. Origin'  BY <1>1, <2>1, <2>2 DEF Origin, InGap, Inv
  <2> QED  BY <1>0, <2>3, <2>4, <2>5, <2>6 DEF Inv
<1>11. CASE Fault(p)
  BY <1>11, <1>0, InvAbort DEF Fault
<1> QED
  BY <1>2, <1>3, <1>4, <1>5, <1>6, <1>7, <1>8, <1>9, <1>10, <1>11, StepCases

\* Edits, amendments and the letter keep the invariant.
LEMMA InvWorld ==
    ASSUME Inv, WitnessWrites \/ \E d \in Docs : EditDoc(d) \/ InsertAmendment(d)
    PROVE  Inv'
<1>0. TypeOK'  BY TypeWorld DEF Inv
<1>1. UNCHANGED <<anchors, bypass, at, loaded, report, todo, lived, woken, gap>>
  BY DEF WitnessWrites, EditDoc, InsertAmendment, database, history
<1>2. \A d \in Docs : amendments[d] \subseteq amendments'[d]
  BY DEF WitnessWrites, EditDoc, InsertAmendment, database, Inv, TypeOK
<1>3. letter => letter'
  BY DEF WitnessWrites, EditDoc, InsertAmendment, database
<1>4. Reports'
  BY <1>1, <1>2 DEF Inv, Reports, ReportSound
<1>5. Quiet' /\ LivedAnchored'
  BY <1>1, <1>2 DEF Inv, Quiet, LivedAnchored
<1>6. Origin'
  BY <1>1 DEF Inv, Origin, InGap, AllNew, OnDisk
<1>7. WitnessedOrLogged'
  BY <1>1, <1>3 DEF Inv, WitnessedOrLogged
<1> QED  BY <1>0, <1>4, <1>5, <1>6, <1>7 DEF Inv

LEMMA InvNext ==
    ASSUME Inv, Solo, HasAnchorStore, [Next]_vars
    PROVE  Inv'
<1>1. CASE UNCHANGED vars
  <2>1. TypeOK' /\ Reports' /\ Quiet'
    BY <1>1 DEF vars, Inv, TypeOK, Reports, ReportSound, Quiet
  <2>2. LivedAnchored' /\ WitnessedOrLogged'
    BY <1>1 DEF vars, Inv, LivedAnchored, WitnessedOrLogged
  <2>3. Origin'
    BY <1>1 DEF vars, Inv, Origin, InGap, AllNew, OnDisk
  <2> QED  BY <2>1, <2>2, <2>3 DEF Inv
<1>2. CASE Next
  BY <1>2, InvStep, InvWorld DEF Next
<1> QED  BY <1>1, <1>2

\* With one process and an anchor store, the invariant holds throughout.
THEOREM Invariance ==
    ASSUME Solo, HasAnchorStore
    PROVE  Spec => []Inv
<1>1. Inv /\ [Next]_vars => Inv'  BY InvNext
<1> QED  BY InvInit, <1>1, PTL DEF Spec

\* Whatever is edited and wherever boots fail, sessions run with one
\* unamended version of each document (VerifyAnchors, WriteInitialAnchors).
THEOREM ChangesHalt ==
    ASSUME Solo, HasAnchorStore
    PROVE  Spec => []OneVersion
<1>1. Inv => OneVersion
  BY DEF Inv, LivedAnchored, OneVersion
<1> QED  BY <1>1, Invariance, PTL

\* The first session follows a letter or a bypass, unless a fresh boot ended
\* between its first anchor and the verdict (enforceWitnessCheck).
THEOREM WitnessIsAsked ==
    ASSUME Solo, HasAnchorStore
    PROVE  Spec => []WitnessedOrLogged
<1>1. Inv => WitnessedOrLogged
  BY DEF Inv
<1> QED  BY <1>1, Invariance, PTL

\* No session runs without a document an earlier one had (ListAnchoredDocs).
THEOREM DeletionHalts ==
    ASSUME Solo, HasAnchorStore
    PROVE  Spec => NoneForgotten
<1>1. ASSUME Inv, [Next]_vars, NEW p \in Processes, NEW d \in Docs,
             at[p] # "live", at'[p] = "live", lived[d] # {}
      PROVE  loaded'[p][d] # Absent
  <2>1. at[p] = "anchoring" /\ todo[p] = {} /\ loaded' = loaded
    <3>1. PICK q \in Processes : Step(q) \/ Fault(q)
      BY <1>1 DEF Next, vars, EditDoc, InsertAmendment, WitnessWrites
    <3>2. q = p  BY DEF Solo
    <3>3. Accepted(p) \/ Bypassed(p)
      BY <1>1, <3>1, <3>2, StepCases DEF Inv, TypeOK, LoadDocuments, Verified, Refused, VerifyDoc,
         WriteAnchor, WitnessRequired, EndSession, Fault, Abort
    <3> QED  BY <3>3 DEF Accepted, Bypassed
  <2>2. anchors[d] # Absent  BY <1>1 DEF Inv, LivedAnchored
  <2> QED  BY <1>1, <2>1, <2>2, Reviewed
<1>2. Inv /\ [Next]_vars =>
         [\A p \in Processes, d \in Docs :
             at[p] # "live" /\ at'[p] = "live" /\ lived[d] # {} => loaded'[p][d] # Absent]_vars
  BY <1>1
<1> QED  BY <1>2, Invariance, PTL DEF Spec, NoneForgotten
=============================================================================

---------------------------- MODULE DraftProofs ----------------------------
(***************************************************************************)
(* Proofs about DraftSession, for any rows, edits, copies, late creates,   *)
(* deaths of the worker and removals by other clients.                     *)
(***************************************************************************)
EXTENDS DraftSession, TLAPS, FiniteSetTheorems

(***************************************************************************)
(* Types.  The attempts of a row stay in their range only because a row    *)
(* that is queued has one left, which a restart may have paid for.         *)
(***************************************************************************)
RowSet ==
  [kind: Kinds, status: Statuses, phase: Phases, text: 0..MaxEdits,
   attempts: 0..MaxAttempts + MaxRestarts, base: SUBSET Emails, pending: SUBSET Emails,
   successor: Emails \cup {None}, probe: BOOLEAN]
SessionSet ==
  [end: Ends, text: 0..MaxEdits, seed: 0..MaxEdits, confirmed: Emails \cup {None},
   timer: BOOLEAN, blocked: BOOLEAN, op: Ops, saving: Rows \cup {0},
   failed: Rows \cup {0}, pend: Rows \cup {0}]
TaskSet == Requests \cup {"idle"}

\* An attempt beyond the budget is one a restart took back.
Budget(w) ==
  /\ w.attempts <= MaxAttempts + restarts
  /\ w.status = "retry" => w.attempts < MaxAttempts
  /\ w.status = "pending" => w.attempts < MaxAttempts + restarts

Good(w) == w \in RowSet /\ Budget(w)
ServerType == {server, doomed, strays} \subseteq SUBSET Emails /\ late \subseteq Rows
RowType == row \in [Rows -> RowSet] /\ \A r \in Rows : Budget(row[r])
TaskType == task \in [Rows -> TaskSet]
CountType == restarts \in 0..MaxRestarts /\ removals \in 0..MaxRemovals
SessionType == session \in SessionSet
Typed == ServerType /\ RowType /\ TaskType /\ SessionType /\ CountType

\* The parts of the types are the type invariant of the component.
LEMMA TypedIsTypeOK == Typed => TypeOK
BY DEF Typed, ServerType, RowType, TaskType, SessionType, CountType, TypeOK, RowSet,
   SessionSet, TaskSet

\* The names of the Emails, and that row 0 is none.
LEMMA Names ==
  /\ 0 \notin Rows /\ Rows \subseteq Nat /\ Opened \in Emails
  /\ MaxEdits \in Nat /\ MaxRestarts \in Nat /\ MaxRemovals \in Nat
  /\ MaxAttempts \in Nat /\ MaxAttempts > 0
BY DraftAssumption DEF Opened, Emails

\* The values a row can be given.
LEMMA RowValues ==
  ASSUME Typed
  PROVE  /\ Good(Unborn)
         /\ \A s \in SessionSet : Good(NewSave(s))
         /\ Good(NewDiscard)
         /\ \A w \in RowSet : Budget(w) => Good(Revived(w)) /\ Good(Retired(w)) /\ Good(Ended(w))
<1>1. restarts \in Nat /\ restarts <= MaxRestarts
  BY Names DEF Typed, CountType
<1>2. ConfirmedIds \in SUBSET Emails
  BY DEF Typed, SessionType, SessionSet, ConfirmedIds
<1>3. Unborn \in RowSet /\ Budget(Unborn)
  BY <1>1, Names DEF Budget, Unborn, RowSet, Kinds, Statuses, Phases
<1>4. ASSUME NEW s \in SessionSet
      PROVE  Good(NewSave(s))
  <2>1. {s.confirmed} \ {None} \in SUBSET Emails
    BY DEF SessionSet
  <2>2. s.text \in 0..MaxEdits
    BY DEF SessionSet
  <2>3. NewSave(s) \in RowSet
    BY <1>3, <2>1, <2>2 DEF NewSave, RowSet, Statuses
  <2>4. NewSave(s).attempts = 0 /\ NewSave(s).status = "pending"
    BY DEF NewSave, Unborn
  <2> QED
    BY <1>1, <2>3, <2>4, Names DEF Good, Budget
<1>5. Good(NewDiscard)
  <2>1. NewDiscard \in RowSet
    BY <1>2, <1>3 DEF NewDiscard, RowSet, Kinds, Statuses
  <2>2. NewDiscard.attempts = 0 /\ NewDiscard.status = "pending"
    BY DEF NewDiscard, Unborn
  <2> QED
    BY <1>1, <2>1, <2>2, Names DEF Good, Budget
<1>6. ASSUME NEW w \in RowSet, Budget(w)
      PROVE  Good(Revived(w)) /\ Good(Retired(w)) /\ Good(Ended(w))
  <2>1. Good(Revived(w))
    <3>1. CASE Revived(w) = w
      BY <1>6, <3>1 DEF Good
    <3>2. CASE Revived(w) = [w EXCEPT !.status = "retry", !.attempts = 0]
      <4>0. 0 \in 0..MaxAttempts + MaxRestarts
        BY Names
      <4>1. Revived(w) \in RowSet
        BY <4>0, <3>2 DEF RowSet, Statuses
      <4>2. Revived(w).attempts = 0 /\ Revived(w).status = "retry"
        BY <3>2 DEF RowSet
      <4> QED
        BY <1>1, <4>1, <4>2, Names DEF Good, Budget
    <3> QED
      BY <3>1, <3>2 DEF Revived
  <2>2. Good(Retired(w))
    <3>1. Retired(w) \in RowSet
      BY <1>3 DEF Retired, RowSet, Statuses
    <3>2. Retired(w).attempts = 0 /\ Retired(w).status = "gone"
      BY DEF Retired, Unborn
    <3> QED
      BY <1>1, <3>1, <3>2, Names DEF Good, Budget
  <2>3. Good(Ended(w))
    <3>0. 0 \in 0..MaxAttempts + MaxRestarts
      BY Names
    <3>1. Ended(w) \in RowSet
      BY <3>0 DEF Ended, RowSet, Statuses
    <3>2. Ended(w).attempts = 0 /\ Ended(w).status = "conflicted"
      BY DEF Ended, RowSet
    <3> QED
      BY <1>1, <3>1, <3>2, Names DEF Good, Budget
  <2> QED
    BY <2>1, <2>2, <2>3
<1>7. Good(Unborn)
  BY <1>3 DEF Good
<1> QED
  BY <1>4, <1>5, <1>6, <1>7

\* What the session remembers after it inserts a row or closes.
LEMMA SessionValues ==
  ASSUME NEW s \in SessionSet
  PROVE  /\ \A r \in Rows : Saving(s, r) \in SessionSet
         /\ \A how \in Ends : Closed(s, how) \in SessionSet
         /\ Refused(s) \in SessionSet
         /\ \A op \in Ops : [s EXCEPT !.op = op] \in SessionSet
BY DEF SessionSet, Saving, Closed, Refused, Ops

\* What becomes of a row that is taken back.
LEMMA AbandonedTyped ==
  ASSUME Typed, NEW w \in RowSet, Budget(w), NEW all \in BOOLEAN
  PROVE  Good(Abandoned(w, all)) /\ AbandonPlan(w, all) \in {"park", "delete", "convert"}
<1>1. restarts \in Nat /\ restarts <= MaxRestarts
  BY Names DEF Typed, CountType
<1>2. Owned(w, all) \in SUBSET Emails
  BY DEF Typed, SessionType, SessionSet, ConfirmedIds, Owned, RowSet
<1>3. AbandonPlan(w, all) \in {"park", "delete", "convert"}
  BY DEF AbandonPlan
<1>4. Good(Converted(w, all))
  <2>1. Unborn \in RowSet
    BY RowValues DEF Good
  <2>2. w.text \in 0..MaxEdits /\ (w.phase = "queued") \in BOOLEAN
    BY DEF RowSet
  <2>3. Converted(w, all) \in RowSet
    BY <1>2, <2>1, <2>2 DEF Converted, RowSet, Kinds, Statuses
  <2>4. Converted(w, all).attempts = 0 /\ Converted(w, all).status = "pending"
    BY DEF Converted, Unborn
  <2> QED
    BY <1>1, <2>3, <2>4, Names DEF Good, Budget
<1>5. Good([w EXCEPT !.status = "conflicted"])
  BY <1>1, Names DEF Good, Budget, RowSet, Statuses
<1>6. Good(Retired(w))
  BY RowValues
<1> QED
  BY <1>3, <1>4, <1>5, <1>6 DEF Abandoned

\* Giving one row a good value keeps the rows typed.
LEMMA OneRow ==
  ASSUME Typed, NEW r \in Rows, NEW w, Good(w), row' = [row EXCEPT ![r] = w],
         UNCHANGED restarts
  PROVE  RowType'
BY DEF Typed, RowType, Good, Budget

\* The ends of a request.
LEMMA RequestEnds ==
  ASSUME Typed, NEW r \in Rows, NEW w \in RowSet, Budget(w), UNCHANGED restarts
  PROVE  /\ \A request \in Requests : Proceed(r, w, request) => RowType' /\ TaskType'
         /\ Fail(r, w) => RowType' /\ TaskType'
         /\ Settle(r, Ended(w)) => RowType' /\ TaskType'
<1>1. Good(Retired(w)) /\ Good(Ended(w))
  BY RowValues
<1>2. ASSUME NEW v, Good(v), Settle(r, v)
      PROVE  RowType' /\ TaskType'
  <2>1. RowType'
    BY <1>2, OneRow DEF Settle
  <2>2. TaskType'
    BY <1>2 DEF Settle, Typed, TaskType, TaskSet
  <2> QED
    BY <2>1, <2>2
<1>3. ASSUME NEW request \in Requests, Proceed(r, w, request)
      PROVE  RowType' /\ TaskType'
  <2>1. CASE Finished(w)
    BY <1>1, <1>2, <1>3, <2>1 DEF Proceed
  <2>2. CASE ~Finished(w)
    <3>1. RowType'
      BY <1>3, <2>2, OneRow DEF Proceed, Good
    <3>2. TaskType'
      BY <1>3, <2>2 DEF Proceed, Typed, TaskType, TaskSet
    <3> QED
      BY <3>1, <3>2
  <2> QED
    BY <2>1, <2>2
<1>4. ASSUME Fail(r, w)
      PROVE  RowType' /\ TaskType'
  <2>1. Retryable(w) => Good([w EXCEPT !.status = "retry"])
    <3>1. restarts \in Nat /\ restarts <= MaxRestarts
      BY Names DEF Typed, CountType
    <3> QED
      BY <3>1, Names DEF Retryable, Good, Budget, RowSet, Statuses
  <2> QED
    BY <1>1, <1>2, <1>4, <2>1 DEF Fail
<1> QED
  BY <1>1, <1>2, <1>3, <1>4

(***************************************************************************)
(* Steps of the session.                                                   *)
(***************************************************************************)
LEMMA SessionTyped ==
  ASSUME Typed, SessionStep \/ UserStep
  PROVE  Typed'
<1>1. session \in SessionSet /\ \A r \in Rows : row[r] \in RowSet /\ Budget(row[r])
  BY DEF Typed, SessionType, RowType
<1>3. UNCHANGED row /\ UNCHANGED restarts => RowType'
  BY DEF Typed, RowType, Budget
<1>4. ASSUME Edit PROVE Typed'
  <2>1. session' \in SessionSet
    <3>1. session.text \in 0..MaxEdits /\ session.text < MaxEdits
      BY <1>1, <1>4 DEF Edit, SessionSet
    <3>2. session.text + 1 \in 0..MaxEdits /\ (~session.blocked) \in BOOLEAN
      BY <3>1, Names
    <3>3. session' = [session EXCEPT !.text = session.text + 1, !.timer = ~session.blocked]
      BY <1>4 DEF Edit
    <3> QED
      BY <1>1, <3>2, <3>3 DEF SessionSet
  <2> QED
    BY <1>3, <1>4, <2>1 DEF Edit, Typed, ServerType, serverVars, TaskType, CountType, SessionType
<1>5. ASSUME Autosave PROVE Typed'
  <2>1. session' \in SessionSet /\ RowType'
    <3>1. CASE session.blocked \/ session.saving # 0 \/ ~Dirty(session)
      BY <1>1, <1>3, <1>5, <3>1 DEF Autosave, SessionSet
    <3>2. CASE ~(session.blocked \/ session.saving # 0 \/ ~Dirty(session))
      <4>1. PICK r \in Fresh : /\ row' = [row EXCEPT ![r] = NewSave(session)]
                               /\ session' = Saving(session, r)
        BY <1>5, <3>2 DEF Autosave
      <4>2. r \in Rows
        BY DEF Fresh
      <4> QED
        BY <1>1, <1>5, <4>1, <4>2, RowValues, SessionValues, OneRow DEF Autosave
    <3> QED
      BY <3>1, <3>2
  <2> QED
    BY <1>5, <2>1 DEF Autosave, Typed, ServerType, serverVars, TaskType, CountType, SessionType
<1>6. ASSUME SaveAndClose PROVE Typed'
  <2>1. session' \in SessionSet /\ RowType'
    <3>1. CASE session.blocked
      <4>1. session.failed \in Rows
        BY <1>1, <1>6, <3>1 DEF SaveAndClose, SessionSet
      <4>2. session' \in SessionSet
        BY <1>1, <1>6, <3>1, <4>1 DEF SaveAndClose, SessionSet, Ops
      <4>3. RowType'
        <5>1. Good(Revived(row[session.failed]))
          BY <1>1, <4>1, RowValues
        <5> QED
          BY <1>6, <3>1, <4>1, <5>1, OneRow DEF SaveAndClose
      <4> QED
        BY <4>2, <4>3
    <3>2. CASE ~session.blocked /\ session.saving # 0
      <4>1. /\ session' = [session EXCEPT !.timer = FALSE, !.op = "join"]
            /\ UNCHANGED <<row, restarts>>
        BY <1>6, <3>2 DEF SaveAndClose
      <4>2. session' \in SessionSet
        BY <1>1, <4>1 DEF SessionSet, Ops
      <4> QED
        BY <1>3, <4>1, <4>2
    <3>3. CASE ~session.blocked /\ session.saving = 0 /\ Dirty(session)
      <4>1. PICK r \in Fresh : /\ row' = [row EXCEPT ![r] = NewSave(session)]
                               /\ session' = [Saving(session, r) EXCEPT !.op = "save"]
        BY <1>6, <3>3 DEF SaveAndClose
      <4>2. r \in Rows
        BY DEF Fresh
      <4>3. Saving(session, r) \in SessionSet /\ Good(NewSave(session))
        BY <1>1, <4>2, RowValues, SessionValues
      <4>4. session' \in SessionSet
        BY <4>1, <4>3, SessionValues DEF Ops
      <4> QED
        BY <1>6, <4>1, <4>2, <4>3, <4>4, OneRow DEF SaveAndClose
    <3>4. CASE ~session.blocked /\ session.saving = 0 /\ ~Dirty(session)
      BY <1>1, <1>3, <1>6, <3>4, SessionValues DEF SaveAndClose, Ends
    <3> QED
      BY <3>1, <3>2, <3>3, <3>4
  <2> QED
    BY <1>6, <2>1 DEF SaveAndClose, Typed, ServerType, serverVars, TaskType, CountType, SessionType
<1>7. ASSUME SaveConfirmed PROVE Typed'
  <2> DEFINE s == Applied(row[session.saving])
  <2>1. session.saving \in Rows
    BY <1>1, <1>7 DEF SaveConfirmed, SessionSet
  <2>2. s \in SessionSet
    BY <1>1, <2>1 DEF Applied, SessionSet, RowSet
  <2> HIDE DEF s
  <2>3. session' \in SessionSet /\ RowType'
    <3>1. CASE FollowUp(s)
      <4>1. PICK q \in Fresh :
              /\ row' = [row EXCEPT ![q] = NewSave(s)]
              /\ session' = [Saving(s, q) EXCEPT
                               !.op = CASE @ = "save" -> "none"
                                        [] @ = "retry" -> "save"
                                        [] OTHER -> @]
        BY <1>7, <3>1 DEF SaveConfirmed, s
      <4>2. q \in Rows
        BY DEF Fresh
      <4>3. Saving(s, q) \in SessionSet /\ Good(NewSave(s))
        BY <2>2, <4>2, RowValues, SessionValues
      <4>4. session' \in SessionSet
        BY <4>1, <4>3 DEF SessionSet, Ops
      <4> QED
        BY <1>7, <4>1, <4>2, <4>3, <4>4, OneRow DEF SaveConfirmed
    <3>2. CASE ~FollowUp(s)
      <4>1. session' = Closed(s, "saved") \/ session' = s
        BY <1>7, <3>2 DEF SaveConfirmed, s
      <4>2. UNCHANGED <<row, restarts>>
        BY <1>7, <3>2 DEF SaveConfirmed, s
      <4> QED
        BY <1>3, <2>2, <4>1, <4>2, SessionValues DEF Ends
    <3> QED
      BY <3>1, <3>2
  <2> QED
    BY <1>7, <2>3 DEF SaveConfirmed, Typed, ServerType, serverVars, TaskType, CountType, SessionType
<1>8. ASSUME SaveFailed PROVE Typed'
  <2>1. session' \in SessionSet
    BY <1>1, <1>8 DEF SaveFailed, SessionSet, Ops
  <2> QED
    BY <1>3, <1>8, <2>1 DEF SaveFailed, Typed, ServerType, serverVars, TaskType, CountType, SessionType
<1>9. ASSUME CloseClean PROVE Typed'
  <2>1. session' \in SessionSet
    BY <1>1, <1>9, SessionValues DEF CloseClean, Ends
  <2> QED
    BY <1>3, <1>9, <2>1 DEF CloseClean, Typed, ServerType, serverVars, TaskType, CountType, SessionType
<1>10. ASSUME BeginDontSave \/ BeginDiscard PROVE Typed'
  <2>1. session' \in SessionSet
    BY <1>1, <1>10 DEF BeginDontSave, BeginDiscard, SessionSet, Ops
  <2> QED
    BY <1>3, <1>10, <2>1 DEF BeginDontSave, BeginDiscard, Typed, ServerType, serverVars,
       TaskType, CountType, SessionType
<1>11. ASSUME DontSave PROVE Typed'
  <2>1. session' \in SessionSet
    BY <1>1, <1>11, SessionValues DEF DontSave, Ends
  <2>2. RowType'
    <3>1. CASE UNCHANGED row
      BY <1>3, <1>11, <3>1 DEF DontSave
    <3>2. CASE session.failed \in Rows
               /\ row' = [row EXCEPT ![session.failed] = Abandoned(@, FALSE)]
      <4>1. Good(Abandoned(row[session.failed], FALSE))
        BY <1>1, <3>2, AbandonedTyped
      <4> QED
        BY <1>11, <3>2, <4>1, OneRow DEF DontSave
    <3> QED
      BY <1>1, <1>11, <3>1, <3>2 DEF DontSave, SessionSet
  <2> QED
    BY <1>11, <2>1, <2>2 DEF DontSave, Typed, ServerType, serverVars, TaskType, CountType, SessionType
<1>12. ASSUME DiscardFailedSave PROVE Typed'
  <2>1. session.failed \in Rows
    BY <1>1, <1>12 DEF DiscardFailedSave, SessionSet
  <2>2. /\ Good(Abandoned(row[session.failed], TRUE))
        /\ AbandonPlan(row[session.failed], TRUE) \in {"park", "delete", "convert"}
    BY <1>1, <2>1, AbandonedTyped
  <2>3. RowType'
    BY <1>3, <1>12, <2>1, <2>2, OneRow DEF DiscardFailedSave
  <2>4. session' \in SessionSet
    <3>1. CASE session.pend # 0
      BY <1>1, <1>12, <3>1, SessionValues DEF DiscardFailedSave, Ops
    <3>2. CASE session.pend = 0
      <4>1. \/ session' = Refused(session) \/ session' = Closed(session, "discarded")
            \/ session' = [session EXCEPT !.failed = 0, !.pend = session.failed,
                                          !.op = "discarding"]
        BY <1>12, <2>2, <3>2 DEF DiscardFailedSave
      <4>2. Refused(session) \in SessionSet /\ Closed(session, "discarded") \in SessionSet
        BY <1>1, SessionValues DEF Ends
      <4>3. [session EXCEPT !.failed = 0, !.pend = session.failed, !.op = "discarding"]
              \in SessionSet
        BY <1>1, <2>1 DEF SessionSet, Ops
      <4> QED
        BY <4>1, <4>2, <4>3
    <3> QED
      BY <3>1, <3>2
  <2> QED
    BY <1>12, <2>3, <2>4 DEF DiscardFailedSave, Typed, ServerType, serverVars, TaskType,
       CountType, SessionType
<1>13. ASSUME DiscardConfirmed PROVE Typed'
  <2>1. session' \in SessionSet /\ RowType'
    <3>1. CASE UNCHANGED row /\ session' = [session EXCEPT !.op = "discarding"]
      BY <1>1, <1>3, <1>13, <3>1, SessionValues DEF DiscardConfirmed, Ops
    <3>2. CASE UNCHANGED row /\ session' = Closed(session, "discarded")
      BY <1>1, <1>3, <1>13, <3>2, SessionValues DEF DiscardConfirmed, Ends
    <3>3. ASSUME NEW r \in Fresh, row' = [row EXCEPT ![r] = NewDiscard],
                 session' = [session EXCEPT !.pend = r, !.op = "discarding"]
          PROVE  session' \in SessionSet /\ RowType'
      <4>1. r \in Rows
        BY DEF Fresh
      <4>2. session' \in SessionSet
        BY <1>1, <3>3, <4>1 DEF SessionSet, Ops
      <4> QED
        BY <1>13, <3>3, <4>1, <4>2, RowValues, OneRow DEF DiscardConfirmed
    <3> QED
      BY <1>13, <3>1, <3>2, <3>3 DEF DiscardConfirmed
  <2> QED
    BY <1>13, <2>1 DEF DiscardConfirmed, Typed, ServerType, serverVars, TaskType, CountType, SessionType
<1>14. ASSUME DiscardAnswered PROVE Typed'
  <2>1. session' \in SessionSet
    BY <1>1, <1>14, SessionValues DEF DiscardAnswered, Ends
  <2> QED
    BY <1>3, <1>14, <2>1 DEF DiscardAnswered, Typed, ServerType, serverVars, TaskType,
       CountType, SessionType
<1>15. ASSUME TabCloses PROVE Typed'
  <2>1. session' \in SessionSet
    BY <1>1, <1>15, SessionValues DEF TabCloses, Ends
  <2> QED
    BY <1>3, <1>15, <2>1 DEF TabCloses, Typed, ServerType, serverVars, TaskType, CountType, SessionType
<1> QED
  BY <1>4, <1>5, <1>6, <1>7, <1>8, <1>9, <1>10, <1>11, <1>12, <1>13, <1>14, <1>15
  DEF SessionStep, UserStep

(***************************************************************************)
(* Steps of a row.                                                         *)
(***************************************************************************)
\* A claimed row has used at most its budget and the attempts restarts took back.
LEMMA ClaimTyped ==
  ASSUME Typed, NEW r \in Rows, Claim(r)
  PROVE  Typed'
<1> DEFINE w == [row[r] EXCEPT !.status = "in_flight", !.attempts = @ + 1]
<1>1. row[r] \in RowSet /\ Budget(row[r]) /\ restarts \in Nat /\ restarts <= MaxRestarts
  BY Names DEF Typed, RowType, CountType
<1>2. row[r].attempts \in Nat /\ row[r].attempts < MaxAttempts + restarts
  BY <1>1, Names DEF Claim, Budget, RowSet
<1>3. row[r].attempts + 1 \in 0..MaxAttempts + MaxRestarts
  BY <1>1, <1>2, Names
<1>4. w \in RowSet
  BY <1>1, <1>3 DEF RowSet, Statuses
<1>5. w.attempts = row[r].attempts + 1 /\ w.status = "in_flight"
  BY <1>1 DEF RowSet
<1>6. Budget(w)
  BY <1>1, <1>2, <1>5, Names DEF Budget
<1>7. FirstRequest(w) \in Requests
  BY DEF FirstRequest, Requests
<1>8. Settle(r, Ended(w)) \/ Proceed(r, w, FirstRequest(w))
  BY DEF Claim
<1>9. UNCHANGED <<serverVars, session, restarts, removals>>
  BY DEF Claim
<1> HIDE DEF w
<1>10. RowType' /\ TaskType'
  BY <1>4, <1>6, <1>7, <1>8, <1>9, RequestEnds
<1> QED
  BY <1>9, <1>10 DEF Typed, ServerType, serverVars, CountType, SessionType

\* A row with other phase, copies or probe has the same budget.
LEMMA SameBudget ==
  ASSUME NEW w \in RowSet, Budget(w)
  PROVE  /\ \A phase \in Phases, pending \in SUBSET Emails :
              Good([w EXCEPT !.phase = phase, !.pending = pending])
         /\ \A phase \in Phases : Good([w EXCEPT !.phase = phase])
         /\ \A e \in Emails, phase \in Phases : Good([w EXCEPT !.phase = phase, !.successor = e])
         /\ \A e \in Emails, phase \in Phases, pending \in SUBSET Emails :
              Good([w EXCEPT !.phase = phase, !.successor = e, !.pending = pending])
         /\ \A pending \in SUBSET Emails : Good([w EXCEPT !.pending = pending])
         /\ \A pending \in SUBSET Emails :
              Good([w EXCEPT !.pending = pending, !.probe = FALSE])
BY DEF Good, Budget, RowSet

\* A request changes the Emails, one row and its task.
LEMMA AttemptTyped ==
  ASSUME Typed, NEW r \in Rows, Attempt(r)
  PROVE  Typed'
<1>1. row[r] \in RowSet /\ Budget(row[r]) /\ UNCHANGED <<session, restarts, removals>>
  BY DEF Typed, RowType, Attempt, Bases, ProbeSave, ProbeDiscard, Create, CreateLate,
     Fetch, Destroy, DestroyLate, Unanswered
<1>2. /\ server \in SUBSET Emails /\ doomed \in SUBSET Emails /\ strays \in SUBSET Emails
      /\ row[r].pending \in SUBSET Emails /\ row[r].base \in SUBSET Emails
      /\ Copies(r) \in SUBSET Emails
  BY <1>1 DEF Typed, ServerType, RowSet, Copies
<1>3. ServerType'
  <2>1. CASE UNCHANGED serverVars
    BY <2>1 DEF Typed, ServerType, serverVars
  <2>2. CASE Create(r)
    BY <1>2, <2>2 DEF Typed, ServerType, Create, NextCopy, FreshCopy
  <2>3. CASE CreateLate(r)
    BY <1>2, <2>3 DEF Typed, ServerType, CreateLate
  <2>4. CASE Destroy(r)
    BY <1>2, <2>4 DEF Typed, ServerType, Destroy
  <2>5. CASE DestroyLate(r)
    BY <1>2, <2>5 DEF Typed, ServerType, DestroyLate
  <2> QED
    BY <2>1, <2>2, <2>3, <2>4, <2>5 DEF Attempt, Bases, ProbeSave, ProbeDiscard, Fetch,
       Unanswered
<1>4. ASSUME NEW w, Good(w), \/ Fail(r, w) \/ Settle(r, Ended(w))
                             \/ \E q \in Requests : Proceed(r, w, q)
      PROVE  RowType' /\ TaskType'
  BY <1>1, <1>4, RequestEnds DEF Good
<1>5. Good(row[r])
  BY <1>1 DEF Good
<1>6. ASSUME Bases(r) PROVE RowType' /\ TaskType'
  <2>1. /\ Good([row[r] EXCEPT !.phase = "queued", !.pending = row[r].base])
        /\ Good([row[r] EXCEPT !.phase = "conflict"])
    BY <1>1, <1>2, SameBudget DEF Phases
  <2> QED
    BY <1>4, <1>6, <2>1 DEF Bases, Requests
<1>7. ASSUME ProbeSave(r) PROVE RowType' /\ TaskType'
  <2>1. CASE Copies(r) = {}
    BY <1>4, <1>5, <1>7, <2>1 DEF ProbeSave, Requests
  <2>2. CASE Copies(r) # {}
    <3>1. PICK e \in Copies(r) :
            Proceed(r, [row[r] EXCEPT !.phase = "created", !.successor = e,
                          !.pending = Predecessors(row[r], r, e)], "fetch")
      BY <1>7, <2>2 DEF ProbeSave
    <3>2. e \in Emails /\ Predecessors(row[r], r, e) \in SUBSET Emails
      BY <1>2 DEF Predecessors
    <3>3. Good([row[r] EXCEPT !.phase = "created", !.successor = e,
                  !.pending = Predecessors(row[r], r, e)])
      BY <1>1, <3>2, SameBudget DEF Phases
    <3> QED
      BY <1>4, <3>1, <3>3 DEF Requests
  <2> QED
    BY <2>1, <2>2
<1>8. ASSUME ProbeDiscard(r) PROVE RowType' /\ TaskType'
  <2>1. Proceed(r, [row[r] EXCEPT !.pending = row[r].pending \cup Copies(r), !.probe = FALSE],
                "destroy")
    BY <1>8 DEF ProbeDiscard
  <2>2. row[r].pending \cup Copies(r) \in SUBSET Emails
    BY <1>2
  <2>3. Good([row[r] EXCEPT !.pending = row[r].pending \cup Copies(r), !.probe = FALSE])
    BY <1>1, <2>2, SameBudget
  <2> QED
    BY <1>4, <2>1, <2>3 DEF Requests
<1>9. ASSUME Create(r) PROVE RowType' /\ TaskType'
  <2>1. PICK e \in NextCopy(r) :
          \/ Proceed(r, [row[r] EXCEPT !.phase = "created", !.successor = e], "fetch")
          \/ Fail(r, row[r])
    BY <1>9 DEF Create
  <2>2. e \in Emails
    BY DEF NextCopy, FreshCopy
  <2>3. Good([row[r] EXCEPT !.phase = "created", !.successor = e])
    BY <1>1, <2>2, SameBudget DEF Phases
  <2> QED
    BY <1>4, <1>5, <2>1, <2>3 DEF Requests
<1>10. ASSUME Fetch(r) PROVE RowType' /\ TaskType'
  <2>1. /\ Good([row[r] EXCEPT !.phase = "cache_pending"])
        /\ Good([row[r] EXCEPT !.phase = "cleanup_pending"])
    BY <1>1, SameBudget DEF Phases
  <2>2. \/ Proceed(r, [row[r] EXCEPT !.phase = "cache_pending"], "destroy")
        \/ Proceed(r, [row[r] EXCEPT !.phase = "cleanup_pending"], "destroy")
        \/ Fail(r, row[r])
    BY <1>10 DEF Fetch
  <2> QED
    BY <1>4, <1>5, <2>1, <2>2 DEF Requests
<1>11. ASSUME Destroy(r) PROVE RowType' /\ TaskType'
  <2>1. PICK left \in SUBSET Emails :
          \/ Proceed(r, [row[r] EXCEPT !.pending = left], "destroy")
          \/ Fail(r, [row[r] EXCEPT !.pending = left]) \/ Fail(r, row[r])
    BY <1>2, <1>11 DEF Destroy
  <2>2. Good([row[r] EXCEPT !.pending = left])
    BY <1>1, SameBudget
  <2> QED
    BY <1>4, <1>5, <2>1, <2>2 DEF Requests
<1>12. ASSUME CreateLate(r) \/ DestroyLate(r) \/ Unanswered(r) PROVE RowType' /\ TaskType'
  BY <1>4, <1>5, <1>12 DEF CreateLate, DestroyLate, Unanswered
<1>13. RowType' /\ TaskType'
  BY <1>6, <1>7, <1>8, <1>9, <1>10, <1>11, <1>12 DEF Attempt
<1> QED
  BY <1>1, <1>3, <1>13 DEF Typed, CountType, SessionType

(***************************************************************************)
(* Steps of the world.                                                     *)
(***************************************************************************)
\* Late service and other clients touch Emails only.
LEMMA WorldTyped ==
  ASSUME Typed,
         \/ \E r \in Rows : ServeCreate(r)
         \/ \E e \in Emails : ServeDestroy(e) \/ Remove(e)
  PROVE  Typed'
<1>1. ServerType'
  BY DEF Typed, ServerType, ServeCreate, ServeDestroy, Remove, NextCopy, FreshCopy
<1>2. CountType' /\ UNCHANGED <<row, task, session, restarts>>
  BY Names DEF Typed, CountType, ServeCreate, ServeDestroy, Remove
<1> QED
  BY <1>1, <1>2 DEF Typed, RowType, Budget, TaskType, SessionType

\* A row that was in flight gets back the attempt the dead worker used.
LEMMA WorkerDiesTyped ==
  ASSUME Typed, WorkerDies
  PROVE  Typed'
<1>1. restarts \in Nat /\ restarts < MaxRestarts /\ restarts' = restarts + 1
      /\ UNCHANGED <<server, strays, removals>>
  BY Names DEF Typed, CountType, WorkerDies
<1>2. ServerType'
  BY DEF Typed, ServerType, WorkerDies
<1>3. RowType'
  <2> SUFFICES ASSUME NEW r \in Rows
               PROVE  row'[r] \in RowSet /\ Budget(row[r])'
    BY DEF RowType, WorkerDies
  <2>1. row[r] \in RowSet /\ Budget(row[r])
    BY DEF Typed, RowType
  <2>2. CASE row[r].status = "in_flight"
    <3>1. row'[r] = [row[r] EXCEPT !.status = "pending"]
      BY <2>2 DEF WorkerDies
    <3>2. row'[r] \in RowSet
      BY <2>1, <3>1 DEF RowSet, Statuses
    <3>3. row'[r].attempts = row[r].attempts /\ row'[r].status = "pending"
      BY <2>1, <3>1 DEF RowSet
    <3>4. row[r].attempts \in Nat
      BY <2>1, Names DEF RowSet
    <3> QED
      BY <1>1, <2>1, <3>2, <3>3, <3>4, Names DEF Budget
  <2>3. CASE row[r].status # "in_flight"
    <3>1. row'[r] = row[r]
      BY <2>3 DEF WorkerDies
    <3>2. row[r].attempts \in Nat
      BY <2>1, Names DEF RowSet
    <3> QED
      BY <1>1, <2>1, <3>1, <3>2, Names DEF Budget
  <2> QED
    BY <2>2, <2>3
<1>4. TaskType'
  BY DEF WorkerDies, TaskType, TaskSet
<1>5. SessionType'
  <2>1. (IF open THEN "lost" ELSE session.end) \in Ends /\ session \in SessionSet
    BY DEF Typed, SessionType, SessionSet, Ends
  <2> QED
    BY <2>1, SessionValues DEF WorkerDies, SessionType
<1>6. CountType'
  BY <1>1, Names DEF Typed, CountType
<1> QED
  BY <1>2, <1>3, <1>4, <1>5, <1>6 DEF Typed

\* The session of DraftSession starts with its types.
LEMMA InitTyped == Init => Typed
<1> SUFFICES ASSUME Init PROVE Typed
  OBVIOUS
<1>1. Unborn \in RowSet /\ Budget(Unborn) /\ CountType
  BY Names DEF Init, CountType, Budget, Unborn, RowSet, Kinds, Statuses, Phases
<1>2. RowType
  BY <1>1 DEF Init, RowType
<1>3. session \in SessionSet
  BY Names DEF Init, SessionSet, Ends, Ops
<1> QED
  BY <1>1, <1>2, <1>3, Names DEF Init, Typed, ServerType, TaskType, TaskSet, SessionType

\* Every step keeps the types.
LEMMA TypedStep ==
  ASSUME Typed, [Next]_vars
  PROVE  Typed'
<1>1. CASE SessionStep \/ UserStep
  BY <1>1, SessionTyped
<1>2. CASE WorkerDies
  BY <1>2, WorkerDiesTyped
<1>3. ASSUME NEW r \in Rows, Claim(r) \/ Attempt(r) \/ ServeCreate(r)
      PROVE  Typed'
  BY <1>3, ClaimTyped, AttemptTyped, WorldTyped
<1>4. ASSUME NEW e \in Emails, ServeDestroy(e) \/ Remove(e)
      PROVE  Typed'
  BY <1>4, WorldTyped
<1>5. CASE UNCHANGED vars
  BY <1>5 DEF vars, serverVars, Typed, ServerType, RowType, Budget, TaskType, SessionType,
     CountType
<1> QED
  BY <1>1, <1>2, <1>3, <1>4, <1>5 DEF Next

\* Every state of a compose session and its rows has its types: no row is
\* claimed beyond its budget and the attempts that restarts took back.
THEOREM TypeCorrect == Spec => []TypeOK
<1>1. Typed /\ [Next]_vars => Typed'
  BY TypedStep
<1> QED
  BY <1>1, InitTyped, TypedIsTypeOK, PTL DEF Spec

(***************************************************************************)
(* The shape of the rows and of the session.  A row waits for a request its *)
(* phase allows, and destroys only its base and copies of its own revision; *)
(* what the session remembers agrees with its rows.                        *)
(***************************************************************************)
Made == {"created", "cache_pending", "cleanup_pending"}
Removing == {"cache_pending", "cleanup_pending"}
Owner(e) == e[1]
Spent(k) == k = 0 \/ (k \in Rows /\ row[k].status = "gone")
AtMostOne(S) == \A e, f \in S : e = f

\* A save: the request it waits for fits its phase, and it destroys only its base
\* and copies of its own revision, never the successor.
SaveShape(r, w, t) ==
  /\ t = "bases" => w.phase \in {"null", "queued"}
  /\ t \in {"probe", "create"} => w.phase = "queued"
  /\ t = "fetch" => w.phase = "created"
  /\ t = "destroy" => w.phase \in Removing
  /\ w.phase = "null" => w.pending = {}
  /\ w.phase = "queued" => w.pending = w.base
  /\ w.phase \in Made => w.successor # None
  /\ w.phase \in {"null", "queued"} /\ w.status # "gone" => w.successor = None
  /\ w.successor \notin w.pending
  /\ \A e \in w.pending : e \in w.base \/ Owner(e) = r

DiscardShape(w, t) ==
  /\ w.phase = "null" /\ w.successor = None
  /\ t \in {"idle", "probe", "destroy"}
  /\ t = "probe" => w.probe
  /\ t = "destroy" => ~w.probe

RowShape(r, w, t) ==
  /\ w.status = "unborn" => w = Unborn
  /\ w.status = "gone" => w.pending = {} /\ w.phase = "null"
  /\ t # "idle" => w.status = "in_flight" /\ w.phase # "conflict"
  /\ w.successor # None => Owner(w.successor) = r
  /\ AtMostOne(w.base)
  /\ w.kind = "save" => SaveShape(r, w, t)
  /\ w.kind = "discard" => DiscardShape(w, t)

Shape ==
  \A r \in Rows : /\ RowShape(r, row[r], task[r])
                  /\ \A e \in row[r].base : Spent(Owner(e))
                  /\ row[r].text <= session.text

\* What a session remembers agrees with its rows: the confirmed copy is of a row
\* that retired, the seed its text; a save it waits for or failed is a save.
Remembers(s) ==
  /\ s.confirmed # None =>
       Spent(Owner(s.confirmed)) /\ s.seed = TextOf(s.confirmed)
  /\ s.seed <= s.text
  /\ s.end = "saved" => s.text = s.seed
  /\ s.end # "open" => s.saving = 0 /\ s.failed = 0 /\ s.pend = 0
  /\ s.blocked /\ s.saving # 0 => s.op \in {"discard", "dontSave"}
  /\ s.failed # 0 => row[s.failed].kind = "save"
  /\ s.failed # 0 /\ s.saving = 0 => row[s.failed].status = "conflicted"
  /\ s.saving # 0 =>
       /\ s.failed = s.saving
       /\ row[s.saving].status # "unborn"
       /\ row[s.saving].status = "gone" => row[s.saving].successor # None

SessionShape == Remembers(session)

\* The confirmed copies are Emails, one at most.
LEMMA ConfirmedFacts ==
  ASSUME Typed PROVE /\ AtMostOne(ConfirmedIds) /\ ConfirmedIds \subseteq Emails
                     /\ None \notin Emails
                     /\ \A e \in ConfirmedIds : e = session.confirmed /\ e # None
BY Names DEF AtMostOne, ConfirmedIds, Typed, SessionType, SessionSet, None, Emails

\* The values a row may take keep the shape.
LEMMA ShapeValues ==
  ASSUME Typed, NEW r \in Rows
  PROVE  /\ \A s \in SessionSet : RowShape(r, NewSave(s), "idle")
         /\ RowShape(r, NewDiscard, "idle")
         /\ \A w \in RowSet, t \in TaskSet :
              RowShape(r, w, t) /\ w.status \notin {"unborn", "gone"} =>
              /\ RowShape(r, Retired(w), "idle")
              /\ RowShape(r, Ended(w), "idle")
              /\ RowShape(r, [w EXCEPT !.status = "retry"], "idle")
              /\ RowShape(r, Revived(w), "idle")
              /\ \A all \in BOOLEAN : RowShape(r, Abandoned(w, all), "idle")
<1> USE DEF RowShape, SaveShape, DiscardShape, Made, Removing
<1>1. ASSUME NEW s \in SessionSet PROVE RowShape(r, NewSave(s), "idle")
  BY Names DEF NewSave, Unborn, SessionSet, AtMostOne
<1>2. RowShape(r, NewDiscard, "idle")
  BY ConfirmedFacts DEF NewDiscard, Unborn
<1>3. ASSUME NEW w \in RowSet, NEW t \in TaskSet, RowShape(r, w, t),
             w.status \notin {"unborn", "gone"}
      PROVE  /\ RowShape(r, Retired(w), "idle")
             /\ RowShape(r, Ended(w), "idle")
             /\ RowShape(r, [w EXCEPT !.status = "retry"], "idle")
             /\ RowShape(r, Revived(w), "idle")
             /\ \A all \in BOOLEAN : RowShape(r, Abandoned(w, all), "idle")
  <2>1. RowShape(r, Retired(w), "idle")
    BY <1>3 DEF Retired, Unborn, RowSet, AtMostOne, Kinds
  <2>2. RowShape(r, w, "idle")
    BY <1>3 DEF RowSet
  <2>3. RowShape(r, Ended(w), "idle")
    BY <1>3 DEF Ended, RowSet
  <2>4. RowShape(r, [w EXCEPT !.status = "retry"], "idle")
    BY <1>3 DEF RowSet
  <2>5. RowShape(r, Revived(w), "idle")
    BY <1>3, <2>2 DEF Revived, RowSet
  <2>6. ASSUME NEW all \in BOOLEAN PROVE RowShape(r, Abandoned(w, all), "idle")
    <3>1. RowShape(r, [w EXCEPT !.status = "conflicted"], "idle")
      BY <1>3 DEF RowSet
    <3>2. RowShape(r, Converted(w, all), "idle")
      BY DEF Converted, Unborn, AtMostOne
    <3>3. AbandonPlan(w, all) \in {"park", "delete", "convert"}
      BY DEF AbandonPlan
    <3> QED
      BY <2>1, <3>1, <3>2, <3>3 DEF Abandoned
  <2> QED
    BY <2>1, <2>3, <2>4, <2>5, <2>6
<1> QED
  BY <1>1, <1>2, <1>3

\* Changing one row that has not retired keeps the shape of all.
LEMMA OneRowShape ==
  ASSUME Typed, Shape, NEW r \in Rows, NEW v, NEW t,
         row[r].status # "gone", row' = [row EXCEPT ![r] = v],
         \/ task' = [task EXCEPT ![r] = t]
         \/ task' = task /\ task[r] = t,
         RowShape(r, v, t), \A e \in v.base : Spent(Owner(e)), v.text <= session'.text,
         \A q \in Rows : row[q].text <= session'.text
  PROVE  Shape' /\ \A k : Spent(k) => Spent(k)'
<1>1. /\ row'[r] = v /\ \A q \in Rows \ {r} : row'[q] = row[q]
      /\ task'[r] = t /\ \A q \in Rows \ {r} : task'[q] = task[q]
  BY DEF Typed, RowType, TaskType
<1>2. \A k : Spent(k) => Spent(k)'
  BY <1>1 DEF Spent
<1>4. ASSUME NEW q \in Rows
      PROVE  /\ RowShape(q, row'[q], task'[q])
             /\ \A e \in row'[q].base : Spent(Owner(e))'
             /\ row'[q].text <= session'.text
  <2>1. CASE q = r
    BY <1>1, <1>2, <2>1 DEF Shape
  <2>2. CASE q # r
    BY <1>1, <1>2, <2>2 DEF Shape
  <2> QED
    BY <2>1, <2>2
<1>5. \A q \in Rows : RowShape(q, row'[q], task'[q])
                      /\ (\A e \in row'[q].base : Spent(Owner(e))')
                      /\ row'[q].text <= session'.text
  BY <1>4
<1> QED
  BY <1>2, <1>5 DEF Shape, Owner

\* The text of an Email whose row has retired does not change.
LEMMA TextStays ==
  ASSUME NEW e, Spent(Owner(e)),
         \A q \in Rows : row[q].status = "gone" => row'[q] = row[q]
  PROVE  TextOf(e)' = TextOf(e)
BY Names DEF Spent, Owner, TextOf

\* What the proofs about session steps use of the types.
LEMMA SessionFacts ==
  ASSUME Typed, Shape
  PROVE  /\ session \in SessionSet /\ row \in [Rows -> RowSet]
         /\ task \in [Rows -> TaskSet] /\ session.text \in Nat /\ session.seed \in Nat
         /\ \A r \in Rows : row[r].text \in Nat /\ row[r].text <= session.text
         /\ 0 \notin Rows /\ session.failed \in Rows \cup {0}
         /\ session.saving \in Rows \cup {0} /\ session.pend \in Rows \cup {0}
         /\ \A r \in Rows : RowShape(r, row[r], task[r])
         /\ \A r \in Rows : \A e \in row[r].base : Spent(Owner(e))
         /\ \A r \in Rows : row[r].status \in {"unborn", "conflicted"} => task[r] = "idle"
<1>1. /\ session \in SessionSet /\ row \in [Rows -> RowSet] /\ task \in [Rows -> TaskSet]
  BY DEF Typed, SessionType, RowType, TaskType
<1>2. \A r \in Rows : RowShape(r, row[r], task[r])
  BY DEF Shape
<1> QED
  BY <1>1, <1>2, Names DEF SessionSet, RowSet, RowShape, Shape

\* A row that was not there, or failed, takes a new value.
LEMMA NewValue ==
  ASSUME Typed, Shape, NEW r \in Rows, NEW v,
         row[r].status # "gone", task[r] = "idle",
         row' = [row EXCEPT ![r] = v], task' = task, session'.text = session.text,
         RowShape(r, v, "idle"), \A e \in v.base : Spent(Owner(e)),
         v.text <= session.text
  PROVE  /\ Shape' /\ row'[r] = v /\ \A q \in Rows \ {r} : row'[q] = row[q]
         /\ \A k : Spent(k) => Spent(k)'
         /\ \A e : Spent(Owner(e)) => TextOf(e)' = TextOf(e)
<1>1. row'[r] = v /\ \A q \in Rows \ {r} : row'[q] = row[q]
  BY SessionFacts
<1>2. Shape' /\ \A k : Spent(k) => Spent(k)'
  BY SessionFacts, OneRowShape
<1>3. \A q \in Rows : row[q].status = "gone" => row'[q] = row[q]
  BY <1>1
<1> QED
  BY <1>1, <1>2, <1>3, TextStays

\* Inserting the next save of a session s.
LEMMA InsertShape ==
  ASSUME Typed, Shape, NEW s \in SessionSet, Remembers(s), s.end = "open",
         s.text = session.text, NEW r \in Fresh, row' = [row EXCEPT ![r] = NewSave(s)],
         task' = task, session'.text = s.text, session'.saving = r, session'.failed = r,
         session'.confirmed = s.confirmed, session'.seed = s.seed, session'.end = "open",
         session'.blocked = FALSE
  PROVE  Shape' /\ SessionShape'
<1>1. r \in Rows /\ row[r].status = "unborn" /\ 0 \notin Rows
  BY Names DEF Fresh
<1>2. /\ NewSave(s).text = s.text /\ NewSave(s).base = {s.confirmed} \ {None}
      /\ NewSave(s).status = "pending" /\ NewSave(s).kind = "save"
  BY DEF NewSave, Unborn
<1>3. RowShape(r, NewSave(s), "idle")
  BY <1>1, ShapeValues
<1>5. NewSave(s).text <= session.text /\ row[r].status # "gone" /\ task[r] = "idle"
  BY <1>1, <1>2, SessionFacts
<1>6. ASSUME NEW e \in NewSave(s).base PROVE Spent(Owner(e))
  <2>1. e = s.confirmed /\ s.confirmed # None
    BY <1>2
  <2>2. s.confirmed # None => Spent(Owner(s.confirmed))
    BY DEF Remembers
  <2> QED
    BY <2>1, <2>2
<1>7. /\ Shape' /\ row'[r] = NewSave(s)
      /\ \A k : Spent(k) => Spent(k)'
      /\ \A e : Spent(Owner(e)) => TextOf(e)' = TextOf(e)
  <2> HIDE DEF NewSave
  <2> QED
    BY <1>1, <1>3, <1>5, <1>6, NewValue
<1> QED
  BY <1>1, <1>2, <1>7 DEF SessionShape, Remembers

\* A step that leaves the rows alone.
LEMMA SameRowsShape ==
  ASSUME Typed, Shape, UNCHANGED <<row, task>>, session'.text \in Nat,
         session.text <= session'.text
  PROVE  Shape' /\ (Remembers(session') => SessionShape')
BY SessionFacts DEF Shape, SessionShape, Remembers, Spent, Owner, TextOf

\* Taking back the failed save.
LEMMA AbandonShape ==
  ASSUME Typed, Shape, SessionShape, NEW all \in BOOLEAN, session.saving = 0,
         session.failed # 0, row' = [row EXCEPT ![session.failed] = Abandoned(@, all)],
         task' = task, session'.text = session.text
  PROVE  /\ Shape' /\ row'[session.failed] = Abandoned(row[session.failed], all)
         /\ \A k : Spent(k) => Spent(k)'
         /\ \A e : Spent(Owner(e)) => TextOf(e)' = TextOf(e)
<1> DEFINE f == session.failed
           v == Abandoned(row[f], all)
<1>0. f \in Rows
  BY SessionFacts
<1>1. row[f].status = "conflicted" /\ row[f].kind = "save" /\ task[f] = "idle"
  BY <1>0, SessionFacts DEF SessionShape, Remembers
<1>2. row' = [row EXCEPT ![f] = v]
  OBVIOUS
<1>3. RowShape(f, v, "idle")
  <2>1. row[f] \in RowSet /\ RowShape(f, row[f], "idle") /\ "idle" \in TaskSet
    BY <1>0, <1>1, SessionFacts DEF TaskSet
  <2>2. row[f].status \notin {"unborn", "gone"}
    BY <1>1
  <2> HIDE DEF v, f
  <2> QED
    BY <1>0, <2>1, <2>2, ShapeValues DEF v
<1>4. v.base \in {{}, row[f].base} /\ v.text = row[f].text
  <2>1. row[f] \in RowSet
    BY <1>0, SessionFacts
  <2>2. Retired(row[f]).base = {} /\ Retired(row[f]).text = row[f].text
    BY DEF Retired, Unborn
  <2>3. Converted(row[f], all).base = {} /\ Converted(row[f], all).text = row[f].text
    BY DEF Converted, Unborn
  <2>4. AbandonPlan(row[f], all) \in {"park", "delete", "convert"}
    BY DEF AbandonPlan
  <2> QED
    BY <2>1, <2>2, <2>3, <2>4 DEF Abandoned, RowSet
<1>5. \A e \in v.base : Spent(Owner(e))
  BY <1>0, <1>4, SessionFacts
<1>6. v.text <= session.text /\ row[f].status # "gone"
  BY <1>0, <1>1, <1>4, SessionFacts
<1> HIDE DEF v
<1>7. /\ Shape' /\ row'[f] = v
      /\ \A k : Spent(k) => Spent(k)'
      /\ \A e : Spent(Owner(e)) => TextOf(e)' = TextOf(e)
  BY <1>0, <1>1, <1>2, <1>3, <1>5, <1>6, NewValue
<1> QED
  BY <1>7 DEF v

\* The session's own steps keep both.
LEMMA SessionShapeStep ==
  ASSUME Typed, Shape, SessionShape, SessionStep \/ UserStep
  PROVE  Shape' /\ SessionShape'
<1>0. /\ session \in SessionSet /\ session.text \in Nat /\ session.seed \in Nat
      /\ session.text <= session.text /\ Remembers(session) /\ 0 \notin Rows
  BY SessionFacts DEF SessionShape
<1>1. CASE Edit
  <2>1. /\ session'.text = session.text + 1 /\ session'.seed = session.seed
        /\ session'.confirmed = session.confirmed /\ session'.saving = session.saving
        /\ session'.failed = session.failed /\ session'.end = "open" /\ open
        /\ session'.blocked = session.blocked /\ session'.op = session.op
        /\ UNCHANGED <<row, task>>
    BY <1>0, <1>1 DEF Edit, SessionSet, open
  <2>2. Remembers(session')
    BY <1>0, <2>1 DEF Remembers, open
  <2> QED
    BY <1>0, <2>1, <2>2, SameRowsShape
<1>2. CASE Autosave
  <2>1. CASE session.blocked \/ session.saving # 0 \/ ~Dirty(session)
    <3>1. session' = [session EXCEPT !.timer = FALSE] /\ UNCHANGED <<row, task>>
      BY <1>2, <2>1 DEF Autosave
    <3>2. Remembers(session') /\ session'.text = session.text
      BY <1>0, <3>1 DEF SessionSet, Remembers
    <3> QED
      BY <1>0, <3>1, <3>2, SameRowsShape
  <2>2. CASE ~(session.blocked \/ session.saving # 0 \/ ~Dirty(session))
    <3>1. PICK r \in Fresh : /\ row' = [row EXCEPT ![r] = NewSave(session)]
                             /\ session' = Saving(session, r)
      BY <1>2, <2>2 DEF Autosave
    <3>2. /\ session'.text = session.text /\ session'.saving = r /\ session'.failed = r
          /\ session'.confirmed = session.confirmed /\ session'.seed = session.seed
          /\ session'.end = "open" /\ session.end = "open" /\ task' = task
          /\ session'.blocked = FALSE
      BY <1>0, <1>2, <2>2, <3>1 DEF Autosave, Saving, SessionSet, open
    <3> QED
      BY <1>0, <3>1, <3>2, InsertShape
  <2> QED
    BY <2>1, <2>2
<1>3. CASE SaveAndClose
  <2>0. open /\ task' = task
    BY <1>3 DEF SaveAndClose
  <2>1. CASE session.blocked
    <3>1. /\ session.failed # 0
          /\ row' = [row EXCEPT ![session.failed] = Revived(row[session.failed])]
          /\ session' = [session EXCEPT !.blocked = FALSE, !.op = "retry",
                                        !.saving = session.failed]
      BY <1>3, <2>1 DEF SaveAndClose
    <3>2. session.saving = 0 /\ session.failed \in Rows
      BY <1>0, <1>3, <2>1, <3>1, SessionFacts DEF Remembers, SaveAndClose
    <3> DEFINE f == session.failed
               v == Revived(row[f])
    <3>3. row[f].status = "conflicted" /\ row[f].kind = "save" /\ task[f] = "idle"
      BY <1>0, <3>1, <3>2, SessionFacts DEF Remembers
    <3>4. /\ RowShape(f, v, "idle")
          /\ v.base = row[f].base /\ v.text = row[f].text /\ v.kind = "save"
          /\ v.status = "retry"
      BY <3>2, <3>3, SessionFacts, ShapeValues DEF Revived, RowSet
    <3>5. /\ session'.text = session.text /\ session'.seed = session.seed
          /\ session'.confirmed = session.confirmed /\ session'.saving = f
          /\ session'.failed = f /\ session'.end = "open" /\ session'.blocked = FALSE
      BY <1>0, <2>0, <3>1 DEF SessionSet, open
    <3>6. \A e \in v.base : Spent(Owner(e))
      BY <3>2, <3>4, SessionFacts
    <3>7. v.text <= session.text
      BY <3>2, <3>4, SessionFacts
    <3>8. row' = [row EXCEPT ![f] = v] /\ row[f].status # "gone"
      BY <3>1, <3>3
    <3> HIDE DEF v
    <3>9. /\ Shape' /\ row'[f] = v /\ \A k : Spent(k) => Spent(k)'
          /\ \A e : Spent(Owner(e)) => TextOf(e)' = TextOf(e)
      BY <2>0, <3>2, <3>3, <3>4, <3>5, <3>6, <3>7, <3>8, NewValue
    <3>10. session.end = "open"
      BY <2>0 DEF open
    <3>11. session'.saving # 0 /\ row'[f].status # "unborn" /\ row'[f].status # "gone"
           /\ row'[f].kind = "save"
      BY <1>0, <3>2, <3>4, <3>5, <3>9
    <3> QED
      BY <1>0, <3>5, <3>9, <3>10, <3>11 DEF SessionShape, Remembers
  <2>2. CASE ~session.blocked /\ session.saving # 0
    <3>1. session' = [session EXCEPT !.timer = FALSE, !.op = "join"] /\ UNCHANGED <<row, task>>
      BY <1>3, <2>2 DEF SaveAndClose
    <3>2. Remembers(session') /\ session'.text = session.text
      BY <1>0, <2>2, <3>1 DEF SessionSet, Remembers
    <3> QED
      BY <1>0, <3>1, <3>2, SameRowsShape
  <2>3. CASE ~session.blocked /\ session.saving = 0 /\ Dirty(session)
    <3>1. PICK r \in Fresh : /\ row' = [row EXCEPT ![r] = NewSave(session)]
                             /\ session' = [Saving(session, r) EXCEPT !.op = "save"]
      BY <1>3, <2>3 DEF SaveAndClose
    <3>2. /\ session'.text = session.text /\ session'.saving = r /\ session'.failed = r
          /\ session'.confirmed = session.confirmed /\ session'.seed = session.seed
          /\ session'.end = "open" /\ session.end = "open" /\ session'.blocked = FALSE
      BY <1>0, <2>0, <2>3, <3>1 DEF Saving, SessionSet, open
    <3> QED
      BY <1>0, <2>0, <3>1, <3>2, InsertShape
  <2>4. CASE ~session.blocked /\ session.saving = 0 /\ ~Dirty(session)
    <3>1. session' = Closed(session, "saved") /\ UNCHANGED <<row, task>>
      BY <1>3, <2>4 DEF SaveAndClose
    <3>2. Remembers(session') /\ session'.text = session.text
      BY <1>0, <2>4, <3>1 DEF SessionSet, Remembers, Closed, Dirty
    <3> QED
      BY <1>0, <3>1, <3>2, SameRowsShape
  <2> QED
    BY <2>1, <2>2, <2>3, <2>4
<1>4. CASE SaveConfirmed
  <2> DEFINE k == session.saving
             s == Applied(row[k])
  <2>0. open /\ k # 0 /\ row[k].status = "gone" /\ task' = task
    BY <1>4 DEF SaveConfirmed
  <2>1. k \in Rows /\ row[k] \in RowSet
    BY <2>0, SessionFacts
  <2>2. row[k].successor # None /\ Owner(row[k].successor) = k
    BY <1>0, <2>0, <2>1, SessionFacts DEF Remembers, RowShape
  <2>3. /\ s.saving = 0 /\ s.failed = 0 /\ s.seed = row[k].text
        /\ s.confirmed = row[k].successor /\ s.text = session.text /\ s.end = "open"
        /\ s.blocked = session.blocked /\ s.pend = session.pend /\ s \in SessionSet
    BY <1>0, <2>0, <2>1 DEF Applied, SessionSet, RowSet, open
  <2>4. Spent(k) /\ TextOf(row[k].successor) = row[k].text
    BY <2>0, <2>1, <2>2 DEF Spent, TextOf, Owner
  <2>5. row[k].text <= session.text
    BY <2>1, SessionFacts
  <2>6. Remembers(s)
    <3> HIDE DEF s
    <3> QED
      BY <1>0, <2>2, <2>3, <2>4, <2>5 DEF Remembers
  <2>7. CASE FollowUp(s)
    <3>1. PICK q \in Fresh :
            /\ row' = [row EXCEPT ![q] = NewSave(s)]
            /\ session' = [Saving(s, q) EXCEPT
                             !.op = CASE Saving(s, q).op = "save" -> "none"
                                      [] Saving(s, q).op = "retry" -> "save"
                                      [] OTHER -> Saving(s, q).op]
      BY <1>4, <2>7 DEF SaveConfirmed
    <3>2. ~s.blocked
      BY <2>7 DEF FollowUp
    <3> HIDE DEF s
    <3>3. /\ session'.text = s.text /\ session'.saving = q /\ session'.failed = q
          /\ session'.confirmed = s.confirmed /\ session'.seed = s.seed
          /\ session'.end = "open" /\ session'.blocked = FALSE
      BY <2>3, <3>1, <3>2 DEF Saving, SessionSet
    <3> QED
      BY <2>0, <2>3, <2>6, <3>1, <3>3, InsertShape
  <2>8. CASE ~FollowUp(s)
    <3>1. /\ UNCHANGED <<row, task>>
          /\ \/ session' = s
             \/ ~Dirty(s) /\ session' = Closed(s, "saved")
      <4> HIDE DEF s
      <4> QED
        BY <1>4, <2>0, <2>8 DEF SaveConfirmed, s
    <3> HIDE DEF s
    <3>2. Remembers(session') /\ session'.text = session.text
      <4>1. CASE session' = s
        BY <2>3, <2>6, <4>1
      <4>2. CASE ~Dirty(s) /\ session' = Closed(s, "saved")
        BY <1>0, <2>3, <2>6, <4>2 DEF Remembers, Closed, Dirty, SessionSet
      <4> QED
        BY <3>1, <4>1, <4>2
    <3> QED
      BY <1>0, <3>1, <3>2, SameRowsShape
  <2> QED
    BY <2>7, <2>8
<1>5. CASE SaveFailed
  <2>1. /\ session.saving # 0 /\ row[session.saving].status = "conflicted" /\ open
        /\ session' = [session EXCEPT !.saving = 0, !.blocked = TRUE,
               !.op = IF session.op \in {"save", "retry", "join"} THEN "none" ELSE session.op]
        /\ UNCHANGED <<row, task>>
    BY <1>5 DEF SaveFailed
  <2>2. Remembers(session') /\ session'.text = session.text
    BY <1>0, <2>1 DEF SessionSet, Remembers, open
  <2> QED
    BY <1>0, <2>1, <2>2, SameRowsShape
<1>6. CASE CloseClean \/ TabCloses
  <2>1. /\ session' = Closed(session, "clean") \/ session' = Closed(session, "lost")
        /\ UNCHANGED <<row, task>>
    BY <1>6 DEF CloseClean, TabCloses
  <2>2. Remembers(session') /\ session'.text = session.text
    BY <1>0, <2>1 DEF SessionSet, Remembers, Closed
  <2> QED
    BY <1>0, <2>1, <2>2, SameRowsShape
<1>7. CASE BeginDontSave \/ BeginDiscard
  <2>1. /\ \/ session' = [session EXCEPT !.op = "dontSave", !.blocked = TRUE, !.timer = FALSE]
           \/ session' = [session EXCEPT !.op = "discard", !.blocked = TRUE, !.timer = FALSE]
        /\ UNCHANGED <<row, task>>
    BY <1>7 DEF BeginDontSave, BeginDiscard
  <2>2. Remembers(session') /\ session'.text = session.text
    BY <1>0, <2>1 DEF SessionSet, Remembers
  <2> QED
    BY <1>0, <2>1, <2>2, SameRowsShape
<1>8. CASE DontSave
  <2>0. /\ open /\ session.saving = 0 /\ task' = task
    BY <1>8 DEF DontSave
  <2>1. CASE session.pend # 0 \/ session.failed = 0
    <3>1. /\ session' = Refused(session) \/ session' = Closed(session, "unsaved")
          /\ UNCHANGED <<row, task>>
      BY <1>8, <2>1 DEF DontSave
    <3>2. Remembers(session') /\ session'.text = session.text
      BY <1>0, <2>0, <3>1 DEF SessionSet, Remembers, Closed, Refused
    <3> QED
      BY <1>0, <3>1, <3>2, SameRowsShape
  <2>2. CASE session.pend = 0 /\ session.failed # 0
    <3>1. /\ session' = Closed(session, "unsaved")
          /\ row' = [row EXCEPT ![session.failed] = Abandoned(@, FALSE)]
      BY <1>8, <2>2 DEF DontSave
    <3>2. /\ session'.text = session.text /\ session'.saving = 0 /\ session'.failed = 0
          /\ session'.pend = 0 /\ session'.confirmed = session.confirmed
          /\ session'.seed = session.seed /\ session'.end = "unsaved"
      BY <1>0, <3>1 DEF SessionSet, Closed
    <3>3. /\ Shape' /\ \A k : Spent(k) => Spent(k)'
          /\ \A e : Spent(Owner(e)) => TextOf(e)' = TextOf(e)
      BY <2>0, <2>2, <3>1, <3>2, AbandonShape
    <3> QED
      BY <1>0, <3>2, <3>3 DEF SessionShape, Remembers
  <2> QED
    BY <2>1, <2>2
<1>9. CASE DiscardFailedSave
  <2>0. open /\ session.saving = 0 /\ session.failed # 0 /\ task' = task
    BY <1>9 DEF DiscardFailedSave
  <2>1. CASE session.pend # 0
    <3>1. session' = [session EXCEPT !.op = "discarding"] /\ UNCHANGED <<row, task>>
      BY <1>9, <2>1 DEF DiscardFailedSave
    <3>2. Remembers(session') /\ session'.text = session.text
      BY <1>0, <2>0, <3>1 DEF SessionSet, Remembers
    <3> QED
      BY <1>0, <3>1, <3>2, SameRowsShape
  <2>2. CASE session.pend = 0
    <3> DEFINE f == session.failed
               plan == AbandonPlan(row[f], TRUE)
    <3>1. /\ row' = [row EXCEPT ![f] = Abandoned(@, TRUE)]
          /\ session' =
               CASE plan = "park" -> Refused(session)
                 [] plan = "delete" -> Closed(session, "discarded")
                 [] plan = "convert" -> [session EXCEPT !.failed = 0, !.pend = f,
                                                        !.op = "discarding"]
      BY <1>9, <2>2 DEF DiscardFailedSave
    <3>2. plan \in {"park", "delete", "convert"}
      BY DEF AbandonPlan
    <3>3. /\ session'.text = session.text /\ session'.saving = 0
          /\ session'.confirmed = session.confirmed /\ session'.seed = session.seed
          /\ session'.end # "saved"
          /\ \/ plan = "park" /\ session'.end = "open" /\ session'.failed = f
             \/ session'.failed = 0
          /\ session'.end # "open" => session'.pend = 0 /\ session'.failed = 0
      <4> HIDE DEF plan, f
      <4>1. CASE plan = "park"
        BY <1>0, <2>0, <3>1, <4>1 DEF SessionSet, Refused, open, f
      <4>2. CASE plan = "delete"
        BY <1>0, <2>0, <3>1, <4>2 DEF SessionSet, Closed, open
      <4>3. CASE plan = "convert"
        BY <1>0, <2>0, <3>1, <4>3 DEF SessionSet, open
      <4> QED
        BY <3>2, <4>1, <4>2, <4>3
    <3>4. /\ Shape' /\ row'[f] = Abandoned(row[f], TRUE)
          /\ \A k : Spent(k) => Spent(k)'
          /\ \A e : Spent(Owner(e)) => TextOf(e)' = TextOf(e)
      BY <2>0, <3>1, <3>3, AbandonShape
    <3>5. f \in Rows /\ row[f] \in RowSet /\ row[f].kind = "save"
      BY <1>0, <2>0, SessionFacts DEF Remembers
    <3>6. plan = "park" => row'[f].kind = "save" /\ row'[f].status = "conflicted"
      BY <3>4, <3>5 DEF Abandoned, RowSet
    <3> HIDE DEF plan, f
    <3> QED
      BY <1>0, <2>0, <3>3, <3>4, <3>6 DEF SessionShape, Remembers
  <2> QED
    BY <2>1, <2>2
<1>10. CASE DiscardConfirmed
  <2>0. open /\ session.saving = 0 /\ session.failed = 0 /\ task' = task
    BY <1>10 DEF DiscardConfirmed
  <2>1. CASE session.pend # 0 \/ session.confirmed = None
    <3>1. /\ session' = [session EXCEPT !.op = "discarding"]
             \/ session' = Closed(session, "discarded")
          /\ UNCHANGED <<row, task>>
      BY <1>10, <2>1 DEF DiscardConfirmed
    <3>2. Remembers(session') /\ session'.text = session.text
      BY <1>0, <2>0, <3>1 DEF SessionSet, Remembers, Closed, open
    <3> QED
      BY <1>0, <3>1, <3>2, SameRowsShape
  <2>2. CASE session.pend = 0 /\ session.confirmed # None
    <3>1. PICK r \in Fresh : /\ row' = [row EXCEPT ![r] = NewDiscard]
                             /\ session' = [session EXCEPT !.pend = r, !.op = "discarding"]
      BY <1>10, <2>2 DEF DiscardConfirmed
    <3>2. r \in Rows /\ row[r].status = "unborn" /\ task[r] = "idle"
      BY SessionFacts DEF Fresh
    <3>3. NewDiscard.base = ConfirmedIds /\ NewDiscard.text = 0
      BY DEF NewDiscard, Unborn
    <3>4. RowShape(r, NewDiscard, "idle")
      BY <3>2, ShapeValues
    <3>5. \A e \in NewDiscard.base : Spent(Owner(e))
      BY <1>0, <3>3, ConfirmedFacts DEF Remembers
    <3>6. /\ session'.text = session.text /\ session'.saving = 0 /\ session'.failed = 0
          /\ session'.confirmed = session.confirmed /\ session'.seed = session.seed
          /\ session'.end = "open"
      BY <1>0, <2>0, <3>1 DEF SessionSet, open
    <3>7. row[r].status # "gone" /\ NewDiscard.text <= session.text
      BY <1>0, <3>2, <3>3
    <3> HIDE DEF NewDiscard
    <3>8. /\ Shape' /\ \A k : Spent(k) => Spent(k)'
          /\ \A e : Spent(Owner(e)) => TextOf(e)' = TextOf(e)
      BY <2>0, <3>1, <3>2, <3>4, <3>5, <3>6, <3>7, NewValue
    <3> QED
      BY <1>0, <2>0, <3>6, <3>8 DEF SessionShape, Remembers
  <2> QED
    BY <2>1, <2>2
<1>11. CASE DiscardAnswered
  <2>1. /\ session' = Closed(session, "discarded") \/ session' = Refused(session)
        /\ UNCHANGED <<row, task>> /\ open /\ session.op = "discarding"
    BY <1>11 DEF DiscardAnswered
  <2>2. Remembers(session') /\ session'.text = session.text
    BY <1>0, <2>1 DEF SessionSet, Remembers, Closed, Refused, open
  <2> QED
    BY <1>0, <2>1, <2>2, SameRowsShape
<1> QED
  BY <1>1, <1>2, <1>3, <1>4, <1>5, <1>6, <1>7, <1>8, <1>9, <1>10, <1>11
  DEF SessionStep, UserStep

Changed(r, v, t) == row' = [row EXCEPT ![r] = v] /\ task' = [task EXCEPT ![r] = t]

\* A row that runs takes a new value.
LEMMA MoveShape ==
  ASSUME Typed, Shape, SessionShape, NEW r \in Rows, NEW v, NEW t, Changed(r, v, t),
         session' = session, row[r].status # "gone", row[r].status # "conflicted",
         row[r].status # "unborn", RowShape(r, v, t), v.base \subseteq row[r].base,
         v.text = row[r].text, v.kind = row[r].kind, v.status # "unborn",
         v.status = "gone" /\ v.kind = "save" => v.successor # None
  PROVE  Shape' /\ SessionShape'
<1>1. /\ row'[r] = v /\ \A q \in Rows \ {r} : row'[q] = row[q]
  BY SessionFacts DEF Changed
<1>2. \A e \in v.base : Spent(Owner(e))
  BY SessionFacts
<1>3. v.text <= session'.text /\ \A q \in Rows : row[q].text <= session'.text
  BY SessionFacts
<1>4. Shape' /\ \A k : Spent(k) => Spent(k)'
  BY <1>2, <1>3, OneRowShape DEF Changed
<1>5. \A q \in Rows : row[q].status = "gone" => row'[q] = row[q]
  BY <1>1
<1>6. \A e : Spent(Owner(e)) => TextOf(e)' = TextOf(e)
  BY <1>5, TextStays
<1>7. session.failed \in Rows \cup {0} /\ session.saving \in Rows \cup {0} /\ 0 \notin Rows
  BY SessionFacts
<1> QED
  BY <1>1, <1>4, <1>6, <1>7 DEF SessionShape, Remembers

\* What a request leaves behind when it goes on, and when it ends in failure.
LEMMA ProceedEnds ==
  ASSUME NEW r, NEW w, NEW q, Proceed(r, w, q)
  PROVE  \/ Finished(w) /\ Changed(r, Retired(w), "idle")
         \/ ~Finished(w) /\ Changed(r, w, q)
BY DEF Proceed, Settle, Changed

\* What a request leaves behind when it ends in failure.
LEMMA FailEnds ==
  ASSUME NEW r, NEW w, Fail(r, w)
  PROVE  Changed(r, [w EXCEPT !.status = "retry"], "idle") \/ Changed(r, Ended(w), "idle")
BY DEF Fail, Settle, Changed

\* The ends of a request keep the shape.
LEMMA EndsShape ==
  ASSUME Typed, Shape, SessionShape, NEW r \in Rows, NEW w \in RowSet, session' = session,
         row[r].status # "gone", row[r].status # "conflicted", row[r].status # "unborn",
         w.status = "in_flight", w.base = row[r].base, w.text = row[r].text,
         w.kind = row[r].kind, RowShape(r, w, "idle")
  PROVE  /\ \A q : RowShape(r, w, q) /\ Proceed(r, w, q) => Shape' /\ SessionShape'
         /\ Fail(r, w) => Shape' /\ SessionShape'
         /\ Settle(r, Ended(w)) => Shape' /\ SessionShape'
<1>1. /\ RowShape(r, Retired(w), "idle") /\ RowShape(r, Ended(w), "idle")
      /\ RowShape(r, [w EXCEPT !.status = "retry"], "idle")
  <2>1. "idle" \in TaskSet /\ w.status \notin {"unborn", "gone"}
    BY DEF TaskSet
  <2> QED
    BY <2>1, ShapeValues
<1>2. ASSUME NEW q, RowShape(r, w, q), Proceed(r, w, q) PROVE Shape' /\ SessionShape'
  <2>1. CASE Finished(w) /\ Changed(r, Retired(w), "idle")
    <3>1. /\ Retired(w).base = {} /\ Retired(w).text = w.text /\ Retired(w).kind = w.kind
          /\ Retired(w).status = "gone" /\ Retired(w).successor = w.successor
      BY DEF Retired, Unborn
    <3>2. w.kind = "save" => w.successor # None
      BY <2>1 DEF Finished, RowShape, SaveShape, Made
    <3>3. Retired(w).base \subseteq row[r].base
      BY <3>1
    <3> HIDE DEF Retired
    <3> QED
      BY <1>1, <2>1, <3>1, <3>2, <3>3, MoveShape
  <2>2. CASE ~Finished(w) /\ Changed(r, w, q)
    BY <1>2, <2>2, MoveShape
  <2> QED
    BY <1>2, <2>1, <2>2, ProceedEnds
<1>3. ASSUME Changed(r, [w EXCEPT !.status = "retry"], "idle") PROVE Shape' /\ SessionShape'
  <2> DEFINE v == [w EXCEPT !.status = "retry"]
  <2>1. v.base = w.base /\ v.text = w.text /\ v.kind = w.kind /\ v.status = "retry"
    BY DEF RowSet
  <2> HIDE DEF v
  <2>2. v.base \subseteq row[r].base
    BY <2>1
  <2> QED
    BY <1>1, <1>3, <2>1, <2>2, MoveShape DEF v
<1>4. ASSUME Changed(r, Ended(w), "idle") PROVE Shape' /\ SessionShape'
  <2> DEFINE v == Ended(w)
  <2>1. v.base = w.base /\ v.text = w.text /\ v.kind = w.kind /\ v.status = "conflicted"
    BY DEF RowSet, Ended
  <2> HIDE DEF v
  <2>2. v.base \subseteq row[r].base
    BY <2>1
  <2> QED
    BY <1>1, <1>4, <2>1, <2>2, MoveShape DEF v
<1> QED
  BY <1>2, <1>3, <1>4, FailEnds DEF Settle, Changed

\* What an attempt starts from.
LEMMA AttemptFacts ==
  ASSUME Typed, Shape, NEW r \in Rows, task[r] # "idle"
  PROVE  /\ row[r] \in RowSet /\ row[r].status = "in_flight" /\ row[r].phase # "conflict"
         /\ RowShape(r, row[r], task[r]) /\ RowShape(r, row[r], "idle")
         /\ row[r].kind \in Kinds /\ row[r].phase \in Phases
         /\ row[r].pending \in SUBSET Emails /\ row[r].base \in SUBSET Emails
         /\ None \notin Emails
<1>1. row[r] \in RowSet /\ RowShape(r, row[r], task[r])
  BY SessionFacts
<1>2. row[r].status = "in_flight" /\ row[r].phase # "conflict"
  BY <1>1 DEF RowShape
<1>3. RowShape(r, row[r], "idle")
  BY <1>1, <1>2 DEF RowShape, SaveShape, DiscardShape
<1> QED
  BY <1>1, <1>2, <1>3, ConfirmedFacts DEF RowSet

\* A request keeps the shape.
LEMMA AttemptShape ==
  ASSUME Typed, Shape, SessionShape, NEW r \in Rows, Attempt(r)
  PROVE  Shape' /\ SessionShape'
<1>1. task[r] # "idle" /\ session' = session
  BY DEF Attempt, Bases, ProbeSave, ProbeDiscard, Create, CreateLate, Fetch, Destroy,
     DestroyLate, Unanswered
<1>2. /\ row[r] \in RowSet /\ row[r].status = "in_flight" /\ row[r].phase # "conflict"
      /\ RowShape(r, row[r], task[r]) /\ RowShape(r, row[r], "idle")
      /\ row[r].kind \in Kinds /\ row[r].phase \in Phases
      /\ row[r].pending \in SUBSET Emails /\ row[r].base \in SUBSET Emails
      /\ None \notin Emails
  BY <1>1, AttemptFacts
<1>3. row[r].kind = "save" \/ row[r].kind = "discard"
  BY <1>2 DEF Kinds
<1> DEFINE Same(w) == /\ w \in RowSet /\ w.status = "in_flight" /\ w.base = row[r].base
                      /\ w.text = row[r].text /\ w.kind = row[r].kind
                      /\ RowShape(r, w, "idle")
<1>4. ASSUME NEW w, Same(w), \/ Fail(r, w) \/ Settle(r, Ended(w))
                             \/ \E q : RowShape(r, w, q) /\ Proceed(r, w, q)
      PROVE  Shape' /\ SessionShape'
  BY <1>1, <1>2, <1>4, EndsShape
<1>5. Same(row[r])
  BY <1>2
<1>6. CASE Bases(r)
  <2>1. task[r] = "bases"
    BY <1>6 DEF Bases
  <2>2. row[r].kind = "save" /\ row[r].successor = None
    BY <1>2, <1>3, <2>1 DEF RowShape, SaveShape, DiscardShape
  <2> DEFINE w == [row[r] EXCEPT !.phase = "queued", !.pending = row[r].base]
             v == [row[r] EXCEPT !.phase = "conflict"]
  <2>3. Same(w) /\ RowShape(r, w, "create")
    BY <1>2, <2>2 DEF RowShape, SaveShape, RowSet, Phases, Made, Removing
  <2>4. Same(v)
    BY <1>2, <2>2 DEF RowShape, SaveShape, RowSet, Phases, Made, Removing
  <2>5. Proceed(r, w, "create") \/ Settle(r, Ended(v))
    BY <1>6 DEF Bases
  <2> HIDE DEF w, v, Same
  <2> QED
    BY <1>4, <2>3, <2>4, <2>5
<1>7. CASE ProbeSave(r)
  <2>1. task[r] = "probe" /\ row[r].kind = "save"
    BY <1>7 DEF ProbeSave
  <2>2. CASE Copies(r) = {}
    <3>1. RowShape(r, row[r], "bases")
      BY <1>2, <2>1 DEF RowShape, SaveShape
    <3>2. Proceed(r, row[r], "bases")
      BY <1>7, <2>2 DEF ProbeSave
    <3> HIDE DEF Same
    <3> QED
      BY <1>4, <1>5, <3>1, <3>2
  <2>3. CASE Copies(r) # {}
    <3>1. PICK e \in Copies(r) :
            Proceed(r, [row[r] EXCEPT !.phase = "created", !.successor = e,
                          !.pending = Predecessors(row[r], r, e)], "fetch")
      BY <1>7, <2>3 DEF ProbeSave
    <3> DEFINE w == [row[r] EXCEPT !.phase = "created", !.successor = e,
                          !.pending = Predecessors(row[r], r, e)]
    <3>2. /\ e \in Emails /\ Owner(e) = r /\ e # None
          /\ Predecessors(row[r], r, e) \in SUBSET Emails
          /\ e \notin Predecessors(row[r], r, e)
      BY <1>2 DEF Copies, Predecessors, Owner, Typed, ServerType
    <3>3. \A d \in Predecessors(row[r], r, e) : d \in row[r].base \/ Owner(d) = r
      BY <1>2, <2>1 DEF Predecessors, Copies, Owner, RowShape, SaveShape
    <3>4. Same(w) /\ RowShape(r, w, "fetch")
      BY <1>2, <2>1, <3>2, <3>3 DEF RowShape, SaveShape, RowSet, Phases, Made, Removing
    <3> HIDE DEF w, Same
    <3> QED
      BY <1>4, <3>1, <3>4 DEF w
  <2> QED
    BY <2>2, <2>3
<1>8. CASE ProbeDiscard(r)
  <2>1. task[r] = "probe" /\ row[r].kind = "discard"
    BY <1>8 DEF ProbeDiscard
  <2> DEFINE w == [row[r] EXCEPT !.pending = row[r].pending \cup Copies(r), !.probe = FALSE]
  <2>2. row[r].pending \cup Copies(r) \in SUBSET Emails
    BY <1>2 DEF Copies, Typed, ServerType
  <2>3. Same(w) /\ RowShape(r, w, "destroy")
    BY <1>2, <2>1, <2>2 DEF RowShape, DiscardShape, RowSet
  <2>4. Proceed(r, w, "destroy")
    BY <1>8 DEF ProbeDiscard
  <2> HIDE DEF w, Same
  <2> QED
    BY <1>4, <2>3, <2>4
<1>9. CASE Create(r)
  <2>1. task[r] = "create"
    BY <1>9 DEF Create
  <2>2. PICK e \in NextCopy(r) :
          \/ Proceed(r, [row[r] EXCEPT !.phase = "created", !.successor = e], "fetch")
          \/ Fail(r, row[r])
    BY <1>9 DEF Create
  <2> DEFINE w == [row[r] EXCEPT !.phase = "created", !.successor = e]
  <2>3. e \in Emails /\ Owner(e) = r /\ e \notin row[r].pending /\ e # None
    BY <1>2 DEF NextCopy, FreshCopy, Owner
  <2>4. row[r].kind = "save" /\ row[r].phase = "queued"
    BY <1>2, <1>3, <2>1 DEF RowShape, DiscardShape, SaveShape
  <2>5. Same(w) /\ RowShape(r, w, "fetch")
    BY <1>2, <2>3, <2>4 DEF RowShape, SaveShape, RowSet, Phases, Made, Removing
  <2> HIDE DEF w, Same
  <2> QED
    BY <1>4, <1>5, <2>2, <2>5 DEF w
<1>10. CASE Fetch(r)
  <2>1. task[r] = "fetch"
    BY <1>10 DEF Fetch
  <2>2. row[r].kind = "save" /\ row[r].phase = "created"
    BY <1>2, <1>3, <2>1 DEF RowShape, DiscardShape, SaveShape
  <2>3. ASSUME NEW p \in Removing
        PROVE  /\ Same([row[r] EXCEPT !.phase = p])
               /\ RowShape(r, [row[r] EXCEPT !.phase = p], "destroy")
    BY <1>2, <2>2 DEF RowShape, SaveShape, RowSet, Phases, Made, Removing
  <2>4. \/ \E p \in Removing : Proceed(r, [row[r] EXCEPT !.phase = p], "destroy")
        \/ Fail(r, row[r])
    BY <1>10 DEF Fetch, Removing
  <2> HIDE DEF Same
  <2> QED
    BY <1>4, <1>5, <2>3, <2>4
<1>11. CASE Destroy(r)
  <2>1. task[r] = "destroy"
    BY <1>11 DEF Destroy
  <2>2. PICK left \in SUBSET row[r].pending :
          \/ Proceed(r, [row[r] EXCEPT !.pending = left], "destroy")
          \/ Fail(r, [row[r] EXCEPT !.pending = left]) \/ Fail(r, row[r])
    BY <1>2, <1>11 DEF Destroy
  <2> DEFINE w == [row[r] EXCEPT !.pending = left]
  <2>3. row[r].kind = "save" => row[r].phase \in Removing
    BY <1>2, <2>1 DEF RowShape, SaveShape
  <2>4. Same(w) /\ RowShape(r, w, "destroy")
    <3>1. w \in RowSet
      BY <1>2 DEF RowSet
    <3>2. CASE row[r].kind = "save"
      BY <1>2, <2>1, <2>3, <3>1, <3>2 DEF RowShape, SaveShape, RowSet, Phases, Made, Removing
    <3>3. CASE row[r].kind = "discard"
      BY <1>2, <2>1, <3>1, <3>3 DEF RowShape, DiscardShape, RowSet
    <3> QED
      BY <1>3, <3>2, <3>3
  <2> HIDE DEF w, Same
  <2> QED
    BY <1>4, <1>5, <2>2, <2>4 DEF w
<1>12. CASE CreateLate(r) \/ DestroyLate(r) \/ Unanswered(r)
  <2>1. Fail(r, row[r])
    BY <1>12 DEF CreateLate, DestroyLate, Unanswered
  <2> HIDE DEF Same
  <2> QED
    BY <1>4, <1>5, <2>1
<1> QED
  BY <1>6, <1>7, <1>8, <1>9, <1>10, <1>11, <1>12 DEF Attempt

\* A row that is claimed.
LEMMA ClaimShape ==
  ASSUME Typed, Shape, SessionShape, NEW r \in Rows, Claim(r)
  PROVE  Shape' /\ SessionShape'
<1> DEFINE w == [row[r] EXCEPT !.status = "in_flight", !.attempts = @ + 1]
<1>1. /\ row[r] \in RowSet /\ Budget(row[r]) /\ RowShape(r, row[r], task[r])
      /\ restarts \in Nat /\ restarts <= MaxRestarts
  BY SessionFacts, Names DEF Typed, RowType, CountType
<1>2. row[r].attempts \in Nat /\ row[r].attempts < MaxAttempts + restarts
  BY <1>1, Names DEF Claim, Budget, RowSet
<1>3. row[r].attempts + 1 \in 0..MaxAttempts + MaxRestarts
  BY <1>1, <1>2, Names
<1>4. w \in RowSet
  BY <1>1, <1>3 DEF RowSet, Statuses
<1>5. /\ w.status = "in_flight" /\ w.base = row[r].base /\ w.text = row[r].text
      /\ w.kind = row[r].kind /\ w.phase = row[r].phase /\ w.pending = row[r].pending
      /\ w.successor = row[r].successor /\ w.probe = row[r].probe
  BY <1>1 DEF RowSet
<1>6. row[r].status = "pending" \/ row[r].status = "retry"
  BY DEF Claim
<1>7. Settle(r, Ended(w)) \/ (w.phase # "conflict" /\ Proceed(r, w, FirstRequest(w)))
  BY DEF Claim
<1>8. session' = session
  BY DEF Claim
<1> HIDE DEF w
<1>9. RowShape(r, w, "idle")
  BY <1>1, <1>5, <1>6 DEF RowShape, SaveShape, DiscardShape
<1>10. w.phase # "conflict" => RowShape(r, w, FirstRequest(w))
  <2>1. w.phase \in Phases /\ w.kind \in Kinds
    BY <1>4 DEF RowSet
  <2> QED
    BY <1>5, <1>9, <2>1 DEF RowShape, SaveShape, DiscardShape, FirstRequest, Phases, Kinds,
       Made, Removing
<1> QED
  BY <1>4, <1>5, <1>6, <1>7, <1>8, <1>9, <1>10, EndsShape

\* Late service and other clients do not touch the rows.
LEMMA WorldShape ==
  ASSUME Typed, Shape, SessionShape,
         \/ \E r \in Rows : ServeCreate(r)
         \/ \E e \in Emails : ServeDestroy(e) \/ Remove(e)
         \/ UNCHANGED vars
  PROVE  Shape' /\ SessionShape'
<1>1. UNCHANGED <<row, task, session>>
  BY DEF ServeCreate, ServeDestroy, Remove, vars
<1> QED
  BY <1>1, SessionFacts, SameRowsShape DEF SessionShape

\* The rows survive the worker.
LEMMA WorkerDiesShape ==
  ASSUME Typed, Shape, SessionShape, WorkerDies
  PROVE  Shape' /\ SessionShape'
<1>1. /\ task' = [r \in Rows |-> "idle"]
      /\ \A r \in Rows : row'[r] = IF row[r].status = "in_flight"
                            THEN [row[r] EXCEPT !.status = "pending"] ELSE row[r]
      /\ session' = Closed(session, IF open THEN "lost" ELSE session.end)
  BY DEF WorkerDies
<1>2. /\ session'.text = session.text /\ session'.seed = session.seed
      /\ session'.confirmed = session.confirmed /\ session'.saving = 0
      /\ session'.failed = 0 /\ session'.pend = 0
      /\ session'.end = "saved" => session.end = "saved"
  BY <1>1, SessionFacts DEF SessionSet, Closed
<1>3. ASSUME NEW r \in Rows
      PROVE  /\ RowShape(r, row'[r], "idle") /\ row'[r].base = row[r].base
             /\ row'[r].text = row[r].text
             /\ row[r].status = "gone" => row'[r] = row[r]
  <2>1. row[r] \in RowSet /\ RowShape(r, row[r], task[r])
    BY SessionFacts
  <2> QED
    BY <1>1, <2>1 DEF RowSet, RowShape, SaveShape, DiscardShape
<1>4. \A k : Spent(k) => Spent(k)'
  <2>1. \A k \in Rows : row[k].status = "gone" => row'[k].status = "gone"
    BY <1>3
  <2> QED
    BY <2>1 DEF Spent
<1>5. \A e : Spent(Owner(e)) => TextOf(e)' = TextOf(e)
  BY <1>3, TextStays
<1>6. Shape'
  <2>1. ASSUME NEW r \in Rows
        PROVE  /\ RowShape(r, row'[r], task'[r])
               /\ \A e \in row'[r].base : Spent(Owner(e))'
               /\ row'[r].text <= session'.text
    BY <1>1, <1>2, <1>3, <1>4, SessionFacts
  <2>2. \A q \in Rows : RowShape(q, row'[q], task'[q])
                      /\ (\A e \in row'[q].base : Spent(Owner(e))')
                      /\ row'[q].text <= session'.text
    BY <2>1
  <2> QED
    BY <2>2 DEF Shape, Owner
<1> QED
  BY <1>2, <1>4, <1>5, <1>6 DEF SessionShape, Remembers

\* The rows keep their shape, and the session what it remembers of them.
LEMMA ShapeStep ==
  ASSUME Typed, Shape, SessionShape, [Next]_vars
  PROVE  Shape' /\ SessionShape'
BY SessionShapeStep, AttemptShape, ClaimShape, WorldShape, WorkerDiesShape DEF Next

\* A session that begins has the shape.
LEMMA ShapeInit ==
  ASSUME Init
  PROVE  Shape /\ SessionShape
<1>1. \A r \in Rows : row[r] = Unborn /\ task[r] = "idle"
  BY DEF Init
<1>2. /\ session.text = 0 /\ session.seed = 0 /\ session.saving = 0 /\ session.failed = 0
      /\ session.pend = 0 /\ session.end = "open" /\ session.confirmed \in {Opened, None}
  BY DEF Init
<1>3. Shape
  <2>1. ASSUME NEW r \in Rows PROVE RowShape(r, Unborn, "idle")
    BY DEF RowShape, SaveShape, DiscardShape, Unborn, AtMostOne, Made, Removing
  <2>2. Unborn.base = {} /\ Unborn.text = 0
    BY DEF Unborn
  <2> QED
    BY <1>1, <1>2, <2>1, <2>2 DEF Shape
<1>4. session.confirmed # None => Owner(session.confirmed) = 0 /\ TextOf(session.confirmed) = 0
  BY <1>2 DEF Opened, Owner, TextOf
<1>5. SessionShape
  <2>1. session.confirmed # None =>
         Spent(Owner(session.confirmed)) /\ session.seed = TextOf(session.confirmed)
    BY <1>2, <1>4 DEF Spent
  <2> QED
    BY <1>2, <2>1 DEF SessionShape, Remembers
<1> QED
  BY <1>3, <1>5

(***************************************************************************)
(* One row runs at a time, and the session knows it, unless a discard failed *)
(* for good: then the session keeps that failure in mind.                  *)
(***************************************************************************)
Active(r) ==
  row[r].status # "unborn" /\ row[r].status # "gone" /\ row[r].phase # "conflict"

NoneActive == \A r \in Rows : ~Active(r)

\* A discard that failed for good; nothing retries it.
Ruined == \E r \in Rows : row[r].kind = "discard" /\ row[r].status = "conflicted"

RuinedOpen ==
  Ruined => /\ session.end # "discarded"
            /\ open => /\ session.pend # 0
                       /\ row[session.pend].kind = "discard"
                       /\ row[session.pend].status = "conflicted"

\* The session knows the row that runs: its failed or running save, or the discard
\* it waits for.
Tracked(r) ==
  \/ r = session.failed /\ row[r].kind = "save" /\ row[r].base = ConfirmedIds
  \/ r = session.pend /\ row[r].kind = "discard" /\ session.op = "discarding"

Waiting ==
  /\ session.failed # 0 /\ session.saving = 0 =>
       session.blocked \/ row[session.failed].phase = "conflict"
  /\ session.pend # 0 <=> session.op = "discarding"
  /\ session.op = "discarding" =>
       /\ session.saving = 0 /\ session.failed = 0
       /\ row[session.pend].kind = "discard" /\ row[session.pend].status # "unborn"
  /\ session.op \in {"discard", "dontSave", "discarding"} => session.blocked

OneActive ==
  /\ \A r, q \in Rows : Active(r) /\ Active(q) => r = q
  /\ open => Waiting /\ \A r \in Rows : Active(r) => Tracked(r)
  /\ session.end = "discarded" => NoneActive

OneInv == RuinedOpen /\ (Ruined \/ OneActive)

\* A failed discard stays failed, and the session keeps it in mind.
LEMMA RuinedSession ==
  ASSUME Typed, Shape, SessionShape, Ruined, RuinedOpen, SessionStep \/ UserStep
  PROVE  Ruined' /\ RuinedOpen'
<1>0. /\ session \in SessionSet /\ row \in [Rows -> RowSet] /\ Remembers(session)
      /\ 0 \notin Rows /\ session.pend \in Rows \cup {0} /\ session.failed \in Rows \cup {0}
  BY SessionFacts DEF SessionShape
<1>1. open
  BY DEF SessionStep, UserStep, Edit, Autosave, SaveAndClose, SaveConfirmed, SaveFailed,
     CloseClean, BeginDontSave, BeginDiscard, DontSave, DiscardFailedSave,
     DiscardConfirmed, DiscardAnswered, TabCloses
<1>2. session.pend # 0 /\ row[session.pend].kind = "discard"
      /\ row[session.pend].status = "conflicted" /\ session.pend \in Rows
  BY <1>0, <1>1 DEF RuinedOpen
<1> DEFINE Unmoved(q) == row[q].kind = "discard" /\ row[q].status = "conflicted" => row'[q] = row[q]
<1>3. /\ \A q \in Rows : Unmoved(q)
      /\ session'.end = "open" => session'.pend = session.pend
      /\ session'.end # "discarded"
  <2>1. ASSUME NEW r \in Fresh, NEW v, row' = [row EXCEPT ![r] = v]
        PROVE  \A q \in Rows : Unmoved(q)
    BY <1>0, <2>1 DEF Fresh
  <2>2. ASSUME session.failed # 0, NEW v, row' = [row EXCEPT ![session.failed] = v]
        PROVE  \A q \in Rows : Unmoved(q)
    BY <1>0, <2>2 DEF Remembers
  <2>3. row' = row => \A q \in Rows : Unmoved(q)
    OBVIOUS
  <2> HIDE DEF Unmoved
  <2>4. CASE Edit \/ SaveFailed \/ CloseClean \/ BeginDontSave \/ BeginDiscard \/ TabCloses
    BY <1>0, <1>1, <2>3, <2>4 DEF Edit, SaveFailed, CloseClean, BeginDontSave, BeginDiscard,
       TabCloses, Closed, SessionSet, open
  <2>5. CASE Autosave
    <3>1. \/ row' = row
          \/ \E r \in Fresh : row' = [row EXCEPT ![r] = NewSave(session)]
      BY <2>5 DEF Autosave
    <3>2. session'.end = "open" /\ session'.pend = session.pend
      BY <1>0, <1>1, <2>5 DEF Autosave, Saving, SessionSet, open
    <3> QED
      BY <2>1, <2>3, <3>1, <3>2
  <2>6. CASE SaveAndClose
    <3>1. \/ row' = row
          \/ \E r \in Fresh : row' = [row EXCEPT ![r] = NewSave(session)]
          \/ session.failed # 0 /\ row' = [row EXCEPT ![session.failed] = Revived(row[session.failed])]
      BY <2>6 DEF SaveAndClose
    <3>2. session'.end # "discarded" /\ (session'.end = "open" => session'.pend = session.pend)
      BY <1>0, <1>1, <2>6 DEF SaveAndClose, Saving, Closed, SessionSet, open
    <3> QED
      BY <2>1, <2>2, <2>3, <3>1, <3>2
  <2>7. CASE SaveConfirmed
    <3> DEFINE s == Applied(row[session.saving])
    <3>0. s.end = "open" /\ s.pend = session.pend /\ s \in SessionSet
      <4>1. session.saving \in Rows /\ row[session.saving] \in RowSet
        BY <1>0, <2>7, SessionFacts DEF SaveConfirmed
      <4> QED
        BY <1>0, <1>1, <4>1 DEF Applied, SessionSet, RowSet, open
    <3> HIDE DEF s
    <3>1. \/ row' = row /\ (session' = s \/ session' = Closed(s, "saved"))
          \/ \E q \in Fresh :
              /\ row' = [row EXCEPT ![q] = NewSave(s)]
              /\ session' = [Saving(s, q) EXCEPT
                               !.op = CASE Saving(s, q).op = "save" -> "none"
                                        [] Saving(s, q).op = "retry" -> "save"
                                        [] OTHER -> Saving(s, q).op]
      BY <2>7 DEF SaveConfirmed, s
    <3>2. CASE row' = row /\ (session' = s \/ session' = Closed(s, "saved"))
      BY <2>3, <3>0, <3>2 DEF Closed, SessionSet
    <3>3. ASSUME NEW q \in Fresh,
              row' = [row EXCEPT ![q] = NewSave(s)],
              session' = [Saving(s, q) EXCEPT
                               !.op = CASE Saving(s, q).op = "save" -> "none"
                                        [] Saving(s, q).op = "retry" -> "save"
                                        [] OTHER -> Saving(s, q).op]
          PROVE  (\A k \in Rows : Unmoved(k)) /\ session'.end = "open" /\ session'.pend = session.pend
      BY <2>1, <3>0, <3>3 DEF Saving, SessionSet
    <3> QED
      BY <3>1, <3>2, <3>3
  <2>8. CASE DontSave \/ DiscardFailedSave \/ DiscardConfirmed
    <3>1. row' = row /\ (session' = Refused(session) \/ session' = [session EXCEPT !.op = "discarding"])
      BY <1>2, <2>8 DEF DontSave, DiscardFailedSave, DiscardConfirmed
    <3> QED
      BY <1>0, <1>1, <2>3, <3>1 DEF Refused, SessionSet, open
  <2>9. CASE DiscardAnswered
    <3>1. row' = row /\ session' = Refused(session)
      BY <1>2, <2>9 DEF DiscardAnswered
    <3> QED
      BY <1>0, <1>1, <2>3, <3>1 DEF Refused, SessionSet, open
  <2> QED
    BY <2>4, <2>5, <2>6, <2>7, <2>8, <2>9 DEF SessionStep, UserStep
<1> QED
  BY <1>2, <1>3 DEF Ruined, RuinedOpen, open

\* A running row takes a new value: it stays the only one.
LEMMA MoveOne ==
  ASSUME Typed, Shape, SessionShape, OneInv, NEW r \in Rows, NEW v, NEW t,
         Changed(r, v, t), session' = session, row[r].status # "conflicted",
         row[r].status # "unborn",
         Active(r) \/ (v.phase = "conflict" /\ v.kind = "save"), v.kind = row[r].kind,
         v.status # "unborn", v.status = "gone" \/ v.base = row[r].base
  PROVE  OneInv'
<1>1. /\ row'[r] = v /\ \A q \in Rows \ {r} : row'[q] = row[q]
      /\ session.failed \in Rows \cup {0} /\ session.pend \in Rows \cup {0} /\ 0 \notin Rows
      /\ Remembers(session)
  BY SessionFacts DEF Changed, SessionShape
<1>2. CASE Ruined
  <2>1. Ruined'
    BY <1>1, <1>2 DEF Ruined
  <2>2. RuinedOpen'
    BY <1>1, <1>2 DEF OneInv, RuinedOpen, open
  <2> QED
    BY <2>1, <2>2 DEF OneInv
<1>3. CASE ~Ruined
  <2>1. OneActive
    BY <1>3 DEF OneInv
  <2>2. \A q \in Rows : Active(q)' => Active(q)
    BY <1>1 DEF Active
  <2>3. RuinedOpen'
    <3>1. SUFFICES ASSUME Ruined' PROVE (session'.end # "discarded" /\
                     (open' => session'.pend # 0 /\ row'[session'.pend].kind = "discard"
                                /\ row'[session'.pend].status = "conflicted"))
      BY <3>1 DEF RuinedOpen
    <3>2. v.kind = "discard" /\ v.status = "conflicted"
      BY <1>1, <1>3, <3>1 DEF Ruined
    <3>3. Active(r)
      BY <3>2
    <3> QED
      BY <1>1, <2>1, <3>2, <3>3 DEF OneActive, NoneActive, Tracked, open
  <2>4. ASSUME NEW q \in Rows, Active(q)', open
        PROVE  Tracked(q)'
    <3>1. Tracked(q)
      BY <2>1, <2>2, <2>4 DEF OneActive
    <3>2. row'[q].kind = row[q].kind /\ row'[q].base = row[q].base
      BY <1>1, <2>4 DEF Active
    <3> QED
      BY <3>1, <3>2 DEF Tracked, ConfirmedIds
  <2>5. open => Waiting'
    <3>1. SUFFICES ASSUME open PROVE Waiting'
      OBVIOUS
    <3>2. Waiting
      BY <2>1, <3>1 DEF OneActive
    <3>3. session.failed # 0 /\ session.saving = 0 => row[session.failed].status = "conflicted"
      BY <1>1 DEF Remembers
    <3>4. session.failed # 0 /\ session.saving = 0 => row'[session.failed] = row[session.failed]
      BY <1>1, <3>3
    <3>5. session.op = "discarding" => /\ row'[session.pend].kind = "discard"
                                       /\ row'[session.pend].status # "unborn"
      BY <1>1, <3>2 DEF Waiting
    <3> QED
      BY <3>2, <3>4, <3>5 DEF Waiting
  <2>6. OneActive'
    BY <2>1, <2>2, <2>4, <2>5 DEF OneActive, NoneActive, open
  <2> QED
    BY <2>3, <2>6 DEF OneInv
<1> QED
  BY <1>2, <1>3

\* A request leaves a row with another value of the same kind and base.
LEMMA AttemptMoves ==
  ASSUME Typed, Shape, NEW r \in Rows, Attempt(r)
  PROVE  /\ task[r] # "idle" /\ session' = session /\ UNCHANGED <<restarts, removals>>
         /\ \E v, t : /\ Changed(r, v, t) /\ v.kind = row[r].kind /\ v.text = row[r].text
                      /\ v.status # "unborn"
                      /\ v.status = "gone" \/ v.base = row[r].base
<1>1. task[r] # "idle" /\ session' = session /\ UNCHANGED <<restarts, removals>>
  BY DEF Attempt, Bases, ProbeSave, ProbeDiscard, Create, CreateLate, Fetch, Destroy,
     DestroyLate, Unanswered
<1>2. row[r] \in RowSet /\ row[r].status = "in_flight"
  BY <1>1, AttemptFacts
<1> DEFINE Same(w) == /\ w \in RowSet /\ w.kind = row[r].kind /\ w.text = row[r].text
                      /\ w.base = row[r].base /\ w.status = "in_flight"
           Goal == \E v, t : /\ Changed(r, v, t) /\ v.kind = row[r].kind
                             /\ v.text = row[r].text /\ v.status # "unborn"
                             /\ v.status = "gone" \/ v.base = row[r].base
<1>3. ASSUME NEW w, Same(w), Fail(r, w) \/ Settle(r, Ended(w)) \/ \E q : Proceed(r, w, q)
      PROVE  Goal
  <2>1. CASE \E q : Proceed(r, w, q)
    <3>1. PICK q : \/ Changed(r, Retired(w), "idle")
                   \/ Changed(r, w, q)
      BY <2>1, ProceedEnds
    <3>2. Retired(w).kind = w.kind /\ Retired(w).text = w.text /\ Retired(w).status = "gone"
      BY DEF Retired, Unborn
    <3> HIDE DEF Retired
    <3> QED
      BY <1>3, <3>1, <3>2
  <2>2. CASE Fail(r, w) \/ Settle(r, Ended(w))
    <3> DEFINE v == [w EXCEPT !.status = "retry"]
    <3>1. Changed(r, v, "idle") \/ Changed(r, Ended(w), "idle")
      BY <2>2, FailEnds DEF Settle, Changed
    <3>2. v.kind = w.kind /\ v.text = w.text /\ v.status = "retry" /\ v.base = w.base
      BY <1>3 DEF RowSet
    <3>3. /\ Ended(w).kind = w.kind /\ Ended(w).text = w.text /\ Ended(w).base = w.base
          /\ Ended(w).status = "conflicted"
      BY <1>3 DEF RowSet, Ended
    <3> HIDE DEF v, Ended
    <3> QED
      BY <1>3, <3>1, <3>2, <3>3
  <2> QED
    BY <1>3, <2>1, <2>2
<1>4. PICK w : Same(w) /\ (Fail(r, w) \/ Settle(r, Ended(w)) \/ \E q : Proceed(r, w, q))
  <2>1. row[r].pending \in SUBSET Emails /\ row[r].base \in SUBSET Emails
        /\ Copies(r) \in SUBSET Emails
    BY <1>2 DEF Copies, Typed, ServerType, RowSet
  <2>2. Same(row[r])
    BY <1>2
  <2>3. ASSUME NEW p \in Phases, NEW e \in Emails, NEW d \in SUBSET Emails
        PROVE  /\ Same([row[r] EXCEPT !.phase = p])
               /\ Same([row[r] EXCEPT !.phase = p, !.pending = d])
               /\ Same([row[r] EXCEPT !.pending = d])
               /\ Same([row[r] EXCEPT !.pending = d, !.probe = FALSE])
               /\ Same([row[r] EXCEPT !.phase = p, !.successor = e])
               /\ Same([row[r] EXCEPT !.phase = p, !.successor = e, !.pending = d])
    BY <1>2 DEF RowSet
  <2> DEFINE Outcome(w) == Fail(r, w) \/ Settle(r, Ended(w)) \/ \E q : Proceed(r, w, q)
  <2> HIDE DEF Same
  <2>4. CASE Bases(r)
    <3>1. \/ Outcome([row[r] EXCEPT !.phase = "queued", !.pending = row[r].base])
          \/ Outcome([row[r] EXCEPT !.phase = "conflict"])
      BY <2>4 DEF Bases
    <3> QED
      BY <2>1, <2>3, <3>1, Names DEF Phases
  <2>5. CASE ProbeSave(r)
    <3>1. \/ Outcome(row[r])
          \/ \E e \in Copies(r) :
               Outcome([row[r] EXCEPT !.phase = "created", !.successor = e,
                          !.pending = Predecessors(row[r], r, e)])
      BY <2>5 DEF ProbeSave
    <3>2. \A e : Predecessors(row[r], r, e) \in SUBSET Emails
      BY <2>1 DEF Predecessors
    <3>3. "created" \in Phases
      BY DEF Phases
    <3> HIDE DEF Outcome
    <3> QED
      BY <2>1, <2>2, <2>3, <3>1, <3>2, <3>3 DEF Outcome
  <2>6. CASE ProbeDiscard(r)
    <3>1. Outcome([row[r] EXCEPT !.pending = row[r].pending \cup Copies(r), !.probe = FALSE])
      BY <2>6 DEF ProbeDiscard
    <3>2. row[r].pending \cup Copies(r) \in SUBSET Emails
      BY <2>1
    <3> QED
      BY <2>3, <3>1, <3>2, Names DEF Phases
  <2>7. CASE Create(r)
    <3>1. PICK e \in NextCopy(r) :
            Outcome([row[r] EXCEPT !.phase = "created", !.successor = e]) \/ Outcome(row[r])
      BY <2>7 DEF Create
    <3>2. e \in Emails /\ "created" \in Phases
      BY DEF NextCopy, FreshCopy, Phases
    <3> HIDE DEF Outcome
    <3> QED
      BY <2>2, <2>3, <3>1, <3>2 DEF Outcome
  <2>8. CASE Fetch(r)
    <3>1. \/ Outcome([row[r] EXCEPT !.phase = "cache_pending"])
          \/ Outcome([row[r] EXCEPT !.phase = "cleanup_pending"])
          \/ Outcome(row[r])
      BY <2>8 DEF Fetch
    <3> QED
      BY <2>2, <2>3, <3>1, Names DEF Phases
  <2>9. CASE Destroy(r)
    <3>1. PICK left \in SUBSET Emails : Outcome([row[r] EXCEPT !.pending = left]) \/ Outcome(row[r])
      BY <2>1, <2>9 DEF Destroy
    <3> HIDE DEF Outcome
    <3> QED
      BY <2>2, <2>3, <3>1, Names DEF Phases, Outcome
  <2>10. CASE CreateLate(r) \/ DestroyLate(r) \/ Unanswered(r)
    BY <2>2, <2>10 DEF CreateLate, DestroyLate, Unanswered
  <2> QED
    BY <2>4, <2>5, <2>6, <2>7, <2>8, <2>9, <2>10 DEF Attempt
<1> QED
  BY <1>1, <1>3, <1>4

\* When no row can run: no save runs or waits for the user, and no discard runs.
LEMMA NoRun ==
  ASSUME Typed, OneActive, open, session.saving = 0, session.op # "discarding",
         \/ session.failed = 0
         \/ ~session.blocked
         \/ row[session.failed].phase = "conflict"
  PROVE  NoneActive
<1> SUFFICES ASSUME NEW r \in Rows, Active(r) PROVE FALSE
  BY DEF NoneActive
<1>1. Waiting /\ Tracked(r)
  BY DEF OneActive
<1>2. r = session.failed /\ r # 0
  BY <1>1, Names DEF Tracked
<1>3. row[r].phase = "conflict"
  BY <1>1, <1>2 DEF Waiting
<1> QED
  BY <1>3 DEF Active

\* A row that is inserted while none runs is the only one that does.
LEMMA InsertOne ==
  ASSUME Typed, NoneActive, ~Ruined, NEW r \in Fresh, NEW v, v.status = "pending",
         row' = [row EXCEPT ![r] = v]
  PROVE  /\ r \in Rows /\ row'[r] = v /\ \A q \in Rows \ {r} : row'[q] = row[q]
         /\ \A q \in Rows : Active(q)' => q = r
         /\ ~Ruined'
<1>1. r \in Rows
  BY DEF Fresh
<1>2. row'[r] = v /\ \A q \in Rows \ {r} : row'[q] = row[q]
  BY <1>1 DEF Typed, RowType
<1> QED
  BY <1>1, <1>2 DEF NoneActive, Active, Ruined

\* The rows stay and the session stays open.
LEMMA QuietOne ==
  ASSUME ~Ruined, OneActive, open, row' = row, session'.end = "open",
         session'.confirmed = session.confirmed, session'.failed = session.failed,
         session'.pend = session.pend,
         session.op = "discarding" <=> session'.op = "discarding",
         Waiting => Waiting'
  PROVE  OneInv'
<1>1. ~Ruined'
  BY DEF Ruined
<1>2. \A r \in Rows : Active(r)' = Active(r)
  BY DEF Active
<1>3. \A r \in Rows : Tracked(r) => Tracked(r)'
  BY DEF Tracked, ConfirmedIds
<1> QED
  BY <1>1, <1>2, <1>3 DEF OneInv, RuinedOpen, OneActive, open

\* The rows stay and the session closes.
LEMMA CloseOne ==
  ASSUME ~Ruined, OneActive, row' = row, session'.end # "open",
         session'.end = "discarded" => NoneActive
  PROVE  OneInv'
<1>1. ~Ruined'
  BY DEF Ruined
<1>2. \A r \in Rows : Active(r)' = Active(r)
  BY DEF Active
<1> QED
  BY <1>1, <1>2 DEF OneInv, RuinedOpen, OneActive, NoneActive, open

\* Inserting the next save of a session s while none runs.
LEMMA SaveOne ==
  ASSUME Typed, ~Ruined, NoneActive, NEW s, NEW r \in Fresh,
         row' = [row EXCEPT ![r] = NewSave(s)], session'.end = "open",
         session'.confirmed = s.confirmed, session'.failed = r, session'.saving = r,
         session'.pend = 0, session'.op \notin {"discard", "discarding", "dontSave"}
  PROVE  OneInv'
<1>1. /\ NewSave(s).status = "pending" /\ NewSave(s).kind = "save"
      /\ NewSave(s).base = {s.confirmed} \ {None}
  BY DEF NewSave, Unborn
<1> HIDE DEF NewSave
<1>2. /\ r \in Rows /\ row'[r] = NewSave(s) /\ \A q \in Rows : Active(q)' => q = r
      /\ ~Ruined' /\ 0 \notin Rows
  BY <1>1, InsertOne, Names
<1>3. Tracked(r)' /\ Waiting'
  BY <1>1, <1>2 DEF Tracked, ConfirmedIds, Waiting
<1> QED
  BY <1>2, <1>3 DEF OneInv, RuinedOpen, OneActive, NoneActive, open

\* The failed save becomes v, or the discard of what it may own.
LEMMA FailedOne ==
  ASSUME Typed, ~Ruined, OneActive, open, session.failed \in Rows, NEW v,
         row[session.failed].kind = "save",
         v.status # "conflicted" \/ v.kind = "save",
         row' = [row EXCEPT ![session.failed] = v],
         v.status = "gone" \/ v.phase = "conflict" \/ Active(session.failed)
  PROVE  /\ ~Ruined' /\ row'[session.failed] = v
         /\ \A q \in Rows : Active(q)' => Active(q)
         /\ \A q \in Rows : Active(q)' /\ session.op # "discarding" => q = session.failed
<1>1. /\ row'[session.failed] = v
      /\ \A q \in Rows \ {session.failed} : row'[q] = row[q]
  BY DEF Typed, RowType
<1>2. \A q \in Rows : Active(q)' => Active(q)
  BY <1>1 DEF Active
<1>3. ~Ruined'
  BY <1>1 DEF Ruined
<1> QED
  BY <1>1, <1>2, <1>3 DEF OneActive, Tracked

\* The session's own steps keep one row at most running.
LEMMA OneSession ==
  ASSUME Typed, Shape, SessionShape, ~Ruined, OneActive, SessionStep \/ UserStep
  PROVE  OneInv'
<1>0. /\ session \in SessionSet /\ row \in [Rows -> RowSet] /\ Remembers(session)
      /\ 0 \notin Rows /\ session.pend \in Rows \cup {0} /\ session.failed \in Rows \cup {0}
      /\ session.saving \in Rows \cup {0} /\ session.blocked \in BOOLEAN
  BY SessionFacts DEF SessionShape, SessionSet
<1>1. open
  BY DEF SessionStep, UserStep, Edit, Autosave, SaveAndClose, SaveConfirmed, SaveFailed,
     CloseClean, BeginDontSave, BeginDiscard, DontSave, DiscardFailedSave,
     DiscardConfirmed, DiscardAnswered, TabCloses
<1>2. Waiting /\ session.end = "open"
  BY <1>1 DEF OneActive, open
<1>3. CASE Edit
  <2>1. /\ session'.confirmed = session.confirmed /\ session'.saving = session.saving
        /\ session'.failed = session.failed /\ session'.end = "open"
        /\ session'.blocked = session.blocked /\ session'.op = session.op
        /\ session'.pend = session.pend /\ row' = row
    BY <1>0, <1>2, <1>3 DEF Edit, SessionSet
  <2>2. Waiting'
    BY <1>2, <2>1 DEF Waiting
  <2> QED
    BY <1>1, <2>1, <2>2, QuietOne
<1>4. CASE Autosave
  <2>1. CASE session.blocked \/ session.saving # 0 \/ ~Dirty(session)
    <3>1. session' = [session EXCEPT !.timer = FALSE] /\ row' = row
      BY <1>4, <2>1 DEF Autosave
    <3>2. /\ session'.confirmed = session.confirmed /\ session'.saving = session.saving
          /\ session'.failed = session.failed /\ session'.end = "open"
          /\ session'.blocked = session.blocked /\ session'.op = session.op
          /\ session'.pend = session.pend
      BY <1>0, <1>2, <3>1 DEF SessionSet
    <3>3. Waiting'
      BY <1>2, <3>1, <3>2 DEF Waiting
    <3> QED
      BY <1>1, <3>1, <3>2, <3>3, QuietOne
  <2>2. CASE ~session.blocked /\ session.saving = 0 /\ Dirty(session)
    <3>1. PICK r \in Fresh : /\ row' = [row EXCEPT ![r] = NewSave(session)]
                             /\ session' = Saving(session, r)
      BY <1>4, <2>2 DEF Autosave
    <3>2. /\ session'.end = "open" /\ session'.confirmed = session.confirmed
          /\ session'.failed = r /\ session'.saving = r /\ session'.pend = session.pend
          /\ session'.op = session.op
      BY <1>0, <1>2, <3>1 DEF Saving, SessionSet
    <3>3. session.op \notin {"discard", "discarding", "dontSave"} /\ session.pend = 0
      BY <1>2, <2>2 DEF Waiting
    <3>4. NoneActive
      BY <1>1, <2>2, <3>3, NoRun
    <3> QED
      BY <3>1, <3>2, <3>3, <3>4, SaveOne
  <2> QED
    BY <2>1, <2>2
<1>5. CASE SaveAndClose
  <2>0. session.op = "none" /\ session.pend = 0
    BY <1>2, <1>5 DEF SaveAndClose, Waiting
  <2>1. CASE session.blocked
    <3> DEFINE f == session.failed
               v == Revived(row[f])
    <3>1. /\ f # 0 /\ row' = [row EXCEPT ![f] = v]
          /\ session' = [session EXCEPT !.blocked = FALSE, !.op = "retry", !.saving = f]
      BY <1>5, <2>1 DEF SaveAndClose
    <3>2. session.saving = 0 /\ f \in Rows
      BY <1>0, <2>0, <2>1, <3>1 DEF Remembers
    <3>3. row[f].status = "conflicted" /\ row[f].kind = "save" /\ row[f] \in RowSet
      BY <1>0, <3>1, <3>2 DEF Remembers
    <3>4. /\ v.kind = "save" /\ v.status = "retry" /\ v.phase = row[f].phase
          /\ v.base = row[f].base
      BY <3>3 DEF Revived, RowSet
    <3>5. v.phase = "conflict" \/ Active(f)
      BY <3>3, <3>4 DEF Active
    <3> HIDE DEF v
    <3>6. /\ ~Ruined' /\ row'[f] = v /\ \A q \in Rows : Active(q)' => Active(q)
          /\ \A q \in Rows : Active(q)' /\ session.op # "discarding" => q = f
      BY <1>1, <3>1, <3>2, <3>3, <3>4, <3>5, FailedOne
    <3>7. /\ session'.end = "open" /\ session'.failed = f /\ session'.saving = f
          /\ session'.pend = 0 /\ session'.op = "retry"
          /\ session'.confirmed = session.confirmed
      BY <1>0, <1>2, <2>0, <3>1 DEF SessionSet
    <3>8. Waiting'
      BY <3>2, <3>7, <1>0 DEF Waiting
    <3>9. ASSUME NEW q \in Rows, Active(q)' PROVE q = f /\ Tracked(q)'
      <4>1. q = f /\ Active(f)
        BY <2>0, <3>6, <3>9
      <4>2. Tracked(f)
        BY <1>1, <3>2, <4>1 DEF OneActive
      <4>3. row[f].base = ConfirmedIds
        BY <3>3, <4>2 DEF Tracked
      <4> QED
        BY <3>4, <3>6, <3>7, <4>1, <4>3 DEF Tracked, ConfirmedIds
    <3> HIDE DEF f
    <3> QED
      BY <3>6, <3>7, <3>8, <3>9 DEF OneInv, RuinedOpen, OneActive, open
  <2>2. CASE ~session.blocked /\ session.saving # 0
    <3>1. session' = [session EXCEPT !.timer = FALSE, !.op = "join"] /\ row' = row
      BY <1>5, <2>2 DEF SaveAndClose
    <3>2. /\ session'.confirmed = session.confirmed /\ session'.saving = session.saving
          /\ session'.failed = session.failed /\ session'.end = "open"
          /\ session'.blocked = session.blocked /\ session'.op = "join"
          /\ session'.pend = session.pend
      BY <1>0, <1>2, <3>1 DEF SessionSet
    <3>3. Waiting'
      BY <1>2, <2>0, <3>1, <3>2 DEF Waiting
    <3> QED
      BY <1>1, <2>0, <3>1, <3>2, <3>3, QuietOne
  <2>3. CASE ~session.blocked /\ session.saving = 0 /\ Dirty(session)
    <3>1. PICK r \in Fresh : /\ row' = [row EXCEPT ![r] = NewSave(session)]
                             /\ session' = [Saving(session, r) EXCEPT !.op = "save"]
      BY <1>5, <2>3 DEF SaveAndClose
    <3>2. /\ session'.end = "open" /\ session'.confirmed = session.confirmed
          /\ session'.failed = r /\ session'.saving = r /\ session'.pend = 0
          /\ session'.op = "save"
      BY <1>0, <1>2, <2>0, <3>1 DEF Saving, SessionSet
    <3>3. NoneActive
      BY <1>1, <2>0, <2>3, NoRun
    <3> QED
      BY <3>1, <3>2, <3>3, SaveOne
  <2>4. CASE ~session.blocked /\ session.saving = 0 /\ ~Dirty(session)
    <3>1. session' = Closed(session, "saved") /\ row' = row
      BY <1>5, <2>4 DEF SaveAndClose
    <3>2. session'.end = "saved"
      BY <1>0, <3>1 DEF SessionSet, Closed
    <3> QED
      BY <3>1, <3>2, CloseOne
  <2> QED
    BY <2>1, <2>2, <2>3, <2>4
<1>6. CASE SaveConfirmed
  <2> DEFINE k == session.saving
             s == Applied(row[k])
  <2>0. k # 0 /\ row[k].status = "gone" /\ k \in Rows /\ row[k] \in RowSet
    BY <1>0, <1>6 DEF SaveConfirmed
  <2>1. /\ s.end = "open" /\ s.saving = 0 /\ s.failed = 0 /\ s.pend = session.pend
        /\ s.op = session.op /\ s.blocked = session.blocked /\ s \in SessionSet
    BY <1>0, <1>2, <2>0 DEF Applied, SessionSet, RowSet
  <2>2. session.op # "discarding" /\ session.pend = 0 /\ session.failed = k
    BY <1>0, <1>2, <2>0 DEF Waiting, Remembers
  <2>3. NoneActive
    <3> SUFFICES ASSUME NEW q \in Rows, Active(q) PROVE FALSE
      BY DEF NoneActive
    <3> QED
      BY <1>1, <2>0, <2>2 DEF OneActive, Tracked, Active
  <2> HIDE DEF s
  <2>4. CASE FollowUp(s)
    <3>1. PICK q \in Fresh :
            /\ row' = [row EXCEPT ![q] = NewSave(s)]
            /\ session' = [Saving(s, q) EXCEPT
                             !.op = CASE Saving(s, q).op = "save" -> "none"
                                      [] Saving(s, q).op = "retry" -> "save"
                                      [] OTHER -> Saving(s, q).op]
      BY <1>6, <2>4 DEF SaveConfirmed, s
    <3>2. s.op \notin {"discard", "discarding", "dontSave"}
      BY <1>2, <2>1, <2>4 DEF Waiting, FollowUp
    <3>3. /\ session'.end = "open" /\ session'.confirmed = s.confirmed
          /\ session'.failed = q /\ session'.saving = q /\ session'.pend = 0
          /\ session'.op \notin {"discard", "discarding", "dontSave"}
      BY <2>1, <2>2, <3>1, <3>2 DEF Saving, SessionSet
    <3> QED
      BY <2>3, <3>1, <3>3, SaveOne
  <2>5. CASE ~FollowUp(s)
    <3>1. row' = row /\ (session' = Closed(s, "saved") \/ session' = s)
      BY <1>6, <2>5 DEF SaveConfirmed, s
    <3>2. CASE session' = Closed(s, "saved")
      <4>1. session'.end = "saved"
        BY <2>1, <3>2 DEF SessionSet, Closed
      <4> QED
        BY <3>1, <4>1, CloseOne
    <3>3. CASE session' = s
      <4>1. ~Ruined' /\ NoneActive'
        BY <2>3, <3>1 DEF Ruined, NoneActive, Active
      <4>2. Waiting'
        BY <1>2, <2>1, <2>2, <3>3 DEF Waiting
      <4> QED
        BY <2>1, <3>3, <4>1, <4>2 DEF OneInv, RuinedOpen, OneActive, NoneActive, open
    <3> QED
      BY <3>1, <3>2, <3>3
  <2> QED
    BY <2>4, <2>5
<1>7. CASE SaveFailed
  <2>1. /\ session.saving # 0 /\ row' = row
        /\ session' = [session EXCEPT !.saving = 0, !.blocked = TRUE,
               !.op = IF session.op \in {"save", "retry", "join"} THEN "none" ELSE session.op]
    BY <1>7 DEF SaveFailed
  <2>2. session.op # "discarding" /\ session.pend = 0
    BY <1>2, <2>1 DEF Waiting
  <2>3. /\ session'.confirmed = session.confirmed /\ session'.saving = 0
        /\ session'.failed = session.failed /\ session'.end = "open"
        /\ session'.blocked = TRUE /\ session'.op # "discarding"
        /\ session'.pend = session.pend
    BY <1>0, <1>2, <2>1, <2>2 DEF SessionSet
  <2>4. Waiting'
    BY <2>2, <2>3 DEF Waiting
  <2> QED
    BY <1>1, <2>1, <2>2, <2>3, <2>4, QuietOne
<1>8. CASE CloseClean \/ TabCloses
  <2>1. row' = row /\ (session' = Closed(session, "clean") \/ session' = Closed(session, "lost"))
    BY <1>8 DEF CloseClean, TabCloses
  <2>2. session'.end = "clean" \/ session'.end = "lost"
    BY <1>0, <2>1 DEF SessionSet, Closed
  <2> QED
    BY <2>1, <2>2, CloseOne
<1>9. CASE BeginDontSave \/ BeginDiscard
  <2>1. /\ \/ session' = [session EXCEPT !.op = "dontSave", !.blocked = TRUE, !.timer = FALSE]
           \/ session' = [session EXCEPT !.op = "discard", !.blocked = TRUE, !.timer = FALSE]
        /\ row' = row /\ session.op = "none"
    BY <1>9 DEF BeginDontSave, BeginDiscard
  <2>2. session.pend = 0
    BY <1>2, <2>1 DEF Waiting
  <2>3. /\ session'.confirmed = session.confirmed
        /\ session'.failed = session.failed /\ session'.end = "open"
        /\ session'.blocked = TRUE /\ session'.op # "discarding"
        /\ session'.pend = session.pend
    BY <1>0, <1>2, <2>1 DEF SessionSet
  <2>4. Waiting'
    BY <2>2, <2>3 DEF Waiting
  <2> QED
    BY <1>1, <2>1, <2>3, <2>4, QuietOne
<1>10. CASE DontSave
  <2>0. session.op = "dontSave" /\ session.saving = 0 /\ session.pend = 0
    BY <1>2, <1>10 DEF DontSave, Waiting
  <2>1. session' = Closed(session, "unsaved")
    BY <1>10, <2>0 DEF DontSave
  <2>2. session'.end = "unsaved"
    BY <1>0, <2>1 DEF SessionSet, Closed
  <2>3. CASE session.failed = 0
    <3>1. row' = row
      BY <1>10, <2>0, <2>3 DEF DontSave
    <3> QED
      BY <2>2, <3>1, CloseOne
  <2>4. CASE session.failed # 0
    <3> DEFINE f == session.failed
               v == Abandoned(row[f], FALSE)
    <3>1. row' = [row EXCEPT ![f] = v] /\ f \in Rows
      BY <1>0, <1>10, <2>0, <2>4 DEF DontSave
    <3>2. row[f].kind = "save" /\ row[f].status = "conflicted" /\ row[f] \in RowSet
      BY <1>0, <2>0, <2>4, <3>1 DEF Remembers
    <3>3. /\ v.status # "conflicted" \/ v.kind = "save"
          /\ v.status = "gone" \/ v.phase = "conflict" \/ Active(f)
      BY <3>2 DEF Abandoned, AbandonPlan, Converted, Retired, Unborn, RowSet, Active
    <3> HIDE DEF v, f
    <3>4. ~Ruined' /\ \A q \in Rows : Active(q)' => Active(q)
      BY <1>1, <3>1, <3>2, <3>3, FailedOne DEF f
    <3> QED
      BY <2>2, <3>4 DEF OneInv, RuinedOpen, OneActive, open
  <2> QED
    BY <2>3, <2>4
<1>11. CASE DiscardFailedSave
  <2> DEFINE f == session.failed
             plan == AbandonPlan(row[f], TRUE)
             v == Abandoned(row[f], TRUE)
  <2>0. /\ session.op = "discard" /\ session.saving = 0 /\ session.pend = 0
        /\ f # 0 /\ f \in Rows
    BY <1>0, <1>2, <1>11 DEF DiscardFailedSave, Waiting
  <2>1. /\ row' = [row EXCEPT ![f] = v]
        /\ session' =
               CASE plan = "park" -> Refused(session)
                 [] plan = "delete" -> Closed(session, "discarded")
                 [] plan = "convert" -> [session EXCEPT !.failed = 0, !.pend = f,
                                                        !.op = "discarding"]
    BY <1>11, <2>0 DEF DiscardFailedSave
  <2>2. row[f].kind = "save" /\ row[f].status = "conflicted" /\ row[f] \in RowSet
    BY <1>0, <2>0 DEF Remembers
  <2>3. /\ v.status # "conflicted" \/ v.kind = "save"
        /\ v.status = "gone" \/ v.phase = "conflict" \/ Active(f)
    BY <2>2 DEF Abandoned, AbandonPlan, Converted, Retired, Unborn, RowSet, Active
  <2>4. /\ plan = "park" => v.phase = "conflict"
        /\ plan = "delete" => v.status = "gone"
        /\ plan = "convert" => v.status = "pending" /\ v.kind = "discard"
        /\ plan \in {"park", "delete", "convert"}
    BY <2>2 DEF Abandoned, AbandonPlan, Converted, Retired, Unborn, RowSet
  <2> HIDE DEF v, plan
  <2>5. /\ ~Ruined' /\ row'[f] = v
        /\ \A q \in Rows : Active(q)' /\ session.op # "discarding" => q = f
    BY <1>1, <2>0, <2>1, <2>2, <2>3, FailedOne
  <2> HIDE DEF f
  <2>6. CASE plan = "park"
    <3>1. /\ session'.end = "open" /\ session'.op = "none" /\ session'.failed = f
          /\ session'.pend = 0 /\ session'.saving = 0
      BY <1>0, <1>2, <2>0, <2>1, <2>6 DEF Refused, SessionSet, f
    <3>2. Waiting'
      BY <2>4, <2>5, <2>6, <3>1 DEF Waiting
    <3>3. NoneActive'
      BY <2>0, <2>4, <2>5, <2>6 DEF NoneActive, Active
    <3> QED
      BY <2>5, <3>1, <3>2, <3>3 DEF OneInv, RuinedOpen, OneActive, NoneActive, open
  <2>7. CASE plan = "delete"
    <3>1. session'.end = "discarded"
      BY <1>0, <2>1, <2>7 DEF Closed, SessionSet
    <3>2. NoneActive'
      BY <2>0, <2>4, <2>5, <2>7 DEF NoneActive, Active
    <3> QED
      BY <2>5, <3>1, <3>2 DEF OneInv, RuinedOpen, OneActive, NoneActive, open
  <2>8. CASE plan = "convert"
    <3>1. /\ session'.end = "open" /\ session'.op = "discarding" /\ session'.failed = 0
          /\ session'.pend = f /\ session'.saving = 0 /\ session'.blocked = session.blocked
      BY <1>0, <1>2, <2>0, <2>1, <2>8 DEF SessionSet
    <3>2. session'.blocked
      BY <1>2, <2>0, <3>1 DEF Waiting
    <3>3. row'[f].kind = "discard" /\ row'[f].status = "pending"
      BY <2>4, <2>5, <2>8
    <3>4. Waiting'
      BY <2>0, <3>1, <3>2, <3>3 DEF Waiting
    <3>5. ASSUME NEW q \in Rows, q = f PROVE Tracked(q)'
      BY <3>1, <3>3, <3>5 DEF Tracked
    <3>6. \A q \in Rows : Active(q)' => q = f
      BY <2>0, <2>5
    <3> QED
      BY <2>5, <3>1, <3>4, <3>5, <3>6 DEF OneInv, RuinedOpen, OneActive, open
  <2> QED
    BY <2>4, <2>6, <2>7, <2>8
<1>12. CASE DiscardConfirmed
  <2>0. session.op = "discard" /\ session.saving = 0 /\ session.pend = 0 /\ session.failed = 0
    BY <1>2, <1>12 DEF DiscardConfirmed, Waiting
  <2>1. NoneActive
    BY <1>1, <2>0, NoRun
  <2>2. CASE session.confirmed = None
    <3>1. session' = Closed(session, "discarded") /\ row' = row
      BY <1>12, <2>0, <2>2 DEF DiscardConfirmed
    <3>2. session'.end = "discarded"
      BY <1>0, <3>1 DEF SessionSet, Closed
    <3> QED
      BY <2>1, <3>1, <3>2, CloseOne
  <2>3. CASE session.confirmed # None
    <3>1. PICK r \in Fresh : /\ row' = [row EXCEPT ![r] = NewDiscard]
                             /\ session' = [session EXCEPT !.pend = r, !.op = "discarding"]
      BY <1>12, <2>0, <2>3 DEF DiscardConfirmed
    <3>2. NewDiscard.status = "pending" /\ NewDiscard.kind = "discard"
      BY DEF NewDiscard, Unborn
    <3> HIDE DEF NewDiscard
    <3>3. /\ r \in Rows /\ row'[r] = NewDiscard /\ \A q \in Rows : Active(q)' => q = r
          /\ ~Ruined'
      BY <2>1, <3>1, <3>2, InsertOne
    <3>4. /\ session'.end = "open" /\ session'.op = "discarding" /\ session'.failed = 0
          /\ session'.pend = r /\ session'.saving = 0 /\ session'.blocked = session.blocked
      BY <1>0, <1>2, <2>0, <3>1 DEF SessionSet
    <3>5. Waiting' /\ Tracked(r)'
      BY <1>0, <1>2, <2>0, <3>2, <3>3, <3>4 DEF Waiting, Tracked
    <3> QED
      BY <3>3, <3>4, <3>5 DEF OneInv, RuinedOpen, OneActive, NoneActive, open
  <2> QED
    BY <2>2, <2>3
<1>13. CASE DiscardAnswered
  <2>0. session.op = "discarding" /\ row' = row /\ session.pend # 0 /\ session.pend \in Rows
        /\ row[session.pend].kind = "discard"
        /\ session.failed = 0
    BY <1>0, <1>2, <1>13 DEF DiscardAnswered, Waiting
  <2>1. row[session.pend].status = "gone" /\ session' = Closed(session, "discarded")
    BY <1>13, <2>0 DEF DiscardAnswered, Ruined
  <2>2. NoneActive
    <3> SUFFICES ASSUME NEW q \in Rows, Active(q) PROVE FALSE
      BY DEF NoneActive
    <3> QED
      BY <1>0, <1>1, <2>0, <2>1 DEF OneActive, Tracked, Active
  <2>3. session'.end = "discarded"
    BY <1>0, <2>1 DEF SessionSet, Closed
  <2> QED
    BY <2>0, <2>2, <2>3, CloseOne
<1> QED
  BY <1>3, <1>4, <1>5, <1>6, <1>7, <1>8, <1>9, <1>10, <1>11, <1>12, <1>13
  DEF SessionStep, UserStep

\* Every step keeps one row at most running.
LEMMA OneStep ==
  ASSUME Typed, Shape, SessionShape, OneInv, [Next]_vars
  PROVE  OneInv'
<1>1. CASE SessionStep \/ UserStep
  <2>1. CASE Ruined
    <3>1. Ruined' /\ RuinedOpen'
      BY <1>1, <2>1, RuinedSession DEF OneInv
    <3> QED
      BY <3>1 DEF OneInv
  <2>2. CASE ~Ruined
    BY <1>1, <2>2, OneSession DEF OneInv
  <2> QED
    BY <2>1, <2>2
<1>2. ASSUME NEW r \in Rows, Attempt(r) PROVE OneInv'
  <2>1. task[r] # "idle" /\ session' = session
    BY <1>2, AttemptMoves
  <2>2. PICK v, t : /\ Changed(r, v, t) /\ v.kind = row[r].kind /\ v.status # "unborn"
                    /\ v.status = "gone" \/ v.base = row[r].base
    BY <1>2, AttemptMoves
  <2>3. row[r].status = "in_flight" /\ row[r].phase # "conflict"
    BY <2>1, AttemptFacts
  <2>4. Active(r) /\ row[r].status # "conflicted" /\ row[r].status # "unborn"
    BY <2>3 DEF Active
  <2> QED
    BY <2>1, <2>2, <2>4, MoveOne
<1>3. ASSUME NEW r \in Rows, Claim(r) PROVE OneInv'
  <2> DEFINE w == [row[r] EXCEPT !.status = "in_flight", !.attempts = @ + 1]
  <2>1. row[r] \in RowSet /\ row[r].kind \in Kinds /\ RowShape(r, row[r], task[r])
    BY SessionFacts DEF RowSet
  <2>2. /\ row[r].status = "pending" \/ row[r].status = "retry"
        /\ session' = session
        /\ \/ w.phase = "conflict" /\ Settle(r, Ended(w))
           \/ w.phase # "conflict" /\ Proceed(r, w, FirstRequest(w))
    BY <1>3 DEF Claim
  <2>3. /\ w.kind = row[r].kind /\ w.base = row[r].base /\ w.status = "in_flight"
        /\ w.phase = row[r].phase
        /\ Ended(w).kind = row[r].kind /\ Ended(w).base = row[r].base
        /\ Ended(w).status = "conflicted" /\ Ended(w).phase = row[r].phase
        /\ Retired(w).kind = row[r].kind /\ Retired(w).status = "gone"
    BY <2>1 DEF RowSet, Ended, Retired, Unborn
  <2> DEFINE q == FirstRequest(w)
  <2> HIDE DEF w, q
  <2>4. CASE w.phase = "conflict"
    <3>1. Changed(r, Ended(w), "idle")
      BY <2>2, <2>4 DEF Settle, Changed
    <3>2. row[r].kind = "save"
      BY <2>1, <2>3, <2>4 DEF RowShape, DiscardShape, Kinds
    <3> HIDE DEF Ended
    <3> QED
      BY <2>2, <2>3, <2>4, <3>1, <3>2, MoveOne
  <2>5. CASE w.phase # "conflict"
    <3>1. Changed(r, Retired(w), "idle") \/ Changed(r, w, q)
      BY <2>2, <2>5, ProceedEnds DEF q
    <3>2. Active(r)
      BY <2>2, <2>3, <2>5 DEF Active
    <3> HIDE DEF Retired
    <3> QED
      BY <2>2, <2>3, <3>1, <3>2, MoveOne
  <2> QED
    BY <2>4, <2>5
<1>4. CASE \/ \E r \in Rows : ServeCreate(r)
           \/ \E e \in Emails : ServeDestroy(e) \/ Remove(e)
           \/ UNCHANGED vars
  <2>1. UNCHANGED <<row, session>>
    BY <1>4 DEF ServeCreate, ServeDestroy, Remove, vars
  <2> QED
    BY <2>1 DEF OneInv, OneActive, RuinedOpen, Ruined, NoneActive, Active, Waiting, Tracked,
       ConfirmedIds, open
<1>5. CASE WorkerDies
  <2>1. /\ \A r \in Rows : row'[r] = IF row[r].status = "in_flight"
                            THEN [row[r] EXCEPT !.status = "pending"] ELSE row[r]
        /\ session' = Closed(session, IF open THEN "lost" ELSE session.end)
    BY <1>5 DEF WorkerDies
  <2>2. session'.end = IF open THEN "lost" ELSE session.end
    BY <2>1, SessionFacts DEF SessionSet, Closed
  <2>3. ASSUME NEW r \in Rows
        PROVE  /\ row'[r].kind = row[r].kind /\ row'[r].phase = row[r].phase
               /\ row'[r].status = IF row[r].status = "in_flight" THEN "pending"
                                   ELSE row[r].status
    <3>1. row[r] \in RowSet
      BY SessionFacts
    <3> QED
      BY <2>1, <3>1 DEF RowSet
  <2>4. (\A r \in Rows : Active(r)' = Active(r)) /\ Ruined' = Ruined
    BY <2>3 DEF Active, Ruined
  <2> QED
    BY <2>2, <2>4 DEF OneInv, OneActive, RuinedOpen, NoneActive, open
<1> QED
  BY <1>1, <1>2, <1>3, <1>4, <1>5 DEF Next

\* A session that begins has no row.
LEMMA OneInit ==
  ASSUME Init
  PROVE  OneInv
<1>1. \A r \in Rows : row[r].status = "unborn"
  BY DEF Init, Unborn
<1>2. /\ session.failed = 0 /\ session.pend = 0 /\ session.end = "open"
      /\ session.op = "none"
  BY DEF Init
<1>3. NoneActive /\ ~Ruined /\ Waiting
  BY <1>1, <1>2 DEF NoneActive, Active, Ruined, Waiting
<1> QED
  BY <1>2, <1>3 DEF OneInv, RuinedOpen, OneActive, NoneActive

(***************************************************************************)
(* Who owns the Emails.  All of them, late ones apart, belong to the row that *)
(* runs or, without one, to what the session expects.                      *)
(***************************************************************************)
CopiesIn(S, r) == {e \in S : Owner(e) = r}
Confirmed(s) == {s.confirmed} \ {None}

\* Of the Emails S, late ones X apart, a save owns its base, then what it is to
\* destroy, its own copy, and at most one create that was not answered.
OwnSave(r, w, t, S, X) ==
  /\ AtMostOne(CopiesIn(S, r) \ X)
  /\ w.phase = "null" => S \ X \subseteq w.base
  /\ w.phase = "queued" =>
       /\ S \ X \subseteq w.pending \cup CopiesIn(S, r)
       /\ t \in {"bases", "create"} => S \ X \subseteq w.pending
  /\ w.phase \in Made =>
       /\ S \ X \subseteq w.pending \cup {w.successor}
       /\ \A e \in S \ X : Owner(e) = r /\ e # w.successor => w.successor \in X

Probed(r, w, S) == IF w.probe THEN CopiesIn(S, r) ELSE {}
Leftover(r, w, S, X, s) == (S \ X) \ (Confirmed(s) \cup w.pending \cup Probed(r, w, S))

\* A discard owns them all; one that took back an abandoned save owns what that
\* save made, which is all but the confirmed copy, or all but one when a late
\* create took the place of an answered one.
OwnDiscard(r, w, S, X, s) ==
  IF s.end = "unsaved"
  THEN /\ AtMostOne(Leftover(r, w, S, X, s))
       /\ Leftover(r, w, S, X, s) # {} => \E x \in X : x \notin S \/ x \in w.pending
  ELSE S \ X \subseteq w.pending \cup Probed(r, w, S)

Answered == session.saving # 0 /\ row[session.saving].status = "gone"
Expected ==
  IF Answered THEN {row[session.saving].successor}
  ELSE IF session.op = "discarding" THEN {} ELSE ConfirmedIds

Settled == server \ strays

\* Without a row the session owns what it expects.
OwnNone ==
  /\ open => Settled \subseteq Expected
  /\ ~open => \/ AtMostOne(Settled)
              \/ /\ session.end = "unsaved" /\ AtMostOne(Settled \ ConfirmedIds)
                 /\ \E x \in strays : x \notin server
  /\ session.end = "discarded" => Settled = {}

RowOwns(r) ==
  /\ row[r].kind = "save" => OwnSave(r, row[r], task[r], server, strays)
  /\ row[r].kind = "discard" => OwnDiscard(r, row[r], server, strays, session)

Ownership ==
  /\ \A r \in Rows : Active(r) => RowOwns(r)
  /\ NoneActive => OwnNone

OwnInv == Ruined \/ Ownership

\* Ownership reads few fields of a row.
LEMMA OwnSaveSame ==
  ASSUME NEW r, NEW w, NEW v, NEW t, NEW S, NEW X, OwnSave(r, w, t, S, X),
         v.phase = w.phase, v.base = w.base, v.pending = w.pending,
         v.successor = w.successor
  PROVE  OwnSave(r, v, t, S, X) /\ OwnSave(r, v, "idle", S, X)
BY DEF OwnSave

\* The same for a discard.
LEMMA OwnDiscardSame ==
  ASSUME NEW r, NEW w, NEW v, NEW S, NEW X, NEW s, OwnDiscard(r, w, S, X, s),
         v.pending = w.pending, v.probe = w.probe
  PROVE  OwnDiscard(r, v, S, X, s)
BY DEF OwnDiscard, Leftover, Probed

\* Fewer Emails are owned all the more.
LEMMA OwnLess ==
  ASSUME NEW r, NEW w, NEW t, NEW S, NEW X, NEW s, NEW Z, Z \subseteq S
  PROVE  /\ OwnSave(r, w, t, S, X) => OwnSave(r, w, t, Z, X)
         /\ OwnDiscard(r, w, S, X, s) => OwnDiscard(r, w, Z, X, s)
<1>1. CopiesIn(Z, r) = CopiesIn(S, r) \cap Z
  BY DEF CopiesIn
<1>2. OwnSave(r, w, t, S, X) => OwnSave(r, w, t, Z, X)
  BY <1>1 DEF OwnSave, AtMostOne
<1>3. ASSUME OwnDiscard(r, w, S, X, s) PROVE OwnDiscard(r, w, Z, X, s)
  <2>1. Leftover(r, w, Z, X, s) \subseteq Leftover(r, w, S, X, s)
    BY <1>1 DEF Leftover, Probed
  <2>2. Z \cap Probed(r, w, S) \subseteq Probed(r, w, Z)
    BY <1>1 DEF Probed
  <2>3. CASE s.end = "unsaved"
    BY <1>3, <2>1, <2>3 DEF OwnDiscard, AtMostOne
  <2>4. CASE s.end # "unsaved"
    BY <1>3, <2>2, <2>4 DEF OwnDiscard
  <2> QED
    BY <2>3, <2>4
<1> QED
  BY <1>2, <1>3

\* A late create adds a late Email.
LEMMA OwnLate ==
  ASSUME NEW r, NEW w, NEW t, NEW S, NEW X, NEW s, NEW e, e \notin X
  PROVE  /\ OwnSave(r, w, t, S, X) => OwnSave(r, w, t, S \cup {e}, X \cup {e})
         /\ OwnDiscard(r, w, S, X, s) => OwnDiscard(r, w, S \cup {e}, X \cup {e}, s)
<1> DEFINE Z == S \cup {e}
           Y == X \cup {e}
<1>1. /\ Z \ Y = S \ (X \cup {e}) /\ CopiesIn(S, r) \subseteq CopiesIn(Z, r)
      /\ CopiesIn(Z, r) \ Y \subseteq CopiesIn(S, r) \ X
  BY DEF CopiesIn
<1> HIDE DEF Z, Y
<1>2. Z \ Y \subseteq S \ X /\ X \subseteq Y
  BY <1>1 DEF Y
<1>3. OwnSave(r, w, t, S, X) => OwnSave(r, w, t, Z, Y)
  BY <1>1, <1>2 DEF OwnSave, AtMostOne
<1>4. ASSUME OwnDiscard(r, w, S, X, s) PROVE OwnDiscard(r, w, Z, Y, s)
  <2>1. Leftover(r, w, Z, Y, s) \subseteq Leftover(r, w, S, X, s)
    BY <1>1, <1>2 DEF Leftover, Probed
  <2>2. Probed(r, w, S) \subseteq Probed(r, w, Z)
    BY <1>1 DEF Probed
  <2>3. CASE s.end = "unsaved"
    <3>1. \A x \in X : x \notin S \/ x \in w.pending => x \in Y /\ (x \notin Z \/ x \in w.pending)
      BY DEF Y, Z
    <3> QED
      BY <1>4, <2>1, <2>3, <3>1 DEF OwnDiscard, AtMostOne
  <2>4. CASE s.end # "unsaved"
    BY <1>2, <1>4, <2>2, <2>4 DEF OwnDiscard
  <2> QED
    BY <2>3, <2>4
<1> QED
  BY <1>3, <1>4 DEF Z, Y

\* The row that runs takes a new value.
LEMMA MoveOwn ==
  ASSUME Typed, Shape, SessionShape, OneActive, NEW r \in Rows, NEW v, NEW t,
         Changed(r, v, t), session' = session, Active(r), row[r].status # "conflicted",
         v.kind = row[r].kind,
         v.kind = "save" /\ v.status # "gone" /\ v.phase # "conflict" =>
           OwnSave(r, v, t, server', strays'),
         v.kind = "save" /\ v.status = "gone" => server' \ strays' \subseteq {v.successor},
         v.status # "gone" /\ v.phase = "conflict" =>
           v.kind = "save" /\ server' \ strays' \subseteq row[r].base,
         v.kind = "discard" => OwnDiscard(r, v, server', strays', session),
         v.kind = "discard" /\ v.status = "gone" => v.pending = {} /\ v.probe = FALSE,
         v.kind = "save" \/ v.kind = "discard", v.status # "unborn"
  PROVE  Ownership'
<1>1. /\ row'[r] = v /\ task'[r] = t /\ \A q \in Rows \ {r} : row'[q] = row[q]
      /\ session.failed \in Rows \cup {0} /\ session.pend \in Rows \cup {0} /\ 0 \notin Rows
      /\ session.saving \in Rows \cup {0} /\ Remembers(session) /\ row[r] \in RowSet
  BY SessionFacts DEF Changed, SessionShape
<1>2. \A q \in Rows \ {r} : ~Active(q)'
  BY <1>1 DEF Active, OneActive
<1>3. Active(r)' => RowOwns(r)'
  BY <1>1 DEF Active, RowOwns
<1>4. ASSUME NoneActive' PROVE OwnNone'
  <2>1. v.status = "gone" \/ v.phase = "conflict"
    BY <1>1, <1>4 DEF NoneActive, Active
  <2>2. session.end # "discarded"
    BY DEF OneActive, NoneActive
  <2>3. AtMostOne(row[r].base)
    BY SessionFacts DEF RowShape
  <2>4. CASE v.kind = "save"
    <3>1. open => /\ Waiting /\ r = session.failed /\ session.saving = r
                  /\ session.op # "discarding" /\ row[r].base = ConfirmedIds
      BY <1>1, <2>4 DEF OneActive, Tracked, Remembers, Waiting
    <3>2. CASE v.status = "gone"
      <4>1. Settled' \subseteq {v.successor}
        BY <2>4, <3>2 DEF Settled
      <4>2. open => Expected' = {v.successor}
        BY <1>1, <3>1, <3>2 DEF Expected, Answered
      <4> QED
        BY <2>2, <4>1, <4>2 DEF OwnNone, AtMostOne, open
    <3>3. CASE v.status # "gone"
      <4>1. Settled' \subseteq row[r].base
        BY <2>1, <3>3 DEF Settled
      <4>2. open => Expected' = row[r].base
        BY <1>1, <3>1, <3>3 DEF Expected, Answered, ConfirmedIds
      <4> QED
        BY <2>2, <2>3, <4>1, <4>2 DEF OwnNone, AtMostOne, open
    <3> QED
      BY <3>2, <3>3
  <2>5. CASE v.kind = "discard"
    <3>1. v.status = "gone" /\ v.pending = {} /\ v.probe = FALSE
      BY <2>1, <2>5
    <3>2. Probed(r, v, server') = {} /\ Confirmed(session) = ConfirmedIds
          /\ Leftover(r, v, server', strays', session) = Settled' \ ConfirmedIds
      BY <3>1 DEF Probed, Confirmed, ConfirmedIds, Leftover, Settled
    <3>3. open => session.op = "discarding" /\ session.saving = 0 /\ session.end # "unsaved"
      BY <1>1, <2>5 DEF OneActive, Tracked, Waiting, open
    <3>4. CASE session.end = "unsaved"
      <4>1. /\ AtMostOne(Settled' \ ConfirmedIds)
            /\ Settled' \ ConfirmedIds # {} => \E x \in strays' : x \notin server'
        BY <2>5, <3>1, <3>2, <3>4 DEF OwnDiscard
      <4>2. AtMostOne(ConfirmedIds)
        BY ConfirmedFacts
      <4>3. AtMostOne(Settled') \/ \E x \in strays' : x \notin server'
        BY <4>1, <4>2 DEF AtMostOne
      <4> QED
        BY <2>2, <3>3, <3>4, <4>1, <4>3 DEF OwnNone, ConfirmedIds, open
    <3>5. CASE session.end # "unsaved"
      <4>1. Settled' \subseteq {}
        BY <2>5, <3>1, <3>2, <3>5 DEF OwnDiscard, Settled
      <4> QED
        BY <2>2, <4>1 DEF OwnNone, AtMostOne, open
    <3> QED
      BY <3>4, <3>5
  <2> QED
    BY <2>4, <2>5
<1> QED
  BY <1>2, <1>3, <1>4 DEF Ownership

\* The ends of a request keep who owns what.
LEMMA EndsOwn ==
  ASSUME Typed, Shape, SessionShape, OneActive, NEW r \in Rows, NEW w \in RowSet,
         session' = session, Active(r), row[r].status = "in_flight",
         w.status = "in_flight", w.kind = row[r].kind,
         w.kind = "discard" => w.phase = "null"
  PROVE  /\ \A q : /\ Proceed(r, w, q) /\ w.phase # "conflict"
                   /\ w.kind = "save" => OwnSave(r, w, q, server', strays')
                   /\ w.kind = "discard" => OwnDiscard(r, w, server', strays', session)
                   => Ownership'
         /\ /\ Fail(r, w) /\ w.phase # "conflict"
            /\ w.kind = "save" => OwnSave(r, w, "idle", server', strays')
            /\ w.kind = "discard" => OwnDiscard(r, w, server', strays', session)
            => Ownership'
         /\ /\ Settle(r, Ended(w)) /\ w.phase = "conflict" /\ w.kind = "save"
            /\ server' \ strays' \subseteq row[r].base
            => Ownership'
<1>0. w.kind = "save" \/ w.kind = "discard"
  BY DEF RowSet, Kinds
<1>1. /\ Retired(w).kind = w.kind /\ Retired(w).status = "gone" /\ Retired(w).pending = {}
      /\ Retired(w).probe = FALSE /\ Retired(w).successor = w.successor
  BY DEF Retired, Unborn
<1>2. ASSUME NEW q, Proceed(r, w, q), w.phase # "conflict",
             w.kind = "save" => OwnSave(r, w, q, server', strays'),
             w.kind = "discard" => OwnDiscard(r, w, server', strays', session)
      PROVE  Ownership'
  <2>1. CASE Finished(w) /\ Changed(r, Retired(w), "idle")
    <3>1. w.pending = {}
      BY <2>1 DEF Finished
    <3>2. w.kind = "save" => server' \ strays' \subseteq {w.successor}
      BY <1>2, <2>1, <3>1 DEF Finished, OwnSave, Made
    <3>3. ASSUME w.kind = "discard" PROVE OwnDiscard(r, Retired(w), server', strays', session)
      <4>1. w.probe = FALSE
        BY <2>1, <3>3 DEF Finished, RowSet
      <4> HIDE DEF Retired
      <4> QED
        BY <1>1, <1>2, <3>1, <3>3, <4>1, OwnDiscardSame
    <3> HIDE DEF Retired
    <3> QED
      BY <1>0, <1>1, <2>1, <3>2, <3>3, MoveOwn
  <2>2. CASE Changed(r, w, q)
    BY <1>0, <1>2, <2>2, MoveOwn
  <2> QED
    BY <1>2, <2>1, <2>2, ProceedEnds
<1>3. ASSUME Fail(r, w), w.phase # "conflict",
             w.kind = "save" => OwnSave(r, w, "idle", server', strays'),
             w.kind = "discard" => OwnDiscard(r, w, server', strays', session)
      PROVE  Ownership'
  <2> DEFINE v == [w EXCEPT !.status = "retry"]
  <2>1. /\ v.status = "retry" /\ v.kind = w.kind /\ v.phase = w.phase /\ v.base = w.base
        /\ v.pending = w.pending /\ v.successor = w.successor /\ v.probe = w.probe
    BY DEF RowSet
  <2>2. /\ Ended(w).status = "conflicted" /\ Ended(w).kind = w.kind
        /\ Ended(w).phase = w.phase /\ Ended(w).base = w.base
        /\ Ended(w).pending = w.pending /\ Ended(w).successor = w.successor
        /\ Ended(w).probe = w.probe
    BY DEF RowSet, Ended
  <2>3. Changed(r, v, "idle") \/ Changed(r, Ended(w), "idle")
    BY <1>3, FailEnds
  <2> HIDE DEF v, Ended
  <2>4. /\ w.kind = "save" => OwnSave(r, v, "idle", server', strays')
        /\ w.kind = "discard" => OwnDiscard(r, v, server', strays', session)
    BY <1>3, <2>1, OwnSaveSame, OwnDiscardSame
  <2>5. /\ w.kind = "save" => OwnSave(r, Ended(w), "idle", server', strays')
        /\ w.kind = "discard" => OwnDiscard(r, Ended(w), server', strays', session)
    BY <1>3, <2>2, OwnSaveSame, OwnDiscardSame
  <2>6. CASE Changed(r, v, "idle")
    BY <1>0, <1>3, <2>1, <2>4, <2>6, MoveOwn
  <2>7. CASE Changed(r, Ended(w), "idle")
    BY <1>0, <1>3, <2>2, <2>5, <2>7, MoveOwn
  <2> QED
    BY <2>3, <2>6, <2>7
<1>4. ASSUME Settle(r, Ended(w)), w.phase = "conflict", w.kind = "save",
             server' \ strays' \subseteq row[r].base
      PROVE  Ownership'
  <2>1. /\ Ended(w).status = "conflicted" /\ Ended(w).kind = w.kind
        /\ Ended(w).phase = w.phase
    BY DEF RowSet, Ended
  <2>2. Changed(r, Ended(w), "idle")
    BY <1>4 DEF Settle, Changed
  <2> HIDE DEF Ended
  <2> QED
    BY <1>4, <2>1, <2>2, MoveOwn
<1> QED
  BY <1>2, <1>3, <1>4

\* What destroying leaves of the Emails Z to destroy is still owned.
LEMMA OwnDestroyed ==
  ASSUME NEW r, NEW w, NEW v, NEW t, NEW S, NEW X, NEW s, NEW Z, Z \subseteq S,
         v.phase = w.phase, v.base = w.base, v.successor = w.successor,
         v.probe = w.probe, v.pending = w.pending \cap Z,
         w.phase \in Made \/ w.phase = "null"
  PROVE  /\ OwnSave(r, w, t, S, X) => OwnSave(r, v, t, Z, X)
         /\ OwnDiscard(r, w, S, X, s) => OwnDiscard(r, v, Z, X, s)
<1>1. ASSUME OwnSave(r, w, t, S, X) PROVE OwnSave(r, v, t, Z, X)
  <2>1. OwnSave(r, w, t, Z, X)
    BY <1>1, OwnLess
  <2> QED
    BY <2>1 DEF OwnSave, Made
<1>2. ASSUME OwnDiscard(r, w, S, X, s) PROVE OwnDiscard(r, v, Z, X, s)
  <2>1. OwnDiscard(r, w, Z, X, s)
    BY <1>2, OwnLess
  <2>2. Probed(r, v, Z) = Probed(r, w, Z)
    BY DEF Probed
  <2>3. Leftover(r, v, Z, X, s) = Leftover(r, w, Z, X, s)
    BY <2>2 DEF Leftover
  <2>4. CASE s.end = "unsaved"
    BY <2>1, <2>3, <2>4 DEF OwnDiscard
  <2>5. CASE s.end # "unsaved"
    BY <2>1, <2>2, <2>5 DEF OwnDiscard
  <2> QED
    BY <2>4, <2>5
<1> QED
  BY <1>1, <1>2

\* A request keeps who owns what.
LEMMA AttemptOwn ==
  ASSUME Typed, Shape, SessionShape, OneActive, Ownership, NEW r \in Rows, Attempt(r)
  PROVE  Ownership'
<1>1. task[r] # "idle" /\ session' = session
  BY AttemptMoves
<1>2. /\ row[r] \in RowSet /\ row[r].status = "in_flight" /\ row[r].phase # "conflict"
      /\ RowShape(r, row[r], task[r])
      /\ row[r].kind \in Kinds /\ row[r].phase \in Phases
  BY <1>1, AttemptFacts
<1>3. row[r].kind = "save" \/ row[r].kind = "discard"
  BY <1>2 DEF Kinds
<1>4. Active(r) /\ RowOwns(r)
  BY <1>2 DEF Active, Ownership
<1>5. row[r].kind = "save" => /\ SaveShape(r, row[r], task[r])
                              /\ OwnSave(r, row[r], task[r], server, strays)
                              /\ OwnSave(r, row[r], "idle", server, strays)
  BY <1>2, <1>4, OwnSaveSame DEF RowShape, RowOwns
<1>6. row[r].kind = "discard" => /\ DiscardShape(row[r], task[r])
                                 /\ OwnDiscard(r, row[r], server, strays, session)
  BY <1>2, <1>4 DEF RowShape, RowOwns
<1>7. Copies(r) = CopiesIn(server, r)
  BY DEF Copies, CopiesIn, Owner
<1>8. ASSUME NEW w \in RowSet, w.status = "in_flight", w.kind = row[r].kind,
             w.kind = "discard" => w.phase = "null"
      PROVE  /\ \A q : /\ Proceed(r, w, q) /\ w.phase # "conflict"
                       /\ w.kind = "save" => OwnSave(r, w, q, server', strays')
                       /\ w.kind = "discard" => OwnDiscard(r, w, server', strays', session)
                       => Ownership'
             /\ /\ Fail(r, w) /\ w.phase # "conflict"
                /\ w.kind = "save" => OwnSave(r, w, "idle", server', strays')
                /\ w.kind = "discard" => OwnDiscard(r, w, server', strays', session)
                => Ownership'
             /\ /\ Settle(r, Ended(w)) /\ w.phase = "conflict" /\ w.kind = "save"
                /\ server' \ strays' \subseteq row[r].base
                => Ownership'
  BY <1>1, <1>2, <1>4, <1>8, EndsOwn
<1>9. row[r].kind = "discard" => row[r].phase = "null"
  BY <1>6 DEF DiscardShape
<1>10. ASSUME Fail(r, row[r]),
              row[r].kind = "save" => OwnSave(r, row[r], "idle", server', strays'),
              row[r].kind = "discard" => OwnDiscard(r, row[r], server', strays', session)
       PROVE  Ownership'
  BY <1>2, <1>8, <1>9, <1>10
<1>11. CASE Bases(r)
  <2>1. task[r] = "bases" /\ server' = server /\ strays' = strays
    BY <1>11 DEF Bases, serverVars
  <2>2. row[r].kind = "save"
    BY <1>3, <1>6, <2>1 DEF DiscardShape
  <2>3. server \ strays \subseteq row[r].base
    BY <1>2, <1>5, <2>1, <2>2 DEF SaveShape, OwnSave
  <2> DEFINE w == [row[r] EXCEPT !.phase = "queued", !.pending = row[r].base]
             v == [row[r] EXCEPT !.phase = "conflict"]
  <2>4. /\ w \in RowSet /\ w.status = "in_flight" /\ w.kind = "save" /\ w.phase = "queued"
        /\ w.pending = row[r].base
        /\ v \in RowSet /\ v.status = "in_flight" /\ v.kind = "save" /\ v.phase = "conflict"
    BY <1>2, <2>2 DEF RowSet, Phases
  <2>5. Proceed(r, w, "create") \/ Settle(r, Ended(v))
    BY <1>11 DEF Bases
  <2> HIDE DEF w, v
  <2>6. OwnSave(r, w, "create", server', strays')
    BY <1>5, <2>1, <2>2, <2>3, <2>4 DEF OwnSave, Made
  <2>7. CASE Proceed(r, w, "create")
    BY <1>8, <2>2, <2>4, <2>6, <2>7
  <2>8. CASE Settle(r, Ended(v))
    BY <1>8, <2>1, <2>2, <2>3, <2>4, <2>8
  <2> QED
    BY <2>5, <2>7, <2>8
<1>12. CASE ProbeSave(r)
  <2>1. task[r] = "probe" /\ server' = server /\ strays' = strays /\ row[r].kind = "save"
    BY <1>12 DEF ProbeSave, serverVars
  <2>2. row[r].phase = "queued"
    BY <1>5, <2>1 DEF SaveShape
  <2>3. CASE Copies(r) = {}
    <3>1. Proceed(r, row[r], "bases")
      BY <1>12, <2>3 DEF ProbeSave
    <3>2. OwnSave(r, row[r], "bases", server', strays')
      BY <1>5, <1>7, <2>1, <2>2, <2>3 DEF OwnSave, Made
    <3> QED
      BY <1>2, <1>8, <2>1, <3>1, <3>2
  <2>4. CASE Copies(r) # {}
    <3>1. PICK e \in Copies(r) :
            Proceed(r, [row[r] EXCEPT !.phase = "created", !.successor = e,
                          !.pending = Predecessors(row[r], r, e)], "fetch")
      BY <1>12, <2>4 DEF ProbeSave
    <3> DEFINE w == [row[r] EXCEPT !.phase = "created", !.successor = e,
                          !.pending = Predecessors(row[r], r, e)]
    <3>2. e \in Emails /\ Predecessors(row[r], r, e) \in SUBSET Emails
      BY <1>2 DEF Copies, Predecessors, Typed, ServerType, RowSet
    <3>3. /\ w \in RowSet /\ w.status = "in_flight" /\ w.kind = "save"
          /\ w.phase = "created" /\ w.successor = e
          /\ w.pending = (row[r].pending \cup Copies(r)) \ {e}
      BY <1>2, <2>1, <3>2 DEF RowSet, Phases, Predecessors
    <3> HIDE DEF w
    <3>4. OwnSave(r, w, "fetch", server', strays')
      <4>1. /\ AtMostOne(CopiesIn(server, r) \ strays)
            /\ server \ strays \subseteq row[r].pending \cup CopiesIn(server, r)
        BY <1>5, <2>1, <2>2 DEF OwnSave
      <4>2. server \ strays \subseteq w.pending \cup {w.successor}
        BY <1>7, <3>3, <4>1
      <4>3. ASSUME NEW d \in server \ strays, Owner(d) = r, d # e PROVE e \in strays
        BY <1>7, <3>1, <4>1, <4>3 DEF AtMostOne, CopiesIn
      <4> QED
        BY <2>1, <3>3, <4>1, <4>2, <4>3 DEF OwnSave
    <3> QED
      BY <1>8, <2>1, <3>1, <3>3, <3>4 DEF w
  <2> QED
    BY <2>3, <2>4
<1>13. CASE ProbeDiscard(r)
  <2>1. /\ task[r] = "probe" /\ server' = server /\ strays' = strays
        /\ row[r].kind = "discard"
    BY <1>13 DEF ProbeDiscard, serverVars
  <2> DEFINE w == [row[r] EXCEPT !.pending = row[r].pending \cup Copies(r), !.probe = FALSE]
  <2>2. row[r].pending \cup Copies(r) \in SUBSET Emails
    BY <1>2 DEF Copies, Typed, ServerType, RowSet
  <2>3. /\ w \in RowSet /\ w.status = "in_flight" /\ w.kind = "discard"
        /\ w.phase = "null" /\ w.probe = FALSE /\ w.pending = row[r].pending \cup Copies(r)
    BY <1>2, <1>9, <2>1, <2>2 DEF RowSet
  <2>4. Proceed(r, w, "destroy")
    BY <1>13 DEF ProbeDiscard
  <2>5. row[r].probe
    BY <1>6, <2>1 DEF DiscardShape
  <2> HIDE DEF w
  <2>6. OwnDiscard(r, w, server', strays', session)
    <3>1. w.pending \cup Probed(r, w, server) = row[r].pending \cup Probed(r, row[r], server)
      BY <1>7, <2>3, <2>5 DEF Probed
    <3>2. Leftover(r, w, server, strays, session) = Leftover(r, row[r], server, strays, session)
      BY <3>1 DEF Leftover
    <3>3. CASE session.end = "unsaved"
      BY <1>6, <2>1, <2>3, <3>2, <3>3 DEF OwnDiscard
    <3>4. CASE session.end # "unsaved"
      BY <1>6, <2>1, <2>3, <3>1, <3>4 DEF OwnDiscard
    <3> QED
      BY <3>3, <3>4
  <2> QED
    BY <1>8, <2>1, <2>3, <2>4, <2>6
<1>14. CASE Create(r)
  <2>1. task[r] = "create" /\ strays' = strays
    BY <1>14 DEF Create
  <2>2. row[r].kind = "save"
    BY <1>3, <1>6, <2>1 DEF DiscardShape
  <2>3. row[r].phase = "queued" /\ row[r].pending = row[r].base
        /\ server \ strays \subseteq row[r].base
    BY <1>5, <2>1, <2>2 DEF SaveShape, OwnSave
  <2>4. PICK e \in NextCopy(r) :
          /\ server' = server \cup {e}
          /\ \/ Proceed(r, [row[r] EXCEPT !.phase = "created", !.successor = e], "fetch")
             \/ Fail(r, row[r])
    BY <1>14 DEF Create
  <2>5. e \in Emails /\ Owner(e) = r
    BY DEF NextCopy, FreshCopy, Owner
  <2>6. \A d \in row[r].base : Owner(d) # r
    BY <1>2, SessionFacts DEF Spent
  <2>7. CopiesIn(server', r) \ strays' \subseteq {e}
    BY <2>1, <2>3, <2>4, <2>6 DEF CopiesIn
  <2>8. OwnSave(r, row[r], "idle", server', strays')
    BY <2>1, <2>3, <2>4, <2>5, <2>7 DEF OwnSave, AtMostOne, CopiesIn, Made
  <2> DEFINE w == [row[r] EXCEPT !.phase = "created", !.successor = e]
  <2>9. /\ w \in RowSet /\ w.status = "in_flight" /\ w.kind = "save"
        /\ w.phase = "created" /\ w.successor = e /\ w.pending = row[r].base
    BY <1>2, <2>2, <2>3, <2>5 DEF RowSet, Phases
  <2> HIDE DEF w
  <2>10. OwnSave(r, w, "fetch", server', strays')
    BY <2>1, <2>3, <2>4, <2>6, <2>7, <2>9 DEF OwnSave, AtMostOne
  <2> QED
    BY <1>8, <1>10, <2>2, <2>4, <2>8, <2>9, <2>10 DEF w
<1>15. CASE CreateLate(r) \/ DestroyLate(r) \/ Unanswered(r)
  <2>1. Fail(r, row[r]) /\ server' = server /\ strays' = strays
    BY <1>15 DEF CreateLate, DestroyLate, Unanswered, serverVars
  <2> QED
    BY <1>5, <1>6, <1>10, <2>1
<1>16. CASE Fetch(r)
  <2>1. task[r] = "fetch" /\ server' = server /\ strays' = strays
    BY <1>16 DEF Fetch, serverVars
  <2>2. row[r].kind = "save" /\ row[r].phase = "created"
    BY <1>3, <1>5, <1>6, <2>1 DEF DiscardShape, SaveShape
  <2>3. \/ \E p \in Removing : Proceed(r, [row[r] EXCEPT !.phase = p], "destroy")
        \/ Fail(r, row[r])
    BY <1>16 DEF Fetch, Removing
  <2>4. ASSUME NEW p \in Removing, Proceed(r, [row[r] EXCEPT !.phase = p], "destroy")
        PROVE  Ownership'
    <3> DEFINE w == [row[r] EXCEPT !.phase = p]
    <3>1. /\ w \in RowSet /\ w.status = "in_flight" /\ w.kind = "save" /\ w.phase \in Removing
          /\ w.successor = row[r].successor /\ w.pending = row[r].pending
      BY <1>2, <2>2 DEF RowSet, Phases, Removing
    <3> HIDE DEF w
    <3>2. OwnSave(r, w, "destroy", server', strays') /\ w.phase # "conflict"
      BY <1>5, <2>1, <2>2, <3>1 DEF OwnSave, Made, Removing
    <3> QED
      BY <1>8, <2>2, <2>4, <3>1, <3>2 DEF w
  <2> QED
    BY <1>5, <1>10, <2>1, <2>2, <2>3, <2>4
<1>17. CASE Destroy(r)
  <2>1. task[r] = "destroy" /\ strays' = strays
    BY <1>17 DEF Destroy
  <2>2. PICK gone \in SUBSET (row[r].pending \cap server) :
          /\ server' = server \ gone
          /\ LET left == row[r].pending \cap (server \ gone)
                 w == [row[r] EXCEPT !.pending = left]
             IN \/ left = {} /\ Proceed(r, w, "destroy")
                \/ left # {} /\ Fail(r, w)
                \/ Fail(r, row[r])
    BY <1>17 DEF Destroy
  <2> DEFINE left == row[r].pending \cap server'
             w == [row[r] EXCEPT !.pending = left]
  <2>3. Proceed(r, w, "destroy") \/ Fail(r, w) \/ Fail(r, row[r])
    BY <2>2
  <2>4. left \in SUBSET Emails
    BY <1>2 DEF RowSet
  <2>5. /\ w \in RowSet /\ w.status = "in_flight" /\ w.kind = row[r].kind
        /\ w.phase = row[r].phase /\ w.base = row[r].base /\ w.successor = row[r].successor
        /\ w.probe = row[r].probe /\ w.pending = row[r].pending \cap server'
    BY <1>2, <2>4 DEF RowSet
  <2>6. row[r].phase \in Made \/ row[r].phase = "null"
    BY <1>3, <1>5, <1>9, <2>1 DEF SaveShape, Made, Removing
  <2>7. server' \subseteq server
    BY <2>2
  <2> HIDE DEF w, left
  <2>8. /\ row[r].kind = "save" => /\ OwnSave(r, w, "destroy", server', strays')
                                   /\ OwnSave(r, w, "idle", server', strays')
                                   /\ OwnSave(r, row[r], "idle", server', strays')
        /\ row[r].kind = "discard" => /\ OwnDiscard(r, w, server', strays', session)
                                      /\ OwnDiscard(r, row[r], server', strays', session)
    BY <1>5, <1>6, <2>1, <2>5, <2>6, <2>7, OwnDestroyed, OwnLess
  <2> QED
    BY <1>2, <1>8, <1>9, <1>10, <2>3, <2>5, <2>8
<1> QED
  BY <1>11, <1>12, <1>13, <1>14, <1>15, <1>16, <1>17 DEF Attempt

\* Claiming a row keeps who owns what.
LEMMA ClaimOwn ==
  ASSUME Typed, Shape, SessionShape, OneActive, Ownership, NEW r \in Rows, Claim(r)
  PROVE  Ownership'
<1> DEFINE w == [row[r] EXCEPT !.status = "in_flight", !.attempts = @ + 1]
           q == FirstRequest(w)
<1>1. /\ row[r] \in RowSet /\ RowShape(r, row[r], task[r])
      /\ session.saving \in Rows \cup {0}
  BY SessionFacts
<1>2. /\ row[r].status = "pending" \/ row[r].status = "retry"
      /\ session' = session /\ server' = server /\ strays' = strays
      /\ \/ w.phase = "conflict" /\ Settle(r, Ended(w))
         \/ w.phase # "conflict" /\ Proceed(r, w, q)
  BY DEF Claim, serverVars
<1>3. /\ w.kind = row[r].kind /\ w.base = row[r].base /\ w.phase = row[r].phase
      /\ w.pending = row[r].pending /\ w.successor = row[r].successor
      /\ w.probe = row[r].probe /\ w.status = "in_flight"
      /\ Ended(w).status = "conflicted" /\ Ended(w).phase = row[r].phase
      /\ Retired(w).pending = {} /\ Retired(w).probe = FALSE
      /\ Retired(w).successor = row[r].successor /\ Retired(w).kind = row[r].kind
      /\ Retired(w).status = "gone"
  BY <1>1 DEF RowSet, Ended, Retired, Unborn
<1>4. row[r].kind = "save" \/ row[r].kind = "discard"
  BY <1>1 DEF RowSet, Kinds
<1>5. q \in Requests /\ (w.kind = "save" /\ w.phase = "queued" => q = "probe")
  BY DEF FirstRequest, Requests
<1> HIDE DEF w, q
<1>6. CASE w.phase = "conflict"
  <2>1. /\ row'[r] = Ended(w) /\ \A k \in Rows \ {r} : row'[k] = row[k] /\ task'[k] = task[k]
    BY <1>2, <1>6, SessionFacts DEF Settle
  <2>2. ~Active(r) /\ ~Active(r)' /\ row[r].status # "gone" /\ row'[r].status # "gone"
    BY <1>2, <1>3, <1>6, <2>1 DEF Active
  <2>3. \A k \in Rows : Active(k)' = Active(k)
    BY <2>1, <2>2 DEF Active
  <2>4. \A k \in Rows : Active(k)' => RowOwns(k)'
    BY <1>2, <2>1, <2>2, <2>3 DEF Ownership, RowOwns
  <2>5. Expected' = Expected
    <3>1. Answered' = Answered
      BY <1>1, <1>2, <2>1, <2>2, Names DEF Answered
    <3>2. Answered => row'[session.saving] = row[session.saving]
      BY <1>1, <2>1, <2>2, Names DEF Answered
    <3> QED
      BY <1>2, <3>1, <3>2 DEF Expected, ConfirmedIds
  <2>6. NoneActive' => OwnNone'
    BY <1>2, <2>3, <2>5 DEF Ownership, NoneActive, OwnNone, Settled, open, ConfirmedIds
  <2> QED
    BY <2>4, <2>6 DEF Ownership
<1>7. CASE w.phase # "conflict"
  <2>1. Active(r) /\ RowOwns(r)
    BY <1>2, <1>3, <1>7 DEF Active, Ownership
  <2>2. row[r].kind = "save" =>
          /\ OwnSave(r, w, "idle", server', strays') /\ OwnSave(r, w, q, server', strays')
          /\ OwnSave(r, row[r], "idle", server', strays')
    <3>1. ASSUME row[r].kind = "save" PROVE OwnSave(r, row[r], task[r], server, strays)
      BY <2>1, <3>1 DEF RowOwns
    <3>2. ASSUME row[r].kind = "save" PROVE OwnSave(r, w, "idle", server, strays)
                                             /\ OwnSave(r, row[r], "idle", server, strays)
      BY <1>3, <3>1, <3>2, OwnSaveSame
    <3>3. ASSUME row[r].kind = "save" PROVE OwnSave(r, w, q, server, strays)
      BY <1>3, <1>5, <3>2, <3>3 DEF OwnSave
    <3> QED
      BY <1>2, <3>2, <3>3
  <2>3. row[r].kind = "discard" => OwnDiscard(r, w, server', strays', session)
    BY <1>2, <1>3, <2>1, OwnDiscardSame DEF RowOwns
  <2>4. CASE Finished(w) /\ Changed(r, Retired(w), "idle")
    <3>1. w.pending = {}
      BY <2>4 DEF Finished
    <3>2. w.kind = "save" => server' \ strays' \subseteq {row[r].successor}
      BY <1>3, <2>2, <2>4, <3>1 DEF Finished, OwnSave, Made
    <3>3. ASSUME w.kind = "discard" PROVE OwnDiscard(r, Retired(w), server', strays', session)
      <4>1. w.probe = FALSE
        BY <1>1, <1>3, <2>4, <3>3 DEF Finished, RowSet, RowShape, DiscardShape
      <4> HIDE DEF Retired
      <4> QED
        BY <1>3, <2>3, <3>1, <3>3, <4>1, OwnDiscardSame
    <3> HIDE DEF Retired
    <3> QED
      BY <1>2, <1>3, <1>4, <2>1, <2>4, <3>2, <3>3, MoveOwn
  <2>5. CASE Changed(r, w, q)
    BY <1>2, <1>3, <1>4, <1>7, <2>1, <2>2, <2>3, <2>5, MoveOwn
  <2> QED
    BY <1>2, <1>7, <2>4, <2>5, ProceedEnds
<1> QED
  BY <1>6, <1>7

\* Late service and other clients.
LEMMA WorldOwn ==
  ASSUME Typed, Ownership,
         \/ \E r \in Rows : ServeCreate(r)
         \/ \E e \in Emails : ServeDestroy(e) \/ Remove(e)
         \/ UNCHANGED vars
  PROVE  Ownership'
<1>1. UNCHANGED <<row, task, session>>
  BY DEF ServeCreate, ServeDestroy, Remove, vars
<1>2. /\ \A r \in Rows : Active(r)' = Active(r)
      /\ NoneActive' = NoneActive /\ Expected' = Expected
  BY <1>1 DEF Active, NoneActive, Expected, Answered, ConfirmedIds
<1>3. CASE server' \subseteq server /\ strays' = strays
  <2>1. ASSUME NEW r \in Rows, Active(r)' PROVE RowOwns(r)'
    <3>1. RowOwns(r)
      BY <1>2, <2>1 DEF Ownership
    <3>2. /\ row[r].kind = "save" => OwnSave(r, row[r], task[r], server', strays)
          /\ row[r].kind = "discard" => OwnDiscard(r, row[r], server', strays, session)
      BY <1>3, <3>1, OwnLess DEF RowOwns
    <3> QED
      BY <1>1, <1>3, <3>2 DEF RowOwns
  <2>2. Settled' \subseteq Settled
    BY <1>3 DEF Settled
  <2>3. OwnNone => OwnNone'
    BY <1>1, <1>2, <1>3, <2>2 DEF OwnNone, AtMostOne, open, ConfirmedIds
  <2> QED
    BY <1>2, <2>1, <2>3 DEF Ownership
<1>4. ASSUME NEW e, e \notin strays, server' = server \cup {e}, strays' = strays \cup {e}
      PROVE  Ownership'
  <2>1. ASSUME NEW r \in Rows, Active(r)' PROVE RowOwns(r)'
    <3>1. RowOwns(r)
      BY <1>2, <2>1 DEF Ownership
    <3>2. /\ row[r].kind = "save" => OwnSave(r, row[r], task[r], server', strays')
          /\ row[r].kind = "discard" => OwnDiscard(r, row[r], server', strays', session)
      BY <1>4, <3>1, OwnLate DEF RowOwns
    <3> QED
      BY <1>1, <3>2 DEF RowOwns
  <2>2. Settled' \subseteq Settled
    BY <1>4 DEF Settled
  <2>3. (\E x \in strays : x \notin server) => \E x \in strays' : x \notin server'
    BY <1>4
  <2>4. OwnNone => OwnNone'
    BY <1>1, <1>2, <2>2, <2>3 DEF OwnNone, AtMostOne, open, ConfirmedIds
  <2> QED
    BY <1>2, <2>1, <2>4 DEF Ownership
<1>5. \/ server' \subseteq server /\ strays' = strays
      \/ \E e : e \notin strays /\ server' = server \cup {e} /\ strays' = strays \cup {e}
  <2>1. ASSUME NEW r \in Rows, ServeCreate(r)
        PROVE  \E e : e \notin strays /\ server' = server \cup {e} /\ strays' = strays \cup {e}
    BY <2>1 DEF ServeCreate, NextCopy, FreshCopy
  <2>2. ASSUME NEW e \in Emails, ServeDestroy(e) \/ Remove(e)
        PROVE  server' \subseteq server /\ strays' = strays
    BY <2>2 DEF ServeDestroy, Remove
  <2>3. UNCHANGED vars => server' \subseteq server /\ strays' = strays
    BY DEF vars, serverVars
  <2> QED
    BY <2>1, <2>2, <2>3
<1> QED
  BY <1>3, <1>4, <1>5

\* What the session expects is at most one Email.
LEMMA ExpectedOne ==
  ASSUME Typed
  PROVE  AtMostOne(Expected) /\ Confirmed(session) = ConfirmedIds
BY ConfirmedFacts DEF AtMostOne, Expected, Confirmed, ConfirmedIds

\* The rows and the Emails stay, and the session's copy.
LEMMA KeepOwn ==
  ASSUME Ownership, UNCHANGED <<row, task, server, strays>>,
         session'.confirmed = session.confirmed,
         session.end = "unsaved" <=> session'.end = "unsaved",
         NoneActive => OwnNone'
  PROVE  Ownership'
<1>1. (\A r \in Rows : Active(r)' = Active(r)) /\ NoneActive' = NoneActive
  BY DEF Active, NoneActive
<1>2. ASSUME NEW r \in Rows, Active(r)' PROVE RowOwns(r)'
  <2>1. RowOwns(r)
    BY <1>1, <1>2 DEF Ownership
  <2> QED
    BY <2>1 DEF RowOwns, OwnDiscard, Leftover, Confirmed
<1> QED
  BY <1>1, <1>2 DEF Ownership

\* The session stays open and expects the same.
LEMMA QuietOwn ==
  ASSUME Ownership, UNCHANGED <<row, task, server, strays>>, open,
         session'.confirmed = session.confirmed, session'.end = "open", Expected' = Expected
  PROVE  Ownership'
<1>1. NoneActive => OwnNone'
  BY DEF Ownership, OwnNone, Settled, open
<1> QED
  BY <1>1, KeepOwn DEF open

\* The session closes, and nobody took a draft back.
LEMMA CloseOwn ==
  ASSUME Typed, Ownership, UNCHANGED <<row, task, server, strays>>, open,
         session'.confirmed = session.confirmed,
         session'.end \notin {"open", "unsaved", "discarded"}
  PROVE  Ownership'
<1>1. NoneActive => OwnNone'
  BY ExpectedOne DEF Ownership, OwnNone, Settled, open, AtMostOne
<1> QED
  BY <1>1, KeepOwn DEF open

\* A new row takes over what the session expects.
LEMMA InsertOwn ==
  ASSUME Typed, NoneActive, ~Ruined, NEW r \in Fresh, NEW v, v.status = "pending",
         row' = [row EXCEPT ![r] = v], UNCHANGED <<task, server, strays>>,
         session'.end = "open", v.phase = "null",
         v.kind = "save" => Settled \subseteq v.base /\ \A e \in v.base : Owner(e) # r,
         v.kind = "discard" => Settled \subseteq v.pending
  PROVE  Ownership'
<1>1. r \in Rows /\ row'[r] = v /\ \A q \in Rows : Active(q)' => q = r
  BY InsertOne
<1>2. ASSUME v.kind = "save" PROVE OwnSave(r, v, task[r], server, strays)
  BY <1>2 DEF OwnSave, AtMostOne, CopiesIn, Settled, Made
<1>3. ASSUME v.kind = "discard" PROVE OwnDiscard(r, v, server, strays, session')
  BY <1>3 DEF OwnDiscard, Settled
<1>4. RowOwns(r)'
  BY <1>1, <1>2, <1>3 DEF RowOwns
<1>5. Active(r)'
  BY <1>1 DEF Active
<1> QED
  BY <1>1, <1>4, <1>5 DEF Ownership, NoneActive

\* What is owned when the failed save f is taken back.
LEMMA AbandonOwn ==
  ASSUME Typed, Shape, SessionShape, OneActive, Ownership, open, session.saving = 0,
         session.op # "discarding", session.failed # 0, NEW all \in BOOLEAN, NEW s,
         s.confirmed = session.confirmed, s.end = "unsaved" <=> ~all
  PROVE  LET f == session.failed
             plan == AbandonPlan(row[f], all)
         IN  /\ plan = "park" => Settled \subseteq ConfirmedIds
             /\ plan = "delete" => Settled \subseteq ConfirmedIds /\ (all => Settled = {})
             /\ plan = "convert" => OwnDiscard(f, Converted(row[f], all), server, strays, s)
<1> DEFINE f == session.failed
           w == row[f]
           plan == AbandonPlan(w, all)
<1>1. /\ f \in Rows /\ w \in RowSet /\ RowShape(f, w, task[f]) /\ f # 0
      /\ w.kind = "save" /\ w.status = "conflicted" /\ task[f] = "idle"
  BY SessionFacts DEF SessionShape, Remembers
<1>2. Waiting /\ ~Answered /\ Expected = ConfirmedIds
  BY DEF OneActive, Answered, Expected
<1>3. CASE w.phase = "conflict"
  <2>1. NoneActive
    BY <1>3, NoRun
  <2>2. Settled \subseteq ConfirmedIds
    BY <1>2, <2>1 DEF Ownership, OwnNone
  <2>3. plan = "park"
    BY <1>3 DEF AbandonPlan
  <2> QED
    BY <2>2, <2>3
<1>4. CASE w.phase # "conflict"
  <2>1. Active(f)
    BY <1>1, <1>4 DEF Active
  <2>2. w.base = ConfirmedIds
    BY <1>1, <2>1 DEF OneActive, Tracked
  <2>3. OwnSave(f, w, "idle", server, strays) /\ SaveShape(f, w, "idle")
    BY <1>1, <2>1 DEF Ownership, RowOwns, RowShape
  <2>4. \A e \in ConfirmedIds : Owner(e) # f
    BY <1>1, <2>2, SessionFacts DEF Spent
  <2>5. w.phase \in Made => w.successor # None /\ w.successor \notin ConfirmedIds
    <3>1. w.successor # None => Owner(w.successor) = f
      BY <1>1 DEF RowShape
    <3> QED
      BY <2>3, <2>4, <3>1 DEF SaveShape
  <2>6. plan # "park"
    BY <1>4 DEF AbandonPlan
  <2>7. plan = "delete" => w.phase = "null" /\ (~all \/ ConfirmedIds = {})
    <3>1. w.phase \in Made => Owned(w, all) # {}
      BY <2>5 DEF Owned
    <3> QED
      BY <1>4, <3>1 DEF AbandonPlan, Made
  <2>8. plan = "delete" => Settled \subseteq ConfirmedIds /\ (all => Settled = {})
    BY <2>2, <2>3, <2>7 DEF OwnSave, Settled
  <2> DEFINE v == Converted(w, all)
  <2>9. v.pending = Owned(w, all) /\ v.probe = (w.phase = "queued")
    BY DEF Converted, Unborn
  <2> HIDE DEF v
  <2>10. w.phase \in Phases
    BY <1>1 DEF RowSet
  <2>11. Confirmed(s) = ConfirmedIds
    BY DEF Confirmed, ConfirmedIds
  <2>12. ASSUME plan = "convert", all PROVE OwnDiscard(f, v, server, strays, s)
    <3>1. v.pending = ConfirmedIds \cup w.base \cup w.pending \cup ({w.successor} \ {None})
      BY <2>9, <2>12 DEF Owned
    <3>2. Settled \subseteq v.pending \cup Probed(f, v, server)
      BY <1>4, <2>3, <2>5, <2>9, <2>10, <3>1 DEF OwnSave, Settled, Phases, Made, Probed
    <3> QED
      BY <2>12, <3>2 DEF OwnDiscard, Settled
  <2>13. ASSUME plan = "convert", ~all PROVE OwnDiscard(f, v, server, strays, s)
    <3>1. w.phase # "null"
      BY <2>13 DEF AbandonPlan
    <3>2. CASE w.phase = "queued"
      <4>1. Settled \subseteq ConfirmedIds \cup Probed(f, v, server)
        BY <2>2, <2>3, <2>9, <3>2 DEF OwnSave, SaveShape, Settled, Probed
      <4>2. Leftover(f, v, server, strays, s) = {}
        BY <2>11, <4>1 DEF Leftover, Settled
      <4> QED
        BY <2>13, <4>2 DEF OwnDiscard, AtMostOne
    <3>3. CASE w.phase \in Made
      <4>1. v.pending = {w.successor}
        BY <2>5, <2>9, <2>13, <3>3 DEF Owned
      <4>2. \A e \in w.pending : e \in ConfirmedIds \/ Owner(e) = f
        BY <2>2, <2>3 DEF SaveShape
      <4>3. Leftover(f, v, server, strays, s) \subseteq
              {e \in CopiesIn(server, f) \ strays : e # w.successor}
        BY <2>3, <2>11, <3>3, <4>1, <4>2 DEF Leftover, OwnSave, CopiesIn
      <4>4. AtMostOne(Leftover(f, v, server, strays, s))
        BY <2>3, <4>3 DEF OwnSave, AtMostOne
      <4>5. Leftover(f, v, server, strays, s) # {} => w.successor \in strays
        BY <2>3, <3>3, <4>3 DEF OwnSave, CopiesIn
      <4> QED
        BY <2>13, <4>1, <4>4, <4>5 DEF OwnDiscard
    <3> QED
      BY <1>4, <2>10, <3>1, <3>2, <3>3 DEF Phases, Made
  <2> QED
    BY <2>6, <2>8, <2>12, <2>13 DEF v
<1> QED
  BY <1>3, <1>4

\* The session's own steps keep who owns what.
LEMMA SessionOwn ==
  ASSUME Typed, Shape, SessionShape, ~Ruined, OneActive, Ownership, SessionStep \/ UserStep
  PROVE  Ownership'
<1>0. /\ session \in SessionSet /\ row \in [Rows -> RowSet] /\ Remembers(session)
      /\ 0 \notin Rows /\ session.pend \in Rows \cup {0} /\ session.failed \in Rows \cup {0}
      /\ session.saving \in Rows \cup {0} /\ session.blocked \in BOOLEAN
  BY SessionFacts DEF SessionShape, SessionSet
<1>1. open /\ UNCHANGED <<task, server, strays>>
  BY DEF SessionStep, UserStep, Edit, Autosave, SaveAndClose, SaveConfirmed, SaveFailed,
     CloseClean, BeginDontSave, BeginDiscard, DontSave, DiscardFailedSave,
     DiscardConfirmed, DiscardAnswered, TabCloses, serverVars
<1>2. Waiting /\ session.end = "open"
  BY <1>1 DEF OneActive, open
<1>21. ASSUME NEW e \in ConfirmedIds, NEW r \in Fresh PROVE Owner(e) # r
  <2>1. Spent(Owner(e))
    BY <1>0, <1>21 DEF ConfirmedIds, Remembers
  <2> QED
    BY <1>0, <2>1 DEF Spent, Fresh
<1>22. NoneActive /\ ~Answered /\ session.op # "discarding" => Settled \subseteq ConfirmedIds
  BY <1>1 DEF Ownership, OwnNone, Expected
<1>23. session.saving = 0 => ~Answered
  BY DEF Answered
<1>3. CASE Edit
  <2>1. /\ session'.confirmed = session.confirmed /\ session'.saving = session.saving
        /\ session'.end = "open" /\ session'.op = session.op /\ row' = row
    BY <1>0, <1>2, <1>3 DEF Edit, SessionSet
  <2>2. Expected' = Expected
    BY <2>1 DEF Expected, Answered, ConfirmedIds
  <2> QED
    BY <1>1, <2>1, <2>2, QuietOwn
<1>4. CASE Autosave
  <2>1. CASE session.blocked \/ session.saving # 0 \/ ~Dirty(session)
    <3>1. session' = [session EXCEPT !.timer = FALSE] /\ row' = row
      BY <1>4, <2>1 DEF Autosave
    <3>2. /\ session'.confirmed = session.confirmed /\ session'.saving = session.saving
          /\ session'.end = "open" /\ session'.op = session.op
      BY <1>0, <1>2, <3>1 DEF SessionSet
    <3>3. Expected' = Expected
      BY <3>1, <3>2 DEF Expected, Answered, ConfirmedIds
    <3> QED
      BY <1>1, <3>1, <3>2, <3>3, QuietOwn
  <2>2. CASE ~session.blocked /\ session.saving = 0 /\ Dirty(session)
    <3>1. PICK r \in Fresh : /\ row' = [row EXCEPT ![r] = NewSave(session)]
                             /\ session' = Saving(session, r)
      BY <1>4, <2>2 DEF Autosave
    <3>2. session'.end = "open"
      BY <1>0, <1>2, <3>1 DEF Saving, SessionSet
    <3>3. session.op # "discarding"
      BY <1>2, <2>2 DEF Waiting
    <3>4. NoneActive
      BY <1>1, <2>2, <3>3, NoRun
    <3>5. /\ NewSave(session).status = "pending" /\ NewSave(session).phase = "null"
          /\ NewSave(session).base = ConfirmedIds /\ NewSave(session).kind = "save"
      BY DEF NewSave, Unborn, ConfirmedIds
    <3> HIDE DEF NewSave
    <3> QED
      BY <1>1, <1>21, <1>22, <1>23, <2>2, <3>1, <3>2, <3>3, <3>4, <3>5, InsertOwn
  <2> QED
    BY <2>1, <2>2
<1>5. CASE SaveAndClose
  <2>0. session.op = "none" /\ session.pend = 0
    BY <1>2, <1>5 DEF SaveAndClose, Waiting
  <2>1. CASE session.blocked
    <3> DEFINE f == session.failed
               v == Revived(row[f])
    <3>1. /\ f # 0 /\ row' = [row EXCEPT ![f] = v]
          /\ session' = [session EXCEPT !.blocked = FALSE, !.op = "retry", !.saving = f]
      BY <1>5, <2>1 DEF SaveAndClose
    <3>2. session.saving = 0 /\ f \in Rows
      BY <1>0, <2>0, <2>1, <3>1 DEF Remembers
    <3>3. row[f].status = "conflicted" /\ row[f].kind = "save" /\ row[f] \in RowSet
      BY <1>0, <3>1, <3>2 DEF Remembers
    <3>4. /\ v.kind = "save" /\ v.status = "retry" /\ v.phase = row[f].phase
          /\ v.base = row[f].base /\ v.pending = row[f].pending
          /\ v.successor = row[f].successor
      BY <3>3 DEF Revived, RowSet
    <3>5. row'[f] = v /\ \A q \in Rows \ {f} : row'[q] = row[q]
      BY <1>0, <3>1, <3>2
    <3>6. /\ session'.end = "open" /\ session'.saving = f /\ session'.op = "retry"
          /\ session'.confirmed = session.confirmed
      BY <1>0, <1>2, <2>0, <3>1 DEF SessionSet
    <3> HIDE DEF v
    <3>7. (\A q \in Rows : Active(q)' = Active(q)) /\ NoneActive' = NoneActive
      BY <3>3, <3>4, <3>5 DEF Active, NoneActive
    <3>8. Expected' = Expected
      BY <1>0, <2>0, <3>2, <3>4, <3>5, <3>6 DEF Expected, Answered, ConfirmedIds
    <3>9. ASSUME NEW q \in Rows, Active(q)' PROVE RowOwns(q)'
      <4>1. RowOwns(q)
        BY <3>7, <3>9 DEF Ownership
      <4>2. CASE q = f
        <5>1. OwnSave(q, row[q], task[q], server, strays)
          BY <3>3, <4>1, <4>2 DEF RowOwns
        <5>2. OwnSave(q, v, task[q], server, strays)
          BY <3>4, <4>2, <5>1, OwnSaveSame
        <5>3. row'[q] = v /\ v.kind = "save"
          BY <3>4, <3>5, <4>2
        <5> QED
          BY <1>1, <5>2, <5>3 DEF RowOwns
      <4>3. CASE q # f
        BY <1>1, <1>2, <3>5, <3>6, <4>1, <4>3 DEF RowOwns, OwnDiscard, Leftover, Confirmed
      <4> QED
        BY <4>2, <4>3
    <3>10. OwnNone => OwnNone'
      BY <1>1, <3>6, <3>8 DEF OwnNone, Settled, open
    <3> QED
      BY <3>7, <3>9, <3>10 DEF Ownership
  <2>2. CASE ~session.blocked /\ session.saving # 0
    <3>1. session' = [session EXCEPT !.timer = FALSE, !.op = "join"] /\ row' = row
      BY <1>5, <2>2 DEF SaveAndClose
    <3>2. /\ session'.confirmed = session.confirmed /\ session'.saving = session.saving
          /\ session'.end = "open" /\ session'.op = "join"
      BY <1>0, <1>2, <3>1 DEF SessionSet
    <3>3. Expected' = Expected
      BY <2>0, <3>1, <3>2 DEF Expected, Answered, ConfirmedIds
    <3> QED
      BY <1>1, <3>1, <3>2, <3>3, QuietOwn
  <2>3. CASE ~session.blocked /\ session.saving = 0 /\ Dirty(session)
    <3>1. PICK r \in Fresh : /\ row' = [row EXCEPT ![r] = NewSave(session)]
                             /\ session' = [Saving(session, r) EXCEPT !.op = "save"]
      BY <1>5, <2>3 DEF SaveAndClose
    <3>2. session'.end = "open"
      BY <1>0, <1>2, <3>1 DEF Saving, SessionSet
    <3>4. NoneActive
      BY <1>1, <2>0, <2>3, NoRun
    <3>5. /\ NewSave(session).status = "pending" /\ NewSave(session).phase = "null"
          /\ NewSave(session).base = ConfirmedIds /\ NewSave(session).kind = "save"
      BY DEF NewSave, Unborn, ConfirmedIds
    <3> HIDE DEF NewSave
    <3> QED
      BY <1>1, <1>21, <1>22, <1>23, <2>0, <2>3, <3>1, <3>2, <3>4, <3>5, InsertOwn
  <2>4. CASE ~session.blocked /\ session.saving = 0 /\ ~Dirty(session)
    <3>1. session' = Closed(session, "saved") /\ row' = row
      BY <1>5, <2>4 DEF SaveAndClose
    <3>2. session'.end = "saved" /\ session'.confirmed = session.confirmed
      BY <1>0, <3>1 DEF SessionSet, Closed
    <3> QED
      BY <1>1, <3>1, <3>2, CloseOwn
  <2> QED
    BY <2>1, <2>2, <2>3, <2>4
<1>6. CASE SaveConfirmed
  <2> DEFINE k == session.saving
             s == Applied(row[k])
  <2>0. k # 0 /\ row[k].status = "gone" /\ k \in Rows /\ row[k] \in RowSet
    BY <1>0, <1>6 DEF SaveConfirmed
  <2>1. /\ s.end = "open" /\ s.saving = 0 /\ s.confirmed = row[k].successor
        /\ s.op = session.op /\ s \in SessionSet
    BY <1>0, <1>2, <2>0 DEF Applied, SessionSet, RowSet
  <2>2. session.op # "discarding" /\ session.failed = k
    BY <1>0, <1>2, <2>0 DEF Waiting, Remembers
  <2>3. NoneActive
    <3> SUFFICES ASSUME NEW q \in Rows, Active(q) PROVE FALSE
      BY DEF NoneActive
    <3> QED
      BY <1>1, <2>0, <2>2 DEF OneActive, Tracked, Active
  <2>4. Settled \subseteq {row[k].successor}
    BY <1>1, <2>0, <2>3 DEF Ownership, OwnNone, Expected, Answered
  <2>5. row[k].successor # None /\ Owner(row[k].successor) = k
    BY <1>0, <2>0, SessionFacts DEF Remembers, RowShape
  <2>6. {s.confirmed} \ {None} = {row[k].successor}
    BY <2>1, <2>5
  <2> HIDE DEF s
  <2>7. CASE FollowUp(s)
    <3>1. PICK q \in Fresh :
            /\ row' = [row EXCEPT ![q] = NewSave(s)]
            /\ session' = [Saving(s, q) EXCEPT
                             !.op = CASE Saving(s, q).op = "save" -> "none"
                                      [] Saving(s, q).op = "retry" -> "save"
                                      [] OTHER -> Saving(s, q).op]
      BY <1>6, <2>7 DEF SaveConfirmed, s
    <3>2. session'.end = "open"
      BY <2>1, <3>1 DEF Saving, SessionSet
    <3>3. /\ NewSave(s).status = "pending" /\ NewSave(s).phase = "null"
          /\ NewSave(s).base = {row[k].successor} /\ NewSave(s).kind = "save"
      BY <2>6 DEF NewSave, Unborn
    <3>4. q # k
      BY <2>0, <3>1 DEF Fresh
    <3> HIDE DEF NewSave, k
    <3> QED
      BY <1>1, <2>3, <2>4, <2>5, <3>1, <3>2, <3>3, <3>4, InsertOwn
  <2>8. CASE ~FollowUp(s)
    <3>1. row' = row /\ (session' = Closed(s, "saved") \/ session' = s)
      BY <1>6, <2>8 DEF SaveConfirmed, s
    <3>2. NoneActive'
      BY <2>3, <3>1 DEF NoneActive, Active
    <3>3. Settled' \subseteq {row[k].successor}
      BY <1>1, <2>4 DEF Settled
    <3>4. CASE session' = Closed(s, "saved")
      <4>1. session'.end = "saved"
        BY <2>1, <3>4 DEF SessionSet, Closed
      <4>2. OwnNone'
        BY <3>3, <4>1 DEF OwnNone, AtMostOne, open
      <4> QED
        BY <3>2, <4>2 DEF Ownership, NoneActive
    <3>5. CASE session' = s
      <4>1. Expected' = {row[k].successor}
        BY <2>1, <2>2, <2>6, <3>5 DEF Expected, Answered, ConfirmedIds
      <4>2. OwnNone'
        BY <2>1, <3>3, <3>5, <4>1 DEF OwnNone, open
      <4> QED
        BY <3>2, <4>2 DEF Ownership, NoneActive
    <3> QED
      BY <3>1, <3>4, <3>5
  <2> QED
    BY <2>7, <2>8
<1>7. CASE SaveFailed
  <2>1. /\ session.saving # 0 /\ row[session.saving].status = "conflicted" /\ row' = row
        /\ session' = [session EXCEPT !.saving = 0, !.blocked = TRUE,
               !.op = IF session.op \in {"save", "retry", "join"} THEN "none" ELSE session.op]
    BY <1>7 DEF SaveFailed
  <2>2. session.op # "discarding"
    BY <1>2, <2>1 DEF Waiting
  <2>3. /\ session'.confirmed = session.confirmed /\ session'.saving = 0
        /\ session'.end = "open" /\ session'.op # "discarding"
    BY <1>0, <1>2, <2>1, <2>2 DEF SessionSet
  <2>4. Expected' = Expected
    BY <2>1, <2>2, <2>3 DEF Expected, Answered, ConfirmedIds
  <2> QED
    BY <1>1, <2>1, <2>3, <2>4, QuietOwn
<1>8. CASE CloseClean \/ TabCloses
  <2>1. row' = row /\ (session' = Closed(session, "clean") \/ session' = Closed(session, "lost"))
    BY <1>8 DEF CloseClean, TabCloses
  <2>2. /\ session'.end = "clean" \/ session'.end = "lost"
        /\ session'.confirmed = session.confirmed
    BY <1>0, <2>1 DEF SessionSet, Closed
  <2> QED
    BY <1>1, <2>1, <2>2, CloseOwn
<1>9. CASE BeginDontSave \/ BeginDiscard
  <2>1. /\ \/ session' = [session EXCEPT !.op = "dontSave", !.blocked = TRUE, !.timer = FALSE]
           \/ session' = [session EXCEPT !.op = "discard", !.blocked = TRUE, !.timer = FALSE]
        /\ row' = row /\ session.op = "none"
    BY <1>9 DEF BeginDontSave, BeginDiscard
  <2>2. /\ session'.confirmed = session.confirmed /\ session'.saving = session.saving
        /\ session'.end = "open" /\ session'.op # "discarding"
    BY <1>0, <1>2, <2>1 DEF SessionSet
  <2>3. Expected' = Expected
    BY <2>1, <2>2 DEF Expected, Answered, ConfirmedIds
  <2> QED
    BY <1>1, <2>1, <2>2, <2>3, QuietOwn
<1>10. CASE DontSave
  <2>0. session.op = "dontSave" /\ session.saving = 0 /\ session.pend = 0
    BY <1>2, <1>10 DEF DontSave, Waiting
  <2>1. session' = Closed(session, "unsaved")
    BY <1>10, <2>0 DEF DontSave
  <2>2. session'.end = "unsaved" /\ session'.confirmed = session.confirmed
    BY <1>0, <2>1 DEF SessionSet, Closed
  <2>3. ASSUME Settled \subseteq ConfirmedIds PROVE OwnNone'
    <3>1. Settled' = Settled /\ AtMostOne(ConfirmedIds)
      BY <1>1, ConfirmedFacts DEF Settled
    <3> QED
      BY <2>2, <2>3, <3>1 DEF OwnNone, AtMostOne, open
  <2>4. CASE session.failed = 0
    <3>1. row' = row
      BY <1>10, <2>0, <2>4 DEF DontSave
    <3>2. NoneActive /\ NoneActive'
      BY <1>1, <2>0, <2>4, <3>1, NoRun DEF NoneActive, Active
    <3>3. OwnNone'
      BY <1>22, <1>23, <2>0, <2>3, <3>2
    <3> QED
      BY <3>2, <3>3 DEF Ownership, NoneActive
  <2>5. CASE session.failed # 0
    <3> DEFINE f == session.failed
               plan == AbandonPlan(row[f], FALSE)
               v == Abandoned(row[f], FALSE)
    <3>1. row' = [row EXCEPT ![f] = v] /\ f \in Rows
      BY <1>0, <1>10, <2>0, <2>5 DEF DontSave
    <3>2. row[f].kind = "save" /\ row[f].status = "conflicted" /\ row[f] \in RowSet
      BY <1>0, <2>0, <2>5, <3>1 DEF Remembers
    <3>3. /\ v.status # "conflicted" \/ v.kind = "save"
          /\ v.status = "gone" \/ v.phase = "conflict" \/ Active(f)
      BY <3>2 DEF Abandoned, AbandonPlan, Converted, Retired, Unborn, RowSet, Active
    <3>4. /\ plan \in {"park", "delete", "convert"}
          /\ plan = "park" => v.phase = "conflict"
          /\ plan = "delete" => v.status = "gone"
          /\ plan = "convert" => v = Converted(row[f], FALSE) /\ v.kind = "discard"
                                 /\ v.status = "pending" /\ v.phase = "null"
      BY <3>2 DEF Abandoned, AbandonPlan, Converted, Retired, Unborn, RowSet
    <3>5. /\ plan = "park" => Settled \subseteq ConfirmedIds
          /\ plan = "delete" => Settled \subseteq ConfirmedIds
          /\ plan = "convert" =>
               OwnDiscard(f, Converted(row[f], FALSE), server, strays, session')
      BY <1>1, <2>0, <2>2, <2>5, AbandonOwn
    <3> HIDE DEF v, plan
    <3>6. /\ ~Ruined' /\ row'[f] = v
          /\ \A q \in Rows : Active(q)' => q = f
      BY <1>1, <2>0, <3>1, <3>2, <3>3, FailedOne
    <3> HIDE DEF f
    <3>7. CASE plan = "convert"
      <4>1. \A q \in Rows : q = f => Active(q)' /\ RowOwns(q)'
        BY <1>1, <3>4, <3>5, <3>6, <3>7 DEF RowOwns, Active
      <4> QED
        BY <3>1, <3>6, <4>1 DEF Ownership, NoneActive
    <3>8. CASE plan # "convert"
      <4>1. NoneActive'
        BY <3>4, <3>6, <3>8 DEF NoneActive, Active
      <4>2. OwnNone'
        BY <2>3, <3>4, <3>5, <3>8
      <4> QED
        BY <4>1, <4>2 DEF Ownership, NoneActive
    <3> QED
      BY <3>7, <3>8
  <2> QED
    BY <2>4, <2>5
<1>11. CASE DiscardFailedSave
  <2> DEFINE f == session.failed
             plan == AbandonPlan(row[f], TRUE)
             v == Abandoned(row[f], TRUE)
  <2>0. /\ session.op = "discard" /\ session.saving = 0 /\ session.pend = 0
        /\ f # 0 /\ f \in Rows
    BY <1>0, <1>2, <1>11 DEF DiscardFailedSave, Waiting
  <2>1. /\ row' = [row EXCEPT ![f] = v]
        /\ session' =
               CASE plan = "park" -> Refused(session)
                 [] plan = "delete" -> Closed(session, "discarded")
                 [] plan = "convert" -> [session EXCEPT !.failed = 0, !.pend = f,
                                                        !.op = "discarding"]
    BY <1>11, <2>0 DEF DiscardFailedSave
  <2>2. row[f].kind = "save" /\ row[f].status = "conflicted" /\ row[f] \in RowSet
    BY <1>0, <2>0 DEF Remembers
  <2>3. /\ v.status # "conflicted" \/ v.kind = "save"
        /\ v.status = "gone" \/ v.phase = "conflict" \/ Active(f)
    BY <2>2 DEF Abandoned, AbandonPlan, Converted, Retired, Unborn, RowSet, Active
  <2>4. /\ plan = "park" => v.phase = "conflict"
        /\ plan = "delete" => v.status = "gone"
        /\ plan = "convert" => v = Converted(row[f], TRUE) /\ v.status = "pending"
                               /\ v.kind = "discard" /\ v.phase = "null"
        /\ plan \in {"park", "delete", "convert"}
    BY <2>2 DEF Abandoned, AbandonPlan, Converted, Retired, Unborn, RowSet
  <2> HIDE DEF v, plan
  <2>5. /\ row'[f] = v /\ \A q \in Rows : Active(q)' => q = f
    BY <1>1, <2>0, <2>1, <2>2, <2>3, FailedOne
  <2>6. session'.confirmed = session.confirmed
        /\ session'.end = IF plan = "delete" THEN "discarded" ELSE "open"
    BY <1>0, <1>2, <2>1, <2>4 DEF Refused, Closed, SessionSet
  <2>7. /\ plan = "park" => Settled \subseteq ConfirmedIds
        /\ plan = "delete" => Settled = {}
        /\ plan = "convert" =>
             OwnDiscard(f, Converted(row[f], TRUE), server, strays, session')
    BY <1>1, <2>0, <2>6, AbandonOwn DEF plan
  <2>8. Settled' = Settled
    BY <1>1 DEF Settled
  <2>9. CASE plan = "park"
    <3>1. session'.op = "none" /\ session'.saving = 0
      BY <1>0, <2>0, <2>1, <2>9 DEF Refused, SessionSet
    <3>2. NoneActive'
      BY <2>4, <2>5, <2>9 DEF NoneActive, Active
    <3>3. Expected' = ConfirmedIds
      BY <2>6, <3>1 DEF Expected, Answered, ConfirmedIds
    <3>4. OwnNone'
      BY <2>6, <2>7, <2>8, <2>9, <3>3 DEF OwnNone, open
    <3> QED
      BY <3>2, <3>4 DEF Ownership, NoneActive
  <2>10. CASE plan = "delete"
    <3>1. NoneActive'
      BY <2>4, <2>5, <2>10 DEF NoneActive, Active
    <3>2. OwnNone'
      BY <2>6, <2>7, <2>8, <2>10 DEF OwnNone, open, AtMostOne
    <3> QED
      BY <3>1, <3>2 DEF Ownership, NoneActive
  <2>11. CASE plan = "convert"
    <3> HIDE DEF f
    <3>1. \A q \in Rows : q = f => Active(q)' /\ RowOwns(q)'
      BY <1>1, <2>4, <2>5, <2>7, <2>11 DEF RowOwns, Active
    <3> QED
      BY <2>0, <2>5, <3>1 DEF Ownership, NoneActive
  <2> QED
    BY <2>4, <2>9, <2>10, <2>11
<1>12. CASE DiscardConfirmed
  <2>0. session.op = "discard" /\ session.saving = 0 /\ session.pend = 0 /\ session.failed = 0
    BY <1>2, <1>12 DEF DiscardConfirmed, Waiting
  <2>1. NoneActive
    BY <1>1, <2>0, NoRun
  <2>2. Settled \subseteq ConfirmedIds
    BY <1>22, <1>23, <2>0, <2>1
  <2>3. CASE session.confirmed = None
    <3>1. session' = Closed(session, "discarded") /\ row' = row
      BY <1>12, <2>0, <2>3 DEF DiscardConfirmed
    <3>2. session'.end = "discarded"
      BY <1>0, <3>1 DEF SessionSet, Closed
    <3>3. NoneActive' /\ Settled' = {}
      BY <1>1, <2>1, <2>2, <2>3, <3>1 DEF NoneActive, Active, Settled, ConfirmedIds
    <3>4. OwnNone'
      BY <3>2, <3>3 DEF OwnNone, AtMostOne, open
    <3> QED
      BY <3>3, <3>4 DEF Ownership, NoneActive
  <2>4. CASE session.confirmed # None
    <3>1. PICK r \in Fresh : /\ row' = [row EXCEPT ![r] = NewDiscard]
                             /\ session' = [session EXCEPT !.pend = r, !.op = "discarding"]
      BY <1>12, <2>0, <2>4 DEF DiscardConfirmed
    <3>2. /\ NewDiscard.status = "pending" /\ NewDiscard.kind = "discard"
          /\ NewDiscard.phase = "null" /\ NewDiscard.pending = ConfirmedIds
      BY DEF NewDiscard, Unborn
    <3>3. session'.end = "open"
      BY <1>0, <1>2, <3>1 DEF SessionSet
    <3> HIDE DEF NewDiscard
    <3> QED
      BY <1>1, <2>1, <2>2, <3>1, <3>2, <3>3, InsertOwn
  <2> QED
    BY <2>3, <2>4
<1>13. CASE DiscardAnswered
  <2>0. session.op = "discarding" /\ row' = row /\ session.pend # 0 /\ session.pend \in Rows
        /\ row[session.pend].kind = "discard"
        /\ session.failed = 0 /\ session.saving = 0
    BY <1>0, <1>2, <1>13 DEF DiscardAnswered, Waiting
  <2>1. row[session.pend].status = "gone" /\ session' = Closed(session, "discarded")
    BY <1>13, <2>0 DEF DiscardAnswered, Ruined
  <2>2. NoneActive
    <3> SUFFICES ASSUME NEW q \in Rows, Active(q) PROVE FALSE
      BY DEF NoneActive
    <3> QED
      BY <1>0, <1>1, <2>0, <2>1 DEF OneActive, Tracked, Active
  <2>3. session'.end = "discarded"
    BY <1>0, <2>1 DEF SessionSet, Closed
  <2>4. Settled' = {} /\ NoneActive'
    BY <1>1, <2>0, <2>2 DEF Ownership, OwnNone, Expected, Answered, Settled, NoneActive, Active
  <2>5. OwnNone'
    BY <2>3, <2>4 DEF OwnNone, AtMostOne, open
  <2> QED
    BY <2>4, <2>5 DEF Ownership, NoneActive
<1> QED
  BY <1>3, <1>4, <1>5, <1>6, <1>7, <1>8, <1>9, <1>10, <1>11, <1>12, <1>13
  DEF SessionStep, UserStep

\* Who owns what survives the worker.
LEMMA WorkerDiesOwn ==
  ASSUME Typed, OneActive, Ownership, WorkerDies
  PROVE  Ownership'
<1>1. /\ task' = [r \in Rows |-> "idle"] /\ server' = server /\ strays' = strays
      /\ \A r \in Rows : row'[r] = IF row[r].status = "in_flight"
                            THEN [row[r] EXCEPT !.status = "pending"] ELSE row[r]
      /\ session' = Closed(session, IF open THEN "lost" ELSE session.end)
  BY DEF WorkerDies
<1>2. /\ session'.confirmed = session.confirmed
      /\ session'.end = IF open THEN "lost" ELSE session.end
  BY <1>1 DEF Typed, SessionType, SessionSet, Closed
<1>3. ASSUME NEW r \in Rows
      PROVE  /\ row'[r].kind = row[r].kind /\ row'[r].phase = row[r].phase
             /\ row'[r].base = row[r].base /\ row'[r].pending = row[r].pending
             /\ row'[r].successor = row[r].successor /\ row'[r].probe = row[r].probe
             /\ row'[r].status = IF row[r].status = "in_flight" THEN "pending"
                                 ELSE row[r].status
  <2>1. row[r] \in RowSet
    BY DEF Typed, RowType
  <2> QED
    BY <1>1, <2>1 DEF RowSet
<1>4. (\A r \in Rows : Active(r)' = Active(r)) /\ NoneActive' = NoneActive
  BY <1>3 DEF Active, NoneActive
<1>5. ASSUME NEW r \in Rows, Active(r)' PROVE RowOwns(r)'
  <2>1. RowOwns(r)
    BY <1>4, <1>5 DEF Ownership
  <2>2. ASSUME row[r].kind = "save" PROVE OwnSave(r, row'[r], "idle", server, strays)
    BY <1>3, <2>1, <2>2, OwnSaveSame DEF RowOwns
  <2>3. ASSUME row[r].kind = "discard" PROVE OwnDiscard(r, row'[r], server, strays, session)
    BY <1>3, <2>1, <2>3, OwnDiscardSame DEF RowOwns
  <2>4. ASSUME row[r].kind = "discard" PROVE OwnDiscard(r, row'[r], server, strays, session')
    BY <1>2, <2>3, <2>4 DEF OwnDiscard, Leftover, Confirmed, open
  <2> QED
    BY <1>1, <1>3, <2>2, <2>4 DEF RowOwns
<1>6. OwnNone => OwnNone'
  <2>1. Settled' = Settled /\ ConfirmedIds' = ConfirmedIds
    BY <1>1, <1>2 DEF Settled, ConfirmedIds
  <2> QED
    BY <1>1, <1>2, <2>1, ExpectedOne DEF OwnNone, AtMostOne, open
<1> QED
  BY <1>4, <1>5, <1>6 DEF Ownership

\* A failed discard stays failed.
LEMMA RuinedStays ==
  ASSUME Typed, Shape, SessionShape, RuinedOpen, Ruined, [Next]_vars
  PROVE  Ruined'
<1>1. PICK k \in Rows : row[k].kind = "discard" /\ row[k].status = "conflicted"
  BY DEF Ruined
<1>2. CASE SessionStep \/ UserStep
  BY <1>2, RuinedSession
<1>3. ASSUME NEW r \in Rows, Attempt(r) PROVE Ruined'
  <2>1. row[r].status = "in_flight" /\ \E v, t : Changed(r, v, t)
    BY <1>3, AttemptMoves, AttemptFacts
  <2>2. row'[k] = row[k]
    BY <1>1, <2>1, SessionFacts DEF Changed
  <2> QED
    BY <1>1, <2>2 DEF Ruined
<1>4. ASSUME NEW r \in Rows, Claim(r) PROVE Ruined'
  <2>1. row[r].status = "pending" \/ row[r].status = "retry"
    BY <1>4 DEF Claim
  <2>2. \E v : row' = [row EXCEPT ![r] = v]
    BY <1>4 DEF Claim, Settle, Proceed
  <2>3. row'[k] = row[k]
    BY <1>1, <2>1, <2>2, SessionFacts
  <2> QED
    BY <1>1, <2>3 DEF Ruined
<1>5. CASE \/ \E r \in Rows : ServeCreate(r)
           \/ \E e \in Emails : ServeDestroy(e) \/ Remove(e)
           \/ UNCHANGED vars
  BY <1>5 DEF Ruined, ServeCreate, ServeDestroy, Remove, vars
<1>6. CASE WorkerDies
  <2>1. row'[k] = row[k]
    BY <1>1, <1>6 DEF WorkerDies
  <2> QED
    BY <1>1, <2>1 DEF Ruined
<1> QED
  BY <1>2, <1>3, <1>4, <1>5, <1>6 DEF Next

\* Every step keeps who owns what.
LEMMA OwnStep ==
  ASSUME Typed, Shape, SessionShape, OneInv, OwnInv, [Next]_vars
  PROVE  OwnInv'
<1>1. CASE Ruined
  BY <1>1, RuinedStays DEF OneInv, OwnInv
<1>2. CASE ~Ruined
  <2>1. OneActive /\ Ownership
    BY <1>2 DEF OneInv, OwnInv
  <2>2. Ownership'
    BY <1>2, <2>1, SessionOwn, AttemptOwn, ClaimOwn, WorldOwn, WorkerDiesOwn DEF Next
  <2> QED
    BY <2>2 DEF OwnInv
<1> QED
  BY <1>1, <1>2

(***************************************************************************)
(* What follows: the inductive invariant and its two consequences.         *)
(***************************************************************************)
\* A session that begins owns the draft it reopened, or nothing.
LEMMA OwnInit ==
  ASSUME Init
  PROVE  OwnInv
<1>1. NoneActive
  BY DEF Init, Unborn, NoneActive, Active
<1>2. /\ session.end = "open" /\ session.saving = 0 /\ session.op = "none"
      /\ session.confirmed = IF Reopened THEN Opened ELSE None
      /\ server = (IF Reopened THEN {Opened} ELSE {}) /\ strays = {}
  BY DEF Init
<1>3. Settled \subseteq Expected
  BY <1>2 DEF Settled, Expected, Answered, ConfirmedIds, Opened, None
<1> QED
  BY <1>1, <1>2, <1>3 DEF OwnInv, Ownership, OwnNone, open, NoneActive

\* The inductive invariant: types, the shape of rows and session, the one row that
\* runs, and who owns the Emails.
IInv == Typed /\ Shape /\ SessionShape /\ OneInv /\ OwnInv

\* The invariant holds in every state.
LEMMA Inductive == Spec => []IInv
<1>1. Init => IInv
  BY InitTyped, ShapeInit, OneInit, OwnInit DEF IInv
<1>2. IInv /\ [Next]_vars => IInv'
  <2> SUFFICES ASSUME IInv, [Next]_vars PROVE IInv'
    OBVIOUS
  <2>1. Typed /\ Shape /\ SessionShape /\ OneInv /\ OwnInv
    BY DEF IInv
  <2>2. Typed'
    BY <2>1, TypedStep
  <2> QED
    BY <2>1, <2>2, ShapeStep, OneStep, OwnStep DEF IInv
<1> QED
  BY <1>1, <1>2, PTL DEF Spec

\* A session that reported its draft discarded has left no copy of it, apart from
\* late ones: it waited for the one row that owned them all.
THEOREM DiscardComplete == Spec => []DiscardTakesAll
<1>1. IInv => DiscardTakesAll
  <2> SUFFICES ASSUME IInv, session.end = "discarded" PROVE server \subseteq strays
    BY DEF DiscardTakesAll
  <2>1. ~Ruined
    BY DEF IInv, OneInv, RuinedOpen
  <2>2. NoneActive /\ Ownership
    BY <2>1 DEF IInv, OneInv, OneActive, OwnInv
  <2> QED
    BY <2>2 DEF Ownership, OwnNone, Settled
<1> QED
  BY <1>1, Inductive, PTL

\* Sets of Emails are finite.
LEMMA EmailsFinite ==
  /\ IsFiniteSet(Emails)
  /\ \A S \in SUBSET Emails : IsFiniteSet(S) /\ Cardinality(S) \in Nat
<1>1. IsFiniteSet(Rows \cup {0})
  BY FS_AddElement, DraftAssumption
<1>2. IsFiniteSet(1..MaxCopies)
  BY FS_Interval, DraftAssumption
<1>3. IsFiniteSet(Emails)
  BY <1>1, <1>2, FS_Product DEF Emails
<1> QED
  BY <1>3, FS_Subset, FS_CardinalityType

\* A set of at most one Email counts at most one.
LEMMA AtMostOneCounts ==
  ASSUME NEW S \in SUBSET Emails, AtMostOne(S)
  PROVE  Cardinality(S) <= 1
<1>1. CASE S = {}
  BY <1>1, FS_EmptySet
<1>2. ASSUME NEW x \in S PROVE Cardinality(S) <= 1
  <2>1. S = {x}
    BY <1>2 DEF AtMostOne
  <2> QED
    BY <2>1, FS_Singleton
<1> QED
  BY <1>1, <1>2

\* When every row has retired there is one draft, and at most one more for every
\* create that was served after its caller gave up.
THEOREM OneCopy == Spec => []OneCopyAtRest
<1>1. IInv => OneCopyAtRest
  <2> SUFFICES ASSUME IInv, \A r \in Rows : row[r].status \in {"unborn", "gone"}
               PROVE  Cardinality(server) <= 1 + Cardinality(strays)
    BY DEF OneCopyAtRest
  <2>1. NoneActive /\ ~Ruined
    BY DEF NoneActive, Active, Ruined
  <2>2. OwnNone /\ Typed
    BY <2>1 DEF IInv, OwnInv, Ownership
  <2>3. server \in SUBSET Emails /\ strays \in SUBSET Emails
    BY <2>2 DEF Typed, ServerType
  <2> DEFINE late2 == server \cap strays
  <2>4. /\ IsFiniteSet(server) /\ IsFiniteSet(strays) /\ IsFiniteSet(late2)
        /\ IsFiniteSet(Settled) /\ Settled \in SUBSET Emails
        /\ Cardinality(server) \in Nat /\ Cardinality(strays) \in Nat
        /\ Cardinality(late2) \in Nat /\ Cardinality(Settled) \in Nat
        /\ Cardinality(late2) <= Cardinality(strays)
    <3>1. late2 \in SUBSET Emails /\ Settled \in SUBSET Emails /\ late2 \in SUBSET strays
      BY <2>3 DEF Settled
    <3> QED
      BY <2>3, <3>1, EmailsFinite, FS_Subset
  <2>5. Cardinality(server) = Cardinality(Settled) + Cardinality(late2)
    <3>1. Cardinality(server \ strays) = Cardinality(server) - Cardinality(late2)
      BY <2>4, FS_Difference
    <3> QED
      BY <2>4, <3>1 DEF Settled
  <2>6. CASE AtMostOne(Settled)
    <3>1. Cardinality(Settled) <= 1
      BY <2>4, <2>6, AtMostOneCounts
    <3> QED
      BY <2>4, <2>5, <3>1
  <2>7. CASE AtMostOne(Settled \ ConfirmedIds) /\ \E x \in strays : x \notin server
    <3>1. PICK x \in strays : x \notin server
      BY <2>7
    <3>2. Cardinality(late2) <= Cardinality(strays) - 1
      <4>1. late2 \in SUBSET (strays \ {x})
        BY <3>1
      <4>2. IsFiniteSet(strays \ {x}) /\ Cardinality(strays \ {x}) = Cardinality(strays) - 1
        BY <2>4, <3>1, FS_RemoveElement
      <4> QED
        BY <4>1, <4>2, FS_Subset
    <3> DEFINE A == Settled \ ConfirmedIds
               B == Settled \cap ConfirmedIds
    <3>3. A \in SUBSET Emails /\ B \in SUBSET Emails /\ AtMostOne(A) /\ AtMostOne(B)
      BY <2>2, <2>4, <2>7, ConfirmedFacts DEF AtMostOne
    <3>4. /\ IsFiniteSet(A) /\ Cardinality(A) \in Nat
          /\ IsFiniteSet(B) /\ Cardinality(B) \in Nat
      BY <3>3, EmailsFinite
    <3>5. Cardinality(A) <= 1 /\ Cardinality(B) <= 1
      BY <3>3, AtMostOneCounts
    <3>6. Cardinality(A) = Cardinality(Settled) - Cardinality(B)
      BY <2>4, FS_Difference
    <3> HIDE DEF late2, A, B
    <3>7. Cardinality(Settled) <= 2
      BY <2>4, <3>4, <3>5, <3>6
    <3> QED
      BY <2>4, <2>5, <3>2, <3>7
  <2>8. \/ AtMostOne(Settled)
        \/ AtMostOne(Settled \ ConfirmedIds) /\ \E x \in strays : x \notin server
    <3>1. open => AtMostOne(Settled)
      BY <2>2, ExpectedOne DEF OwnNone, AtMostOne
    <3> QED
      BY <2>2, <3>1 DEF OwnNone
  <2> QED
    BY <2>6, <2>7, <2>8
<1> QED
  BY <1>1, Inductive, PTL

(***************************************************************************)
(* What a save confirmed stays, as long as nobody takes a draft back.      *)
(***************************************************************************)
\* Nobody took a draft back, and no other client touched Drafts.
Undisturbed == /\ removals = 0 /\ \A r \in Rows : row[r].kind = "save"
               /\ session.end \notin {"unsaved", "discarded"}

\* The Emails no destroy is under way for, and the copy the next save replaces.
Steady == server \ doomed
Head == IF Answered THEN row[session.saving].successor ELSE session.confirmed

NoConflict == \A r \in Rows : row[r].phase # "conflict"
OnlyReplaced == \A e \in doomed : Spent(Owner(e)) \/ row[Owner(e)].phase \in Removing

\* Before its cleanup a save leaves its base alone; once made its copy is there.
RowKeeps(r) ==
  /\ row[r].phase \in Made => row[r].successor \in Steady
  /\ row[r].phase \notin Removing => row[r].base \subseteq Steady
  /\ row[r].text >= TextOf(session.confirmed)

HeadKept == open /\ NoneActive => Head = None \/ Head \in Steady
AnswerKept == open /\ Answered => row[session.saving].text >= TextOf(session.confirmed)

\* An Email that no row removes and that holds the confirmed text or a newer one.
Covers(e) ==
  /\ \A r \in Rows : e \in row[r].pending => row[r].phase \notin Removing
  /\ TextOf(e) >= TextOf(session.confirmed)

Kept ==
  /\ NoConflict /\ OnlyReplaced /\ HeadKept /\ AnswerKept
  /\ \A r \in Rows : Active(r) => RowKeeps(r)
  /\ session.confirmed = None \/ \E e \in Steady : Covers(e)

KeptInv == Undisturbed => Kept

\* A row that does not run has nothing to remove.
LEMMA IdleRow ==
  ASSUME Shape, NoConflict, NEW q \in Rows, ~Active(q)
  PROVE  row[q].pending = {} /\ row[q].phase = "null"
BY DEF Shape, RowShape, NoConflict, Active, Unborn

\* The texts are numbers, and the confirmed copy is of a row that retired.
LEMMA TextFacts ==
  ASSUME Typed, SessionShape
  PROVE  /\ \A e \in Emails \cup {None} : Owner(e) \in Rows \cup {0} /\ TextOf(e) \in Nat
         /\ session.confirmed \in Emails \cup {None} /\ Spent(Owner(session.confirmed))
<1>1. \A r \in Rows : row[r].text \in Nat
  BY Names DEF Typed, RowType, RowSet
<1>2. \A e \in Emails \cup {None} : Owner(e) \in Rows \cup {0}
  BY DEF Emails, None, Owner
<1>3. session.confirmed \in Emails \cup {None}
  BY DEF Typed, SessionType, SessionSet
<1>4. Spent(Owner(session.confirmed))
  BY DEF SessionShape, Remembers, Spent, Owner, None
<1> QED
  BY <1>1, <1>2, <1>3, <1>4 DEF TextOf, Owner

\* An undisturbed session has one row that runs at most.
LEMMA UndisturbedOne ==
  ASSUME OneInv, Undisturbed
  PROVE  ~Ruined /\ OneActive
BY DEF OneInv, Undisturbed, Ruined

\* The row that runs takes a new value.
LEMMA MoveKept ==
  ASSUME Typed, Shape, SessionShape, OneActive, Kept, Shape', Typed',
         NEW r \in Rows, NEW v, NEW t, Changed(r, v, t), session' = session,
         Active(r), row[r].status # "conflicted", row[r].kind = "save",
         v.kind = "save", v.text = row[r].text, v.phase # "conflict", v.status # "unborn",
         v.status = "gone" => v.successor \in Steady',
         v.status # "gone" => v.base = row[r].base,
         v.status # "gone" /\ v.phase \in Made => v.successor \in Steady',
         v.status # "gone" /\ v.phase \notin Removing =>
           row[r].phase \notin Removing /\ Steady \subseteq Steady',
         doomed' \subseteq doomed \/ (/\ doomed' \subseteq doomed \cup row[r].pending
                                      /\ row[r].phase \in Removing)
  PROVE  Kept'
<1>1. /\ row'[r] = v /\ \A q \in Rows \ {r} : row'[q] = row[q]
      /\ session.failed \in Rows \cup {0} /\ session.saving \in Rows \cup {0} /\ 0 \notin Rows
      /\ Remembers(session)
  BY SessionFacts DEF Changed, SessionShape
<1>2. \A e \in Emails \cup {None} : TextOf(e)' = TextOf(e)
  BY <1>1, TextFacts DEF TextOf, Owner
<1>3. TextOf(session.confirmed)' = TextOf(session.confirmed)
  BY <1>2, TextFacts
<1>4. row[r].status # "gone" /\ row[r].status # "unborn"
  BY DEF Active
<1>5. \A k : Spent(k) => Spent(k)'
  BY <1>1, <1>4 DEF Spent
<1>6. ASSUME NEW q \in Rows, q # r
      PROVE  ~Active(q) /\ ~Active(q)' /\ row'[q].pending = {} /\ row'[q].phase = "null"
  BY <1>1, <1>6, IdleRow DEF OneActive, Active, Kept
<1>7. v.text >= TextOf(session.confirmed)
  BY DEF Kept, RowKeeps
<1>8. /\ RowShape(r, v, task'[r]) /\ v.pending \in SUBSET v.pending
      /\ v.successor # None => Owner(v.successor) = r
  BY <1>1 DEF Shape, RowShape, Owner
<1>9. NoConflict'
  BY <1>1 DEF Kept, NoConflict
<1>10. OnlyReplaced'
  <2> SUFFICES ASSUME NEW e \in doomed'
               PROVE  Spent(Owner(e))' \/ row'[Owner(e)].phase \in Removing
    BY DEF OnlyReplaced, Owner
  <2>1. row[r].phase \in Removing => Spent(r)' \/ row'[r].phase \in Removing
    BY <1>1 DEF Spent
  <2>2. CASE e \in doomed
    <3>1. Spent(Owner(e)) \/ row[Owner(e)].phase \in Removing
      BY <2>2 DEF Kept, OnlyReplaced
    <3>2. Owner(e) \in Rows \cup {0}
      BY <2>2, TextFacts DEF Typed, ServerType
    <3>3. CASE Owner(e) = r
      BY <1>5, <2>1, <3>1, <3>3
    <3>4. CASE Owner(e) # r
      BY <1>1, <1>5, <3>1, <3>2, <3>4 DEF Spent
    <3> QED
      BY <3>3, <3>4
  <2>3. CASE e \notin doomed
    <3>1. e \in row[r].pending /\ row[r].phase \in Removing
      BY <2>3
    <3>2. e \in row[r].base \/ Owner(e) = r
      BY <3>1, SessionFacts DEF RowShape, SaveShape
    <3>3. Spent(Owner(e)) \/ Owner(e) = r
      BY <3>2, SessionFacts
    <3> QED
      BY <1>5, <2>1, <3>1, <3>3
  <2> QED
    BY <2>2, <2>3
<1>11. open => /\ session.saving = r /\ session.failed = r
  BY <1>1 DEF OneActive, Tracked, Remembers, Waiting
<1>12. HeadKept'
  <2> SUFFICES ASSUME open', NoneActive' PROVE Head' = None \/ Head' \in Steady'
    BY DEF HeadKept
  <2>1. v.status = "gone"
    BY <1>1 DEF NoneActive, Active
  <2>2. Head' = v.successor
    BY <1>1, <1>11, <2>1 DEF Head, Answered, open
  <2> QED
    BY <2>1, <2>2
<1>13. AnswerKept'
  BY <1>1, <1>3, <1>7, <1>11 DEF AnswerKept, Answered, open
<1>14. ASSUME NEW q \in Rows, Active(q)' PROVE RowKeeps(q)'
  <2>1. q = r /\ v.status # "gone"
    BY <1>1, <1>6, <1>14 DEF Active
  <2>2. v.phase \notin Removing => v.base \subseteq Steady'
    BY <2>1 DEF Kept, RowKeeps
  <2> QED
    BY <1>1, <1>3, <1>7, <2>1, <2>2 DEF RowKeeps
<1>15. session'.confirmed = None \/ \E e \in Steady' : Covers(e)'
  <2> SUFFICES ASSUME session.confirmed # None PROVE \E e \in Steady' : Covers(e)'
    OBVIOUS
  <2>1. CASE v.status = "gone" \/ v.phase \in Removing
    <3>1. v.successor \in Steady'
      BY <2>1 DEF Made, Removing
    <3>2. v.successor # None /\ v.successor \notin v.pending
      BY <1>8, <3>1, ConfirmedFacts DEF RowShape, SaveShape, Steady, Typed, ServerType
    <3>3. TextOf(v.successor)' = v.text
      BY <1>1, <1>8, <3>2 DEF TextOf, Owner
    <3>4. Covers(v.successor)'
      BY <1>1, <1>3, <1>6, <1>7, <3>2, <3>3 DEF Covers
    <3> QED
      BY <3>1, <3>4
  <2>2. CASE v.status # "gone" /\ v.phase \notin Removing
    <3>1. PICK e \in Steady : Covers(e)
      BY DEF Kept
    <3>2. e \in Emails /\ e \in Steady'
      BY <2>2, <3>1 DEF Steady, Typed, ServerType
    <3>3. Covers(e)'
      BY <1>1, <1>2, <1>3, <1>6, <2>2, <3>1, <3>2 DEF Covers
    <3> QED
      BY <3>2, <3>3
  <2> QED
    BY <2>1, <2>2
<1> QED
  BY <1>9, <1>10, <1>12, <1>13, <1>14, <1>15 DEF Kept

\* The ends of a request keep what a save confirmed.
LEMMA EndsKept ==
  ASSUME Typed, Shape, SessionShape, OneActive, Kept, Shape', Typed',
         NEW r \in Rows, NEW w \in RowSet, session' = session,
         Active(r), row[r].status = "in_flight", row[r].kind = "save",
         w.kind = "save", w.status = "in_flight", w.text = row[r].text,
         w.base = row[r].base, w.phase # "conflict",
         w.phase \in Made => w.successor \in Steady',
         w.phase \notin Removing => row[r].phase \notin Removing /\ Steady \subseteq Steady',
         doomed' \subseteq doomed \/ (/\ doomed' \subseteq doomed \cup row[r].pending
                                      /\ row[r].phase \in Removing),
         Fail(r, w) \/ \E q : Proceed(r, w, q)
  PROVE  Kept'
<1>1. CASE Fail(r, w)
  <2> DEFINE v == [w EXCEPT !.status = "retry"]
  <2>1. /\ v.status = "retry" /\ v.kind = w.kind /\ v.phase = w.phase /\ v.base = w.base
        /\ v.successor = w.successor /\ v.text = w.text
    BY DEF RowSet
  <2>2. /\ Ended(w).status = "conflicted" /\ Ended(w).kind = w.kind
        /\ Ended(w).phase = w.phase /\ Ended(w).base = w.base
        /\ Ended(w).successor = w.successor /\ Ended(w).text = w.text
    BY DEF RowSet, Ended
  <2>3. Changed(r, v, "idle") \/ Changed(r, Ended(w), "idle")
    BY <1>1, FailEnds
  <2> HIDE DEF v, Ended
  <2>4. CASE Changed(r, v, "idle")
    BY <2>1, <2>4, MoveKept
  <2>5. CASE Changed(r, Ended(w), "idle")
    BY <2>2, <2>5, MoveKept
  <2> QED
    BY <2>3, <2>4, <2>5
<1>2. ASSUME NEW q, Proceed(r, w, q) PROVE Kept'
  <2>1. CASE Finished(w) /\ Changed(r, Retired(w), "idle")
    <3>1. /\ Retired(w).status = "gone" /\ Retired(w).kind = "save"
          /\ Retired(w).text = w.text /\ Retired(w).phase = "null"
          /\ Retired(w).successor = w.successor
      BY DEF Retired, Unborn
    <3>2. w.phase \in Made
      BY <2>1 DEF Finished, Made
    <3> HIDE DEF Retired
    <3> QED
      BY <2>1, <3>1, <3>2, MoveKept
  <2>2. CASE Changed(r, w, q)
    BY <2>2, MoveKept
  <2> QED
    BY <1>2, <2>1, <2>2, ProceedEnds
<1> QED
  BY <1>1, <1>2

\* What a request does keeps what a save confirmed.
LEMMA AttemptKept ==
  ASSUME Typed, Shape, SessionShape, OneActive, Undisturbed, Kept, Shape', Typed',
         NEW r \in Rows, Attempt(r)
  PROVE  Kept'
<1>1. task[r] # "idle" /\ session' = session
  BY AttemptMoves
<1>2. /\ row[r] \in RowSet /\ row[r].status = "in_flight" /\ row[r].phase # "conflict"
      /\ RowShape(r, row[r], task[r])
      /\ row[r].kind = "save" /\ row[r].phase \in Phases
      /\ row[r].pending \in SUBSET Emails /\ row[r].base \in SUBSET Emails
  BY <1>1, AttemptFacts DEF Undisturbed
<1>3. SaveShape(r, row[r], task[r])
  BY <1>2 DEF RowShape
<1>4. Active(r) /\ RowKeeps(r)
  BY <1>2 DEF Active, Kept
<1>5. row[r].phase = "queued" => \A e \in doomed : Owner(e) # r
  BY <1>2, Names DEF Kept, OnlyReplaced, Spent, Removing
<1> DEFINE Like(w) == /\ w \in RowSet /\ w.kind = "save" /\ w.status = "in_flight"
                      /\ w.text = row[r].text /\ w.base = row[r].base
<1>6. ASSUME NEW w, Like(w), w.phase # "conflict",
             w.phase \in Made => w.successor \in Steady',
             w.phase \notin Removing =>
               row[r].phase \notin Removing /\ Steady \subseteq Steady',
             doomed' \subseteq doomed \/ (/\ doomed' \subseteq doomed \cup row[r].pending
                                          /\ row[r].phase \in Removing),
             Fail(r, w) \/ \E q : Proceed(r, w, q)
      PROVE  Kept'
  BY <1>1, <1>2, <1>4, <1>6, EndsKept
<1>7. Like(row[r])
  BY <1>2
<1>8. ASSUME NEW p \in Phases, NEW e \in Emails, NEW d \in SUBSET Emails
      PROVE  /\ Like([row[r] EXCEPT !.phase = p])
             /\ Like([row[r] EXCEPT !.phase = p, !.pending = d])
             /\ Like([row[r] EXCEPT !.pending = d])
             /\ Like([row[r] EXCEPT !.phase = p, !.successor = e])
             /\ Like([row[r] EXCEPT !.phase = p, !.successor = e, !.pending = d])
  BY <1>2 DEF RowSet
<1> HIDE DEF Like
<1>9. /\ "queued" \in Phases /\ "created" \in Phases /\ Removing \subseteq Phases
      /\ "queued" \notin Made /\ "queued" \notin Removing /\ "created" \notin Removing
  BY DEF Phases, Removing, Made
<1>10. CASE Bases(r)
  <2>1. task[r] = "bases" /\ server' = server /\ doomed' = doomed
    BY <1>10 DEF Bases, serverVars
  <2>2. row[r].phase \notin Removing
    BY <1>3, <2>1 DEF SaveShape, Removing
  <2>3. row[r].base \subseteq server
    BY <1>4, <2>2 DEF RowKeeps, Steady
  <2> DEFINE w == [row[r] EXCEPT !.phase = "queued", !.pending = row[r].base]
  <2>4. Proceed(r, w, "create")
    BY <1>10, <2>3 DEF Bases
  <2>5. Like(w) /\ w.phase = "queued"
    <3>1. w.phase = "queued"
      BY <1>2 DEF RowSet
    <3> QED
      BY <1>2, <1>8, <1>9, <3>1, Names
  <2> HIDE DEF w
  <2>6. Steady \subseteq Steady'
    BY <2>1 DEF Steady
  <2> QED
    BY <1>6, <1>9, <2>1, <2>2, <2>4, <2>5, <2>6
<1>11. CASE ProbeSave(r)
  <2>1. task[r] = "probe" /\ server' = server /\ doomed' = doomed /\ Steady \subseteq Steady'
    BY <1>11 DEF ProbeSave, serverVars, Steady
  <2>2. row[r].phase = "queued"
    BY <1>3, <2>1 DEF SaveShape
  <2>3. CASE Copies(r) = {}
    <3>1. Proceed(r, row[r], "bases")
      BY <1>11, <2>3 DEF ProbeSave
    <3> QED
      BY <1>2, <1>6, <1>7, <1>9, <2>1, <2>2, <3>1
  <2>4. CASE Copies(r) # {}
    <3>1. PICK e \in Copies(r) :
            Proceed(r, [row[r] EXCEPT !.phase = "created", !.successor = e,
                          !.pending = Predecessors(row[r], r, e)], "fetch")
      BY <1>11, <2>4 DEF ProbeSave
    <3> DEFINE w == [row[r] EXCEPT !.phase = "created", !.successor = e,
                          !.pending = Predecessors(row[r], r, e)]
    <3>2. e \in Emails /\ Predecessors(row[r], r, e) \in SUBSET Emails
      BY <1>2 DEF Copies, Predecessors, Typed, ServerType
    <3>3. Like(w) /\ w.phase = "created" /\ w.successor = e
      <4>1. w.phase = "created" /\ w.successor = e
        BY <1>2 DEF RowSet
      <4> QED
        BY <1>8, <1>9, <3>2, <4>1
    <3>4. e \in Steady'
      BY <1>5, <2>1, <2>2 DEF Copies, Owner, Steady
    <3> HIDE DEF w
    <3>5. Proceed(r, w, "fetch")
      BY <3>1 DEF w
    <3> QED
      BY <1>6, <1>9, <2>1, <2>2, <3>3, <3>4, <3>5
  <2> QED
    BY <2>3, <2>4
<1>12. CASE ProbeDiscard(r)
  BY <1>2, <1>12 DEF ProbeDiscard
<1>13. CASE Create(r)
  <2>1. task[r] = "create" /\ doomed' = doomed
    BY <1>13 DEF Create
  <2>2. row[r].phase = "queued"
    BY <1>3, <2>1 DEF SaveShape
  <2>3. PICK e \in NextCopy(r) :
          /\ server' = server \cup {e}
          /\ \/ Proceed(r, [row[r] EXCEPT !.phase = "created", !.successor = e], "fetch")
             \/ Fail(r, row[r])
    BY <1>13 DEF Create
  <2>4. e \in Emails /\ e \in Steady' /\ Steady \subseteq Steady'
    BY <2>1, <2>3 DEF NextCopy, FreshCopy, Steady
  <2> DEFINE w == [row[r] EXCEPT !.phase = "created", !.successor = e]
  <2>5. Like(w) /\ w.phase = "created" /\ w.successor = e
    <3>1. w.phase = "created" /\ w.successor = e
      BY <1>2 DEF RowSet
    <3> QED
      BY <1>8, <1>9, <2>4, <3>1
  <2> HIDE DEF w
  <2>6. CASE Proceed(r, w, "fetch")
    BY <1>6, <1>9, <2>1, <2>2, <2>4, <2>5, <2>6
  <2>7. CASE Fail(r, row[r])
    BY <1>2, <1>6, <1>7, <1>9, <2>1, <2>2, <2>4, <2>7
  <2> QED
    BY <2>3, <2>6, <2>7 DEF w
<1>14. CASE CreateLate(r) \/ Unanswered(r)
  <2>1. Fail(r, row[r]) /\ server' = server /\ doomed' = doomed
    BY <1>14 DEF CreateLate, Unanswered, serverVars
  <2>2. Steady' = Steady
    BY <2>1 DEF Steady
  <2>3. row[r].phase \in Made => row[r].successor \in Steady'
    BY <1>4, <2>2 DEF RowKeeps
  <2> QED
    BY <1>2, <1>6, <1>7, <2>1, <2>2, <2>3
<1>15. CASE Fetch(r)
  <2>1. task[r] = "fetch" /\ server' = server /\ doomed' = doomed
    BY <1>15 DEF Fetch, serverVars
  <2>2. row[r].phase = "created"
    BY <1>3, <2>1 DEF SaveShape
  <2>3. row[r].successor \in Steady' /\ Steady' = Steady
    BY <1>4, <2>1, <2>2 DEF RowKeeps, Steady, Made
  <2>4. \/ \E p \in Removing : Proceed(r, [row[r] EXCEPT !.phase = p], "destroy")
        \/ Fail(r, row[r])
    BY <1>15 DEF Fetch, Removing
  <2>5. ASSUME NEW p \in Removing, Proceed(r, [row[r] EXCEPT !.phase = p], "destroy")
        PROVE  Kept'
    <3> DEFINE w == [row[r] EXCEPT !.phase = p]
    <3>1. /\ Like(w) /\ w.phase = p /\ w.successor = row[r].successor
      <4>1. w.phase = p /\ w.successor = row[r].successor
        BY <1>2 DEF RowSet
      <4> QED
        BY <1>8, <1>9, <4>1, Names
    <3> HIDE DEF w
    <3>2. Proceed(r, w, "destroy") /\ w.phase # "conflict"
      BY <2>5, <3>1 DEF w, Removing
    <3> QED
      BY <1>6, <2>1, <2>3, <3>1, <3>2
  <2>6. CASE Fail(r, row[r])
    BY <1>2, <1>6, <1>7, <1>9, <2>1, <2>2, <2>3, <2>6
  <2> QED
    BY <2>4, <2>5, <2>6
<1>16. CASE Destroy(r)
  <2>1. task[r] = "destroy" /\ doomed' = doomed
    BY <1>16 DEF Destroy
  <2>2. PICK gone \in SUBSET (row[r].pending \cap server) :
          /\ server' = server \ gone
          /\ LET left == row[r].pending \cap (server \ gone)
                 w == [row[r] EXCEPT !.pending = left]
             IN \/ left = {} /\ Proceed(r, w, "destroy")
                \/ left # {} /\ Fail(r, w)
                \/ Fail(r, row[r])
    BY <1>16 DEF Destroy
  <2> DEFINE left == row[r].pending \cap (server \ gone)
             w == [row[r] EXCEPT !.pending = left]
  <2>3. Proceed(r, w, "destroy") \/ Fail(r, w) \/ Fail(r, row[r])
    BY <2>2
  <2>4. row[r].phase \in Removing /\ row[r].successor \notin row[r].pending
    BY <1>3, <2>1 DEF SaveShape
  <2>5. row[r].successor \in Steady'
    BY <1>4, <2>1, <2>2, <2>4 DEF RowKeeps, Steady, Made, Removing
  <2>6. Like(w) /\ w.phase = row[r].phase /\ w.successor = row[r].successor
    <3>1. w.phase = row[r].phase /\ w.successor = row[r].successor
      BY <1>2 DEF RowSet
    <3>2. left \in SUBSET Emails
      BY <1>2
    <3> QED
      BY <1>2, <1>8, <3>1, <3>2, Names
  <2> HIDE DEF w, left
  <2> QED
    BY <1>2, <1>6, <1>7, <2>1, <2>3, <2>4, <2>5, <2>6
<1>17. CASE DestroyLate(r)
  <2>1. /\ task[r] = "destroy" /\ server' = server /\ Fail(r, row[r])
        /\ doomed' = doomed \cup (row[r].pending \cap server)
    BY <1>17 DEF DestroyLate
  <2>2. row[r].phase \in Removing /\ row[r].successor \notin row[r].pending
    BY <1>3, <2>1 DEF SaveShape
  <2>3. row[r].successor \in Steady'
    BY <1>4, <2>1, <2>2 DEF RowKeeps, Steady, Made, Removing
  <2>4. doomed' \subseteq doomed \cup row[r].pending
    BY <2>1
  <2> QED
    BY <1>2, <1>6, <1>7, <2>1, <2>2, <2>3, <2>4
<1> QED
  BY <1>10, <1>11, <1>12, <1>13, <1>14, <1>15, <1>16, <1>17 DEF Attempt

\* A row that is claimed.
LEMMA ClaimKept ==
  ASSUME Typed, Shape, SessionShape, OneActive, Undisturbed, Kept, Shape', Typed',
         NEW r \in Rows, Claim(r)
  PROVE  Kept'
<1> DEFINE w == [row[r] EXCEPT !.status = "in_flight", !.attempts = @ + 1]
           q == FirstRequest(w)
<1>1. row[r] \in RowSet /\ row[r].kind = "save" /\ row[r].phase # "conflict"
  BY SessionFacts DEF Undisturbed, Kept, NoConflict
<1>2. /\ row[r].status = "pending" \/ row[r].status = "retry"
      /\ session' = session /\ server' = server /\ doomed' = doomed
      /\ w.phase # "conflict" => Proceed(r, w, q)
  BY DEF Claim, serverVars
<1>3. /\ w.kind = "save" /\ w.base = row[r].base /\ w.phase = row[r].phase
      /\ w.successor = row[r].successor /\ w.text = row[r].text /\ w.status = "in_flight"
      /\ Retired(w).status = "gone" /\ Retired(w).kind = "save"
      /\ Retired(w).text = row[r].text /\ Retired(w).phase = "null"
      /\ Retired(w).successor = row[r].successor
  BY <1>1 DEF RowSet, Retired, Unborn
<1>4. Active(r) /\ RowKeeps(r)
  BY <1>1, <1>2 DEF Active, Kept
<1>5. Steady' = Steady
  BY <1>2 DEF Steady
<1>6. row[r].phase \in Made => row[r].successor \in Steady'
  BY <1>4, <1>5 DEF RowKeeps
<1> HIDE DEF w, q
<1>7. CASE Finished(w) /\ Changed(r, Retired(w), "idle")
  <2>1. row[r].phase \in Made
    BY <1>3, <1>7 DEF Finished, Made
  <2> HIDE DEF Retired
  <2> QED
    BY <1>1, <1>2, <1>3, <1>4, <1>6, <1>7, <2>1, MoveKept
<1>8. CASE Changed(r, w, q)
  BY <1>1, <1>2, <1>3, <1>4, <1>5, <1>6, <1>8, MoveKept
<1> QED
  BY <1>1, <1>2, <1>3, <1>7, <1>8, ProceedEnds

\* Late service: what is destroyed was given up before, what is created adds.
LEMMA WorldKept ==
  ASSUME Typed, SessionShape, Kept, Undisturbed',
         \/ \E r \in Rows : ServeCreate(r)
         \/ \E e \in Emails : ServeDestroy(e) \/ Remove(e)
         \/ UNCHANGED vars
  PROVE  Kept'
<1>1. UNCHANGED <<row, task, session>>
  BY DEF ServeCreate, ServeDestroy, Remove, vars
<1>2. Steady \subseteq Steady' /\ doomed' \subseteq doomed
  <2>1. ASSUME NEW r \in Rows, ServeCreate(r) PROVE Steady \subseteq Steady' /\ doomed' = doomed
    BY <2>1 DEF ServeCreate, Steady
  <2>2. ASSUME NEW e \in Emails, ServeDestroy(e)
        PROVE  Steady \subseteq Steady' /\ doomed' \subseteq doomed
    BY <2>2 DEF ServeDestroy, Steady
  <2>3. ASSUME NEW e \in Emails, Remove(e) PROVE FALSE
    <3>1. removals' = removals + 1 /\ removals \in Nat
      BY <2>3, Names DEF Remove, Typed, CountType
    <3> QED
      BY <3>1 DEF Undisturbed
  <2>4. UNCHANGED vars => Steady \subseteq Steady' /\ doomed' = doomed
    BY DEF vars, serverVars, Steady
  <2> QED
    BY <2>1, <2>2, <2>3, <2>4
<1>3. /\ \A r \in Rows : Active(r)' = Active(r)
      /\ NoneActive' = NoneActive /\ Head' = Head /\ Answered' = Answered
      /\ TextOf(session.confirmed)' = TextOf(session.confirmed) /\ open' = open
  BY <1>1 DEF Active, NoneActive, Head, Answered, TextOf, open
<1>4. NoConflict' /\ OnlyReplaced'
  BY <1>1, <1>2 DEF Kept, NoConflict, OnlyReplaced, Spent, Owner
<1>5. HeadKept' /\ AnswerKept'
  BY <1>1, <1>2, <1>3 DEF Kept, HeadKept, AnswerKept
<1>6. \A r \in Rows : Active(r)' => RowKeeps(r)'
  BY <1>1, <1>2, <1>3 DEF Kept, RowKeeps
<1>7. session'.confirmed = None \/ \E e \in Steady' : Covers(e)'
  BY <1>1, <1>2, <1>3 DEF Kept, Covers, TextOf
<1> QED
  BY <1>4, <1>5, <1>6, <1>7 DEF Kept

\* What the worker had asked to destroy may be destroyed later.
LEMMA WorkerDiesKept ==
  ASSUME Typed, Shape, SessionShape, OneActive, Undisturbed, Kept, WorkerDies
  PROVE  Kept'
<1>1. /\ server' = server
      /\ \A r \in Rows : row'[r] = IF row[r].status = "in_flight"
                            THEN [row[r] EXCEPT !.status = "pending"] ELSE row[r]
      /\ session' = Closed(session, IF open THEN "lost" ELSE session.end)
      /\ \E w \in SUBSET {r \in Rows : task[r] = "destroy"} :
           doomed' = doomed \cup (server \cap UNION {row[r].pending : r \in w})
  BY DEF WorkerDies
<1>2. /\ session'.confirmed = session.confirmed /\ session'.end # "open"
  BY <1>1 DEF Typed, SessionType, SessionSet, Closed, open
<1>3. ASSUME NEW r \in Rows
      PROVE  /\ row'[r].kind = row[r].kind /\ row'[r].phase = row[r].phase
             /\ row'[r].base = row[r].base /\ row'[r].pending = row[r].pending
             /\ row'[r].successor = row[r].successor /\ row'[r].text = row[r].text
             /\ row'[r].status = IF row[r].status = "in_flight" THEN "pending"
                                 ELSE row[r].status
  <2>1. row[r] \in RowSet
    BY DEF Typed, RowType
  <2> QED
    BY <1>1, <2>1 DEF RowSet
<1>4. \A r \in Rows : Active(r)' = Active(r)
  BY <1>3 DEF Active
<1>5. \A e \in Emails \cup {None} : TextOf(e)' = TextOf(e)
  BY <1>3, TextFacts DEF TextOf, Owner
<1>6. TextOf(session.confirmed)' = TextOf(session.confirmed)
  BY <1>2, <1>5, TextFacts
<1>7. \A k : Spent(k)' = Spent(k)
  BY <1>3 DEF Spent
<1>8. ASSUME NEW e \in doomed', e \notin doomed
      PROVE  \E r \in Rows : /\ e \in row[r].pending /\ row[r].phase \in Removing
                             /\ Active(r)
  <2>1. PICK r \in Rows : task[r] = "destroy" /\ e \in row[r].pending
    BY <1>1, <1>8
  <2>2. RowShape(r, row[r], "destroy") /\ row[r].kind = "save"
    BY <2>1, SessionFacts DEF Undisturbed
  <2>3. row[r].status = "in_flight" /\ row[r].phase # "conflict"
    BY <2>2 DEF RowShape
  <2>4. row[r].phase \in Removing
    BY <2>2 DEF RowShape, SaveShape
  <2>5. Active(r)
    BY <2>3 DEF Active
  <2> QED
    BY <2>1, <2>4, <2>5
<1>9. NoConflict'
  BY <1>3 DEF Kept, NoConflict
<1>10. ASSUME NEW e \in doomed' PROVE Spent(Owner(e))' \/ row'[Owner(e)].phase \in Removing
  <2>1. CASE e \in doomed
    <3>1. Spent(Owner(e)) \/ row[Owner(e)].phase \in Removing
      BY <2>1 DEF Kept, OnlyReplaced
    <3>2. Owner(e) \in Rows \cup {0}
      BY <2>1, TextFacts DEF Typed, ServerType
    <3> QED
      BY <1>3, <1>7, <3>1, <3>2 DEF Spent
  <2>2. CASE e \notin doomed
    <3>1. PICK r \in Rows : e \in row[r].pending /\ row[r].phase \in Removing
      BY <1>8, <2>2
    <3>2. e \in row[r].base \/ Owner(e) = r
      BY <3>1, SessionFacts DEF RowShape, SaveShape, Undisturbed
    <3> QED
      BY <1>3, <1>7, <3>1, <3>2, SessionFacts
  <2> QED
    BY <2>1, <2>2
<1>11. OnlyReplaced'
  BY <1>10 DEF OnlyReplaced, Owner
<1>12. HeadKept' /\ AnswerKept'
  BY <1>2 DEF HeadKept, AnswerKept, open
<1>13. ASSUME NEW e \in Steady, \A r \in Rows : Active(r) /\ e \in row[r].pending =>
                                  row[r].phase \notin Removing
       PROVE  e \in Steady'
  BY <1>1, <1>8, <1>13 DEF Steady
<1>14. ASSUME NEW r \in Rows, Active(r)' PROVE RowKeeps(r)'
  <2>1. Active(r) /\ RowKeeps(r) /\ \A q \in Rows : Active(q) => q = r
    BY <1>4, <1>14 DEF Kept, OneActive
  <2>2. row[r].phase \in Made => row[r].successor \in Steady'
    <3>1. row[r].successor \notin row[r].pending
      BY SessionFacts DEF RowShape, SaveShape, Undisturbed
    <3> QED
      BY <1>13, <2>1, <3>1 DEF RowKeeps
  <2>3. row[r].phase \notin Removing => row[r].base \subseteq Steady'
    BY <1>13, <2>1 DEF RowKeeps
  <2> QED
    BY <1>2, <1>3, <1>6, <2>1, <2>2, <2>3 DEF RowKeeps
<1>15. session'.confirmed = None \/ \E e \in Steady' : Covers(e)'
  <2> SUFFICES ASSUME session.confirmed # None PROVE \E e \in Steady' : Covers(e)'
    BY <1>2
  <2>1. PICK e \in Steady : Covers(e)
    BY DEF Kept
  <2>2. e \in Steady' /\ e \in Emails
    BY <1>13, <2>1 DEF Covers, Steady, Typed, ServerType
  <2>3. Covers(e)'
    BY <1>2, <1>3, <1>5, <1>6, <2>1, <2>2 DEF Covers
  <2> QED
    BY <2>2, <2>3
<1> QED
  BY <1>9, <1>11, <1>12, <1>14, <1>15 DEF Kept

\* The rows and Emails stay, and what the session waits for.
LEMMA QuietKept ==
  ASSUME Kept, UNCHANGED <<row, server, doomed>>, open,
         session'.confirmed = session.confirmed,
         session'.end = "open" => Answered' = Answered /\
                                  (Answered => session'.saving = session.saving)
  PROVE  Kept'
<1>1. /\ \A r \in Rows : Active(r)' = Active(r)
      /\ NoneActive' = NoneActive /\ Steady' = Steady
      /\ TextOf(session.confirmed)' = TextOf(session.confirmed)
      /\ open' => Head' = Head /\ (Answered' => Answered /\ session'.saving = session.saving)
  BY DEF Active, NoneActive, Head, TextOf, open, Steady
<1>2. NoConflict' /\ OnlyReplaced'
  BY DEF Kept, NoConflict, OnlyReplaced, Spent, Owner
<1>3. HeadKept' /\ AnswerKept'
  BY <1>1 DEF Kept, HeadKept, AnswerKept
<1>4. \A r \in Rows : Active(r)' => RowKeeps(r)'
  BY <1>1 DEF Kept, RowKeeps
<1>5. session'.confirmed = None \/ \E e \in Steady' : Covers(e)'
  BY <1>1 DEF Kept, Covers, TextOf
<1> QED
  BY <1>2, <1>3, <1>4, <1>5 DEF Kept

\* Nothing runs, and the session confirms a copy that is safe; at most one new save
\* is inserted for it.
LEMMA ConfirmKept ==
  ASSUME Typed, Shape, Kept, NoneActive, UNCHANGED <<server, doomed>>,
         Typed', Shape', SessionShape',
         session'.confirmed = None \/ session'.confirmed \in Steady,
         \/ row' = row /\ (session'.end = "open" => session'.saving = 0)
         \/ \E r \in Fresh : \E v :
              /\ row' = [row EXCEPT ![r] = v] /\ v.kind = "save" /\ v.status = "pending"
              /\ v.phase = "null" /\ v.pending = {} /\ v.base \subseteq {session'.confirmed} \ {None}
              /\ v.text = session'.text /\ session'.saving = r
  PROVE  Kept'
<1>1. Steady' = Steady
  BY DEF Steady
<1>2. ASSUME NEW q \in Rows PROVE row[q].pending = {} /\ row[q].phase = "null"
  BY <1>2, IdleRow DEF NoneActive, Kept
<1>3. ASSUME NEW q \in Rows PROVE row'[q].pending = {} /\ row'[q].phase = "null"
  BY <1>2 DEF Typed, RowType
<1>4. \A k : Spent(k) => Spent(k)'
  BY DEF Spent, Fresh, Typed, RowType
<1>5. NoConflict' /\ OnlyReplaced'
  <2>1. \A e \in doomed : Spent(Owner(e))
    <3> SUFFICES ASSUME NEW e \in doomed PROVE Spent(Owner(e))
      OBVIOUS
    <3>1. Owner(e) \in Rows \cup {0}
      BY DEF Typed, ServerType, Emails, Owner
    <3> QED
      BY <1>2, <3>1 DEF Kept, OnlyReplaced, Spent, Removing
  <2> QED
    BY <1>3, <1>4, <2>1 DEF NoConflict, OnlyReplaced, Owner
<1>6. ASSUME NEW q \in Rows, Active(q)' PROVE RowKeeps(q)' /\ session'.saving = q
  <2>1. PICK r \in Fresh : \E v : /\ row' = [row EXCEPT ![r] = v] /\ v.phase = "null"
              /\ v.base \subseteq {session'.confirmed} \ {None}
              /\ v.text = session'.text /\ session'.saving = r
    BY <1>6 DEF NoneActive, Active
  <2>2. q = r /\ row'[q].phase = "null" /\ row'[q].text = session'.text
        /\ row'[q].base \subseteq {session'.confirmed} \ {None}
    BY <1>6, <2>1 DEF NoneActive, Active, Fresh, Typed, RowType
  <2>3. session'.text >= TextOf(session.confirmed)'
    <3>1. /\ session'.confirmed # None => session'.seed = TextOf(session.confirmed)'
          /\ session'.seed <= session'.text
          /\ session'.seed \in Nat /\ session'.text \in Nat
      BY Names DEF SessionShape, Remembers, TextOf, Typed, SessionType, SessionSet
    <3>2. session'.confirmed = None => TextOf(session.confirmed)' = 0
      BY DEF TextOf, None
    <3> QED
      BY <3>1, <3>2
  <2> QED
    BY <1>1, <2>1, <2>2, <2>3 DEF RowKeeps, Made
<1>7. open' => ~Answered'
  BY DEF Answered, open, Fresh, Typed, RowType
<1>8. HeadKept' /\ AnswerKept'
  BY <1>1, <1>7 DEF HeadKept, AnswerKept, Head
<1>9. session'.confirmed = None \/ \E e \in Steady' : Covers(e)'
  <2> SUFFICES ASSUME session'.confirmed # None PROVE \E e \in Steady' : Covers(e)'
    OBVIOUS
  <2>1. TextOf(session.confirmed)' \in Nat /\ session'.confirmed \in Steady'
    <3>1. (\A r \in Rows : row'[r].text \in Nat) /\ session'.confirmed \in Emails
      BY Names DEF Typed, RowType, RowSet, SessionType, SessionSet
    <3> QED
      BY <1>1, <3>1 DEF TextOf, Emails
  <2>2. Covers(session.confirmed)'
    BY <1>3, <2>1 DEF Covers
  <2> QED
    BY <2>1, <2>2
<1> QED
  BY <1>5, <1>6, <1>8, <1>9 DEF Kept

\* What was undisturbed after a step was so before it.
LEMMA UndisturbedBefore ==
  ASSUME Typed, Shape, SessionShape, [Next]_vars, Undisturbed'
  PROVE  Undisturbed
<1>0. /\ row \in [Rows -> RowSet] /\ session \in SessionSet /\ Remembers(session)
      /\ removals \in Nat /\ session.failed \in Rows \cup {0} /\ session.saving \in Rows \cup {0}
  BY SessionFacts, Names DEF Typed, CountType, SessionShape
<1>1. removals = 0
  <2>1. removals' \in {removals, removals + 1}
    BY DEF Next, SessionStep, UserStep, Edit, Autosave, SaveAndClose, SaveConfirmed,
       SaveFailed, CloseClean, BeginDontSave, BeginDiscard, DontSave, DiscardFailedSave,
       DiscardConfirmed, DiscardAnswered, TabCloses, WorkerDies, Claim, Attempt, Bases,
       ProbeSave, ProbeDiscard, Create, CreateLate, Fetch, Destroy, DestroyLate, Unanswered,
       ServeCreate, ServeDestroy, Remove, vars
  <2> QED
    BY <1>0, <2>1 DEF Undisturbed
<1>2. session.end \notin {"unsaved", "discarded"}
  <2>1. CASE SessionStep \/ UserStep
    BY <2>1 DEF SessionStep, UserStep, Edit, Autosave, SaveAndClose, SaveConfirmed,
       SaveFailed, CloseClean, BeginDontSave, BeginDiscard, DontSave, DiscardFailedSave,
       DiscardConfirmed, DiscardAnswered, TabCloses, open
  <2>2. CASE session' = session
    BY <2>2 DEF Undisturbed
  <2>3. CASE WorkerDies
    BY <1>0, <2>3 DEF WorkerDies, Undisturbed, Closed, SessionSet, open
  <2>4. SessionStep \/ UserStep \/ session' = session \/ WorkerDies
    BY DEF Next, Claim, Attempt, Bases, ProbeSave, ProbeDiscard, Create, CreateLate, Fetch,
       Destroy, DestroyLate, Unanswered, ServeCreate, ServeDestroy, Remove, vars
  <2> QED
    BY <2>1, <2>2, <2>3, <2>4
<1>3. ASSUME NEW k \in Rows, row[k].kind # "save" PROVE row'[k].kind # "save"
  <2>0. row[k].status # "unborn"
    BY <1>3, SessionFacts DEF RowShape, Unborn
  <2>1. ASSUME NEW r \in Fresh, NEW v, row' = [row EXCEPT ![r] = v]
        PROVE  row'[k] = row[k]
    BY <1>0, <2>0, <2>1 DEF Fresh
  <2>2. ASSUME session.failed # 0, NEW v, row' = [row EXCEPT ![session.failed] = v]
        PROVE  row'[k] = row[k]
    BY <1>0, <1>3, <2>2 DEF Remembers
  <2>3. CASE SessionStep \/ UserStep
    <3>1. \/ row' = row
          \/ \E r \in Fresh : \E v : row' = [row EXCEPT ![r] = v]
          \/ \E v : session.failed # 0 /\ row' = [row EXCEPT ![session.failed] = v]
      <4>1. CASE Edit \/ SaveFailed \/ CloseClean \/ BeginDontSave \/ BeginDiscard
                 \/ TabCloses \/ DiscardAnswered
        BY <4>1 DEF Edit, SaveFailed, CloseClean, BeginDontSave, BeginDiscard, TabCloses,
           DiscardAnswered
      <4>2. CASE Autosave \/ SaveAndClose
        <5>1. \/ row' = row
              \/ \E r \in Fresh : row' = [row EXCEPT ![r] = NewSave(session)]
              \/ session.failed # 0
                 /\ row' = [row EXCEPT ![session.failed] = Revived(row[session.failed])]
          BY <4>2 DEF Autosave, SaveAndClose
        <5> HIDE DEF NewSave, Revived
        <5> QED
          BY <5>1
      <4>3. CASE SaveConfirmed
        <5> DEFINE v == NewSave(Applied(row[session.saving]))
        <5>1. row' = row \/ \E r \in Fresh : row' = [row EXCEPT ![r] = v]
          BY <4>3 DEF SaveConfirmed
        <5> HIDE DEF v
        <5> QED
          BY <5>1
      <4>4. CASE DontSave \/ DiscardFailedSave
        <5>1. \/ row' = row
              \/ \E all \in BOOLEAN : session.failed # 0
                   /\ row' = [row EXCEPT ![session.failed] = Abandoned(row[session.failed], all)]
          BY <4>4 DEF DontSave, DiscardFailedSave
        <5> HIDE DEF Abandoned
        <5> QED
          BY <5>1
      <4>5. CASE DiscardConfirmed
        <5>1. row' = row \/ \E r \in Fresh : row' = [row EXCEPT ![r] = NewDiscard]
          BY <4>5 DEF DiscardConfirmed
        <5> HIDE DEF NewDiscard
        <5> QED
          BY <5>1
      <4> QED
        BY <2>3, <4>1, <4>2, <4>3, <4>4, <4>5 DEF SessionStep, UserStep
    <3> QED
      BY <1>3, <2>1, <2>2, <3>1
  <2>4. ASSUME NEW r \in Rows, Attempt(r) PROVE row'[k].kind # "save"
    <3>1. \E v, t : Changed(r, v, t) /\ v.kind = row[r].kind
      BY <2>4, AttemptMoves
    <3> QED
      BY <1>0, <1>3, <3>1 DEF Changed
  <2>5. ASSUME NEW r \in Rows, Claim(r) PROVE row'[k].kind # "save"
    <3> DEFINE w == [row[r] EXCEPT !.status = "in_flight", !.attempts = @ + 1]
    <3>1. row[r] \in RowSet
      BY <1>0
    <3>2. /\ w.kind = row[r].kind /\ Ended(w).kind = row[r].kind
          /\ Retired(w).kind = row[r].kind
      BY <3>1 DEF RowSet, Ended, Retired, Unborn
    <3>3. \/ row' = [row EXCEPT ![r] = w] \/ row' = [row EXCEPT ![r] = Ended(w)]
          \/ row' = [row EXCEPT ![r] = Retired(w)]
      BY <2>5 DEF Claim, Settle, Proceed
    <3> HIDE DEF w, Ended, Retired
    <3> QED
      BY <1>0, <1>3, <3>2, <3>3
  <2>6. CASE \/ \E r \in Rows : ServeCreate(r)
             \/ \E e \in Emails : ServeDestroy(e) \/ Remove(e)
             \/ UNCHANGED vars
    BY <1>3, <2>6 DEF ServeCreate, ServeDestroy, Remove, vars
  <2>7. CASE WorkerDies
    <3>1. row'[k] = row[k] \/ row'[k] = [row[k] EXCEPT !.status = "pending"]
      BY <2>7 DEF WorkerDies
    <3>2. row[k] \in RowSet
      BY <1>0
    <3> QED
      BY <1>3, <3>1, <3>2 DEF RowSet
  <2> QED
    BY <2>3, <2>4, <2>5, <2>6, <2>7 DEF Next
<1> QED
  BY <1>1, <1>2, <1>3 DEF Undisturbed

\* The session's own steps keep what it confirmed.
LEMMA SessionKept ==
  ASSUME Typed, Shape, SessionShape, OneInv, Undisturbed, Kept, SessionStep \/ UserStep,
         Typed', Shape', SessionShape', Undisturbed'
  PROVE  Kept'
<1>0. /\ session \in SessionSet /\ row \in [Rows -> RowSet] /\ Remembers(session)
      /\ 0 \notin Rows /\ session.pend \in Rows \cup {0} /\ session.failed \in Rows \cup {0}
      /\ session.saving \in Rows \cup {0}
  BY SessionFacts DEF SessionShape, SessionSet
<1>1. open /\ UNCHANGED <<task, server, doomed>>
  BY DEF SessionStep, UserStep, Edit, Autosave, SaveAndClose, SaveConfirmed, SaveFailed,
     CloseClean, BeginDontSave, BeginDiscard, DontSave, DiscardFailedSave,
     DiscardConfirmed, DiscardAnswered, TabCloses, serverVars
<1>2. ~Ruined /\ OneActive /\ Waiting /\ session.end = "open"
  BY <1>1, UndisturbedOne DEF OneActive, open
<1>3. NoneActive /\ ~Answered => session.confirmed = None \/ session.confirmed \in Steady
  BY <1>1 DEF Kept, HeadKept, Head
<1>4. CASE Edit \/ BeginDontSave \/ BeginDiscard
  <2>1. /\ session'.confirmed = session.confirmed /\ session'.saving = session.saving
        /\ row' = row
    BY <1>0, <1>4 DEF Edit, BeginDontSave, BeginDiscard, SessionSet
  <2>2. Answered' = Answered
    BY <2>1 DEF Answered
  <2> QED
    BY <1>1, <2>1, <2>2, QuietKept
<1>5. CASE SaveFailed
  <2>1. /\ session'.confirmed = session.confirmed /\ row' = row /\ session'.saving = 0
        /\ row[session.saving].status = "conflicted"
    BY <1>0, <1>5 DEF SaveFailed, SessionSet
  <2>2. Answered' = Answered /\ ~Answered
    BY <2>1 DEF Answered
  <2> QED
    BY <1>1, <2>1, <2>2, QuietKept
<1>6. CASE CloseClean \/ TabCloses
  <2>1. row' = row /\ (session' = Closed(session, "clean") \/ session' = Closed(session, "lost"))
    BY <1>6 DEF CloseClean, TabCloses
  <2>2. session'.end # "open" /\ session'.confirmed = session.confirmed
    BY <1>0, <2>1 DEF SessionSet, Closed
  <2> QED
    BY <1>1, <2>1, <2>2, QuietKept
<1>7. ASSUME NEW r \in Fresh, row' = [row EXCEPT ![r] = NewSave(session)],
             session'.text = session.text, session'.confirmed = session.confirmed,
             session'.saving = r, NoneActive, ~Answered
      PROVE  Kept'
  <2> DEFINE v == NewSave(session)
  <2>1. /\ v.kind = "save" /\ v.status = "pending" /\ v.phase = "null" /\ v.pending = {}
        /\ v.text = session.text /\ v.base = {session.confirmed} \ {None}
    BY DEF NewSave, Unborn
  <2>2. row' = [row EXCEPT ![r] = v]
    BY <1>7
  <2> HIDE DEF v
  <2> QED
    BY <1>1, <1>3, <1>7, <2>1, <2>2, ConfirmKept
<1>8. CASE Autosave
  <2>1. CASE session.blocked \/ session.saving # 0 \/ ~Dirty(session)
    <3>1. session' = [session EXCEPT !.timer = FALSE] /\ row' = row
      BY <1>8, <2>1 DEF Autosave
    <3>2. session'.confirmed = session.confirmed /\ session'.saving = session.saving
      BY <1>0, <3>1 DEF SessionSet
    <3>3. Answered' = Answered
      BY <3>1, <3>2 DEF Answered
    <3> QED
      BY <1>1, <3>1, <3>2, <3>3, QuietKept
  <2>2. CASE ~session.blocked /\ session.saving = 0 /\ Dirty(session)
    <3>1. PICK r \in Fresh : /\ row' = [row EXCEPT ![r] = NewSave(session)]
                             /\ session' = Saving(session, r)
      BY <1>8, <2>2 DEF Autosave
    <3>2. /\ session'.text = session.text /\ session'.confirmed = session.confirmed
          /\ session'.saving = r
      BY <1>0, <3>1 DEF Saving, SessionSet
    <3>3. NoneActive /\ ~Answered
      BY <1>1, <1>2, <2>2, NoRun DEF Waiting, Answered
    <3> QED
      BY <1>7, <3>1, <3>2, <3>3
  <2> QED
    BY <2>1, <2>2
<1>9. CASE SaveAndClose
  <2>0. session.op = "none" /\ session.pend = 0
    BY <1>2, <1>9 DEF SaveAndClose, Waiting
  <2>1. CASE session.blocked
    <3> DEFINE f == session.failed
               v == Revived(row[f])
    <3>1. /\ f # 0 /\ row' = [row EXCEPT ![f] = v]
          /\ session' = [session EXCEPT !.blocked = FALSE, !.op = "retry", !.saving = f]
      BY <1>9, <2>1 DEF SaveAndClose
    <3>2. session.saving = 0 /\ f \in Rows
      BY <1>0, <2>0, <2>1, <3>1 DEF Remembers
    <3>3. row[f].status = "conflicted" /\ row[f].kind = "save" /\ row[f] \in RowSet
      BY <1>0, <3>1, <3>2 DEF Remembers
    <3>4. /\ v.kind = "save" /\ v.status = "retry" /\ v.phase = row[f].phase
          /\ v.base = row[f].base /\ v.pending = row[f].pending
          /\ v.successor = row[f].successor /\ v.text = row[f].text
      BY <3>3 DEF Revived, RowSet
    <3>5. row'[f] = v /\ \A q \in Rows \ {f} : row'[q] = row[q]
      BY <1>0, <3>1, <3>2
    <3>6. session'.saving = f /\ session'.confirmed = session.confirmed
      BY <1>0, <3>1 DEF SessionSet
    <3> HIDE DEF v, f
    <3>7. /\ \A q \in Rows : /\ Active(q)' = Active(q) /\ row'[q].phase = row[q].phase
                             /\ row'[q].pending = row[q].pending
                             /\ row'[q].base = row[q].base
                             /\ row'[q].successor = row[q].successor
                             /\ row'[q].text = row[q].text
                             /\ row'[q].status = "gone" <=> row[q].status = "gone"
      BY <3>3, <3>4, <3>5 DEF Active
    <3>8. ~Answered /\ ~Answered' /\ Steady' = Steady /\ NoneActive' = NoneActive
      BY <1>1, <3>2, <3>4, <3>5, <3>6, <3>7 DEF Answered, Steady, NoneActive
    <3>9. \A e \in Emails \cup {None} : TextOf(e)' = TextOf(e)
      BY <3>7, TextFacts DEF TextOf, Owner
    <3>10. TextOf(session.confirmed)' = TextOf(session.confirmed)
      BY <3>6, <3>9, TextFacts
    <3>11. NoConflict' /\ OnlyReplaced'
      <4>1. \A e \in doomed : Owner(e) \in Rows \cup {0}
        BY TextFacts DEF Typed, ServerType
      <4> QED
        BY <1>1, <3>7, <4>1 DEF Kept, NoConflict, OnlyReplaced, Spent, Owner
    <3>12. HeadKept' /\ AnswerKept'
      BY <1>1, <3>6, <3>8 DEF Kept, HeadKept, AnswerKept, Head
    <3>13. \A q \in Rows : Active(q)' => RowKeeps(q)'
      BY <3>7, <3>8, <3>10 DEF Kept, RowKeeps
    <3>14. session'.confirmed = None \/ \E e \in Steady' : Covers(e)'
      <4>1. Steady \subseteq Emails
        BY DEF Steady, Typed, ServerType
      <4> QED
        BY <3>6, <3>7, <3>8, <3>9, <3>10, <4>1 DEF Kept, Covers
    <3> QED
      BY <3>11, <3>12, <3>13, <3>14 DEF Kept
  <2>2. CASE ~session.blocked /\ session.saving # 0
    <3>1. session' = [session EXCEPT !.timer = FALSE, !.op = "join"] /\ row' = row
      BY <1>9, <2>2 DEF SaveAndClose
    <3>2. session'.confirmed = session.confirmed /\ session'.saving = session.saving
      BY <1>0, <3>1 DEF SessionSet
    <3>3. Answered' = Answered
      BY <3>1, <3>2 DEF Answered
    <3> QED
      BY <1>1, <3>1, <3>2, <3>3, QuietKept
  <2>3. CASE ~session.blocked /\ session.saving = 0 /\ Dirty(session)
    <3>1. PICK r \in Fresh : /\ row' = [row EXCEPT ![r] = NewSave(session)]
                             /\ session' = [Saving(session, r) EXCEPT !.op = "save"]
      BY <1>9, <2>3 DEF SaveAndClose
    <3>2. /\ session'.text = session.text /\ session'.confirmed = session.confirmed
          /\ session'.saving = r
      BY <1>0, <3>1 DEF Saving, SessionSet
    <3>3. NoneActive /\ ~Answered
      BY <1>1, <1>2, <2>0, <2>3, NoRun DEF Answered
    <3> QED
      BY <1>7, <3>1, <3>2, <3>3
  <2>4. CASE ~session.blocked /\ session.saving = 0 /\ ~Dirty(session)
    <3>1. session' = Closed(session, "saved") /\ row' = row
      BY <1>9, <2>4 DEF SaveAndClose
    <3>2. session'.end # "open" /\ session'.confirmed = session.confirmed
      BY <1>0, <3>1 DEF SessionSet, Closed
    <3> QED
      BY <1>1, <3>1, <3>2, QuietKept
  <2> QED
    BY <2>1, <2>2, <2>3, <2>4
<1>10. CASE SaveConfirmed
  <2> DEFINE k == session.saving
             s == Applied(row[k])
  <2>0. k # 0 /\ row[k].status = "gone" /\ k \in Rows /\ row[k] \in RowSet
    BY <1>0, <1>10 DEF SaveConfirmed
  <2>1. /\ s.saving = 0 /\ s.confirmed = row[k].successor /\ s.text = session.text
        /\ s \in SessionSet
    BY <1>0, <2>0 DEF Applied, SessionSet, RowSet
  <2>2. NoneActive
    <3> SUFFICES ASSUME NEW q \in Rows, Active(q) PROVE FALSE
      BY DEF NoneActive
    <3>1. session.op # "discarding" /\ session.failed = k
      BY <1>0, <1>2, <2>0 DEF Waiting, Remembers
    <3> QED
      BY <1>1, <1>2, <2>0, <3>1 DEF OneActive, Tracked, Active
  <2>3. row[k].successor = None \/ row[k].successor \in Steady
    BY <1>1, <2>0, <2>2 DEF Kept, HeadKept, Head, Answered
  <2> HIDE DEF s
  <2>4. CASE FollowUp(s)
    <3> DEFINE v == NewSave(s)
    <3>1. PICK q \in Fresh :
            /\ row' = [row EXCEPT ![q] = v]
            /\ session' = [Saving(s, q) EXCEPT
                             !.op = CASE Saving(s, q).op = "save" -> "none"
                                      [] Saving(s, q).op = "retry" -> "save"
                                      [] OTHER -> Saving(s, q).op]
      BY <1>10, <2>4 DEF SaveConfirmed, s
    <3>2. /\ session'.confirmed = s.confirmed /\ session'.saving = q
          /\ session'.text = s.text
      BY <2>1, <3>1 DEF Saving, SessionSet
    <3>3. /\ v.kind = "save" /\ v.status = "pending" /\ v.phase = "null" /\ v.pending = {}
          /\ v.text = s.text /\ v.base = {s.confirmed} \ {None}
      BY DEF NewSave, Unborn
    <3> HIDE DEF v, k
    <3> QED
      BY <1>1, <2>1, <2>2, <2>3, <3>1, <3>2, <3>3, ConfirmKept
  <2>5. CASE ~FollowUp(s)
    <3>1. row' = row /\ (session' = Closed(s, "saved") \/ session' = s)
      BY <1>10, <2>5 DEF SaveConfirmed, s
    <3>2. session'.saving = 0 /\ session'.confirmed = row[k].successor
      BY <2>1, <3>1 DEF Closed, SessionSet
    <3> QED
      BY <1>1, <2>2, <2>3, <3>1, <3>2, ConfirmKept
  <2> QED
    BY <2>4, <2>5
<1>11. CASE DontSave
  <2>1. session' = Closed(session, "unsaved")
    BY <1>2, <1>11 DEF DontSave, Waiting
  <2> QED
    BY <1>0, <2>1 DEF Undisturbed, Closed, SessionSet
<1>12. CASE DiscardFailedSave
  <2> DEFINE f == session.failed
             plan == AbandonPlan(row[f], TRUE)
             v == Abandoned(row[f], TRUE)
  <2>0. session.op = "discard" /\ session.pend = 0 /\ f # 0 /\ f \in Rows
    BY <1>0, <1>2, <1>12 DEF DiscardFailedSave, Waiting
  <2>1. /\ row' = [row EXCEPT ![f] = v]
        /\ plan = "delete" => session' = Closed(session, "discarded")
    BY <1>12, <2>0 DEF DiscardFailedSave
  <2>2. plan \in {"delete", "convert"} /\ (plan = "convert" => v.kind = "discard")
    BY <2>0 DEF AbandonPlan, Abandoned, Converted, Unborn, Kept, NoConflict
  <2> HIDE DEF plan, v
  <2>3. CASE plan = "delete"
    BY <1>0, <2>1, <2>3 DEF Undisturbed, Closed, SessionSet
  <2>4. CASE plan = "convert"
    BY <1>0, <2>0, <2>1, <2>2, <2>4 DEF Undisturbed
  <2> QED
    BY <2>2, <2>3, <2>4
<1>13. CASE DiscardConfirmed
  <2>0. session.pend = 0
    BY <1>2, <1>13 DEF DiscardConfirmed, Waiting
  <2>1. \/ session' = Closed(session, "discarded")
        \/ \E r \in Fresh : row' = [row EXCEPT ![r] = NewDiscard]
    BY <1>13, <2>0 DEF DiscardConfirmed
  <2>2. NewDiscard.kind = "discard"
    BY DEF NewDiscard, Unborn
  <2> HIDE DEF NewDiscard
  <2>3. CASE session' = Closed(session, "discarded")
    BY <1>0, <2>3 DEF Undisturbed, Closed, SessionSet
  <2>4. CASE \E r \in Fresh : row' = [row EXCEPT ![r] = NewDiscard]
    BY <1>0, <2>2, <2>4 DEF Undisturbed, Fresh
  <2> QED
    BY <2>1, <2>3, <2>4
<1>14. CASE DiscardAnswered
  <2>1. session.op = "discarding"
    BY <1>14 DEF DiscardAnswered
  <2> QED
    BY <1>0, <1>2, <2>1 DEF Waiting, Undisturbed
<1> QED
  BY <1>4, <1>5, <1>6, <1>8, <1>9, <1>10, <1>11, <1>12, <1>13, <1>14
  DEF SessionStep, UserStep

\* As long as the session is undisturbed, every step keeps what it confirmed.
LEMMA KeptStep ==
  ASSUME IInv, KeptInv, [Next]_vars, IInv'
  PROVE  KeptInv'
<1> SUFFICES ASSUME Undisturbed' PROVE Kept'
  BY DEF KeptInv
<1>1. /\ Typed /\ Shape /\ SessionShape /\ OneInv
      /\ Typed' /\ Shape' /\ SessionShape'
  BY DEF IInv
<1>2. Undisturbed
  BY <1>1, UndisturbedBefore
<1>3. OneActive /\ Kept
  BY <1>1, <1>2, UndisturbedOne DEF KeptInv
<1> QED
  BY <1>1, <1>2, <1>3, SessionKept, AttemptKept, ClaimKept, WorldKept, WorkerDiesKept DEF Next

\* A session that begins has confirmed the draft it reopened, or nothing.
LEMMA KeptInit ==
  ASSUME Init
  PROVE  KeptInv
<1>1. /\ \A r \in Rows : row[r] = Unborn
      /\ session.saving = 0 /\ session.confirmed = IF Reopened THEN Opened ELSE None
      /\ server = (IF Reopened THEN {Opened} ELSE {}) /\ doomed = {}
  BY DEF Init
<1>2. Steady = server /\ Head = session.confirmed /\ ~Answered
  BY <1>1 DEF Steady, Head, Answered
<1>3. session.confirmed = None \/ session.confirmed \in Steady
  BY <1>1, <1>2
<1>4. ASSUME session.confirmed \in Steady PROVE Covers(session.confirmed)
  <2>1. session.confirmed = Opened
    BY <1>1, <1>2, <1>4
  <2>2. TextOf(Opened) = 0
    BY DEF TextOf, Opened
  <2> QED
    BY <1>1, <2>1, <2>2 DEF Covers, Unborn
<1>5. NoConflict /\ OnlyReplaced /\ \A r \in Rows : ~Active(r)
  BY <1>1 DEF NoConflict, OnlyReplaced, Active, Unborn
<1> QED
  BY <1>2, <1>3, <1>4, <1>5 DEF KeptInv, Kept, HeadKept, AnswerKept

\* What a save confirmed is kept in every state.
LEMMA KeptAlways == Spec => [](IInv /\ KeptInv)
<1>1. Init => KeptInv
  BY KeptInit
<1>2. (IInv /\ KeptInv) /\ IInv' /\ [Next]_vars => KeptInv'
  BY KeptStep
<1> QED
  BY <1>1, <1>2, Inductive, PTL DEF Spec

\* A session nobody takes a draft back from is undisturbed.
LEMMA NotDiscarding ==
  ASSUME Typed, removals = 0, ~Discarding
  PROVE  Undisturbed
<1>1. \A r \in Rows : row[r].kind \in Kinds
  BY DEF Typed, RowType, RowSet
<1> QED
  BY <1>1 DEF Undisturbed, Discarding, Kinds

\* As long as nobody takes a draft back and no other client touches Drafts, what a
\* save confirmed to the user stays on the server, in that copy or in a newer one.
THEOREM ConfirmedSurvives == Spec => []SurvivesSaving
<1>1. IInv /\ KeptInv => SurvivesSaving
  BY NotDiscarding DEF IInv, KeptInv, Kept, Covers, Steady, SurvivesSaving, SomeDraft
<1> QED
  BY <1>1, KeptAlways, PTL

\* A session that closed after saving, and never tried to discard, has its last text
\* in Drafts.
THEOREM SavedText == Spec => []SavedIsSaved
<1>1. IInv /\ KeptInv => SavedIsSaved
  <2> SUFFICES ASSUME IInv, KeptInv, session.end = "saved", removals = 0, ~Discarding,
                      session.confirmed # None
               PROVE  SomeDraft(session.text)
    BY DEF SavedIsSaved
  <2>1. session.text = TextOf(session.confirmed)
    BY DEF IInv, SessionShape, Remembers
  <2>2. \E e \in Steady : Covers(e)
    BY NotDiscarding DEF IInv, KeptInv, Kept
  <2> QED
    BY <2>1, <2>2 DEF Covers, Steady, SomeDraft
<1> QED
  BY <1>1, KeptAlways, PTL
=============================================================================

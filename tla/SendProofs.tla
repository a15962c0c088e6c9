----------------------------- MODULE SendProofs -----------------------------
(***************************************************************************)
(* Proofs about SendOperation, for every value of its constants: any retry *)
(* budget, any number of restarts, of failed local writes and of creates,  *)
(* immediate and scheduled, with or without identities disappearing.       *)
(*                                                                         *)
(* No single step argument shows that a second submission is impossible:   *)
(* Submit itself does not look at the server.  What rules it out is that   *)
(* the step is reached only while the phase on disk is one of those that   *)
(* are written when the server is known to have nothing, and that stays so *)
(* through crashes because nothing else writes them.  SendInv says this.   *)
(***************************************************************************)
EXTENDS SendOperation, TLAPS

\* The server has accepted nothing and nothing is on its way to it.
Quiet == deliveries = 0 /\ submits = 0

Resumable == {"null", "queued", "created"}
Before == {"probe", "create", "creating", "created", "submit"}
Asking == {"submitting", "evidence", "park", "accept"}
Undoing == {"destroy", "rewind"}
Filing == {"reconcile", "file", "cleanup", "repair", "giveup"}

\* One submission at most is accepted or under way.
OneSubmission == deliveries + submits <= 1

\* What the phase on disk says of the server and of the checkpoint beside it.
PhaseTruth ==
  /\ phase \in Resumable => Quiet
  /\ phase \in PostSubmission =>
       deliveries = 1 /\ ckpt.email # 0 /\ ckpt.submission
  /\ phase \in Unsent => ~ckpt.submission
  /\ phase # "null" => ckpt.saved

\* Server-side traces of a submission exist only if one was accepted.
EvidenceTruth ==
  \A e \in Emails : record[e] \/ place[e] \in {"sent", "moved"} => deliveries = 1

\* Where the attempt may stand in which phase.
StepTruth ==
  /\ pc = "start" => resume = phase /\ cp = ckpt
  /\ pc \in Before => phase \in Resumable
  /\ pc \in Asking => phase = "submitting"
  /\ pc \in Undoing => Quiet /\ phase \notin PostSubmission
  /\ pc \in Before \cup Asking \cup Undoing => ~cp.submission /\ cp.saved
  /\ pc \in {"created", "submit", "submitting", "accept"} => cp.email # 0
  /\ pc = "creating" => copies # 0
  /\ pc = "accept" => deliveries = 1
  /\ pc \in Filing => phase \in PostSubmission /\ cp.email # 0 /\ cp.submission
                      /\ cp.saved

\* An answer is held only by the step that awaits it, and is true.
ReplyTruth ==
  /\ pc \notin {"creating", "submitting"} => reply = "none"
  /\ pc = "submitting" /\ reply = "ok" => deliveries = 1
  /\ pc = "submitting" /\ reply \in {"again", "refused"} => Quiet

Safe ==
  /\ OneSubmission
  /\ PhaseTruth
  /\ EvidenceTruth
  /\ StepTruth
  /\ ReplyTruth
  /\ TrustOnce
  /\ DraftOutlivesSend

SendInv == TypeOK /\ Safe

(***************************************************************************)
(* Types.                                                                  *)
(***************************************************************************)
Answers == {"waiting", "sent", "failed", "unknown", "lost"}

\* An email id of the model is a possible email field.
LEMMA EmailsRange == \A e \in Emails : e \in 0..MaxCreates /\ e # 0
BY SendAssumption DEF Emails

\* The updates the operation makes to a checkpoint leave a checkpoint.
LEMMA CheckpointFacts ==
  /\ NoCheckpoint \in Checkpoints
  /\ \A c \in Checkpoints :
       /\ [c EXCEPT !.saved = TRUE] \in Checkpoints
       /\ [c EXCEPT !.submission = TRUE] \in Checkpoints
       /\ [c EXCEPT !.drafts = FALSE] \in Checkpoints
       /\ \A e \in 0..MaxCreates : [c EXCEPT !.email = e] \in Checkpoints
       /\ c.filings + 1 < FilingBudget =>
            [c EXCEPT !.filings = @ + 1] \in Checkpoints
<1>1. 0 \in 0..MaxCreates /\ 0 \in 0..(FilingBudget - 1)
  BY SendAssumption
<1>2. NoCheckpoint \in Checkpoints
  BY <1>1 DEF NoCheckpoint, Checkpoints
<1>3. ASSUME NEW c \in Checkpoints
      PROVE  /\ [c EXCEPT !.saved = TRUE] \in Checkpoints
             /\ [c EXCEPT !.submission = TRUE] \in Checkpoints
             /\ [c EXCEPT !.drafts = FALSE] \in Checkpoints
  BY DEF Checkpoints
<1>4. ASSUME NEW c \in Checkpoints, NEW e \in 0..MaxCreates
      PROVE  [c EXCEPT !.email = e] \in Checkpoints
  BY DEF Checkpoints
<1>5. ASSUME NEW c \in Checkpoints, c.filings + 1 < FilingBudget
      PROVE  [c EXCEPT !.filings = @ + 1] \in Checkpoints
  <2>1. c.filings + 1 \in 0..(FilingBudget - 1)
    BY <1>5, SendAssumption DEF Checkpoints
  <2> QED
    BY <2>1 DEF Checkpoints
<1> QED
  BY <1>2, <1>3, <1>4, <1>5

\* What the composer may be told is an answer.
LEMMA ToldType ==
  ASSUME WorldType, NEW w \in Answers PROVE Told(w) \in Answers
<1>1. CASE answer = "waiting"
  BY <1>1 DEF Told
<1>2. CASE answer # "waiting"
  BY <1>2 DEF Told, WorldType, Answers
<1> QED
  BY <1>1, <1>2

\* An attempt that ended leaves its variables typed.
LEMMA GoneType ==
  ASSUME AttemptType, AttemptGone PROVE AttemptType'
BY CheckpointFacts DEF AttemptGone, AttemptType, Steps, Phases, Outcomes

\* A step keeps every variable typed: one step of the proof per action.
LEMMA TypeStep == TypeOK /\ [Next]_vars => TypeOK'
<1> SUFFICES ASSUME TypeOK, [Next]_vars PROVE TypeOK'
  OBVIOUS
<1> USE SendAssumption DEF TypeOK, RowType, ServerType, WireType, AttemptType,
        WorldType, Phases, Steps, Outcomes
<1>1. CASE Claim
  BY <1>1 DEF Claim, serverVars, wireVars, worldVars
<1>2. CASE Settle
  <2>1. \A w \in Answers : Told(w) \in Answers
    BY ToldType DEF Answers
  <2>2. /\ status' \in {"gone", "conflicted", "retry"} /\ answer' \in Answers
        /\ error' \in {"none", "plain", "submitted", "outcomeUnknown"}
    BY <1>2, <2>1 DEF Settle, Conflict, Answers
  <2> QED
    BY <1>2, <2>2, CheckpointFacts DEF Settle, AttemptGone, Answers,
       serverVars, wireVars
<1>3. CASE SettleFails
  <2>1. AttemptType'
    BY <1>3, GoneType DEF SettleFails
  <2> QED
    BY <1>3, <2>1 DEF SettleFails, rowVars, serverVars, wireVars
<1>4. CASE StartPast
  BY <1>4 DEF StartPast, End, rowVars, serverVars, wireVars, worldVars
<1>5. CASE StartFilingFails
  BY <1>5 DEF StartFilingFails, SaveFails, serverVars, wireVars
<1>6. CASE StartSend
  <2>1. NextStep(cp) \in Steps
    BY DEF NextStep
  <2>2. CASE cp.saved
    BY <1>6, <2>1, <2>2 DEF StartSend, serverVars, wireVars
  <2>3. CASE ~cp.saved
    <3>1. [cp EXCEPT !.saved = TRUE] \in Checkpoints
      BY CheckpointFacts
    <3>2. Save([cp EXCEPT !.saved = TRUE], "queued")
      BY <1>6, <2>3 DEF StartSend
    <3>3. /\ phase' \in Phases /\ ckpt' \in Checkpoints /\ cp' \in Checkpoints
          /\ attempts' \in Nat /\ dbFailures' = dbFailures
      BY <3>1, <3>2 DEF Save
    <3> QED
      BY <1>6, <2>1, <3>3 DEF StartSend, serverVars, wireVars
  <2> QED
    BY <2>2, <2>3
<1>7. CASE StartSendFails
  BY <1>7 DEF StartSendFails, SaveFails, End, Unsent, serverVars, wireVars
<1>8. CASE StartNoIdentity
  BY <1>8 DEF StartNoIdentity, End, Unsent, rowVars, serverVars, wireVars,
     worldVars
<1>9. CASE ProbeFound
  <2>1. PICK e \in Emails : place[e] = "target" /\ cp' = [cp EXCEPT !.email = e]
    BY <1>9 DEF ProbeFound
  <2>2. cp' \in Checkpoints
    BY <2>1, EmailsRange, CheckpointFacts
  <2> QED
    BY <1>9, <2>2 DEF ProbeFound, rowVars, serverVars, wireVars, worldVars
<1>10. CASE ProbeAbsent
  BY <1>10 DEF ProbeAbsent, rowVars, serverVars, wireVars, worldVars
<1>11. CASE ProbeInconclusive
  BY <1>11 DEF ProbeInconclusive, End, rowVars, serverVars, wireVars,
     worldVars
<1>12. CASE PrepareFails
  BY <1>12 DEF PrepareFails, End, rowVars, serverVars, wireVars, worldVars
<1>13. CASE CreateEmail
  BY <1>13 DEF CreateEmail, Emails, rowVars, serverVars, worldVars
<1>14. CASE CreateAnswered
  <2>1. [cp EXCEPT !.email = copies] \in Checkpoints
    BY CheckpointFacts
  <2> QED
    BY <1>14, <2>1 DEF CreateAnswered, End, rowVars, serverVars, wireVars,
       worldVars
<1>15. CASE CreateUnanswered
  BY <1>15 DEF CreateUnanswered, End, rowVars, serverVars, wireVars,
     worldVars
<1>16. CASE SaveCreated
  BY <1>16 DEF SaveCreated, Save, SaveFails, End, PostSubmission,
     serverVars, wireVars
<1>17. CASE ScheduleRefused
  BY <1>17 DEF ScheduleRefused, End, rowVars, serverVars, wireVars,
     worldVars
<1>18. CASE Submit
  BY <1>18 DEF Submit, Save, PostSubmission, Checkpoints, serverVars
<1>19. CASE SubmitFails
  BY <1>19 DEF SubmitFails, SaveFails, End, serverVars, wireVars
<1>20. CASE SubmitAnswered
  BY <1>20 DEF SubmitAnswered, rowVars, serverVars, wireVars, worldVars
<1>21. CASE SubmitUnanswered
  BY <1>21 DEF SubmitUnanswered, rowVars, serverVars, wireVars, worldVars
<1>22. CASE EvidenceFound
  BY <1>22 DEF EvidenceFound, Submitted, rowVars, serverVars, wireVars,
     worldVars
<1>23. CASE EvidenceUnknown
  BY <1>23 DEF EvidenceUnknown, rowVars, serverVars, wireVars, worldVars
<1>24. CASE Park
  BY <1>24 DEF Park, Save, SaveFails, End, PostSubmission, serverVars,
     wireVars
<1>25. CASE DestroyEmail
  BY <1>25 DEF DestroyEmail, rowVars, wireVars, worldVars
<1>26. CASE Rewind
  BY <1>26 DEF Rewind, Save, SaveFails, PostSubmission, Checkpoints,
     serverVars, wireVars
<1>27. CASE Accept
  <2>1. [cp EXCEPT !.submission = TRUE] \in Checkpoints
    BY CheckpointFacts
  <2>2. Told("sent") \in Answers
    BY ToldType DEF Answers
  <2> QED
    BY <1>27, <2>1, <2>2 DEF Accept, Save, Answers, PostSubmission, serverVars,
       wireVars
<1>28. CASE AcceptFails
  BY <1>28 DEF AcceptFails, SaveFails, End, serverVars, wireVars
<1>29. CASE Reconcile
  BY <1>29 DEF Reconcile, Save, SaveFails, PostSubmission, serverVars,
     wireVars
<1>30. CASE File
  <2>1. keepDraft' \in BOOLEAN /\ pc' \in Steps
    BY <1>30 DEF File
  <2>2. UNCHANGED <<rowVars, serverVars, wireVars, resume, cp, attemptNo, reply,
                    outcome, copies, worldVars>>
    BY <1>30 DEF File
  <2> QED
    BY <2>1, <2>2 DEF rowVars, serverVars, wireVars, worldVars
<1>31. CASE Cleanup
  <2>1. [cp EXCEPT !.drafts = FALSE] \in Checkpoints
    BY CheckpointFacts
  <2>2. \/ Save([cp EXCEPT !.drafts = FALSE], "cache_pending")
        \/ SaveFails
        \/ UNCHANGED <<attempts, phase, ckpt, cp, dbFailures>>
    BY <1>31 DEF Cleanup
  <2>3. /\ attempts' \in Nat /\ phase' \in Phases /\ dbFailures' \in 0..MaxDbFailures
        /\ ckpt' \in Checkpoints /\ cp' \in Checkpoints
    <3>1. CASE Save([cp EXCEPT !.drafts = FALSE], "cache_pending")
      BY <2>1, <3>1 DEF Save
    <3>2. CASE SaveFails
      BY <3>2 DEF SaveFails
    <3>3. CASE UNCHANGED <<attempts, phase, ckpt, cp, dbFailures>>
      BY <3>3
    <3> QED
      BY <2>2, <3>1, <3>2, <3>3
  <2>4. draft' \in BOOLEAN /\ pc' \in Steps /\ outcome' \in Outcomes
    BY <1>31 DEF Cleanup, End
  <2> QED
    BY <1>31, <2>3, <2>4 DEF Cleanup, wireVars
<1>32. CASE Repair
  BY <1>32 DEF Repair, Save, SaveFails, End, PostSubmission, Checkpoints,
     serverVars, wireVars
<1>33. CASE GiveUp
  <2>1. repair' \in BOOLEAN
    BY <1>33 DEF GiveUp
  <2>2. /\ attempts' \in Nat /\ phase' \in Phases /\ dbFailures' \in 0..MaxDbFailures
        /\ ckpt' \in Checkpoints /\ cp' \in Checkpoints
    BY <1>33 DEF GiveUp, SaveFails
  <2> QED
    BY <1>33, <2>1, <2>2 DEF GiveUp, End, serverVars, wireVars
<1>34. ASSUME NEW e \in Emails, ServeCreate(e) PROVE TypeOK'
  <2>1. place' \in [Emails -> {"none", "target", "sent", "moved", "gone"}]
    BY <1>34 DEF ServeCreate
  <2>2. reply' \in {"none", "ok", "again", "refused"}
    BY <1>34 DEF ServeCreate
  <2>3. late' \in BOOLEAN
    BY <1>34 DEF ServeCreate
  <2> QED
    BY <1>34, <2>1, <2>2, <2>3 DEF ServeCreate, rowVars
<1>35. ASSUME NEW e \in Emails, LoseCreate(e) PROVE TypeOK'
  BY <1>35 DEF LoseCreate, rowVars, serverVars, attemptVars, worldVars
<1>36. ASSUME NEW e \in Emails, RecordExpires(e) PROVE TypeOK'
  BY <1>36 DEF RecordExpires, rowVars, wireVars, attemptVars, worldVars
<1>37. ASSUME NEW e \in Emails, UserMoves(e) PROVE TypeOK'
  BY <1>37 DEF UserMoves, rowVars, wireVars, attemptVars, worldVars
<1>38. CASE ServeSubmit
  <2>1. /\ deliveries' \in Nat /\ submits' \in Nat
        /\ reply' \in {"none", "ok", "again", "refused"}
    BY <1>38 DEF ServeSubmit, SubmitReply
  <2>2. record' \in [Emails -> BOOLEAN]
    <3>1. CASE record' = [record EXCEPT ![subject] = TRUE]
      BY <3>1
    <3>2. CASE record' = record
      BY <3>2
    <3> QED
      BY <1>38, <3>1, <3>2 DEF ServeSubmit
  <2>3. place' \in [Emails -> {"none", "target", "sent", "moved", "gone"}]
    BY <1>38 DEF ServeSubmit
  <2> QED
    BY <1>38, <2>1, <2>2, <2>3 DEF ServeSubmit, rowVars, worldVars
<1>39. CASE LoseSubmit
  BY <1>39 DEF LoseSubmit, rowVars, serverVars, attemptVars, worldVars
<1>40. CASE IdentityDeleted
  <2>1. identity' \in BOOLEAN
    BY <1>40 DEF IdentityDeleted
  <2> QED
    BY <1>40, <2>1 DEF IdentityDeleted, rowVars, serverVars, wireVars, attemptVars
<1>41. CASE Crash
  <2>1. Told("lost") \in Answers
    BY ToldType DEF Answers
  <2>2. restarts' \in 0..MaxRestarts
    BY <1>41 DEF Crash
  <2>3. AttemptType'
    BY <1>41, GoneType DEF Crash
  <2> QED
    <3>1. WorldType'
      BY <1>41, <2>1, <2>2 DEF Crash, Answers
    <3> QED
      BY <1>41, <2>3, <3>1 DEF Crash, rowVars, serverVars, wireVars
<1>42. CASE Stop
  <2>1. Told("unknown") \in Answers
    BY ToldType DEF Answers
  <2>2. restarts' \in 0..MaxRestarts
    BY <1>42 DEF Stop
  <2> QED
    <3>1. WorldType'
      BY <1>42, <2>1, <2>2 DEF Stop, Answers
    <3> QED
      BY <1>42, <3>1 DEF Stop, rowVars, serverVars, wireVars, attemptVars
<1>43. CASE Recover
  BY <1>43 DEF Recover, serverVars, wireVars, attemptVars
<1>44. CASE UNCHANGED vars
  BY <1>44 DEF vars, rowVars, serverVars, wireVars, attemptVars, worldVars
<1>45. CASE FolderFills
  BY <1>45 DEF FolderFills, rowVars, wireVars, attemptVars, worldVars
<1> QED
  BY <1>1, <1>2, <1>3, <1>4, <1>5, <1>6, <1>7, <1>8, <1>9, <1>10,
     <1>11, <1>12, <1>13, <1>14, <1>15, <1>16, <1>17, <1>18, <1>19, <1>20,
     <1>21, <1>22, <1>23, <1>24, <1>25, <1>26, <1>27, <1>28, <1>29, <1>30,
     <1>31, <1>32, <1>33, <1>34, <1>35, <1>36, <1>37, <1>38, <1>39, <1>40,
     <1>41, <1>42, <1>43, <1>44, <1>45 DEF Next, Attempt, Server

\* Every variable keeps its type in every behaviour, whatever the constants.
THEOREM TypeCorrect == Spec => []TypeOK
<1>1. Init => TypeOK
  <2> SUFFICES ASSUME Init PROVE TypeOK
    OBVIOUS
  <2>1. RowType
    BY CheckpointFacts DEF Init, RowType, Phases
  <2>2. ServerType
    BY DEF Init, ServerType
  <2>3. WireType
    BY SendAssumption DEF Init, WireType
  <2>4. AttemptType
    <3>1. cp \in Checkpoints /\ copies \in 0..MaxCreates /\ attemptNo \in Nat
      BY CheckpointFacts, SendAssumption DEF Init
    <3>2. /\ pc = "idle" /\ resume = "null" /\ reply = "none"
          /\ outcome = "none" /\ keepDraft = FALSE
      BY Zenon DEF Init
    <3> QED
      BY <3>1, <3>2 DEF AttemptType, Steps, Phases, Outcomes
  <2>5. WorldType
    <3>1. restarts \in 0..MaxRestarts /\ dbFailures \in 0..MaxDbFailures
      BY SendAssumption DEF Init
    <3>2. up = TRUE /\ identity = TRUE /\ answer = "waiting" /\ late = FALSE
      BY Zenon DEF Init
    <3> QED
      BY <3>1, <3>2 DEF WorldType
  <2> QED
    BY <2>1, <2>2, <2>3, <2>4, <2>5 DEF TypeOK
<1> QED
  BY <1>1, TypeStep, PTL DEF Spec

(***************************************************************************)
(* Safety.                                                                 *)
(***************************************************************************)
\* Nothing has been sent when the row is queued.
LEMMA SafeInit == Init => Safe
<1> SUFFICES ASSUME Init PROVE Safe
  OBVIOUS
<1>1. OneSubmission /\ PhaseTruth /\ StepTruth /\ ReplyTruth
  BY DEF Init, OneSubmission, PhaseTruth, StepTruth, ReplyTruth, Quiet, Before,
     Asking, Undoing, Filing, PostSubmission, Unsent, NoCheckpoint
<1>2. EvidenceTruth
  BY DEF Init, EvidenceTruth
<1>3. TrustOnce /\ DraftOutlivesSend
  BY DEF Init, TrustOnce, DraftOutlivesSend, PostSubmission
<1> QED
  BY <1>1, <1>2, <1>3 DEF Safe

\* A step preserves the strengthening: one step of the proof per action.
LEMMA SafeStep == TypeOK /\ Safe /\ [Next]_vars => Safe'
<1> SUFFICES ASSUME TypeOK, Safe, [Next]_vars PROVE Safe'
  OBVIOUS
<1>a. /\ deliveries \in Nat /\ submits \in Nat /\ copies \in Nat /\ trust \in Nat
      /\ cp \in Checkpoints /\ ckpt \in Checkpoints
      /\ place \in [Emails -> {"none", "target", "sent", "moved", "gone"}]
      /\ record \in [Emails -> BOOLEAN]
  BY SendAssumption DEF TypeOK, RowType, ServerType, WireType, AttemptType
<1> USE <1>a DEF Safe, OneSubmission, PhaseTruth, EvidenceTruth, StepTruth,
        ReplyTruth, TrustOnce, DraftOutlivesSend, Quiet, Resumable, Before,
        Asking, Undoing, Filing, PostSubmission, Unsent, Checkpoints
<1>1. CASE Claim
  BY <1>1 DEF Claim, serverVars, wireVars, worldVars
<1>2. CASE Settle
  BY <1>2 DEF Settle, AttemptGone, serverVars, wireVars
<1>3. CASE SettleFails
  BY <1>3 DEF SettleFails, AttemptGone, rowVars, serverVars, wireVars
<1>4. CASE StartPast
  BY <1>4 DEF StartPast, End, rowVars, serverVars, wireVars, worldVars
<1>5. CASE StartFilingFails
  BY <1>5 DEF StartFilingFails, SaveFails, serverVars, wireVars
<1>6. CASE StartSend
  <2>1. /\ resume = phase /\ cp = ckpt /\ phase \in Unsent /\ ~cp.submission
        /\ (cp.saved \/ phase = "null") /\ reply = "none"
    BY <1>6 DEF StartSend
  <2>2. /\ phase = "submitting" => NextStep(cp) = "evidence"
        /\ phase # "submitting" => NextStep(cp) \in {"probe", "create", "submit"}
        /\ NextStep(cp) = "submit" => cp.email # 0
    BY <2>1 DEF NextStep
  <2>a. pc' = NextStep(cp) /\ UNCHANGED <<reply, trust, serverVars, wireVars>>
    BY <1>6 DEF StartSend
  <2>3. CASE cp.saved
    <3>1. UNCHANGED <<phase, ckpt, cp>>
      BY <1>6, <2>3 DEF StartSend
    <3> QED
      BY <2>1, <2>2, <2>a, <2>3, <3>1 DEF serverVars, wireVars
  <2>4. CASE ~cp.saved
    <3>1. phase' = "queued" /\ ckpt' = cp' /\ cp' = [cp EXCEPT !.saved = TRUE]
      BY <1>6, <2>4 DEF StartSend, Save
    <3>2. cp'.saved /\ cp'.email = cp.email /\ cp'.submission = cp.submission
      BY <3>1
    <3> QED
      BY <2>1, <2>2, <2>a, <2>4, <3>1, <3>2 DEF serverVars, wireVars
  <2> QED
    BY <2>3, <2>4
<1>7. CASE StartSendFails
  BY <1>7 DEF StartSendFails, SaveFails, End, Unsent, serverVars, wireVars
<1>8. CASE StartNoIdentity
  BY <1>8 DEF StartNoIdentity, End, Unsent, rowVars, serverVars, wireVars,
     worldVars
<1>9. CASE ProbeFound
  <2>1. PICK e \in Emails : cp' = [cp EXCEPT !.email = e]
    BY <1>9 DEF ProbeFound
  <2>2. /\ cp'.email # 0 /\ cp'.saved = cp.saved
        /\ cp'.submission = cp.submission
    BY <2>1, EmailsRange
  <2> QED
    BY <1>9, <2>2 DEF ProbeFound, rowVars, serverVars, wireVars
<1>10. CASE ProbeAbsent
  BY <1>10 DEF ProbeAbsent, rowVars, serverVars, wireVars, worldVars
<1>11. CASE ProbeInconclusive
  BY <1>11 DEF ProbeInconclusive, End, rowVars, serverVars, wireVars,
     worldVars
<1>12. CASE PrepareFails
  BY <1>12 DEF PrepareFails, End, rowVars, serverVars, wireVars, worldVars
<1>13. CASE CreateEmail
  BY <1>13 DEF CreateEmail, rowVars, serverVars, worldVars
<1>14. CASE CreateAnswered
  BY <1>14 DEF CreateAnswered, End, rowVars, serverVars, wireVars,
     worldVars
<1>15. CASE CreateUnanswered
  BY <1>15 DEF CreateUnanswered, End, rowVars, serverVars, wireVars,
     worldVars
<1>16. CASE SaveCreated
  BY <1>16 DEF SaveCreated, Save, SaveFails, End, serverVars, wireVars
<1>17. CASE ScheduleRefused
  BY <1>17 DEF ScheduleRefused, End, rowVars, serverVars, wireVars,
     worldVars
<1>18. CASE Submit
  BY <1>18 DEF Submit, Save, serverVars
<1>19. CASE SubmitFails
  BY <1>19 DEF SubmitFails, SaveFails, End, serverVars, wireVars
<1>20. CASE SubmitAnswered
  BY <1>20 DEF SubmitAnswered, rowVars, serverVars, wireVars, worldVars
<1>21. CASE SubmitUnanswered
  BY <1>21 DEF SubmitUnanswered, rowVars, serverVars, wireVars, worldVars
<1>22. CASE EvidenceFound
  <2>1. cp.email \in Emails
    BY <1>22, SendAssumption DEF EvidenceFound, Emails
  <2>2. deliveries = 1
    BY <1>22, <2>1 DEF EvidenceFound, Submitted
  <2> QED
    BY <1>22, <2>2 DEF EvidenceFound, rowVars, serverVars, wireVars
<1>23. CASE EvidenceUnknown
  BY <1>23 DEF EvidenceUnknown, rowVars, serverVars, wireVars, worldVars
<1>24. CASE Park
  BY <1>24 DEF Park, Save, SaveFails, End, serverVars, wireVars
<1>25. CASE DestroyEmail
  BY <1>25 DEF DestroyEmail, rowVars, wireVars, worldVars
<1>26. CASE Rewind
  BY <1>26 DEF Rewind, Save, SaveFails, serverVars, wireVars
<1>27. CASE Accept
  BY <1>27 DEF Accept, Save, serverVars, wireVars
<1>28. CASE AcceptFails
  BY <1>28 DEF AcceptFails, SaveFails, End, serverVars, wireVars
<1>29. CASE Reconcile
  BY <1>29 DEF Reconcile, Save, SaveFails, serverVars, wireVars
<1>30. CASE File
  BY <1>30 DEF File, rowVars, serverVars, wireVars, worldVars
<1>31. CASE Cleanup
  BY <1>31 DEF Cleanup, Save, SaveFails, End, wireVars
<1>32. CASE Repair
  BY <1>32 DEF Repair, Save, SaveFails, End, serverVars, wireVars
<1>33. CASE GiveUp
  BY <1>33 DEF GiveUp, SaveFails, End, serverVars, wireVars
<1>34. ASSUME NEW e \in Emails, ServeCreate(e) PROVE Safe'
  BY <1>34 DEF ServeCreate, Awaited, rowVars
<1>35. ASSUME NEW e \in Emails, LoseCreate(e) PROVE Safe'
  BY <1>35 DEF LoseCreate, rowVars, serverVars, attemptVars, worldVars
<1>36. ASSUME NEW e \in Emails, RecordExpires(e) PROVE Safe'
  BY <1>36 DEF RecordExpires, rowVars, wireVars, attemptVars, worldVars
<1>37. ASSUME NEW e \in Emails, UserMoves(e) PROVE Safe'
  BY <1>37 DEF UserMoves, rowVars, wireVars, attemptVars, worldVars
<1>38. CASE ServeSubmit
  BY <1>38 DEF ServeSubmit, SubmitReply, rowVars, worldVars
<1>39. CASE LoseSubmit
  BY <1>39 DEF LoseSubmit, rowVars, serverVars, attemptVars, worldVars
<1>40. CASE IdentityDeleted
  BY <1>40 DEF IdentityDeleted, rowVars, serverVars, wireVars, attemptVars
<1>41. CASE Crash
  BY <1>41 DEF Crash, AttemptGone, rowVars, serverVars, wireVars
<1>42. CASE Stop
  BY <1>42 DEF Stop, rowVars, serverVars, wireVars, attemptVars
<1>43. CASE Recover
  BY <1>43 DEF Recover, serverVars, wireVars, attemptVars
<1>44. CASE UNCHANGED vars
  BY <1>44 DEF vars, rowVars, serverVars, wireVars, attemptVars, worldVars
<1>45. CASE FolderFills
  BY <1>45 DEF FolderFills, rowVars, wireVars, attemptVars, worldVars
<1> QED
  BY <1>1, <1>2, <1>3, <1>4, <1>5, <1>6, <1>7, <1>8, <1>9, <1>10,
     <1>11, <1>12, <1>13, <1>14, <1>15, <1>16, <1>17, <1>18, <1>19, <1>20,
     <1>21, <1>22, <1>23, <1>24, <1>25, <1>26, <1>27, <1>28, <1>29, <1>30,
     <1>31, <1>32, <1>33, <1>34, <1>35, <1>36, <1>37, <1>38, <1>39, <1>40,
     <1>41, <1>42, <1>43, <1>44, <1>45 DEF Next, Attempt, Server

\* The strengthening is an invariant of every behaviour.
THEOREM SendSafe == Spec => []SendInv
<1>1. Init => Safe
  BY SafeInit
<1>2. TypeOK /\ Safe /\ [Next]_vars => Safe'
  BY SafeStep
<1> QED
  BY <1>1, <1>2, TypeCorrect, PTL DEF Spec, SendInv

\* The server accepts at most one submission of a send, however often the row is
\* claimed, retried, interrupted and recovered and whichever local writes fail.
THEOREM DeliveredOnce == Spec => []AtMostOneDelivery
<1>1. SendInv => AtMostOneDelivery
  BY DEF SendInv, Safe, OneSubmission, AtMostOneDelivery, TypeOK, ServerType,
     WireType
<1> QED
  BY <1>1, SendSafe, PTL

\* The phase a resume reads is never ahead of or behind the server.
THEOREM CheckpointsAgree == Spec => []CheckpointAgrees
<1>1. SendInv => CheckpointAgrees
  BY DEF SendInv, Safe, PhaseTruth, CheckpointAgrees, Quiet, Resumable
<1> QED
  BY <1>1, SendSafe, PTL

\* Trusted recipients are queued exactly when acceptance is recorded, once.
THEOREM TrustQueuedOnce == Spec => []TrustOnce
<1>1. SendInv => TrustOnce
  BY DEF SendInv, Safe
<1> QED
  BY <1>1, SendSafe, PTL

\* The composer's draft is not removed before the message went out.
THEOREM DraftKeptUntilSent == Spec => []DraftOutlivesSend
<1>1. SendInv => DraftOutlivesSend
  BY DEF SendInv, Safe
<1> QED
  BY <1>1, SendSafe, PTL

(***************************************************************************)
(* Copies.  No step looks for other copies of the message when it creates  *)
(* one: it relies on the way it came to the create.  Either the row never  *)
(* got as far as its first save, and then nothing was ever asked of the    *)
(* server, or the probe for its Message-ID has just found nothing.  The    *)
(* probe sees only the newest messages of the target folder, so it may     *)
(* have missed a buried one; and it needs that nothing was sent or moved   *)
(* out of that folder by then (EvidenceTruth).                             *)
(***************************************************************************)
\* Before the first save nothing was created; at a create every copy there is was
\* buried, and while its answer is awaited only the awaited one may not be.
CopyTruth ==
  /\ phase = "null" =>
       /\ ~ckpt.saved /\ creates = {} /\ pc \in {"idle", "start", "settle"}
       /\ \A e \in Emails : ~Live(e)
  /\ \A e \in Emails : Live(e) \/ e \in creates => e <= copies
  /\ ~late /\ pc = "create" => \A e \in Emails : Live(e) => e \in buried
  /\ ~late /\ pc = "creating" =>
       \A e \in Emails : Live(e) => e = copies \/ e \in buried

CopyInv == CopyTruth /\ SecondCopyExplained

\* A step adds a second copy only by serving a create nobody awaits.
LEMMA CopyStep == TypeOK /\ Safe /\ CopyInv /\ [Next]_vars => CopyInv'
<1> SUFFICES ASSUME TypeOK, Safe, CopyInv, [Next]_vars PROVE CopyInv'
  OBVIOUS
<1>a. /\ copies \in Nat /\ MaxCreates \in Nat /\ cp \in Checkpoints
      /\ place \in [Emails -> {"none", "target", "sent", "moved", "gone"}]
      /\ pc \in Steps /\ phase \in Phases
  BY SendAssumption DEF TypeOK, RowType, ServerType, WireType, AttemptType
<1>b. /\ pc \in Before => phase \in Resumable
      /\ pc \in Undoing => Quiet
      /\ phase \in Resumable => Quiet
      /\ phase # "null" => ckpt.saved
      /\ pc = "start" => resume = phase /\ cp = ckpt
      /\ \A e \in Emails : place[e] \in {"sent", "moved"} => deliveries = 1
  BY DEF Safe, StepTruth, PhaseTruth, EvidenceTruth
<1> USE <1>a, <1>b DEF CopyInv, CopyTruth, SecondCopyExplained, Live, Quiet,
        Resumable, Before, Undoing, Steps, Phases, Emails
<1>1. CASE Claim
  BY <1>1 DEF Claim, serverVars, wireVars, worldVars
<1>2. CASE Settle
  BY <1>2 DEF Settle, Conflict, AttemptGone, Told, RetryEnds, serverVars,
     wireVars
<1>3. CASE SettleFails
  BY <1>3 DEF SettleFails, AttemptGone, rowVars, serverVars, wireVars
<1>4. CASE StartPast
  BY <1>4 DEF StartPast, End, PostSubmission, rowVars, serverVars, wireVars,
     worldVars
<1>5. CASE StartFilingFails
  BY <1>5 DEF StartFilingFails, SaveFails, PostSubmission, serverVars, wireVars
<1>6. CASE StartSend
  BY <1>6 DEF StartSend, Save, NextStep, serverVars, wireVars
<1>7. CASE StartSendFails
  BY <1>7 DEF StartSendFails, SaveFails, End, Unsent, serverVars, wireVars
<1>8. CASE StartNoIdentity
  BY <1>8 DEF StartNoIdentity, End, Unsent, rowVars, serverVars, wireVars,
     worldVars
<1>9. CASE ProbeFound
  BY <1>9 DEF ProbeFound, rowVars, serverVars, wireVars, worldVars
<1>10. CASE ProbeAbsent
  BY <1>10 DEF ProbeAbsent, rowVars, serverVars, wireVars, worldVars
<1>11. CASE ProbeInconclusive
  BY <1>11 DEF ProbeInconclusive, End, rowVars, serverVars, wireVars,
     worldVars
<1>12. CASE PrepareFails
  BY <1>12 DEF PrepareFails, End, rowVars, serverVars, wireVars, worldVars
<1>13. CASE CreateEmail
  BY <1>13 DEF CreateEmail, rowVars, serverVars, worldVars
<1>14. CASE CreateAnswered
  BY <1>14 DEF CreateAnswered, End, rowVars, serverVars, wireVars, worldVars
<1>15. CASE CreateUnanswered
  BY <1>15 DEF CreateUnanswered, End, rowVars, serverVars, wireVars, worldVars
<1>16. CASE SaveCreated
  BY <1>16 DEF SaveCreated, Save, SaveFails, End, serverVars, wireVars
<1>17. CASE ScheduleRefused
  BY <1>17 DEF ScheduleRefused, End, rowVars, serverVars, wireVars, worldVars
<1>18. CASE Submit
  BY <1>18 DEF Submit, Save, serverVars
<1>19. CASE SubmitFails
  BY <1>19 DEF SubmitFails, SaveFails, End, serverVars, wireVars
<1>20. CASE SubmitAnswered
  BY <1>20 DEF SubmitAnswered, rowVars, serverVars, wireVars, worldVars
<1>21. CASE SubmitUnanswered
  BY <1>21 DEF SubmitUnanswered, rowVars, serverVars, wireVars, worldVars
<1>22. CASE EvidenceFound
  BY <1>22 DEF EvidenceFound, Submitted, rowVars, serverVars, wireVars,
     worldVars
<1>23. CASE EvidenceUnknown
  BY <1>23 DEF EvidenceUnknown, rowVars, serverVars, wireVars, worldVars
<1>24. CASE Park
  BY <1>24 DEF Park, Save, SaveFails, End, serverVars, wireVars
<1>25. CASE DestroyEmail
  BY <1>25 DEF DestroyEmail, rowVars, wireVars, worldVars
<1>26. CASE Rewind
  BY <1>26 DEF Rewind, Save, SaveFails, serverVars, wireVars
<1>27. CASE Accept
  BY <1>27 DEF Accept, Save, Told, serverVars, wireVars
<1>28. CASE AcceptFails
  BY <1>28 DEF AcceptFails, SaveFails, MishapsLeft, End, serverVars, wireVars
<1>29. CASE Reconcile
  BY <1>29 DEF Reconcile, Save, SaveFails, serverVars, wireVars
<1>30. CASE File
  BY <1>30 DEF File, rowVars, serverVars, wireVars, worldVars
<1>31. CASE Cleanup
  BY <1>31 DEF Cleanup, Save, SaveFails, End, wireVars
<1>32. CASE Repair
  BY <1>32 DEF Repair, Save, SaveFails, End, serverVars, wireVars
<1>33. CASE GiveUp
  BY <1>33 DEF GiveUp, SaveFails, End, serverVars, wireVars
<1>34. ASSUME NEW e \in Emails, ServeCreate(e) PROVE CopyInv'
  <2>1. CASE UNCHANGED <<place, late>>
    BY <1>34, <2>1 DEF ServeCreate, rowVars
  <2>2. CASE /\ place' = [place EXCEPT ![e] = "target"]
             /\ late' = (late \/ ~Awaited(e))
    <3>1. CASE ~Awaited(e)
      BY <1>34, <2>2, <3>1 DEF ServeCreate, rowVars
    <3>2. CASE Awaited(e)
      <4>1. pc = "creating" /\ e = copies /\ phase # "null"
        BY <3>2 DEF Awaited
      <4>2. \A f \in Emails : Live(f)' => f = e \/ Live(f)
        BY <2>2
      <4>3. UNCHANGED <<rowVars, pc, copies, buried>> /\ (late => late')
            /\ creates' \subseteq creates
        BY <1>34, <2>2, <3>2 DEF ServeCreate
      <4>4. CopyTruth'
        BY <4>1, <4>2, <4>3 DEF rowVars
      <4>5. SecondCopyExplained'
        BY <4>1, <4>2, <4>3
      <4> QED
        BY <4>4, <4>5
    <3> QED
      BY <3>1, <3>2
  <2> QED
    BY <1>34, <2>1, <2>2 DEF ServeCreate
<1>35. ASSUME NEW e \in Emails, LoseCreate(e) PROVE CopyInv'
  BY <1>35 DEF LoseCreate, rowVars, serverVars, attemptVars, worldVars
<1>36. ASSUME NEW e \in Emails, RecordExpires(e) PROVE CopyInv'
  <2>1. UNCHANGED <<rowVars, place, buried, wireVars, attemptVars, worldVars>>
    BY <1>36 DEF RecordExpires
  <2> QED
    BY <2>1 DEF rowVars, wireVars, attemptVars, worldVars
<1>37. ASSUME NEW e \in Emails, UserMoves(e) PROVE CopyInv'
  BY <1>37 DEF UserMoves, rowVars, wireVars, attemptVars, worldVars
<1>38. CASE ServeSubmit
  BY <1>38 DEF ServeSubmit, SubmitReply, rowVars, worldVars
<1>39. CASE LoseSubmit
  BY <1>39 DEF LoseSubmit, rowVars, serverVars, attemptVars, worldVars
<1>40. CASE IdentityDeleted
  BY <1>40 DEF IdentityDeleted, rowVars, serverVars, wireVars, attemptVars
<1>41. CASE Crash
  BY <1>41 DEF Crash, AttemptGone, Told, rowVars, serverVars, wireVars
<1>42. CASE Stop
  BY <1>42 DEF Stop, Told, rowVars, serverVars, wireVars, attemptVars
<1>43. CASE Recover
  BY <1>43 DEF Recover, serverVars, wireVars, attemptVars
<1>44. CASE UNCHANGED vars
  BY <1>44 DEF vars, rowVars, serverVars, wireVars, attemptVars, worldVars
<1>45. CASE FolderFills
  BY <1>45 DEF FolderFills, rowVars, wireVars, attemptVars, worldVars
<1> QED
  BY <1>1, <1>2, <1>3, <1>4, <1>5, <1>6, <1>7, <1>8, <1>9, <1>10,
     <1>11, <1>12, <1>13, <1>14, <1>15, <1>16, <1>17, <1>18, <1>19, <1>20,
     <1>21, <1>22, <1>23, <1>24, <1>25, <1>26, <1>27, <1>28, <1>29, <1>30,
     <1>31, <1>32, <1>33, <1>34, <1>35, <1>36, <1>37, <1>38, <1>39, <1>40,
     <1>41, <1>42, <1>43, <1>44, <1>45 DEF Next, Attempt, Server

\* Whatever is lost, retried or interrupted, the mailbox holds a second copy of
\* the message only if the server served a create after its caller gave up, or if
\* the older copy lay beyond the reach of the scan.
THEOREM OneCopy == Spec => []SecondCopyExplained
<1>1. Init => CopyInv
  BY DEF Init, CopyInv, CopyTruth, SecondCopyExplained, Live, NoCheckpoint
<1>2. TypeOK /\ Safe /\ CopyInv /\ [Next]_vars => CopyInv'
  BY CopyStep
<1>3. CopyInv => SecondCopyExplained
  BY DEF CopyInv
<1> QED
  BY <1>1, <1>2, <1>3, SendSafe, PTL DEF Spec, SendInv

(***************************************************************************)
(* Answers.  "failed" is said where an attempt ends as terminal, thrown or *)
(* out of retries.  Each such end is reached while the phase shows that    *)
(* nothing was submitted, except from a row whose phase was left at        *)
(* "submitting": it takes a failed local write to leave it so, and a       *)
(* second mishap (another failed write, or the identity gone) to end the   *)
(* attempt that resumes it before it asks the server.                      *)
(***************************************************************************)
Mishaps == dbFailures + (IF identity THEN 0 ELSE 1)

\* An attempt runs on a claimed row, and an outcome is decided where it ends.
AttemptTruth ==
  /\ pc # "idle" => up /\ status = "in_flight"
  /\ outcome # "none" => pc = "settle" \/ pc \in Undoing
  /\ pc \in Undoing => outcome \in {"terminal", "retryable"}
  /\ outcome \in {"confirmed", "filing"} => deliveries = 1

\* A row returns to the queue in phase submitting only after a failed write.
SubmittingAtRest ==
  phase = "submitting" =>
    \/ dbFailures > 0
    \/ /\ status \notin {"pending", "retry"} /\ pc # "start"
       /\ pc = "settle" => outcome \notin {"retryable", "filing"}

Failing == pc = "settle" /\ outcome \in {"terminal", "thrown", "retryable"}

\* What is about to be called a failure, or was, is one.
FailureTruth ==
  /\ Failing \/ answer = "failed" => Quiet \/ Mishaps > 1
  /\ answer = "failed" => status = "conflicted"
  /\ answer = "sent" => deliveries = 1

\* A checkpoint that says the draft is gone is right, and a row that is to retire
\* as sent leaves no draft that nobody owes.
DraftTruth ==
  /\ ~ckpt.drafts \/ ~cp.drafts => ~draft
  /\ outcome = "confirmed" => ~draft \/ repair \/ keepDraft \/ dbFailures > 0

Honest == AttemptTruth /\ SubmittingAtRest /\ FailureTruth /\ DraftTruth

\* A step preserves all four: one step of the proof per action.
LEMMA HonestStep == TypeOK /\ Safe /\ Honest /\ [Next]_vars => Honest'
<1> SUFFICES ASSUME TypeOK, Safe, Honest, [Next]_vars PROVE Honest'
  OBVIOUS
<1>a. /\ deliveries \in Nat /\ submits \in Nat /\ dbFailures \in Nat
      /\ cp \in Checkpoints /\ ckpt \in Checkpoints
      /\ pc \in Steps /\ phase \in Phases /\ outcome \in Outcomes
      /\ status \in {"pending", "in_flight", "retry", "conflicted", "gone"}
      /\ draft \in BOOLEAN /\ keepDraft \in BOOLEAN /\ repair \in BOOLEAN
      /\ identity \in BOOLEAN
  BY SendAssumption DEF TypeOK, RowType, ServerType, WireType, AttemptType,
     WorldType
<1> USE <1>a DEF Honest, AttemptTruth, SubmittingAtRest, FailureTruth, DraftTruth,
        Mishaps, Failing, Safe, OneSubmission, PhaseTruth, EvidenceTruth,
        StepTruth, ReplyTruth, Quiet, Resumable, Before, Asking, Undoing, Filing,
        PostSubmission, Unsent, Checkpoints, Steps, Phases, Outcomes
<1>1. CASE Claim
  BY <1>1 DEF Claim, serverVars, wireVars, worldVars
<1>2. CASE Settle
  BY <1>2 DEF Settle, Conflict, AttemptGone, NoCheckpoint, Told, RetryEnds,
     serverVars, wireVars
<1>3. CASE SettleFails
  BY <1>3 DEF SettleFails, AttemptGone, NoCheckpoint, rowVars, serverVars,
     wireVars
<1>4. CASE StartPast
  BY <1>4 DEF StartPast, End, rowVars, serverVars, wireVars, worldVars
<1>5. CASE StartFilingFails
  BY <1>5 DEF StartFilingFails, SaveFails, serverVars, wireVars
<1>6. CASE StartSend
  BY <1>6 DEF StartSend, Save, NextStep, serverVars, wireVars
<1>7. CASE StartSendFails
  BY <1>7 DEF StartSendFails, SaveFails, End, Unsent, serverVars, wireVars
<1>8. CASE StartNoIdentity
  BY <1>8 DEF StartNoIdentity, End, Unsent, rowVars, serverVars, wireVars,
     worldVars
<1>9. CASE ProbeFound
  BY <1>9 DEF ProbeFound, rowVars, serverVars, wireVars, worldVars
<1>10. CASE ProbeAbsent
  BY <1>10 DEF ProbeAbsent, rowVars, serverVars, wireVars, worldVars
<1>11. CASE ProbeInconclusive
  BY <1>11 DEF ProbeInconclusive, End, rowVars, serverVars, wireVars,
     worldVars
<1>12. CASE PrepareFails
  BY <1>12 DEF PrepareFails, End, rowVars, serverVars, wireVars, worldVars
<1>13. CASE CreateEmail
  BY <1>13 DEF CreateEmail, rowVars, serverVars, worldVars
<1>14. CASE CreateAnswered
  BY <1>14 DEF CreateAnswered, End, rowVars, serverVars, wireVars, worldVars
<1>15. CASE CreateUnanswered
  BY <1>15 DEF CreateUnanswered, End, rowVars, serverVars, wireVars, worldVars
<1>16. CASE SaveCreated
  BY <1>16 DEF SaveCreated, Save, SaveFails, End, serverVars, wireVars
<1>17. CASE ScheduleRefused
  BY <1>17 DEF ScheduleRefused, End, rowVars, serverVars, wireVars, worldVars
<1>18. CASE Submit
  BY <1>18 DEF Submit, Save, serverVars
<1>19. CASE SubmitFails
  BY <1>19 DEF SubmitFails, SaveFails, End, serverVars, wireVars
<1>20. CASE SubmitAnswered
  BY <1>20 DEF SubmitAnswered, rowVars, serverVars, wireVars, worldVars
<1>21. CASE SubmitUnanswered
  BY <1>21 DEF SubmitUnanswered, rowVars, serverVars, wireVars, worldVars
<1>22. CASE EvidenceFound
  BY <1>22 DEF EvidenceFound, Submitted, rowVars, serverVars, wireVars,
     worldVars
<1>23. CASE EvidenceUnknown
  BY <1>23 DEF EvidenceUnknown, rowVars, serverVars, wireVars, worldVars
<1>24. CASE Park
  BY <1>24 DEF Park, Save, SaveFails, End, serverVars, wireVars
<1>25. CASE DestroyEmail
  BY <1>25 DEF DestroyEmail, rowVars, wireVars, worldVars
<1>26. CASE Rewind
  BY <1>26 DEF Rewind, Save, SaveFails, serverVars, wireVars
<1>27. CASE Accept
  BY <1>27 DEF Accept, Save, Told, serverVars, wireVars
<1>28. CASE AcceptFails
  BY <1>28 DEF AcceptFails, SaveFails, MishapsLeft, End, serverVars, wireVars
<1>29. CASE Reconcile
  BY <1>29 DEF Reconcile, Save, SaveFails, serverVars, wireVars
<1>30. CASE File
  BY <1>30 DEF File, rowVars, serverVars, wireVars, worldVars
<1>31. CASE Cleanup
  <2>1. /\ pc = "cleanup" /\ deliveries = 1
        /\ UNCHANGED <<status, repair, deliveries, submits, keepDraft, up,
                       identity, answer>>
    BY <1>31 DEF Cleanup, wireVars
  <2>2. CASE /\ ~cp.drafts /\ End("confirmed")
             /\ UNCHANGED <<phase, ckpt, cp, dbFailures, draft>>
    BY <2>1, <2>2 DEF End
  <2>3. CASE /\ draft' = FALSE /\ End("confirmed")
             /\ Save([cp EXCEPT !.drafts = FALSE], "cache_pending")
    BY <2>1, <2>3 DEF End, Save
  <2>4. CASE draft' = FALSE /\ SaveFails /\ pc' = "repair" /\ UNCHANGED outcome
    BY <2>1, <2>4 DEF SaveFails
  <2>5. CASE /\ draft' \in {draft, FALSE} /\ pc' = "repair"
             /\ UNCHANGED <<phase, ckpt, cp, dbFailures, outcome>>
    BY <2>1, <2>5
  <2> QED
    BY <1>31, <2>2, <2>3, <2>4, <2>5 DEF Cleanup
<1>32. CASE Repair
  BY <1>32 DEF Repair, Save, SaveFails, End, serverVars, wireVars
<1>33. CASE GiveUp
  BY <1>33 DEF GiveUp, SaveFails, End, serverVars, wireVars
<1>34. ASSUME NEW e \in Emails, ServeCreate(e) PROVE Honest'
  BY <1>34 DEF ServeCreate, Awaited, rowVars
<1>35. ASSUME NEW e \in Emails, LoseCreate(e) PROVE Honest'
  BY <1>35 DEF LoseCreate, rowVars, serverVars, attemptVars, worldVars
<1>36. ASSUME NEW e \in Emails, RecordExpires(e) PROVE Honest'
  BY <1>36 DEF RecordExpires, rowVars, wireVars, attemptVars, worldVars
<1>37. ASSUME NEW e \in Emails, UserMoves(e) PROVE Honest'
  BY <1>37 DEF UserMoves, rowVars, wireVars, attemptVars, worldVars
<1>38. CASE ServeSubmit
  BY <1>38 DEF ServeSubmit, SubmitReply, rowVars, worldVars
<1>39. CASE LoseSubmit
  BY <1>39 DEF LoseSubmit, rowVars, serverVars, attemptVars, worldVars
<1>40. CASE IdentityDeleted
  BY <1>40 DEF IdentityDeleted, rowVars, serverVars, wireVars, attemptVars
<1>41. CASE Crash
  BY <1>41 DEF Crash, AttemptGone, NoCheckpoint, Told, rowVars, serverVars,
     wireVars
<1>42. CASE Stop
  BY <1>42 DEF Stop, Told, rowVars, serverVars, wireVars, attemptVars
<1>43. CASE Recover
  BY <1>43 DEF Recover, serverVars, wireVars, attemptVars
<1>44. CASE UNCHANGED vars
  BY <1>44 DEF vars, rowVars, serverVars, wireVars, attemptVars, worldVars
<1>45. CASE FolderFills
  BY <1>45 DEF FolderFills, rowVars, wireVars, attemptVars, worldVars
<1> QED
  BY <1>1, <1>2, <1>3, <1>4, <1>5, <1>6, <1>7, <1>8, <1>9, <1>10,
     <1>11, <1>12, <1>13, <1>14, <1>15, <1>16, <1>17, <1>18, <1>19, <1>20,
     <1>21, <1>22, <1>23, <1>24, <1>25, <1>26, <1>27, <1>28, <1>29, <1>30,
     <1>31, <1>32, <1>33, <1>34, <1>35, <1>36, <1>37, <1>38, <1>39, <1>40,
     <1>41, <1>42, <1>43, <1>44, <1>45 DEF Next, Attempt, Server

\* They hold in every behaviour.
LEMMA HonestAlways == Spec => []Honest
<1>1. Init => Honest
  BY DEF Init, Honest, AttemptTruth, SubmittingAtRest, FailureTruth, DraftTruth,
     Failing, Undoing, NoCheckpoint
<1>2. TypeOK /\ Safe /\ Honest /\ [Next]_vars => Honest'
  BY HonestStep
<1> QED
  BY <1>1, <1>2, SendSafe, PTL DEF Spec, SendInv

\* The composer is told "sent" only of a message that went out.  It is told
\* "failed" only of one that neither did nor will, as long as no more than one
\* local write failed or identity vanished: the run SendIdentityGone shows that
\* two suffice for a false "failed".
THEOREM AnswersTrue ==
  Spec => []( /\ answer = "sent" => deliveries = 1
              /\ Mishaps <= 1 => AnswerIsTrue )
<1>1. TypeOK /\ Honest =>
        /\ answer = "sent" => deliveries = 1
        /\ Mishaps <= 1 => AnswerIsTrue
  BY DEF Honest, FailureTruth, AnswerIsTrue, Quiet, Mishaps, TypeOK, WorldType
<1> QED
  BY <1>1, TypeCorrect, HonestAlways, PTL

\* A row about to retire as sent leaves no draft behind that nobody owes.
THEOREM CleanupNotLost == Spec => []CleanupOwed
<1>1. Honest => CleanupOwed
  BY DEF Honest, DraftTruth, CleanupOwed
<1> QED
  BY <1>1, HonestAlways, PTL
=============================================================================

--------------------------- MODULE SendRefinement ---------------------------
(***************************************************************************)
(* Proof that the send operation keeps the promise of DurableSend as long  *)
(* as the local database serves its statements (MaxDbFailures = 0), for    *)
(* every retry budget, any number of restarts and lost requests, immediate *)
(* or scheduled, with or without identities disappearing.                  *)
(*                                                                         *)
(* The condition is needed: the run SendIdentityGone shows a row whose     *)
(* acceptance could not be written and which is then parked as failed.     *)
(***************************************************************************)
EXTENDS SendProofs

\* A row at rest in the queue carries a phase that can be acted on, one that was
\* parked says so truthfully, and one that retired was accepted.
RowVerdict ==
  /\ status \in {"pending", "retry"} => phase \notin {"submitting", "unknown"}
  /\ status = "gone" => phase \in PostSubmission
  /\ status = "conflicted" <=> error # "none"
  /\ error = "plain" => phase \in Resumable
  /\ error = "submitted" => phase \in PostSubmission
  /\ error = "outcomeUnknown" => phase \in {"submitting", "unknown"}

\* An attempt runs only on a claimed row, and ends with an outcome that matches
\* the phase it leaves behind.
AttemptVerdict ==
  /\ pc # "idle" => up /\ status = "in_flight"
  /\ pc = "start" => phase # "submitting"
  /\ pc \in Undoing => outcome \in {"terminal", "retryable"}
  /\ pc = "settle" =>
       /\ outcome \in {"terminal", "thrown", "retryable"} => phase \in Resumable
       /\ outcome \in {"filing", "confirmed"} => phase \in PostSubmission
       /\ outcome = "ambiguous" => phase = "unknown"
       /\ outcome # "none"

Clean == dbFailures = 0 /\ RowVerdict /\ AttemptVerdict

\* With a database that serves every statement, a step preserves Clean.
LEMMA CleanStep ==
  ASSUME MaxDbFailures = 0
  PROVE  TypeOK /\ Safe /\ Clean /\ [Next]_vars => Clean'
<1> SUFFICES ASSUME TypeOK, Safe, Clean, [Next]_vars PROVE Clean'
  OBVIOUS
<1>a. ~SaveFails /\ ~SettleFails
  BY DEF SaveFails, SettleFails, Clean
<1>b. pc \in Steps /\ phase \in Phases /\ outcome \in Outcomes
      /\ status \in {"pending", "in_flight", "retry", "conflicted", "gone"}
      /\ error \in {"none", "plain", "submitted", "outcomeUnknown"}
  BY DEF TypeOK, RowType, AttemptType
<1>c. /\ pc \in Before => phase \in Resumable
      /\ pc \in Asking => phase = "submitting"
      /\ pc \in Undoing => Quiet /\ phase \notin PostSubmission
      /\ pc \in Filing => phase \in PostSubmission
      /\ pc = "start" => resume = phase /\ cp = ckpt
      /\ phase \in PostSubmission => ckpt.email # 0 /\ ckpt.submission
  BY DEF Safe, StepTruth, PhaseTruth
<1> USE <1>a, <1>b, <1>c DEF Clean, RowVerdict, AttemptVerdict, Resumable,
        Before, Asking, Undoing, Filing, PostSubmission, Phases, Steps, Outcomes,
        Unsent
<1>1. CASE Claim
  BY <1>1 DEF Claim, serverVars, wireVars, worldVars
<1>2. CASE Settle
  BY <1>2 DEF Settle, AttemptGone, Conflict, RetryEnds, serverVars,
     wireVars
<1>3. CASE SettleFails
  BY <1>3 DEF SettleFails, AttemptGone, rowVars, serverVars, wireVars
<1>4. CASE StartPast
  BY <1>4 DEF StartPast, End, rowVars, serverVars, wireVars, worldVars
<1>5. CASE StartFilingFails
  BY <1>5 DEF StartFilingFails, serverVars, wireVars
<1>6. CASE StartSend
  BY <1>6 DEF StartSend, Save, NextStep, Unsent, serverVars, wireVars
<1>7. CASE StartSendFails
  BY <1>7 DEF StartSendFails, End, Unsent, serverVars, wireVars
<1>8. CASE StartNoIdentity
  BY <1>8 DEF StartNoIdentity, End, Unsent, rowVars, serverVars, wireVars,
     worldVars
<1>9. CASE ProbeFound
  BY <1>9 DEF ProbeFound, rowVars, serverVars, wireVars, worldVars
<1>10. CASE ProbeAbsent
  BY <1>10 DEF ProbeAbsent, rowVars, serverVars, wireVars, worldVars
<1>11. CASE ProbeInconclusive
  BY <1>11 DEF ProbeInconclusive, End, rowVars, serverVars, wireVars,
     worldVars
<1>12. CASE PrepareFails
  BY <1>12 DEF PrepareFails, End, rowVars, serverVars, wireVars, worldVars
<1>13. CASE CreateEmail
  BY <1>13 DEF CreateEmail, rowVars, serverVars, worldVars
<1>14. CASE CreateAnswered
  BY <1>14 DEF CreateAnswered, End, rowVars, serverVars, wireVars,
     worldVars
<1>15. CASE CreateUnanswered
  BY <1>15 DEF CreateUnanswered, End, rowVars, serverVars, wireVars,
     worldVars
<1>16. CASE SaveCreated
  BY <1>16 DEF SaveCreated, Save, End, serverVars, wireVars
<1>17. CASE ScheduleRefused
  BY <1>17 DEF ScheduleRefused, End, rowVars, serverVars, wireVars,
     worldVars
<1>18. CASE Submit
  BY <1>18 DEF Submit, Save, serverVars
<1>19. CASE SubmitFails
  BY <1>19 DEF SubmitFails, End, serverVars, wireVars
<1>20. CASE SubmitAnswered
  BY <1>20 DEF SubmitAnswered, rowVars, serverVars, wireVars, worldVars
<1>21. CASE SubmitUnanswered
  BY <1>21 DEF SubmitUnanswered, rowVars, serverVars, wireVars, worldVars
<1>22. CASE EvidenceFound
  BY <1>22 DEF EvidenceFound, Submitted, rowVars, serverVars, wireVars,
     worldVars
<1>23. CASE EvidenceUnknown
  BY <1>23 DEF EvidenceUnknown, rowVars, serverVars, wireVars, worldVars
<1>24. CASE Park
  BY <1>24 DEF Park, Save, End, serverVars, wireVars
<1>25. CASE DestroyEmail
  BY <1>25 DEF DestroyEmail, rowVars, wireVars, worldVars
<1>26. CASE Rewind
  BY <1>26 DEF Rewind, Save, serverVars, wireVars
<1>27. CASE Accept
  BY <1>27 DEF Accept, Save, serverVars, wireVars
<1>28. CASE AcceptFails
  BY <1>28 DEF AcceptFails, End, serverVars, wireVars
<1>29. CASE Reconcile
  BY <1>29 DEF Reconcile, Save, serverVars, wireVars
<1>30. CASE File
  BY <1>30 DEF File, rowVars, serverVars, wireVars, worldVars
<1>31. CASE Cleanup
  BY <1>31 DEF Cleanup, Save, End, wireVars
<1>32. CASE Repair
  BY <1>32 DEF Repair, Save, End, serverVars, wireVars
<1>33. CASE GiveUp
  BY <1>33 DEF GiveUp, End, serverVars, wireVars
<1>34. ASSUME NEW e \in Emails, ServeCreate(e) PROVE Clean'
  BY <1>34 DEF ServeCreate, Awaited, rowVars
<1>35. ASSUME NEW e \in Emails, LoseCreate(e) PROVE Clean'
  BY <1>35 DEF LoseCreate, rowVars, serverVars, attemptVars, worldVars
<1>36. ASSUME NEW e \in Emails, RecordExpires(e) PROVE Clean'
  BY <1>36 DEF RecordExpires, rowVars, wireVars, attemptVars, worldVars
<1>37. ASSUME NEW e \in Emails, UserMoves(e) PROVE Clean'
  BY <1>37 DEF UserMoves, rowVars, wireVars, attemptVars, worldVars
<1>38. CASE ServeSubmit
  BY <1>38 DEF ServeSubmit, SubmitReply, rowVars, worldVars
<1>39. CASE LoseSubmit
  BY <1>39 DEF LoseSubmit, rowVars, serverVars, attemptVars, worldVars
<1>40. CASE IdentityDeleted
  BY <1>40 DEF IdentityDeleted, rowVars, serverVars, wireVars, attemptVars
<1>41. CASE Crash
  BY <1>41 DEF Crash, AttemptGone, rowVars, serverVars, wireVars
<1>42. CASE Stop
  BY <1>42 DEF Stop, rowVars, serverVars, wireVars, attemptVars
<1>43. CASE Recover
  BY <1>43 DEF Recover, serverVars, wireVars, attemptVars
<1>44. CASE UNCHANGED vars
  BY <1>44 DEF vars, rowVars, serverVars, wireVars, attemptVars, worldVars
<1>45. CASE FolderFills
  BY <1>45 DEF FolderFills, rowVars, wireVars, attemptVars, worldVars
<1> QED
  BY <1>1, <1>2, <1>3, <1>4, <1>5, <1>6, <1>7, <1>8, <1>9, <1>10,
     <1>11, <1>12, <1>13, <1>14, <1>15, <1>16, <1>17, <1>18, <1>19, <1>20,
     <1>21, <1>22, <1>23, <1>24, <1>25, <1>26, <1>27, <1>28, <1>29, <1>30,
     <1>31, <1>32, <1>33, <1>34, <1>35, <1>36, <1>37, <1>38, <1>39, <1>40,
     <1>41, <1>42, <1>43, <1>44, <1>45 DEF Next, Attempt, Server

\* Every step of the send operation is a step of DurableSend or leaves delivery
\* and verdict alone.
LEMMA StepRefines ==
  ASSUME MaxDbFailures = 0
  PROVE  TypeOK /\ Safe /\ Clean /\ [Next]_vars => [Promise!Next]_(Promise!vars)
<1> SUFFICES ASSUME TypeOK, Safe, Clean, [Next]_vars
             PROVE  [Promise!Next]_(Promise!vars)
  OBVIOUS
<1>a. ~SaveFails /\ ~SettleFails
  BY DEF SaveFails, SettleFails, Clean
<1>b. /\ deliveries \in Nat /\ submits \in Nat /\ deliveries + submits <= 1
      /\ phase \in Resumable => deliveries = 0 /\ submits = 0
      /\ phase \in PostSubmission => deliveries = 1
      /\ pc = "accept" => deliveries = 1
      /\ pc \in Before => phase \in Resumable
      /\ pc \in Asking => phase = "submitting"
      /\ pc \in Undoing => phase \notin PostSubmission
      /\ pc \in Filing => phase \in PostSubmission
  BY DEF Safe, OneSubmission, StepTruth, PhaseTruth, Quiet, TypeOK, ServerType,
     WireType
<1>d. pc = "start" => resume = phase
  BY DEF Safe, StepTruth
<1>c. CASE UNCHANGED <<deliveries, Verdict>>
  BY <1>c DEF Promise!vars
<1> USE <1>a, <1>b, <1>c DEF Clean, RowVerdict, AttemptVerdict, Resumable,
        Before, Asking, Undoing, Filing, PostSubmission, Unsent, Verdict
<1>1. CASE Claim
  BY <1>1 DEF Claim, serverVars, wireVars, worldVars
<1>2. CASE Settle
  <2>1. pc = "settle" /\ status = "in_flight" /\ error = "none"
        /\ UNCHANGED <<deliveries, phase>>
    BY <1>2 DEF Settle, serverVars
  <2>2. phase \notin PostSubmission => Verdict = "open"
    BY <2>1
  <2>3. CASE phase \in PostSubmission
    BY <2>1, <2>3
  <2>4. CASE outcome \in {"terminal", "thrown", "retryable"} /\ status' = "conflicted"
    <3>1. error' = "plain" /\ phase \in Resumable
      BY <1>2, <2>1, <2>4 DEF Settle, Conflict
    <3>2. Verdict' = "rejected"
      BY <2>1, <2>4, <3>1
    <3> QED
      BY <1>b, <2>1, <2>2, <3>1, <3>2 DEF Promise!Next, Promise!Reject
  <2>5. CASE outcome = "ambiguous"
    <3>1. status' = "conflicted" /\ error' = "outcomeUnknown" /\ phase = "unknown"
      BY <1>2, <2>1, <2>5 DEF Settle, Conflict
    <3>2. Verdict' = "unknown"
      BY <2>1, <3>1
    <3> QED
      BY <2>1, <2>2, <3>1, <3>2 DEF Promise!Next, Promise!GiveUp
  <2>6. CASE status' = "retry" /\ phase \notin PostSubmission
    <3>1. error' = "none"
      BY <1>2, <2>1, <2>6 DEF Settle, Conflict
    <3>2. Verdict' = "open"
      BY <2>1, <2>6, <3>1
    <3> QED
      BY <2>1, <2>2, <2>6, <3>2
  <2> QED
    BY <1>2, <2>1, <2>3, <2>4, <2>5, <2>6 DEF Settle, Conflict
<1>3. CASE SettleFails
  BY <1>3 DEF SettleFails, rowVars, serverVars, wireVars
<1>4. CASE StartPast
  BY <1>4 DEF StartPast, End, rowVars, serverVars, wireVars, worldVars
<1>5. CASE StartFilingFails
  BY <1>5 DEF StartFilingFails, serverVars, wireVars
<1>6. CASE StartSend
  <2>1. UNCHANGED <<deliveries, status, error>>
    BY <1>6 DEF StartSend, serverVars
  <2>2. phase \notin PostSubmission /\ phase' \notin PostSubmission
    <3>1. pc = "start" /\ resume \in Unsent /\ phase = resume
      BY <1>6, <1>d DEF StartSend
    <3>2. phase' = phase \/ phase' = "queued"
      BY <1>6 DEF StartSend, Save
    <3> QED
      BY <3>1, <3>2
  <2>3. UNCHANGED Verdict
    BY <2>1, <2>2
  <2> QED
    BY <2>1, <2>3
<1>7. CASE StartSendFails
  BY <1>7 DEF StartSendFails, Unsent, serverVars, wireVars
<1>8. CASE StartNoIdentity
  BY <1>8 DEF StartNoIdentity, Unsent, rowVars, serverVars, wireVars,
     worldVars
<1>9. CASE ProbeFound
  BY <1>9 DEF ProbeFound, rowVars, serverVars, wireVars, worldVars
<1>10. CASE ProbeAbsent
  BY <1>10 DEF ProbeAbsent, rowVars, serverVars, wireVars, worldVars
<1>11. CASE ProbeInconclusive
  BY <1>11 DEF ProbeInconclusive, rowVars, serverVars, wireVars, worldVars
<1>12. CASE PrepareFails
  BY <1>12 DEF PrepareFails, rowVars, serverVars, wireVars, worldVars
<1>13. CASE CreateEmail
  BY <1>13 DEF CreateEmail, rowVars, serverVars, worldVars
<1>14. CASE CreateAnswered
  BY <1>14 DEF CreateAnswered, rowVars, serverVars, wireVars, worldVars
<1>15. CASE CreateUnanswered
  BY <1>15 DEF CreateUnanswered, rowVars, serverVars, wireVars, worldVars
<1>16. CASE SaveCreated
  BY <1>16 DEF SaveCreated, Save, serverVars, wireVars
<1>17. CASE ScheduleRefused
  BY <1>17 DEF ScheduleRefused, rowVars, serverVars, wireVars, worldVars
<1>18. CASE Submit
  BY <1>18 DEF Submit, Save, serverVars
<1>19. CASE SubmitFails
  BY <1>19 DEF SubmitFails, serverVars, wireVars
<1>20. CASE SubmitAnswered
  BY <1>20 DEF SubmitAnswered, rowVars, serverVars, wireVars, worldVars
<1>21. CASE SubmitUnanswered
  BY <1>21 DEF SubmitUnanswered, rowVars, serverVars, wireVars, worldVars
<1>22. CASE EvidenceFound
  BY <1>22 DEF EvidenceFound, Submitted, rowVars, serverVars, wireVars,
     worldVars
<1>23. CASE EvidenceUnknown
  BY <1>23 DEF EvidenceUnknown, rowVars, serverVars, wireVars, worldVars
<1>24. CASE Park
  BY <1>24 DEF Park, Save, serverVars, wireVars
<1>25. CASE DestroyEmail
  BY <1>25 DEF DestroyEmail, rowVars, wireVars, worldVars
<1>26. CASE Rewind
  BY <1>26 DEF Rewind, Save, serverVars, wireVars
<1>27. CASE Accept
  <2>1. pc = "accept" /\ phase' = "submitted" /\ UNCHANGED <<deliveries, status>>
    BY <1>27 DEF Accept, Save, serverVars
  <2>2. Verdict = "open" /\ deliveries = 1
    BY <1>b, <2>1
  <2>3. Verdict' = "accepted"
    BY <2>1
  <2> QED
    BY <2>1, <2>2, <2>3 DEF Promise!Next, Promise!Accept
<1>28. CASE AcceptFails
  BY <1>28 DEF AcceptFails, serverVars, wireVars
<1>29. CASE Reconcile
  BY <1>29 DEF Reconcile, Save, serverVars, wireVars
<1>30. CASE File
  BY <1>30 DEF File, rowVars, serverVars, wireVars, worldVars
<1>31. CASE Cleanup
  BY <1>31 DEF Cleanup, Save, wireVars
<1>32. CASE Repair
  BY <1>32 DEF Repair, Save, serverVars, wireVars
<1>33. CASE GiveUp
  BY <1>33 DEF GiveUp, serverVars, wireVars
<1>34. ASSUME NEW e \in Emails, ServeCreate(e) PROVE [Promise!Next]_(Promise!vars)
  BY <1>34 DEF ServeCreate, Awaited, rowVars
<1>35. ASSUME NEW e \in Emails, LoseCreate(e) PROVE [Promise!Next]_(Promise!vars)
  BY <1>35 DEF LoseCreate, rowVars, serverVars, attemptVars, worldVars
<1>36. ASSUME NEW e \in Emails, RecordExpires(e) PROVE [Promise!Next]_(Promise!vars)
  BY <1>36 DEF RecordExpires, rowVars, wireVars, attemptVars, worldVars
<1>37. ASSUME NEW e \in Emails, UserMoves(e) PROVE [Promise!Next]_(Promise!vars)
  BY <1>37 DEF UserMoves, rowVars, wireVars, attemptVars, worldVars
<1>38. CASE ServeSubmit
  <2>1. UNCHANGED Verdict
    BY <1>38 DEF ServeSubmit, rowVars
  <2>2. submits = 1 /\ deliveries = 0
    BY <1>b, <1>38 DEF ServeSubmit
  <2>3. Verdict \in {"open", "unknown"}
    <3>1. phase \notin Resumable /\ phase \notin PostSubmission
      BY <1>b, <2>2
    <3> QED
      BY <3>1
  <2>4. deliveries' \in {0, 1}
    BY <1>38, <2>2 DEF ServeSubmit
  <2>5. CASE deliveries' = 1
    BY <2>1, <2>2, <2>3, <2>5 DEF Promise!Next, Promise!Deliver
  <2>6. CASE deliveries' = 0
    BY <2>1, <2>2, <2>6
  <2> QED
    BY <2>4, <2>5, <2>6
<1>39. CASE LoseSubmit
  BY <1>39 DEF LoseSubmit, rowVars, serverVars, attemptVars, worldVars
<1>40. CASE IdentityDeleted
  BY <1>40 DEF IdentityDeleted, rowVars, serverVars, wireVars, attemptVars
<1>41. CASE Crash
  BY <1>41 DEF Crash, rowVars, serverVars, wireVars
<1>42. CASE Stop
  BY <1>42 DEF Stop, rowVars, serverVars, wireVars, attemptVars
<1>43. CASE Recover
  <2>1. UNCHANGED <<deliveries, phase>>
    BY <1>43 DEF Recover, serverVars
  <2>2. CASE status = "in_flight" /\ phase \in {"submitting", "unknown"}
    <3>1. status' = "conflicted" /\ error' = "outcomeUnknown"
      BY <1>43, <2>2 DEF Recover
    <3>2. Verdict = "open" /\ Verdict' = "unknown"
      BY <2>1, <2>2, <3>1
    <3> QED
      BY <2>1, <3>2 DEF Promise!Next, Promise!GiveUp
  <2>3. CASE status = "in_flight" /\ phase \notin {"submitting", "unknown"}
    <3>1. status' = "pending" /\ error' = error
      BY <1>43, <2>3 DEF Recover
    <3>2. UNCHANGED Verdict
      BY <2>1, <2>3, <3>1
    <3> QED
      BY <2>1, <3>2
  <2>4. CASE status # "in_flight"
    <3>1. UNCHANGED <<status, error>>
      BY <1>43, <2>4 DEF Recover
    <3> QED
      BY <2>1, <3>1
  <2> QED
    BY <2>2, <2>3, <2>4
<1>44. CASE UNCHANGED vars
  BY <1>44 DEF vars, rowVars, serverVars, wireVars, attemptVars, worldVars
<1>45. CASE FolderFills
  BY <1>45 DEF FolderFills, rowVars, wireVars, attemptVars, worldVars
<1> QED
  BY <1>1, <1>2, <1>3, <1>4, <1>5, <1>6, <1>7, <1>8, <1>9, <1>10,
     <1>11, <1>12, <1>13, <1>14, <1>15, <1>16, <1>17, <1>18, <1>19, <1>20,
     <1>21, <1>22, <1>23, <1>24, <1>25, <1>26, <1>27, <1>28, <1>29, <1>30,
     <1>31, <1>32, <1>33, <1>34, <1>35, <1>36, <1>37, <1>38, <1>39, <1>40,
     <1>41, <1>42, <1>43, <1>44, <1>45 DEF Next, Attempt, Server

\* The initial states are those of DurableSend, and clean.
LEMMA CleanInit == Init => Promise!Init /\ Clean
  BY DEF Init, Clean, RowVerdict, AttemptVerdict, PostSubmission, Resumable,
         Undoing, Promise!Init, Verdict

\* With a database that serves every statement, the send operation implements
\* DurableSend: at most one delivery, and a record that never claims more or less
\* than is true (runSend, send-checkpoint.ts and the runner's settle and
\* recoverStranded together).
THEOREM SendKeepsPromise ==
  ASSUME MaxDbFailures = 0
  PROVE  Spec => KeepsPromise
<1>1. Init => Promise!Init /\ Clean
  BY CleanInit
<1>2. TypeOK /\ Safe /\ Clean /\ [Next]_vars => Clean'
  BY CleanStep
<1>3. TypeOK /\ Safe /\ Clean /\ [Next]_vars => [Promise!Next]_(Promise!vars)
  BY StepRefines
<1>4. Spec => [](TypeOK /\ Safe)
  BY SendSafe, PTL DEF SendInv
<1> QED
  BY <1>1, <1>2, <1>3, <1>4, PTL DEF Spec, KeepsPromise, Promise!Spec
=============================================================================

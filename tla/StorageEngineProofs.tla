------------------------ MODULE StorageEngineProofs ------------------------
(***************************************************************************)
(* Proofs about StorageEngine, for every number of files, chunks, jobs and *)
(* requests, and every budget of faults: its types; that StoredInv,        *)
(* KeptInv and BytesInv are inductive, and what follows from them; and     *)
(* that the engine implements FileLifecycle.                               *)
(*                                                                         *)
(* StoredInv is inductive on its own: READY and LOST are only given by a   *)
(* job or a request that saw all chunks stored (PublishInv), which only    *)
(* the end of the file undoes. KeptInv needs it: two chunks never share a  *)
(* message, so what is deleted for one file is not missed by another.      *)
(***************************************************************************)
EXTENDS StorageEngine, TLAPS

USE DEF JobAt, UploadAt, DeleteAt, CheckAt, RetryAt, Batch

JobPcs == {"free", "queued", "marking", "waiting", "sending", "posted",
           "writing", "verifying", "unstaging", "counting", "publishing",
           "orphan", "cleaning", "failing", "flagging"}

LEMMA GotoType ==
  ASSUME TypeOK, NEW j \in Jobs, NEW pc \in JobPcs, Goto(j, pc)
  PROVE  job' \in [Jobs -> JobType]
  BY DEF TypeOK, Goto, JobType, JobPcs

LEMMA FinishType ==
  ASSUME TypeOK, NEW j \in Jobs, Finish(j)
  PROVE  job' \in [Jobs -> JobType]
  BY EngineAssumption DEF TypeOK, Finish, JobType, FreeJob, NoMsg

LEMMA FailAttemptType ==
  ASSUME TypeOK, NEW j \in Jobs, FailAttempt(j)
  PROVE  job' \in [Jobs -> JobType]
<1> DEFINE next == IF job[j].attempt < MaxAttempts
      THEN JobAt("queued", job[j].key, job[j].attempt + 1, NoMsg)
      ELSE JobAt("failing", job[j].key, job[j].attempt, NoMsg)
<1>1. job[j] \in JobType
  BY DEF TypeOK
<1>2. next \in JobType
  BY <1>1, EngineAssumption DEF JobType, NoMsg
<1>3. job' = [job EXCEPT ![j] = next]
  BY DEF FailAttempt
<1> HIDE DEF next
<1> QED
  BY <1>2, <1>3 DEF TypeOK

LEMMA NewJobType ==
  ASSUME TypeOK, NEW j \in Jobs, NEW k \in ChunkIds,
         job' = [job EXCEPT ![j] = NewJob(k)]
  PROVE  job' \in [Jobs -> JobType]
  BY EngineAssumption DEF TypeOK, NewJob, JobType, NoMsg

CheckPcs == {"idle", "verify", "verifyRepair", "lost", "repair", "stream"}

LEMMA CheckGotoType ==
  ASSUME TypeOK, NEW q \in Checkers, NEW pc \in CheckPcs, CheckGoto(q, pc)
  PROVE  check' \in [Checkers -> CheckType]
  BY DEF TypeOK, CheckGoto, CheckType, CheckPcs, IdleCheck, NoFile

\* What posting a message does to the channel and its history.
LEMMA PostFacts ==
  ASSUME TypeOK, NEW k \in ChunkIds, Post(k)
  PROVE  /\ log' \in Seq(ChunkIds)
         /\ Len(log) \in Nat
         /\ Len(log') = Len(log) + 1
         /\ channel' \subseteq 1..Len(log')
         /\ byHand' \subseteq 1..Len(log')
         /\ \A m \in 1..Len(log) : log'[m] = log[m]
         /\ log'[Len(log) + 1] = k
<1>1. log \in Seq(ChunkIds) /\ Len(log) \in Nat
  BY DEF TypeOK
<1>2. /\ log' \in Seq(ChunkIds)
      /\ Len(log') = Len(log) + 1
      /\ \A m \in 1..Len(log) : log'[m] = log[m]
      /\ log'[Len(log) + 1] = k
  BY <1>1 DEF Post
<1>3. channel \subseteq 1..Len(log) /\ byHand \subseteq 1..Len(log)
  BY DEF TypeOK
<1>4. channel' = channel \cup {Len(log) + 1} /\ byHand' = byHand
  BY DEF Post
<1>5. 1..Len(log) \subseteq 1..Len(log') /\ Len(log) + 1 \in 1..Len(log')
  BY <1>1, <1>2
<1> QED
  BY <1>1, <1>2, <1>3, <1>4, <1>5

\* A fault spends one unit of its budget.
LEMMA SpendType ==
  ASSUME TypeOK, NEW kind, Spend(kind)
  PROVE  budget' \in [FaultKinds -> Nat]
<1>1. budget \in [FaultKinds -> Nat]
  BY DEF TypeOK
<1>2. budget[kind] > 0 /\ budget' = [budget EXCEPT ![kind] = budget[kind] - 1]
  BY DEF Spend
<1>3. ASSUME kind \in FaultKinds PROVE budget[kind] - 1 \in Nat
  BY <1>1, <1>2, <1>3
<1> QED
  BY <1>1, <1>2, <1>3

LEMMA InterruptedType ==
  ASSUME TypeOK, Interrupted
  PROVE  budget' \in [FaultKinds -> Nat] /\ conn' \in {"CONNECTED", "ERROR"}
  BY SpendType DEF TypeOK, Interrupted

LEMMA TypeInit == Init => TypeOK
  BY EngineAssumption
  DEF Init, TypeOK, ChunkIds, UploadType, DeleteType, IdleUpload, FreeJob, IdleDelete, IdleCheck,
      IdleRetry, JobType, CheckType, RetryType, NoMsg, NoKey, NoJob, NoFile,
      FaultKinds

LEMMA TypeNext == TypeOK /\ [Next]_vars => TypeOK'
<1> SUFFICES ASSUME TypeOK, [Next]_vars PROVE TypeOK'
  OBVIOUS
<1> USE EngineAssumption
    DEF vars, rows, telegram, requests, around
<1>1. ASSUME NEW f \in Files, CreateUpload(f) PROVE TypeOK'
  BY <1>1 DEF TypeOK, CreateUpload, UploadType
<1>2. ASSUME NEW f \in Files, StageChunk(f) PROVE TypeOK'
  <2>1. <<f, upload[f].next>> \in ChunkIds
    BY <1>2 DEF TypeOK, ChunkIds, UploadType
  <2> QED
    BY <1>2, <2>1 DEF TypeOK, StageChunk, UploadType
<1>3. ASSUME NEW f \in Files, EnqueueChunk(f) PROVE TypeOK'
  <2>1. <<f, upload[f].next>> \in ChunkIds
    BY <1>3 DEF TypeOK, ChunkIds, UploadType
  <2>2. job' \in [Jobs -> JobType]
    BY <1>3, <2>1, NewJobType DEF EnqueueChunk
  <2>3. upload' \in [Files -> UploadType]
    BY <1>3 DEF TypeOK, EnqueueChunk, UploadType
  <2> QED
    BY <1>3, <2>1, <2>2, <2>3 DEF TypeOK, EnqueueChunk
<1>4. ASSUME NEW j \in Jobs, JobStart(j) PROVE TypeOK'
  <2>1. job' \in [Jobs -> JobType]
    BY <1>4, GotoType, FailAttemptType DEF JobStart, JobPcs
  <2> QED
    BY <1>4, <2>1 DEF TypeOK, JobStart
<1>5. ASSUME NEW j \in Jobs, JobMark(j) PROVE TypeOK'
  <2>1. job' \in [Jobs -> JobType]
    BY <1>5, GotoType, FailAttemptType DEF JobMark, JobPcs
  <2> QED
    BY <1>5, <2>1 DEF TypeOK, JobMark
<1>6. ASSUME NEW j \in Jobs, JobLock(j) PROVE TypeOK'
  <2>1. job' \in [Jobs -> JobType]
    BY <1>6, GotoType DEF JobLock, JobPcs
  <2> QED
    BY <1>6, <2>1 DEF TypeOK, JobLock
<1>7. ASSUME NEW j \in Jobs, JobSend(j) PROVE TypeOK'
  <2>1. job' \in [Jobs -> JobType]
    <3>1. CASE job[j].key \in staged
      <4>1. job[j].key \in ChunkIds
        BY <3>1 DEF TypeOK
      <4>2. Len(log) + 1 \in Nat
        BY DEF TypeOK
      <4>3. JobAt("posted", job[j].key, job[j].attempt, Len(log) + 1) \in JobType
        BY <4>1, <4>2 DEF JobType, TypeOK
      <4> QED
        BY <1>7, <3>1, <4>3 DEF JobSend, TypeOK
    <3>2. CASE job[j].key \notin staged
      BY <1>7, <3>2, FailAttemptType DEF JobSend
    <3> QED
      BY <3>1, <3>2
  <2>2. /\ log' \in Seq(ChunkIds)
        /\ channel' \subseteq 1..Len(log')
        /\ byHand' \subseteq 1..Len(log')
    <3>1. CASE job[j].key \in staged
      BY <1>7, <3>1, PostFacts DEF JobSend, TypeOK
    <3>2. CASE job[j].key \notin staged
      BY <1>7, <3>2 DEF JobSend, TypeOK
    <3> QED
      BY <3>1, <3>2
  <2> QED
    BY <1>7, <2>1, <2>2 DEF TypeOK, JobSend, NoJob
<1>8. ASSUME NEW j \in Jobs, JobSendFails(j) PROVE TypeOK'
  <2>1. job' \in [Jobs -> JobType]
    BY <1>8, FailAttemptType DEF JobSendFails
  <2>2. /\ log' \in Seq(ChunkIds)
        /\ channel' \subseteq 1..Len(log')
        /\ byHand' \subseteq 1..Len(log')
    <3>1. CASE job[j].key \in staged /\ Post(job[j].key)
      BY <3>1, PostFacts DEF TypeOK
    <3>2. CASE UNCHANGED telegram
      BY <3>2 DEF TypeOK
    <3> QED
      BY <1>8, <3>1, <3>2 DEF JobSendFails
  <2> QED
    BY <1>8, <2>1, <2>2, SpendType DEF TypeOK, JobSendFails, NoJob
<1>9. ASSUME NEW j \in Jobs, JobSurvivor(j) PROVE TypeOK'
  <2>1. job' \in [Jobs -> JobType]
    BY <1>9, GotoType DEF JobSurvivor, JobPcs
  <2> QED
    BY <1>9, <2>1 DEF TypeOK, JobSurvivor
<1>10. ASSUME NEW j \in Jobs, JobWrite(j) PROVE TypeOK'
  <2>1. job' \in [Jobs -> JobType]
    BY <1>10, GotoType DEF JobWrite, JobPcs
  <2> QED
    BY <1>10, <2>1 DEF TypeOK, JobWrite, JobType
<1>11. ASSUME NEW j \in Jobs, JobRecorded(j) PROVE TypeOK'
  <2>1. job' \in [Jobs -> JobType]
    BY <1>11, GotoType DEF JobRecorded, JobPcs
  <2> QED
    BY <1>11, <2>1 DEF TypeOK, JobRecorded
<1>12. ASSUME NEW j \in Jobs, JobUnstage(j) PROVE TypeOK'
  <2>1. job' \in [Jobs -> JobType]
    BY <1>12, GotoType, FinishType DEF JobUnstage, JobPcs
  <2> QED
    BY <1>12, <2>1 DEF TypeOK, JobUnstage
<1>13. ASSUME NEW j \in Jobs, JobCount(j) PROVE TypeOK'
  <2>1. job' \in [Jobs -> JobType]
    BY <1>13, GotoType, FinishType DEF JobCount, JobPcs
  <2> QED
    BY <1>13, <2>1 DEF TypeOK, JobCount
<1>14. ASSUME NEW j \in Jobs, JobPublish(j) PROVE TypeOK'
  <2>1. job' \in [Jobs -> JobType]
    BY <1>14, FinishType DEF JobPublish
  <2> QED
    BY <1>14, <2>1 DEF TypeOK, JobPublish
<1>15. ASSUME NEW j \in Jobs, JobOrphan(j) PROVE TypeOK'
  <2>1. job' \in [Jobs -> JobType]
    BY <1>15, GotoType DEF JobOrphan, JobPcs
  <2> QED
    BY <1>15, <2>1, SpendType DEF TypeOK, JobOrphan
<1>16. ASSUME NEW j \in Jobs, JobFailChunk(j) PROVE TypeOK'
  <2>1. job' \in [Jobs -> JobType]
    BY <1>16, GotoType DEF JobFailChunk, JobPcs
  <2> QED
    BY <1>16, <2>1 DEF TypeOK, JobFailChunk
<1>17. ASSUME NEW j \in Jobs, JobFailFile(j) PROVE TypeOK'
  <2>1. job' \in [Jobs -> JobType]
    BY <1>17, FinishType DEF JobFailFile
  <2> QED
    BY <1>17, <2>1, SpendType DEF TypeOK, JobFailFile
<1>18. ASSUME NEW j \in Jobs, JobDbFails(j) PROVE TypeOK'
  <2>1. job' \in [Jobs -> JobType]
    BY <1>18, GotoType, FinishType, FailAttemptType DEF JobDbFails, JobPcs
  <2> QED
    BY <1>18, <2>1, SpendType DEF TypeOK, JobDbFails
<1>19. ASSUME NEW t \in trash, TrashRun(t) PROVE TypeOK'
  BY <1>19 DEF TypeOK, TrashRun
<1>20. ASSUME NEW t \in trash, TrashFails(t) PROVE TypeOK'
  <2>1. t \in [ids : SUBSET Nat, attempt : 1..MaxAttempts]
    BY DEF TypeOK
  <2>2. t.attempt < MaxAttempts =>
          Batch(t.ids, t.attempt + 1) \in
            [ids : SUBSET Nat, attempt : 1..MaxAttempts]
    BY <2>1
  <2>3. trash' \subseteq [ids : SUBSET Nat, attempt : 1..MaxAttempts]
    BY <1>20, <2>2 DEF TypeOK, TrashFails
  <2>4. budget' \in [FaultKinds -> Nat] /\ conn' \in {"CONNECTED", "ERROR"}
    <3>1. CASE t.attempt < MaxAttempts
      BY <1>20, <3>1, SpendType DEF TypeOK, TrashFails
    <3>2. CASE ~(t.attempt < MaxAttempts)
      BY <1>20, <3>2, InterruptedType DEF TrashFails
    <3> QED
      BY <3>1, <3>2
  <2> QED
    BY <1>20, <2>3, <2>4
    DEF TypeOK, TrashFails, rows, requests, telegram
<1>21. ASSUME NEW f \in Files, DeleteRead(f) PROVE TypeOK'
  BY <1>21 DEF TypeOK, DeleteRead, DeleteType, MessagesOf, ChunksOf
<1>22. ASSUME NEW f \in Files, DeleteRows(f) PROVE TypeOK'
  BY <1>22 DEF TypeOK, DeleteRows, UploadType, DeleteType, NoMsg
<1>23. ASSUME NEW f \in Files, DeleteCleanup(f) PROVE TypeOK'
  BY <1>23 DEF TypeOK, DeleteCleanup, DeleteType
<1>24. ASSUME NEW q \in Checkers, NEW f \in Files,
        NEW by \in {"download", "retry"}, CheckStart(q, f, by) PROVE TypeOK'
  BY <1>24 DEF TypeOK, CheckStart, CheckType, MessagesOf, ChunksOf
<1>25. ASSUME NEW q \in Checkers, CheckVerify(q) PROVE TypeOK'
  <2>1. check' \in [Checkers -> CheckType]
    BY <1>25, CheckGotoType DEF CheckVerify, CheckPcs
  <2> QED
    BY <1>25, <2>1 DEF TypeOK, CheckVerify
<1>26. ASSUME NEW q \in Checkers, CheckFails(q) PROVE TypeOK'
  <2>1. check' \in [Checkers -> CheckType]
    BY <1>26, CheckGotoType DEF CheckFails, CheckPcs
  <2> QED
    BY <1>26, <2>1, InterruptedType DEF TypeOK, CheckFails
<1>27. ASSUME NEW q \in Checkers, CheckRepair(q) PROVE TypeOK'
  <2>1. check' \in [Checkers -> CheckType]
    BY <1>27, CheckGotoType DEF CheckRepair, CheckPcs
  <2> QED
    BY <1>27, <2>1 DEF TypeOK, CheckRepair
<1>28. ASSUME NEW q \in Checkers, CheckStream(q) PROVE TypeOK'
  <2>1. check' \in [Checkers -> CheckType]
    BY <1>28, CheckGotoType DEF CheckStream, CheckPcs
  <2> QED
    BY <1>28, <2>1 DEF TypeOK, CheckStream
<1>29. ASSUME NEW q \in Checkers, CheckLost(q) PROVE TypeOK'
  <2>1. check' \in [Checkers -> CheckType]
    BY <1>29, CheckGotoType DEF CheckLost, CheckPcs
  <2> QED
    BY <1>29, <2>1 DEF TypeOK, CheckLost
<1>30. ASSUME NEW r \in Retriers, NEW f \in Files, RetryRead(r, f) PROVE TypeOK'
  BY <1>30 DEF TypeOK, RetryRead, Unfinished, RetryType, ChunksOf
<1>31. ASSUME NEW r \in Retriers, RetryReset(r) PROVE TypeOK'
  BY <1>31 DEF TypeOK, RetryReset, RetryType
<1>32. ASSUME NEW r \in Retriers, RetryMark(r) PROVE TypeOK'
  <2>1. retry' \in [Retriers -> RetryType]
    <3>1. retry[r] \in RetryType
      BY DEF TypeOK
    <3>2. RetryAt("enqueue", retry[r].file, retry[r].pending) \in RetryType
      BY <3>1 DEF RetryType
    <3>3. IdleRetry \in RetryType
      BY DEF RetryType, IdleRetry, NoFile
    <3> QED
      BY <1>32, <3>2, <3>3 DEF TypeOK, RetryMark
  <2>2. file' \in [Files -> {"NEW", "UPLOADING", "READY", "ERROR", "LOST", "GONE"}]
    BY <1>32 DEF TypeOK, RetryMark
  <2> QED
    BY <1>32, <2>1, <2>2 DEF TypeOK, RetryMark
<1>33. ASSUME NEW r \in Retriers, RetryEnqueue(r) PROVE TypeOK'
  <2>1. job' \in [Jobs -> JobType]
    BY <1>33, NewJobType DEF RetryEnqueue, TypeOK, RetryType
  <2>2. retry' \in [Retriers -> RetryType]
    BY <1>33 DEF RetryEnqueue, TypeOK, RetryType, IdleRetry, NoFile
  <2> QED
    BY <1>33, <2>1, <2>2 DEF TypeOK, RetryEnqueue
<1>34. ASSUME NEW m \in channel, DeleteByHand(m) PROVE TypeOK'
  BY <1>34, SpendType DEF TypeOK, DeleteByHand
<1>35. ASSUME ConnectionFails PROVE TypeOK'
  BY <1>35, SpendType DEF TypeOK, ConnectionFails
<1>36. ASSUME ConnectionRecovers PROVE TypeOK'
  BY <1>36 DEF TypeOK, ConnectionRecovers
<1>37. ASSUME Crash PROVE TypeOK'
  <2>1. job' \in [Jobs -> JobType]
    BY <1>37 DEF Crash, TypeOK, JobType, FreeJob, NoMsg
  <2>2. upload' \in [Files -> UploadType]
    BY <1>37 DEF TypeOK, Crash, Resumed, UploadType
  <2>3. del' \in [Files -> DeleteType]
    BY <1>37 DEF TypeOK, Crash, IdleDelete, DeleteType
  <2>4. /\ check' \in [Checkers -> CheckType]
        /\ retry' \in [Retriers -> RetryType]
    BY <1>37 DEF TypeOK, Crash, IdleCheck, IdleRetry, CheckType, RetryType
  <2>5. budget' \in [FaultKinds -> Nat]
    BY <1>37, SpendType DEF TypeOK, Crash
  <2> QED
    BY <1>37, <2>1, <2>2, <2>3, <2>4, <2>5 DEF TypeOK, Crash, NoJob
<1>38. ASSUME NEW f \in Files, EnqueueFails(f) PROVE TypeOK'
  BY <1>38, SpendType DEF TypeOK, EnqueueFails, Resumed, UploadType
<1>39. ASSUME NEW f \in Files, DeleteFails(f) PROVE TypeOK'
  BY <1>39, SpendType DEF TypeOK, DeleteFails, DeleteType
<1>40. ASSUME NEW r \in Retriers, RetryFails(r) PROVE TypeOK'
  BY <1>40, SpendType DEF TypeOK, RetryFails, RetryType, IdleRetry, NoFile
<1>41. ASSUME NEW f \in Files, RestartChunk(f) PROVE TypeOK'
  BY <1>41 DEF TypeOK, RestartChunk
<1>42. ASSUME NEW f \in Files, AdvanceUpload(f) PROVE TypeOK'
  <2>1. upload' \in [Files -> UploadType]
    BY <1>42 DEF TypeOK, AdvanceUpload, IsLastChunk, UploadType
  <2> QED
    BY <1>42, <2>1 DEF TypeOK, AdvanceUpload
<1>43. CASE UNCHANGED vars
  BY <1>43 DEF TypeOK
<1> QED
  BY <1>1, <1>2, <1>3, <1>4, <1>5, <1>6, <1>7, <1>8, <1>9, <1>10, <1>11,
     <1>12, <1>13, <1>14, <1>15, <1>16, <1>17, <1>18, <1>19, <1>20, <1>21,
     <1>22, <1>23, <1>24, <1>25, <1>26, <1>27, <1>28, <1>29, <1>30, <1>31,
     <1>32, <1>33, <1>34, <1>35, <1>36, <1>37, <1>38, <1>39,
     <1>40, <1>41, <1>42, <1>43
  DEF Next, UploadStep, JobStep, DeleteStep, CheckStep, RetryStep

\* Every reachable state is well-typed: every row, job and request is in a
\* state the code knows, and every message id held anywhere is a number the
\* channel may have handed out.
THEOREM TypeCorrect == Spec => []TypeOK
  BY TypeInit, TypeNext, PTL DEF Spec

-----------------------------------------------------------------------------
\* What no step undoes: a file that is gone stays gone, the history of the
\* channel and of the user's deletions only grows, budgets only shrink.
HistoryStep ==
  /\ \A f \in Files : Gone(f) => file'[f] = "GONE"
  /\ Len(log) <= Len(log') /\ \A m \in 1..Len(log) : log'[m] = log[m]
  /\ byHand \subseteq byHand'
  /\ \A kind \in FaultKinds : budget'[kind] <= budget[kind]

LEMMA HistoryGrows == TypeOK /\ [Next]_vars => HistoryStep
<1> SUFFICES ASSUME TypeOK, [Next]_vars PROVE HistoryStep
  OBVIOUS
<1> USE DEF rows, telegram, requests, around
<1>a. file \in [Files -> {"NEW", "UPLOADING", "READY", "ERROR", "LOST", "GONE"}]
  BY DEF TypeOK
<1>b. log \in Seq(ChunkIds) /\ Len(log) \in Nat
  BY DEF TypeOK
<1>c. budget \in [FaultKinds -> Nat]
  BY DEF TypeOK
<1>d. UNCHANGED <<file, log, byHand, budget>> => HistoryStep
  BY <1>b, <1>c DEF HistoryStep, Gone
<1>e. ASSUME NEW kind, Spend(kind)
      PROVE  \A other \in FaultKinds : budget'[other] <= budget[other]
  BY <1>c, <1>e DEF Spend
<1>1. ASSUME NEW f \in Files, CreateUpload(f) PROVE HistoryStep
  BY <1>1, <1>a, <1>b, <1>c DEF CreateUpload, HistoryStep, Gone, Exists
<1>2. ASSUME NEW f \in Files, StageChunk(f) PROVE HistoryStep
  BY <1>2, <1>d DEF StageChunk
<1>3. ASSUME NEW f \in Files, EnqueueChunk(f) PROVE HistoryStep
  BY <1>3, <1>d DEF EnqueueChunk
<1>4. ASSUME NEW f \in Files, RestartChunk(f) PROVE HistoryStep
  BY <1>4, <1>d DEF RestartChunk
<1>5. ASSUME NEW f \in Files, AdvanceUpload(f) PROVE HistoryStep
  BY <1>5, <1>d DEF AdvanceUpload
<1>6. ASSUME NEW f \in Files, EnqueueFails(f) PROVE HistoryStep
  <2>1. \A kind \in FaultKinds : budget'[kind] <= budget[kind]
    BY <1>6, <1>c, <1>e DEF EnqueueFails
  <2> QED
    BY <1>6, <2>1, <1>b DEF EnqueueFails, HistoryStep, Gone
<1>7. ASSUME NEW j \in Jobs, JobStart(j) PROVE HistoryStep
  BY <1>7, <1>d DEF JobStart
<1>8. ASSUME NEW j \in Jobs, JobMark(j) PROVE HistoryStep
  BY <1>8, <1>d DEF JobMark
<1>9. ASSUME NEW j \in Jobs, JobLock(j) PROVE HistoryStep
  BY <1>9, <1>d DEF JobLock
<1>10. ASSUME NEW j \in Jobs, JobSend(j) PROVE HistoryStep
  <2>1. Len(log) <= Len(log') /\ \A m \in 1..Len(log) : log'[m] = log[m]
    <3>1. CASE Post(job[j].key) /\ job[j].key \in staged
      <4>1. job[j].key \in ChunkIds
        BY <3>1 DEF TypeOK
      <4> QED
        BY <3>1, <4>1, <1>b, PostFacts
    <3>2. CASE UNCHANGED telegram
      BY <3>2, <1>b
    <3> QED
      BY <1>10, <3>1, <3>2 DEF JobSend
  <2> QED
    BY <1>10, <2>1, <1>a, <1>c, <1>e DEF JobSend, Post, HistoryStep, Gone
<1>11. ASSUME NEW j \in Jobs, JobSendFails(j) PROVE HistoryStep
  <2>1. Len(log) <= Len(log') /\ \A m \in 1..Len(log) : log'[m] = log[m]
    <3>1. CASE Post(job[j].key) /\ job[j].key \in staged
      <4>1. job[j].key \in ChunkIds
        BY <3>1 DEF TypeOK
      <4> QED
        BY <3>1, <4>1, <1>b, PostFacts
    <3>2. CASE UNCHANGED telegram
      BY <3>2, <1>b
    <3> QED
      BY <1>11, <3>1, <3>2 DEF JobSendFails
  <2> QED
    BY <1>11, <2>1, <1>a, <1>c, <1>e DEF JobSendFails, Post, HistoryStep, Gone
<1>12. ASSUME NEW j \in Jobs, JobSurvivor(j) PROVE HistoryStep
  BY <1>12, <1>d DEF JobSurvivor
<1>13. ASSUME NEW j \in Jobs, JobWrite(j) PROVE HistoryStep
  BY <1>13, <1>d DEF JobWrite
<1>14. ASSUME NEW j \in Jobs, JobRecorded(j) PROVE HistoryStep
  BY <1>14, <1>d DEF JobRecorded
<1>15. ASSUME NEW j \in Jobs, JobUnstage(j) PROVE HistoryStep
  BY <1>15, <1>d DEF JobUnstage
<1>16. ASSUME NEW j \in Jobs, JobCount(j) PROVE HistoryStep
  BY <1>16, <1>d DEF JobCount
<1>17. ASSUME NEW j \in Jobs, JobPublish(j) PROVE HistoryStep
  BY <1>17, <1>a, <1>b, <1>c DEF JobPublish, HistoryStep, Gone, Exists
<1>18. ASSUME NEW j \in Jobs, JobOrphan(j) PROVE HistoryStep
  <2>1. \A kind \in FaultKinds : budget'[kind] <= budget[kind]
    BY <1>18, <1>c, <1>e DEF JobOrphan
  <2> QED
    BY <1>18, <2>1, <1>b DEF JobOrphan, HistoryStep, Gone
<1>19. ASSUME NEW j \in Jobs, JobFailChunk(j) PROVE HistoryStep
  BY <1>19, <1>d DEF JobFailChunk
<1>20. ASSUME NEW j \in Jobs, JobFailFile(j) PROVE HistoryStep
  <2>1. \A kind \in FaultKinds : budget'[kind] <= budget[kind]
    BY <1>20, <1>c, <1>e DEF JobFailFile
  <2> QED
    BY <1>20, <2>1, <1>a, <1>b DEF JobFailFile, HistoryStep, Gone, Exists
<1>21. ASSUME NEW j \in Jobs, JobDbFails(j) PROVE HistoryStep
  <2>1. \A kind \in FaultKinds : budget'[kind] <= budget[kind]
    BY <1>21, <1>c, <1>e DEF JobDbFails
  <2> QED
    BY <1>21, <2>1, <1>b DEF JobDbFails, HistoryStep, Gone
<1>22. ASSUME NEW t \in trash, TrashRun(t) PROVE HistoryStep
  BY <1>22, <1>d DEF TrashRun
<1>23. ASSUME NEW t \in trash, TrashFails(t) PROVE HistoryStep
  <2>1. \A kind \in FaultKinds : budget'[kind] <= budget[kind]
    BY <1>23, <1>c, <1>e DEF TrashFails, Interrupted
  <2> QED
    BY <1>23, <2>1, <1>b DEF TrashFails, HistoryStep, Gone
<1>24. ASSUME NEW f \in Files, DeleteRead(f) PROVE HistoryStep
  BY <1>24, <1>d DEF DeleteRead
<1>25. ASSUME NEW f \in Files, DeleteRows(f) PROVE HistoryStep
  BY <1>25, <1>a, <1>b, <1>c DEF DeleteRows, HistoryStep, Gone, Exists
<1>26. ASSUME NEW f \in Files, DeleteCleanup(f) PROVE HistoryStep
  BY <1>26, <1>d DEF DeleteCleanup
<1>27. ASSUME NEW f \in Files, DeleteFails(f) PROVE HistoryStep
  <2>1. \A kind \in FaultKinds : budget'[kind] <= budget[kind]
    BY <1>27, <1>c, <1>e DEF DeleteFails
  <2> QED
    BY <1>27, <2>1, <1>b DEF DeleteFails, HistoryStep, Gone
<1>28. ASSUME NEW q \in Checkers, NEW f \in Files,
        NEW by \in {"download", "retry"}, CheckStart(q, f, by) PROVE HistoryStep
  BY <1>28, <1>d DEF CheckStart
<1>29. ASSUME NEW q \in Checkers, CheckVerify(q) PROVE HistoryStep
  BY <1>29, <1>d DEF CheckVerify
<1>30. ASSUME NEW q \in Checkers, CheckFails(q) PROVE HistoryStep
  <2>1. \A kind \in FaultKinds : budget'[kind] <= budget[kind]
    BY <1>30, <1>c, <1>e DEF CheckFails, Interrupted
  <2> QED
    BY <1>30, <2>1, <1>b DEF CheckFails, HistoryStep, Gone
<1>31. ASSUME NEW q \in Checkers, CheckRepair(q) PROVE HistoryStep
  BY <1>31, <1>a, <1>b, <1>c DEF CheckRepair, HistoryStep, Gone, Exists
<1>32. ASSUME NEW q \in Checkers, CheckStream(q) PROVE HistoryStep
  BY <1>32, <1>d DEF CheckStream
<1>33. ASSUME NEW q \in Checkers, CheckLost(q) PROVE HistoryStep
  BY <1>33, <1>a, <1>b, <1>c DEF CheckLost, HistoryStep, Gone, Exists
<1>34. ASSUME NEW r \in Retriers, NEW f \in Files, RetryRead(r, f) PROVE HistoryStep
  BY <1>34, <1>d DEF RetryRead
<1>35. ASSUME NEW r \in Retriers, RetryReset(r) PROVE HistoryStep
  BY <1>35, <1>d DEF RetryReset
<1>36. ASSUME NEW r \in Retriers, RetryMark(r) PROVE HistoryStep
  BY <1>36, <1>a, <1>b, <1>c DEF RetryMark, HistoryStep, Gone, Exists
<1>37. ASSUME NEW r \in Retriers, RetryEnqueue(r) PROVE HistoryStep
  BY <1>37, <1>d DEF RetryEnqueue
<1>38. ASSUME NEW r \in Retriers, RetryFails(r) PROVE HistoryStep
  <2>1. \A kind \in FaultKinds : budget'[kind] <= budget[kind]
    BY <1>38, <1>c, <1>e DEF RetryFails
  <2> QED
    BY <1>38, <2>1, <1>b DEF RetryFails, HistoryStep, Gone
<1>39. ASSUME NEW m \in channel, DeleteByHand(m) PROVE HistoryStep
  <2>1. \A kind \in FaultKinds : budget'[kind] <= budget[kind]
    BY <1>39, <1>c, <1>e DEF DeleteByHand
  <2> QED
    BY <1>39, <2>1, <1>b DEF DeleteByHand, HistoryStep, Gone
<1>40. ASSUME ConnectionFails PROVE HistoryStep
  <2>1. \A kind \in FaultKinds : budget'[kind] <= budget[kind]
    BY <1>40, <1>c, <1>e DEF ConnectionFails
  <2> QED
    BY <1>40, <2>1, <1>b DEF ConnectionFails, HistoryStep, Gone
<1>41. ASSUME ConnectionRecovers PROVE HistoryStep
  BY <1>41, <1>d DEF ConnectionRecovers
<1>42. ASSUME Crash PROVE HistoryStep
  <2>1. \A kind \in FaultKinds : budget'[kind] <= budget[kind]
    BY <1>42, <1>c, <1>e DEF Crash
  <2> QED
    BY <1>42, <2>1, <1>b DEF Crash, HistoryStep, Gone
<1>43. CASE UNCHANGED vars
  BY <1>43, <1>d DEF vars
<1> QED
  BY <1>1, <1>2, <1>3, <1>4, <1>5, <1>6, <1>7, <1>8, <1>9, <1>10, <1>11, <1>12,
     <1>13, <1>14, <1>15, <1>16, <1>17, <1>18, <1>19, <1>20, <1>21, <1>22,
     <1>23, <1>24, <1>25, <1>26, <1>27, <1>28, <1>29, <1>30, <1>31, <1>32,
     <1>33, <1>34, <1>35, <1>36, <1>37, <1>38, <1>39, <1>40, <1>41, <1>42,
     <1>43
  DEF Next, UploadStep, JobStep, DeleteStep, CheckStep, RetryStep

\* What the three moves of a job do to it, and leave alone.
LEMMA GotoFacts ==
  ASSUME TypeOK, NEW j \in Jobs, NEW pc, Goto(j, pc)
  PROVE  /\ job'[j].pc = pc /\ job'[j].key = job[j].key /\ job'[j].msg = job[j].msg
         /\ \A i \in Jobs : i # j => job'[i] = job[i]
  BY DEF TypeOK, Goto

LEMMA FinishFacts ==
  ASSUME TypeOK, NEW j \in Jobs, Finish(j)
  PROVE  /\ job'[j].pc = "free"
         /\ \A i \in Jobs : i # j => job'[i] = job[i]
  BY DEF TypeOK, Finish, FreeJob

LEMMA FailAttemptFacts ==
  ASSUME TypeOK, NEW j \in Jobs, FailAttempt(j)
  PROVE  /\ job'[j].pc \in {"queued", "failing"} /\ job'[j].key = job[j].key
         /\ \A i \in Jobs : i # j => job'[i] = job[i]
  BY DEF TypeOK, FailAttempt

-----------------------------------------------------------------------------
(***************************************************************************)
(* StoredInv.                                                              *)
(***************************************************************************)

LEMMA StoredInit == Init => StoredInv
<1> SUFFICES ASSUME Init PROVE StoredInv
  OBVIOUS
<1>1. TypeOK
  BY TypeInit
<1>2. RowInv /\ ReadyIsStored
  BY DEF Init, RowInv, ReadyIsStored
<1>3. WorkInv /\ PublishInv /\ MessageInv
  BY DEF Init, WorkInv, PublishInv, MessageInv, IdleUpload, IdleDelete,
     FreeJob, IdleCheck, IdleRetry, ChunkIds
<1> QED
  BY <1>1, <1>2, <1>3 DEF StoredInv

LEMMA StoredNext == StoredInv /\ TypeOK' /\ [Next]_vars => StoredInv'
<1> SUFFICES ASSUME TypeOK, RowInv, WorkInv, PublishInv, MessageInv, ReadyIsStored,
                    TypeOK', [Next]_vars
             PROVE  StoredInv'
  BY DEF StoredInv
<1> USE DEF rows, telegram, requests, around, NoMsg, NoKey
<1>a. /\ file \in [Files -> {"NEW", "UPLOADING", "READY", "ERROR", "LOST", "GONE"}]
      /\ chunkStatus \in [ChunkIds -> {"PENDING", "UPLOADING", "UPLOADED", "ERROR"}]
      /\ chunkMsg \in [ChunkIds -> Nat]
  BY DEF TypeOK
<1>b. /\ upload \in [Files -> UploadType]
      /\ del \in [Files -> DeleteType]
      /\ retry \in [Retriers -> RetryType]
  BY DEF TypeOK
<1>c. check \in [Checkers -> CheckType]
  BY DEF TypeOK
<1>d. job \in [Jobs -> JobType]
  BY DEF TypeOK
<1>e. log \in Seq(ChunkIds) /\ Len(log) \in Nat
  BY DEF TypeOK
<1>f. \A k \in ChunkIds : k[1] \in Files
  BY DEF ChunkIds
<1>g. file' \in [Files -> {"NEW", "UPLOADING", "READY", "ERROR", "LOST", "GONE"}]
  BY DEF TypeOK
<1>1. ASSUME NEW f \in Files, CreateUpload(f) PROVE StoredInv'
  <2>1. RowInv'
    BY <1>1, <1>a, <1>e DEF RowInv, Carries, MessageInv, WorkInv, Exists,
       CreateUpload
  <2>2. WorkInv'
    BY <1>1, <1>a, <1>b DEF WorkInv, Exists, Gone, CreateUpload
  <2>3. PublishInv'
    BY <1>1, <1>a, <1>c DEF PublishInv, StoredOrGone, FullyStored, ChunksOf,
       Gone, Exists, WorkInv, RowInv, CreateUpload
  <2>4. MessageInv'
    BY <1>1, <1>e DEF MessageInv, Carries, WorkInv, CreateUpload
  <2>5. ReadyIsStored'
    BY <1>1, <1>a DEF ReadyIsStored, PublishInv, StoredOrGone, FullyStored,
       ChunksOf, Gone, Exists, CreateUpload
  <2> QED
    BY <2>1, <2>2, <2>3, <2>4, <2>5 DEF StoredInv
<1>2. ASSUME NEW f \in Files, StageChunk(f) PROVE StoredInv'
  <2>1. RowInv'
    BY <1>2, <1>a, <1>e DEF RowInv, Carries, MessageInv, WorkInv, Exists,
       StageChunk
  <2>2. WorkInv'
    BY <1>2, <1>a, <1>b DEF WorkInv, Exists, Gone, StageChunk
  <2>3. PublishInv'
    BY <1>2, <1>a, <1>c DEF PublishInv, StoredOrGone, FullyStored, ChunksOf,
       Gone, Exists, WorkInv, RowInv, StageChunk
  <2>4. MessageInv'
    BY <1>2, <1>e DEF MessageInv, Carries, WorkInv, StageChunk
  <2>5. ReadyIsStored'
    BY <1>2, <1>a DEF ReadyIsStored, PublishInv, StoredOrGone, FullyStored,
       ChunksOf, Gone, Exists, StageChunk
  <2> QED
    BY <2>1, <2>2, <2>3, <2>4, <2>5 DEF StoredInv
<1>3. ASSUME NEW f \in Files, EnqueueChunk(f) PROVE StoredInv'
  <2>1. <<f, upload[f].next>> \in ChunkIds /\ file[f] # "NEW"
    BY <1>3, <1>b DEF EnqueueChunk, WorkInv, UploadType, ChunkIds
  <2>2. \A i \in Jobs : \/ job'[i] = job[i]
                       \/ job'[i] = NewJob(<<f, upload[f].next>>)
    BY <1>3, <1>d DEF EnqueueChunk
  <2>3. RowInv'
    BY <1>3, <1>a, <1>e DEF RowInv, Carries, MessageInv, WorkInv, Exists,
       EnqueueChunk, NewJob
  <2>4. WorkInv'
    BY <1>3, <2>1, <2>2, <1>a, <1>b DEF WorkInv, Exists, Gone, EnqueueChunk,
       NewJob
  <2>5. PublishInv'
    BY <1>3, <1>a, <1>c DEF PublishInv, StoredOrGone, FullyStored, ChunksOf,
       Gone, Exists, WorkInv, RowInv, EnqueueChunk, NewJob
  <2>6. MessageInv'
    BY <1>3, <1>e DEF MessageInv, Carries, WorkInv, EnqueueChunk, NewJob
  <2>7. ReadyIsStored'
    BY <1>3, <1>a DEF ReadyIsStored, PublishInv, StoredOrGone, FullyStored,
       ChunksOf, Gone, Exists, EnqueueChunk, NewJob
  <2> QED
    BY <2>3, <2>4, <2>5, <2>6, <2>7 DEF StoredInv
<1>4. ASSUME NEW f \in Files, RestartChunk(f) PROVE StoredInv'
  <2>1. RowInv'
    BY <1>4, <1>a, <1>e DEF RowInv, Carries, MessageInv, WorkInv, Exists,
       RestartChunk
  <2>2. WorkInv'
    BY <1>4, <1>a, <1>b DEF WorkInv, Exists, Gone, RestartChunk
  <2>3. PublishInv'
    BY <1>4, <1>a, <1>c DEF PublishInv, StoredOrGone, FullyStored, ChunksOf,
       Gone, Exists, WorkInv, RowInv, RestartChunk
  <2>4. MessageInv'
    BY <1>4, <1>e DEF MessageInv, Carries, WorkInv, RestartChunk
  <2>5. ReadyIsStored'
    BY <1>4, <1>a DEF ReadyIsStored, PublishInv, StoredOrGone, FullyStored,
       ChunksOf, Gone, Exists, RestartChunk
  <2> QED
    BY <2>1, <2>2, <2>3, <2>4, <2>5 DEF StoredInv
<1>5. ASSUME NEW f \in Files, AdvanceUpload(f) PROVE StoredInv'
  <2>1. RowInv'
    BY <1>5, <1>a, <1>e DEF RowInv, Carries, MessageInv, WorkInv, Exists,
       AdvanceUpload
  <2>2. WorkInv'
    BY <1>5, <1>a, <1>b DEF WorkInv, Exists, Gone, AdvanceUpload
  <2>3. PublishInv'
    BY <1>5, <1>a, <1>c DEF PublishInv, StoredOrGone, FullyStored, ChunksOf,
       Gone, Exists, WorkInv, RowInv, AdvanceUpload
  <2>4. MessageInv'
    BY <1>5, <1>e DEF MessageInv, Carries, WorkInv, AdvanceUpload
  <2>5. ReadyIsStored'
    BY <1>5, <1>a DEF ReadyIsStored, PublishInv, StoredOrGone, FullyStored,
       ChunksOf, Gone, Exists, AdvanceUpload
  <2> QED
    BY <2>1, <2>2, <2>3, <2>4, <2>5 DEF StoredInv
<1>6. ASSUME NEW f \in Files, EnqueueFails(f) PROVE StoredInv'
  <2>1. RowInv'
    BY <1>6, <1>a, <1>e DEF RowInv, Carries, MessageInv, WorkInv, Exists,
       EnqueueFails, Resumed
  <2>2. WorkInv'
    BY <1>6, <1>a, <1>b DEF WorkInv, Exists, Gone, EnqueueFails, Resumed
  <2>3. PublishInv'
    BY <1>6, <1>a, <1>c DEF PublishInv, StoredOrGone, FullyStored, ChunksOf,
       Gone, Exists, WorkInv, RowInv, EnqueueFails, Resumed
  <2>4. MessageInv'
    BY <1>6, <1>e DEF MessageInv, Carries, WorkInv, EnqueueFails, Resumed
  <2>5. ReadyIsStored'
    BY <1>6, <1>a DEF ReadyIsStored, PublishInv, StoredOrGone, FullyStored,
       ChunksOf, Gone, Exists, EnqueueFails, Resumed
  <2> QED
    BY <2>1, <2>2, <2>3, <2>4, <2>5 DEF StoredInv
<1>7. ASSUME NEW j \in Jobs, JobStart(j) PROVE StoredInv'
  <2>1. /\ job'[j].pc \in {"cleaning", "marking", "queued", "failing"}
        /\ job'[j].pc # "free" => job'[j].key = job[j].key
        /\ job'[j].pc \in {"posted", "writing", "verifying", "orphan"} =>
             job'[j].msg = job[j].msg
        /\ \A i \in Jobs : i # j => job'[i] = job[i]
    BY <1>7, GotoFacts, FinishFacts, FailAttemptFacts DEF JobStart
  <2>2. RowInv'
    BY <1>7, <2>1, <1>a, <1>e DEF RowInv, Carries, MessageInv, WorkInv, Exists,
       JobStart
  <2>3. WorkInv'
    BY <1>7, <2>1, <1>a, <1>b DEF WorkInv, Exists, Gone, JobStart
  <2>4. PublishInv'
    BY <1>7, <2>1, <1>a, <1>c DEF PublishInv, StoredOrGone, FullyStored,
       ChunksOf, Gone, Exists, WorkInv, RowInv, JobStart
  <2>5. MessageInv'
    BY <1>7, <2>1, <1>e DEF MessageInv, Carries, WorkInv, JobStart
  <2>6. ReadyIsStored'
    BY <1>7, <2>1, <1>a DEF ReadyIsStored, PublishInv, StoredOrGone,
       FullyStored, ChunksOf, Gone, Exists, JobStart
  <2> QED
    BY <2>2, <2>3, <2>4, <2>5, <2>6 DEF StoredInv
<1>8. ASSUME NEW j \in Jobs, JobMark(j) PROVE StoredInv'
  <2>1. /\ job'[j].pc \in {"waiting", "queued", "failing"}
        /\ job'[j].pc # "free" => job'[j].key = job[j].key
        /\ job'[j].pc \in {"posted", "writing", "verifying", "orphan"} =>
             job'[j].msg = job[j].msg
        /\ \A i \in Jobs : i # j => job'[i] = job[i]
    BY <1>8, GotoFacts, FinishFacts, FailAttemptFacts DEF JobMark
  <2>2. RowInv'
    BY <1>8, <2>1, <1>a, <1>e DEF RowInv, Carries, MessageInv, WorkInv, Exists,
       JobMark
  <2>3. WorkInv'
    BY <1>8, <2>1, <1>a, <1>b DEF WorkInv, Exists, Gone, JobMark
  <2>4. PublishInv'
    BY <1>8, <2>1, <1>a, <1>c DEF PublishInv, StoredOrGone, FullyStored,
       ChunksOf, Gone, Exists, WorkInv, RowInv, JobMark
  <2>5. MessageInv'
    BY <1>8, <2>1, <1>e DEF MessageInv, Carries, WorkInv, JobMark
  <2>6. ReadyIsStored'
    BY <1>8, <2>1, <1>a DEF ReadyIsStored, PublishInv, StoredOrGone,
       FullyStored, ChunksOf, Gone, Exists, JobMark
  <2> QED
    BY <2>2, <2>3, <2>4, <2>5, <2>6 DEF StoredInv
<1>9. ASSUME NEW j \in Jobs, JobLock(j) PROVE StoredInv'
  <2>1. /\ job'[j].pc \in {"sending"}
        /\ job'[j].pc # "free" => job'[j].key = job[j].key
        /\ job'[j].pc \in {"posted", "writing", "verifying", "orphan"} =>
             job'[j].msg = job[j].msg
        /\ \A i \in Jobs : i # j => job'[i] = job[i]
    BY <1>9, GotoFacts, FinishFacts, FailAttemptFacts DEF JobLock
  <2>2. RowInv'
    BY <1>9, <2>1, <1>a, <1>e DEF RowInv, Carries, MessageInv, WorkInv, Exists,
       JobLock
  <2>3. WorkInv'
    BY <1>9, <2>1, <1>a, <1>b DEF WorkInv, Exists, Gone, JobLock
  <2>4. PublishInv'
    BY <1>9, <2>1, <1>a, <1>c DEF PublishInv, StoredOrGone, FullyStored,
       ChunksOf, Gone, Exists, WorkInv, RowInv, JobLock
  <2>5. MessageInv'
    BY <1>9, <2>1, <1>e DEF MessageInv, Carries, WorkInv, JobLock
  <2>6. ReadyIsStored'
    BY <1>9, <2>1, <1>a DEF ReadyIsStored, PublishInv, StoredOrGone,
       FullyStored, ChunksOf, Gone, Exists, JobLock
  <2> QED
    BY <2>2, <2>3, <2>4, <2>5, <2>6 DEF StoredInv
<1>10. ASSUME NEW j \in Jobs, JobSend(j) PROVE StoredInv'
  <2>1. /\ job'[j].pc \in {"posted", "queued", "failing"}
        /\ job'[j].key = job[j].key
        /\ job'[j].pc = "posted" => Post(job[j].key) /\ job'[j].msg = Len(log) + 1
        /\ \A i \in Jobs : i # j => job'[i] = job[i]
    BY <1>10, <1>d, FailAttemptFacts DEF JobSend
  <2>2. job[j].key \in ChunkIds
    BY <1>10 DEF JobSend, WorkInv
  <2>3. /\ Len(log') \in Nat /\ Len(log) <= Len(log')
        /\ \A m \in 1..Len(log) : log'[m] = log[m]
        /\ Post(job[j].key) =>
             Len(log') = Len(log) + 1 /\ log'[Len(log) + 1] = job[j].key
    BY <1>10, <2>2, <1>e, PostFacts DEF JobSend
  <2>4. RowInv'
    BY <1>10, <2>3, <1>a, <1>e DEF RowInv, Carries, Exists, JobSend
  <2>5. WorkInv'
    BY <1>10, <2>1, <1>a, <1>b DEF WorkInv, Exists, Gone, JobSend
  <2>6. PublishInv'
    BY <1>10, <2>1, <1>a, <1>c DEF PublishInv, StoredOrGone, FullyStored,
       ChunksOf, Gone, JobSend
  <2>7. MessageInv'
    BY <1>10, <2>1, <2>3, <1>e DEF MessageInv, Carries
  <2>8. ReadyIsStored'
    BY <1>10 DEF ReadyIsStored, FullyStored, ChunksOf, JobSend
  <2> QED
    BY <2>4, <2>5, <2>6, <2>7, <2>8 DEF StoredInv
<1>11. ASSUME NEW j \in Jobs, JobSendFails(j) PROVE StoredInv'
  <2>1. /\ job'[j].pc \in {"queued", "failing"}
        /\ job'[j].pc # "free" => job'[j].key = job[j].key
        /\ job'[j].pc \in {"posted", "writing", "verifying", "orphan"} =>
             job'[j].msg = job[j].msg
        /\ \A i \in Jobs : i # j => job'[i] = job[i]
    BY <1>11, GotoFacts, FinishFacts, FailAttemptFacts DEF JobSendFails
  <2>2. RowInv'
    BY <1>11, <2>1, <1>a, <1>e DEF RowInv, Carries, MessageInv, WorkInv,
       Exists, JobSendFails, Post
  <2>3. WorkInv'
    BY <1>11, <2>1, <1>a, <1>b DEF WorkInv, Exists, Gone, JobSendFails
  <2>4. PublishInv'
    BY <1>11, <2>1, <1>a, <1>c DEF PublishInv, StoredOrGone, FullyStored,
       ChunksOf, Gone, Exists, WorkInv, RowInv, JobSendFails, Post
  <2>5. MessageInv'
    BY <1>11, <2>1, <1>e DEF MessageInv, Carries, WorkInv, JobSendFails, Post
  <2>6. ReadyIsStored'
    BY <1>11, <2>1, <1>a DEF ReadyIsStored, PublishInv, StoredOrGone,
       FullyStored, ChunksOf, Gone, Exists, JobSendFails, Post
  <2> QED
    BY <2>2, <2>3, <2>4, <2>5, <2>6 DEF StoredInv
<1>12. ASSUME NEW j \in Jobs, JobSurvivor(j) PROVE StoredInv'
  <2>1. /\ job'[j].pc \in {"writing", "orphan"}
        /\ job'[j].pc # "free" => job'[j].key = job[j].key
        /\ job'[j].pc \in {"posted", "writing", "verifying", "orphan"} =>
             job'[j].msg = job[j].msg
        /\ \A i \in Jobs : i # j => job'[i] = job[i]
    BY <1>12, GotoFacts, FinishFacts, FailAttemptFacts DEF JobSurvivor
  <2>2. RowInv'
    BY <1>12, <2>1, <1>a, <1>e DEF RowInv, Carries, MessageInv, WorkInv,
       Exists, JobSurvivor
  <2>3. WorkInv'
    BY <1>12, <2>1, <1>a, <1>b DEF WorkInv, Exists, Gone, JobSurvivor
  <2>4. PublishInv'
    BY <1>12, <2>1, <1>a, <1>c DEF PublishInv, StoredOrGone, FullyStored,
       ChunksOf, Gone, Exists, WorkInv, RowInv, JobSurvivor
  <2>5. MessageInv'
    BY <1>12, <2>1, <1>e DEF MessageInv, Carries, WorkInv, JobSurvivor
  <2>6. ReadyIsStored'
    BY <1>12, <2>1, <1>a DEF ReadyIsStored, PublishInv, StoredOrGone,
       FullyStored, ChunksOf, Gone, Exists, JobSurvivor
  <2> QED
    BY <2>2, <2>3, <2>4, <2>5, <2>6 DEF StoredInv
<1>13. ASSUME NEW j \in Jobs, JobWrite(j) PROVE StoredInv'
  <2>1. /\ job'[j].pc \in {"verifying", "orphan"}
        /\ job'[j].pc # "free" => job'[j].key = job[j].key
        /\ job'[j].pc \in {"posted", "writing", "verifying", "orphan"} =>
             job'[j].msg = job[j].msg
        /\ \A i \in Jobs : i # j => job'[i] = job[i]
    BY <1>13, GotoFacts, FinishFacts, FailAttemptFacts DEF JobWrite
  <2>2. \A k \in ChunkIds : chunkMsg[k] # NoMsg => chunkMsg'[k] # NoMsg
    BY <1>13, <1>a, <1>e DEF JobWrite, MessageInv, Carries
  <2>3. RowInv'
    BY <1>13, <2>1, <1>a, <1>e DEF RowInv, Carries, MessageInv, WorkInv,
       Exists, JobWrite
  <2>4. WorkInv'
    BY <1>13, <2>1, <1>a, <1>b DEF WorkInv, Exists, Gone, JobWrite
  <2>5. PublishInv'
    BY <1>13, <2>1, <2>2, <1>a, <1>c DEF PublishInv, StoredOrGone, FullyStored,
       ChunksOf, Gone, JobWrite
  <2>6. MessageInv'
    BY <1>13, <2>1, <1>e DEF MessageInv, Carries, WorkInv, JobWrite
  <2>7. ReadyIsStored'
    BY <1>13, <2>2, <1>a DEF ReadyIsStored, FullyStored, ChunksOf, JobWrite
  <2> QED
    BY <2>3, <2>4, <2>5, <2>6, <2>7 DEF StoredInv
<1>14. ASSUME NEW j \in Jobs, JobRecorded(j) PROVE StoredInv'
  <2>1. /\ job'[j].pc \in {"unstaging", "orphan"}
        /\ job'[j].pc # "free" => job'[j].key = job[j].key
        /\ job'[j].pc \in {"posted", "writing", "verifying", "orphan"} =>
             job'[j].msg = job[j].msg
        /\ \A i \in Jobs : i # j => job'[i] = job[i]
    BY <1>14, GotoFacts, FinishFacts, FailAttemptFacts DEF JobRecorded
  <2>2. RowInv'
    BY <1>14, <2>1, <1>a, <1>e DEF RowInv, Carries, MessageInv, WorkInv,
       Exists, JobRecorded
  <2>3. WorkInv'
    BY <1>14, <2>1, <1>a, <1>b DEF WorkInv, Exists, Gone, JobRecorded
  <2>4. PublishInv'
    BY <1>14, <2>1, <1>a, <1>c DEF PublishInv, StoredOrGone, FullyStored,
       ChunksOf, Gone, Exists, WorkInv, RowInv, JobRecorded
  <2>5. MessageInv'
    BY <1>14, <2>1, <1>e DEF MessageInv, Carries, WorkInv, JobRecorded
  <2>6. ReadyIsStored'
    BY <1>14, <2>1, <1>a DEF ReadyIsStored, PublishInv, StoredOrGone,
       FullyStored, ChunksOf, Gone, Exists, JobRecorded
  <2> QED
    BY <2>2, <2>3, <2>4, <2>5, <2>6 DEF StoredInv
<1>15. ASSUME NEW j \in Jobs, JobUnstage(j) PROVE StoredInv'
  <2>1. /\ job'[j].pc \in {"counting", "free"}
        /\ job'[j].pc # "free" => job'[j].key = job[j].key
        /\ job'[j].pc \in {"posted", "writing", "verifying", "orphan"} =>
             job'[j].msg = job[j].msg
        /\ \A i \in Jobs : i # j => job'[i] = job[i]
    BY <1>15, GotoFacts, FinishFacts, FailAttemptFacts DEF JobUnstage
  <2>2. RowInv'
    BY <1>15, <2>1, <1>a, <1>e DEF RowInv, Carries, MessageInv, WorkInv,
       Exists, JobUnstage
  <2>3. WorkInv'
    BY <1>15, <2>1, <1>a, <1>b DEF WorkInv, Exists, Gone, JobUnstage
  <2>4. PublishInv'
    BY <1>15, <2>1, <1>a, <1>c DEF PublishInv, StoredOrGone, FullyStored,
       ChunksOf, Gone, Exists, WorkInv, RowInv, JobUnstage
  <2>5. MessageInv'
    BY <1>15, <2>1, <1>e DEF MessageInv, Carries, WorkInv, JobUnstage
  <2>6. ReadyIsStored'
    BY <1>15, <2>1, <1>a DEF ReadyIsStored, PublishInv, StoredOrGone,
       FullyStored, ChunksOf, Gone, Exists, JobUnstage
  <2> QED
    BY <2>2, <2>3, <2>4, <2>5, <2>6 DEF StoredInv
<1>16. ASSUME NEW j \in Jobs, JobCount(j) PROVE StoredInv'
  <2>1. /\ job'[j].pc \in {"publishing", "free"}
        /\ job'[j].pc # "free" => job'[j].key = job[j].key
        /\ job'[j].pc \in {"posted", "writing", "verifying", "orphan"} =>
             job'[j].msg = job[j].msg
        /\ \A i \in Jobs : i # j => job'[i] = job[i]
    BY <1>16, GotoFacts, FinishFacts, FailAttemptFacts DEF JobCount
  <2>2. job'[j].pc = "publishing" => StoredOrGone(job[j].key[1])
    <3>1. job[j].key \in ChunkIds /\ file[job[j].key[1]] # "NEW"
      BY <1>16 DEF JobCount, WorkInv
    <3>2. job'[j].pc = "publishing" =>
            \/ ~Exists(job[j].key[1])
            \/ \A k \in ChunksOf(job[j].key[1]) : chunkStatus[k] = "UPLOADED"
      BY <1>16, FinishFacts DEF JobCount, Unfinished
    <3> QED
      BY <3>1, <3>2 DEF StoredOrGone, FullyStored, Gone, Exists, RowInv, ChunksOf
  <2>3. RowInv'
    BY <1>16, <2>1, <1>a, <1>e DEF RowInv, Carries, MessageInv, WorkInv,
       Exists, JobCount, Unfinished
  <2>4. WorkInv'
    BY <1>16, <2>1, <1>a, <1>b DEF WorkInv, Exists, Gone, JobCount, Unfinished
  <2>5. PublishInv'
    BY <1>16, <2>1, <2>2, <1>a, <1>c DEF PublishInv, StoredOrGone, FullyStored,
       ChunksOf, Gone, JobCount
  <2>6. MessageInv'
    BY <1>16, <2>1, <1>e DEF MessageInv, Carries, WorkInv, JobCount, Unfinished
  <2>7. ReadyIsStored'
    BY <1>16, <2>1, <1>a DEF ReadyIsStored, PublishInv, StoredOrGone,
       FullyStored, ChunksOf, Gone, Exists, JobCount, Unfinished
  <2> QED
    BY <2>3, <2>4, <2>5, <2>6, <2>7 DEF StoredInv
<1>17. ASSUME NEW j \in Jobs, JobPublish(j) PROVE StoredInv'
  <2>1. /\ job'[j].pc \in {"free"}
        /\ job'[j].pc # "free" => job'[j].key = job[j].key
        /\ job'[j].pc \in {"posted", "writing", "verifying", "orphan"} =>
             job'[j].msg = job[j].msg
        /\ \A i \in Jobs : i # j => job'[i] = job[i]
    BY <1>17, GotoFacts, FinishFacts, FailAttemptFacts DEF JobPublish
  <2>2. RowInv'
    BY <1>17, <2>1, <1>a, <1>e DEF RowInv, Carries, MessageInv, WorkInv,
       Exists, JobPublish
  <2>3. WorkInv'
    BY <1>17, <2>1, <1>a, <1>b DEF WorkInv, Exists, Gone, JobPublish
  <2>4. PublishInv'
    BY <1>17, <2>1, <1>a, <1>c DEF PublishInv, StoredOrGone, FullyStored,
       ChunksOf, Gone, Exists, WorkInv, RowInv, JobPublish
  <2>5. MessageInv'
    BY <1>17, <2>1, <1>e DEF MessageInv, Carries, WorkInv, JobPublish
  <2>6. ReadyIsStored'
    BY <1>17, <2>1, <1>a DEF ReadyIsStored, PublishInv, StoredOrGone,
       FullyStored, ChunksOf, Gone, Exists, JobPublish
  <2> QED
    BY <2>2, <2>3, <2>4, <2>5, <2>6 DEF StoredInv
<1>18. ASSUME NEW j \in Jobs, JobOrphan(j) PROVE StoredInv'
  <2>1. /\ job'[j].pc \in {"cleaning"}
        /\ job'[j].pc # "free" => job'[j].key = job[j].key
        /\ job'[j].pc \in {"posted", "writing", "verifying", "orphan"} =>
             job'[j].msg = job[j].msg
        /\ \A i \in Jobs : i # j => job'[i] = job[i]
    BY <1>18, GotoFacts, FinishFacts, FailAttemptFacts DEF JobOrphan
  <2>2. RowInv'
    BY <1>18, <2>1, <1>a, <1>e DEF RowInv, Carries, MessageInv, WorkInv,
       Exists, JobOrphan
  <2>3. WorkInv'
    BY <1>18, <2>1, <1>a, <1>b DEF WorkInv, Exists, Gone, JobOrphan
  <2>4. PublishInv'
    BY <1>18, <2>1, <1>a, <1>c DEF PublishInv, StoredOrGone, FullyStored,
       ChunksOf, Gone, Exists, WorkInv, RowInv, JobOrphan
  <2>5. MessageInv'
    BY <1>18, <2>1, <1>e DEF MessageInv, Carries, WorkInv, JobOrphan
  <2>6. ReadyIsStored'
    BY <1>18, <2>1, <1>a DEF ReadyIsStored, PublishInv, StoredOrGone,
       FullyStored, ChunksOf, Gone, Exists, JobOrphan
  <2> QED
    BY <2>2, <2>3, <2>4, <2>5, <2>6 DEF StoredInv
<1>19. ASSUME NEW j \in Jobs, JobFailChunk(j) PROVE StoredInv'
  <2>1. /\ job'[j].pc \in {"flagging"}
        /\ job'[j].pc # "free" => job'[j].key = job[j].key
        /\ job'[j].pc \in {"posted", "writing", "verifying", "orphan"} =>
             job'[j].msg = job[j].msg
        /\ \A i \in Jobs : i # j => job'[i] = job[i]
    BY <1>19, GotoFacts, FinishFacts, FailAttemptFacts DEF JobFailChunk
  <2>2. RowInv'
    BY <1>19, <2>1, <1>a, <1>e DEF RowInv, Carries, MessageInv, WorkInv,
       Exists, JobFailChunk
  <2>3. WorkInv'
    BY <1>19, <2>1, <1>a, <1>b DEF WorkInv, Exists, Gone, JobFailChunk
  <2>4. PublishInv'
    BY <1>19, <2>1, <1>a, <1>c DEF PublishInv, StoredOrGone, FullyStored,
       ChunksOf, Gone, Exists, WorkInv, RowInv, JobFailChunk
  <2>5. MessageInv'
    BY <1>19, <2>1, <1>e DEF MessageInv, Carries, WorkInv, JobFailChunk
  <2>6. ReadyIsStored'
    BY <1>19, <2>1, <1>a DEF ReadyIsStored, PublishInv, StoredOrGone,
       FullyStored, ChunksOf, Gone, Exists, JobFailChunk
  <2> QED
    BY <2>2, <2>3, <2>4, <2>5, <2>6 DEF StoredInv
<1>20. ASSUME NEW j \in Jobs, JobFailFile(j) PROVE StoredInv'
  <2>1. /\ job'[j].pc \in {"free"}
        /\ job'[j].pc # "free" => job'[j].key = job[j].key
        /\ job'[j].pc \in {"posted", "writing", "verifying", "orphan"} =>
             job'[j].msg = job[j].msg
        /\ \A i \in Jobs : i # j => job'[i] = job[i]
    BY <1>20, GotoFacts, FinishFacts, FailAttemptFacts DEF JobFailFile
  <2>2. RowInv'
    BY <1>20, <2>1, <1>a, <1>e DEF RowInv, Carries, MessageInv, WorkInv,
       Exists, JobFailFile
  <2>3. WorkInv'
    BY <1>20, <2>1, <1>a, <1>b DEF WorkInv, Exists, Gone, JobFailFile
  <2>4. PublishInv'
    BY <1>20, <2>1, <1>a, <1>c DEF PublishInv, StoredOrGone, FullyStored,
       ChunksOf, Gone, Exists, WorkInv, RowInv, JobFailFile
  <2>5. MessageInv'
    BY <1>20, <2>1, <1>e DEF MessageInv, Carries, WorkInv, JobFailFile
  <2>6. ReadyIsStored'
    BY <1>20, <2>1, <1>a DEF ReadyIsStored, PublishInv, StoredOrGone,
       FullyStored, ChunksOf, Gone, Exists, JobFailFile
  <2> QED
    BY <2>2, <2>3, <2>4, <2>5, <2>6 DEF StoredInv
<1>21. ASSUME NEW j \in Jobs, JobDbFails(j) PROVE StoredInv'
  <2>1. /\ job'[j].pc \in {"queued", "failing", "orphan", "free", "flagging"}
        /\ job'[j].pc # "free" => job'[j].key = job[j].key
        /\ job'[j].pc \in {"posted", "writing", "verifying", "orphan"} =>
             job'[j].msg = job[j].msg
        /\ \A i \in Jobs : i # j => job'[i] = job[i]
    BY <1>21, GotoFacts, FinishFacts, FailAttemptFacts DEF JobDbFails
  <2>2. job'[j].pc = "orphan" => job[j].pc \in {"writing", "verifying"}
    BY <1>21, GotoFacts, FinishFacts, FailAttemptFacts DEF JobDbFails
  <2>3. RowInv'
    BY <1>21, <2>1, <1>a, <1>e DEF RowInv, Carries, MessageInv, WorkInv,
       Exists, JobDbFails
  <2>4. WorkInv'
    BY <1>21, <2>1, <1>a, <1>b DEF WorkInv, Exists, Gone, JobDbFails
  <2>5. PublishInv'
    BY <1>21, <2>1, <1>a, <1>c DEF PublishInv, StoredOrGone, FullyStored,
       ChunksOf, Gone, Exists, WorkInv, RowInv, JobDbFails
  <2>6. MessageInv'
    BY <1>21, <2>1, <2>2, <1>e DEF MessageInv, Carries, JobDbFails
  <2>7. ReadyIsStored'
    BY <1>21, <2>1, <1>a DEF ReadyIsStored, PublishInv, StoredOrGone,
       FullyStored, ChunksOf, Gone, Exists, JobDbFails
  <2> QED
    BY <2>3, <2>4, <2>5, <2>6, <2>7 DEF StoredInv
<1>22. ASSUME NEW t \in trash, TrashRun(t) PROVE StoredInv'
  <2>1. RowInv'
    BY <1>22, <1>a, <1>e DEF RowInv, Carries, MessageInv, WorkInv, Exists,
       TrashRun
  <2>2. WorkInv'
    BY <1>22, <1>a, <1>b DEF WorkInv, Exists, Gone, TrashRun
  <2>3. PublishInv'
    BY <1>22, <1>a, <1>c DEF PublishInv, StoredOrGone, FullyStored, ChunksOf,
       Gone, Exists, WorkInv, RowInv, TrashRun
  <2>4. MessageInv'
    BY <1>22, <1>e DEF MessageInv, Carries, WorkInv, TrashRun
  <2>5. ReadyIsStored'
    BY <1>22, <1>a DEF ReadyIsStored, PublishInv, StoredOrGone, FullyStored,
       ChunksOf, Gone, Exists, TrashRun
  <2> QED
    BY <2>1, <2>2, <2>3, <2>4, <2>5 DEF StoredInv
<1>23. ASSUME NEW t \in trash, TrashFails(t) PROVE StoredInv'
  <2>1. RowInv'
    BY <1>23, <1>a, <1>e DEF RowInv, Carries, MessageInv, WorkInv, Exists,
       TrashFails
  <2>2. WorkInv'
    BY <1>23, <1>a, <1>b DEF WorkInv, Exists, Gone, TrashFails
  <2>3. PublishInv'
    BY <1>23, <1>a, <1>c DEF PublishInv, StoredOrGone, FullyStored, ChunksOf,
       Gone, Exists, WorkInv, RowInv, TrashFails
  <2>4. MessageInv'
    BY <1>23, <1>e DEF MessageInv, Carries, WorkInv, TrashFails
  <2>5. ReadyIsStored'
    BY <1>23, <1>a DEF ReadyIsStored, PublishInv, StoredOrGone, FullyStored,
       ChunksOf, Gone, Exists, TrashFails
  <2> QED
    BY <2>1, <2>2, <2>3, <2>4, <2>5 DEF StoredInv
<1>24. ASSUME NEW f \in Files, DeleteRead(f) PROVE StoredInv'
  <2>1. RowInv'
    BY <1>24, <1>a, <1>e DEF RowInv, Carries, MessageInv, WorkInv, Exists,
       DeleteRead
  <2>2. WorkInv'
    BY <1>24, <1>a, <1>b DEF WorkInv, Exists, Gone, DeleteRead
  <2>3. PublishInv'
    BY <1>24, <1>a, <1>c DEF PublishInv, StoredOrGone, FullyStored, ChunksOf,
       Gone, Exists, WorkInv, RowInv, DeleteRead
  <2>4. MessageInv'
    BY <1>24, <1>e DEF MessageInv, Carries, WorkInv, DeleteRead
  <2>5. ReadyIsStored'
    BY <1>24, <1>a DEF ReadyIsStored, PublishInv, StoredOrGone, FullyStored,
       ChunksOf, Gone, Exists, DeleteRead
  <2> QED
    BY <2>1, <2>2, <2>3, <2>4, <2>5 DEF StoredInv
<1>25. ASSUME NEW f \in Files, DeleteRows(f) PROVE StoredInv'
  <2>1. RowInv'
    BY <1>25, <1>a, <1>e DEF RowInv, Carries, MessageInv, WorkInv, Exists,
       DeleteRows
  <2>2. WorkInv'
    BY <1>25, <1>a, <1>b DEF WorkInv, Exists, Gone, DeleteRows
  <2>3. PublishInv'
    BY <1>25, <1>a, <1>c DEF PublishInv, StoredOrGone, FullyStored, ChunksOf,
       Gone, Exists, WorkInv, RowInv, DeleteRows
  <2>4. MessageInv'
    BY <1>25, <1>e DEF MessageInv, Carries, WorkInv, DeleteRows
  <2>5. ReadyIsStored'
    BY <1>25, <1>a DEF ReadyIsStored, PublishInv, StoredOrGone, FullyStored,
       ChunksOf, Gone, Exists, DeleteRows
  <2> QED
    BY <2>1, <2>2, <2>3, <2>4, <2>5 DEF StoredInv
<1>26. ASSUME NEW f \in Files, DeleteCleanup(f) PROVE StoredInv'
  <2>1. RowInv'
    BY <1>26, <1>a, <1>e DEF RowInv, Carries, MessageInv, WorkInv, Exists,
       DeleteCleanup
  <2>2. WorkInv'
    BY <1>26, <1>a, <1>b DEF WorkInv, Exists, Gone, DeleteCleanup
  <2>3. PublishInv'
    BY <1>26, <1>a, <1>c DEF PublishInv, StoredOrGone, FullyStored, ChunksOf,
       Gone, Exists, WorkInv, RowInv, DeleteCleanup
  <2>4. MessageInv'
    BY <1>26, <1>e DEF MessageInv, Carries, WorkInv, DeleteCleanup
  <2>5. ReadyIsStored'
    BY <1>26, <1>a DEF ReadyIsStored, PublishInv, StoredOrGone, FullyStored,
       ChunksOf, Gone, Exists, DeleteCleanup
  <2> QED
    BY <2>1, <2>2, <2>3, <2>4, <2>5 DEF StoredInv
<1>27. ASSUME NEW f \in Files, DeleteFails(f) PROVE StoredInv'
  <2>1. RowInv'
    BY <1>27, <1>a, <1>e DEF RowInv, Carries, MessageInv, WorkInv, Exists,
       DeleteFails
  <2>2. WorkInv'
    BY <1>27, <1>a, <1>b DEF WorkInv, Exists, Gone, DeleteFails
  <2>3. PublishInv'
    BY <1>27, <1>a, <1>c DEF PublishInv, StoredOrGone, FullyStored, ChunksOf,
       Gone, Exists, WorkInv, RowInv, DeleteFails
  <2>4. MessageInv'
    BY <1>27, <1>e DEF MessageInv, Carries, WorkInv, DeleteFails
  <2>5. ReadyIsStored'
    BY <1>27, <1>a DEF ReadyIsStored, PublishInv, StoredOrGone, FullyStored,
       ChunksOf, Gone, Exists, DeleteFails
  <2> QED
    BY <2>1, <2>2, <2>3, <2>4, <2>5 DEF StoredInv
<1>28. ASSUME NEW q \in Checkers, NEW f \in Files,
        NEW by \in {"download", "retry"}, CheckStart(q, f, by) PROVE StoredInv'
  <2>1. RowInv'
    BY <1>28, <1>a, <1>e DEF RowInv, Carries, MessageInv, WorkInv, Exists,
       CheckStart
  <2>2. WorkInv'
    BY <1>28, <1>a, <1>b DEF WorkInv, Exists, Gone, CheckStart
  <2>3. PublishInv'
    BY <1>28, <1>a, <1>c DEF PublishInv, StoredOrGone, FullyStored, ChunksOf,
       Gone, Exists, WorkInv, RowInv, CheckStart
  <2>4. MessageInv'
    BY <1>28, <1>e DEF MessageInv, Carries, WorkInv, CheckStart
  <2>5. ReadyIsStored'
    BY <1>28, <1>a DEF ReadyIsStored, PublishInv, StoredOrGone, FullyStored,
       ChunksOf, Gone, Exists, CheckStart
  <2> QED
    BY <2>1, <2>2, <2>3, <2>4, <2>5 DEF StoredInv
<1>29. ASSUME NEW q \in Checkers, CheckVerify(q) PROVE StoredInv'
  <2>1. RowInv'
    BY <1>29, <1>a, <1>e DEF RowInv, Carries, MessageInv, WorkInv, Exists,
       CheckVerify, CheckGoto, IdleCheck
  <2>2. WorkInv'
    BY <1>29, <1>a, <1>b DEF WorkInv, Exists, Gone, CheckVerify, CheckGoto,
       IdleCheck
  <2>3. PublishInv'
    BY <1>29, <1>a, <1>c DEF PublishInv, StoredOrGone, FullyStored, ChunksOf,
       Gone, Exists, WorkInv, RowInv, CheckVerify, CheckGoto, IdleCheck
  <2>4. MessageInv'
    BY <1>29, <1>e DEF MessageInv, Carries, WorkInv, CheckVerify, CheckGoto,
       IdleCheck
  <2>5. ReadyIsStored'
    BY <1>29, <1>a DEF ReadyIsStored, PublishInv, StoredOrGone, FullyStored,
       ChunksOf, Gone, Exists, CheckVerify, CheckGoto, IdleCheck
  <2> QED
    BY <2>1, <2>2, <2>3, <2>4, <2>5 DEF StoredInv
<1>30. ASSUME NEW q \in Checkers, CheckFails(q) PROVE StoredInv'
  <2>1. RowInv'
    BY <1>30, <1>a, <1>e DEF RowInv, Carries, MessageInv, WorkInv, Exists,
       CheckFails, CheckGoto, IdleCheck
  <2>2. WorkInv'
    BY <1>30, <1>a, <1>b DEF WorkInv, Exists, Gone, CheckFails, CheckGoto,
       IdleCheck
  <2>3. PublishInv'
    BY <1>30, <1>a, <1>c DEF PublishInv, StoredOrGone, FullyStored, ChunksOf,
       Gone, Exists, WorkInv, RowInv, CheckFails, CheckGoto, IdleCheck
  <2>4. MessageInv'
    BY <1>30, <1>e DEF MessageInv, Carries, WorkInv, CheckFails, CheckGoto,
       IdleCheck
  <2>5. ReadyIsStored'
    BY <1>30, <1>a DEF ReadyIsStored, PublishInv, StoredOrGone, FullyStored,
       ChunksOf, Gone, Exists, CheckFails, CheckGoto, IdleCheck
  <2> QED
    BY <2>1, <2>2, <2>3, <2>4, <2>5 DEF StoredInv
<1>31. ASSUME NEW q \in Checkers, CheckRepair(q) PROVE StoredInv'
  <2>1. RowInv'
    BY <1>31, <1>a, <1>e DEF RowInv, Carries, MessageInv, WorkInv, Exists,
       CheckRepair, CheckGoto, IdleCheck
  <2>2. WorkInv'
    BY <1>31, <1>a, <1>b DEF WorkInv, Exists, Gone, CheckRepair, CheckGoto,
       IdleCheck
  <2>3. PublishInv'
    BY <1>31, <1>a, <1>c DEF PublishInv, StoredOrGone, FullyStored, ChunksOf,
       Gone, Exists, WorkInv, RowInv, CheckRepair, CheckGoto, IdleCheck
  <2>4. MessageInv'
    BY <1>31, <1>e DEF MessageInv, Carries, WorkInv, CheckRepair, CheckGoto,
       IdleCheck
  <2>5. ReadyIsStored'
    BY <1>31, <1>a DEF ReadyIsStored, PublishInv, StoredOrGone, FullyStored,
       ChunksOf, Gone, Exists, CheckRepair, CheckGoto, IdleCheck
  <2> QED
    BY <2>1, <2>2, <2>3, <2>4, <2>5 DEF StoredInv
<1>32. ASSUME NEW q \in Checkers, CheckStream(q) PROVE StoredInv'
  <2>1. RowInv'
    BY <1>32, <1>a, <1>e DEF RowInv, Carries, MessageInv, WorkInv, Exists,
       CheckStream, CheckGoto, IdleCheck
  <2>2. WorkInv'
    BY <1>32, <1>a, <1>b DEF WorkInv, Exists, Gone, CheckStream, CheckGoto,
       IdleCheck
  <2>3. PublishInv'
    BY <1>32, <1>a, <1>c DEF PublishInv, StoredOrGone, FullyStored, ChunksOf,
       Gone, Exists, WorkInv, RowInv, CheckStream, CheckGoto, IdleCheck
  <2>4. MessageInv'
    BY <1>32, <1>e DEF MessageInv, Carries, WorkInv, CheckStream, CheckGoto,
       IdleCheck
  <2>5. ReadyIsStored'
    BY <1>32, <1>a DEF ReadyIsStored, PublishInv, StoredOrGone, FullyStored,
       ChunksOf, Gone, Exists, CheckStream, CheckGoto, IdleCheck
  <2> QED
    BY <2>1, <2>2, <2>3, <2>4, <2>5 DEF StoredInv
<1>33. ASSUME NEW q \in Checkers, CheckLost(q) PROVE StoredInv'
  <2>1. RowInv'
    BY <1>33, <1>a, <1>e DEF RowInv, Carries, MessageInv, WorkInv, Exists,
       CheckLost, CheckGoto, IdleCheck
  <2>2. WorkInv'
    BY <1>33, <1>a, <1>b DEF WorkInv, Exists, Gone, CheckLost, CheckGoto,
       IdleCheck
  <2>3. PublishInv'
    BY <1>33, <1>a, <1>c DEF PublishInv, StoredOrGone, FullyStored, ChunksOf,
       Gone, Exists, WorkInv, RowInv, CheckLost, CheckGoto, IdleCheck
  <2>4. MessageInv'
    BY <1>33, <1>e DEF MessageInv, Carries, WorkInv, CheckLost, CheckGoto,
       IdleCheck
  <2>5. ReadyIsStored'
    BY <1>33, <1>a DEF ReadyIsStored, PublishInv, StoredOrGone, FullyStored,
       ChunksOf, Gone, Exists, CheckLost, CheckGoto, IdleCheck
  <2> QED
    BY <2>1, <2>2, <2>3, <2>4, <2>5 DEF StoredInv
<1>34. ASSUME NEW r \in Retriers, NEW f \in Files, RetryRead(r, f) PROVE StoredInv'
  <2>1. /\ retry'[r].pending \subseteq ChunksOf(f) /\ file[f] # "NEW"
        /\ \A s \in Retriers : s # r => retry'[s] = retry[s]
    BY <1>34, <1>b DEF RetryRead, Unfinished
  <2>2. RowInv'
    BY <1>34, <1>a, <1>e DEF RowInv, Carries, MessageInv, WorkInv, Exists,
       RetryRead, Unfinished
  <2>3. WorkInv'
    BY <1>34, <2>1, <1>a, <1>b DEF WorkInv, Exists, Gone, ChunksOf, RetryRead
  <2>4. PublishInv'
    BY <1>34, <1>a, <1>c DEF PublishInv, StoredOrGone, FullyStored, ChunksOf,
       Gone, Exists, WorkInv, RowInv, RetryRead, Unfinished
  <2>5. MessageInv'
    BY <1>34, <1>e DEF MessageInv, Carries, WorkInv, RetryRead, Unfinished
  <2>6. ReadyIsStored'
    BY <1>34, <1>a DEF ReadyIsStored, PublishInv, StoredOrGone, FullyStored,
       ChunksOf, Gone, Exists, RetryRead, Unfinished
  <2> QED
    BY <2>2, <2>3, <2>4, <2>5, <2>6 DEF StoredInv
<1>35. ASSUME NEW r \in Retriers, RetryReset(r) PROVE StoredInv'
  <2>1. RowInv'
    BY <1>35, <1>a, <1>e DEF RowInv, Carries, MessageInv, WorkInv, Exists,
       RetryReset
  <2>2. WorkInv'
    BY <1>35, <1>a, <1>b DEF WorkInv, Exists, Gone, RetryReset
  <2>3. PublishInv'
    BY <1>35, <1>a, <1>c DEF PublishInv, StoredOrGone, FullyStored, ChunksOf,
       Gone, Exists, WorkInv, RowInv, RetryReset
  <2>4. MessageInv'
    BY <1>35, <1>e DEF MessageInv, Carries, WorkInv, RetryReset
  <2>5. ReadyIsStored'
    BY <1>35, <1>a DEF ReadyIsStored, PublishInv, StoredOrGone, FullyStored,
       ChunksOf, Gone, Exists, RetryReset
  <2> QED
    BY <2>1, <2>2, <2>3, <2>4, <2>5 DEF StoredInv
<1>36. ASSUME NEW r \in Retriers, RetryMark(r) PROVE StoredInv'
  <2>1. /\ retry'[r].pending \subseteq retry[r].pending
        /\ \A s \in Retriers : s # r => retry'[s] = retry[s]
    BY <1>36, <1>b DEF RetryMark, IdleRetry
  <2>2. \A f \in Files :
          /\ file[f] # "NEW" => file'[f] # "NEW"
          /\ file[f] = "GONE" <=> file'[f] = "GONE"
    BY <1>36, <1>a DEF RetryMark, Exists
  <2>3. \A s \in Retriers : \A k \in retry'[s].pending :
          k \in ChunkIds /\ file[k[1]] # "NEW"
    BY <2>1, <1>b DEF RetryType, WorkInv
  <2>4. RowInv'
    BY <1>36, <2>2, <1>a, <1>f DEF RowInv, Carries, Exists, RetryMark
  <2>5. WorkInv'
    <3>1. \A f \in Files :
            /\ upload[f].pc # "none" => file'[f] # "NEW"
            /\ del[f].pc = "rows" => file'[f] \notin {"NEW", "GONE"}
            /\ del[f].pc = "cleanup" => file'[f] = "GONE"
      BY <2>2, <1>a, <1>g DEF WorkInv, Exists, Gone
    <3>2. \A k \in ChunkIds : file[k[1]] # "NEW" => file'[k[1]] # "NEW"
      BY <2>2, <1>a, <1>f, <1>g
    <3>3. \A j \in Jobs :
            job[j].pc # "free" =>
              job[j].key \in ChunkIds /\ file'[job[j].key[1]] # "NEW"
      BY <3>2 DEF WorkInv
    <3>4. \A s \in Retriers : \A k \in retry'[s].pending : file'[k[1]] # "NEW"
      BY <3>2, <2>3
    <3> QED
      BY <1>36, <3>1, <3>3, <3>4 DEF WorkInv, Exists, Gone, RetryMark
  <2>6. PublishInv'
    BY <1>36, <2>2, <1>a, <1>c, <1>f DEF PublishInv, StoredOrGone, FullyStored,
       ChunksOf, Gone, WorkInv, RetryMark
  <2>7. MessageInv'
    BY <1>36, <1>e DEF MessageInv, Carries, WorkInv, RetryMark, IdleRetry
  <2>8. ReadyIsStored'
    BY <1>36, <1>a DEF ReadyIsStored, PublishInv, StoredOrGone, FullyStored,
       ChunksOf, Gone, Exists, RetryMark, IdleRetry
  <2> QED
    BY <2>4, <2>5, <2>6, <2>7, <2>8 DEF StoredInv
<1>37. ASSUME NEW r \in Retriers, RetryEnqueue(r) PROVE StoredInv'
  <2>1. PICK k \in retry[r].pending :
          /\ \A i \in Jobs : job'[i] = job[i] \/ job'[i] = NewJob(k)
          /\ retry'[r].pending \subseteq retry[r].pending
          /\ \A s \in Retriers : s # r => retry'[s] = retry[s]
    BY <1>37, <1>b, <1>d DEF RetryEnqueue, IdleRetry
  <2>2. k \in ChunkIds /\ file[k[1]] # "NEW"
    BY <1>b DEF RetryType, WorkInv
  <2>3. RowInv'
    BY <1>37, <1>a, <1>e DEF RowInv, Carries, MessageInv, WorkInv, Exists,
       RetryEnqueue, NewJob, IdleRetry
  <2>4. WorkInv'
    BY <1>37, <2>1, <2>2, <1>a, <1>b DEF WorkInv, Exists, Gone, RetryEnqueue,
       NewJob
  <2>5. PublishInv'
    BY <1>37, <1>a, <1>c DEF PublishInv, StoredOrGone, FullyStored, ChunksOf,
       Gone, Exists, WorkInv, RowInv, RetryEnqueue, NewJob, IdleRetry
  <2>6. MessageInv'
    BY <1>37, <1>e DEF MessageInv, Carries, WorkInv, RetryEnqueue, NewJob,
       IdleRetry
  <2>7. ReadyIsStored'
    BY <1>37, <1>a DEF ReadyIsStored, PublishInv, StoredOrGone, FullyStored,
       ChunksOf, Gone, Exists, RetryEnqueue, NewJob, IdleRetry
  <2> QED
    BY <2>3, <2>4, <2>5, <2>6, <2>7 DEF StoredInv
<1>38. ASSUME NEW r \in Retriers, RetryFails(r) PROVE StoredInv'
  <2>1. RowInv'
    BY <1>38, <1>a, <1>e DEF RowInv, Carries, MessageInv, WorkInv, Exists,
       RetryFails, IdleRetry
  <2>2. WorkInv'
    BY <1>38, <1>a, <1>b DEF WorkInv, Exists, Gone, RetryFails, IdleRetry
  <2>3. PublishInv'
    BY <1>38, <1>a, <1>c DEF PublishInv, StoredOrGone, FullyStored, ChunksOf,
       Gone, Exists, WorkInv, RowInv, RetryFails, IdleRetry
  <2>4. MessageInv'
    BY <1>38, <1>e DEF MessageInv, Carries, WorkInv, RetryFails, IdleRetry
  <2>5. ReadyIsStored'
    BY <1>38, <1>a DEF ReadyIsStored, PublishInv, StoredOrGone, FullyStored,
       ChunksOf, Gone, Exists, RetryFails, IdleRetry
  <2> QED
    BY <2>1, <2>2, <2>3, <2>4, <2>5 DEF StoredInv
<1>39. ASSUME NEW m \in channel, DeleteByHand(m) PROVE StoredInv'
  <2>1. RowInv'
    BY <1>39, <1>a, <1>e DEF RowInv, Carries, MessageInv, WorkInv, Exists,
       DeleteByHand
  <2>2. WorkInv'
    BY <1>39, <1>a, <1>b DEF WorkInv, Exists, Gone, DeleteByHand
  <2>3. PublishInv'
    BY <1>39, <1>a, <1>c DEF PublishInv, StoredOrGone, FullyStored, ChunksOf,
       Gone, Exists, WorkInv, RowInv, DeleteByHand
  <2>4. MessageInv'
    BY <1>39, <1>e DEF MessageInv, Carries, WorkInv, DeleteByHand
  <2>5. ReadyIsStored'
    BY <1>39, <1>a DEF ReadyIsStored, PublishInv, StoredOrGone, FullyStored,
       ChunksOf, Gone, Exists, DeleteByHand
  <2> QED
    BY <2>1, <2>2, <2>3, <2>4, <2>5 DEF StoredInv
<1>40. ASSUME ConnectionFails PROVE StoredInv'
  <2>1. RowInv'
    BY <1>40, <1>a, <1>e DEF RowInv, Carries, MessageInv, WorkInv, Exists,
       ConnectionFails
  <2>2. WorkInv'
    BY <1>40, <1>a, <1>b DEF WorkInv, Exists, Gone, ConnectionFails
  <2>3. PublishInv'
    BY <1>40, <1>a, <1>c DEF PublishInv, StoredOrGone, FullyStored, ChunksOf,
       Gone, Exists, WorkInv, RowInv, ConnectionFails
  <2>4. MessageInv'
    BY <1>40, <1>e DEF MessageInv, Carries, WorkInv, ConnectionFails
  <2>5. ReadyIsStored'
    BY <1>40, <1>a DEF ReadyIsStored, PublishInv, StoredOrGone, FullyStored,
       ChunksOf, Gone, Exists, ConnectionFails
  <2> QED
    BY <2>1, <2>2, <2>3, <2>4, <2>5 DEF StoredInv
<1>41. ASSUME ConnectionRecovers PROVE StoredInv'
  <2>1. RowInv'
    BY <1>41, <1>a, <1>e DEF RowInv, Carries, MessageInv, WorkInv, Exists,
       ConnectionRecovers
  <2>2. WorkInv'
    BY <1>41, <1>a, <1>b DEF WorkInv, Exists, Gone, ConnectionRecovers
  <2>3. PublishInv'
    BY <1>41, <1>a, <1>c DEF PublishInv, StoredOrGone, FullyStored, ChunksOf,
       Gone, Exists, WorkInv, RowInv, ConnectionRecovers
  <2>4. MessageInv'
    BY <1>41, <1>e DEF MessageInv, Carries, WorkInv, ConnectionRecovers
  <2>5. ReadyIsStored'
    BY <1>41, <1>a DEF ReadyIsStored, PublishInv, StoredOrGone, FullyStored,
       ChunksOf, Gone, Exists, ConnectionRecovers
  <2> QED
    BY <2>1, <2>2, <2>3, <2>4, <2>5 DEF StoredInv
<1>42. ASSUME Crash PROVE StoredInv'
  <2>1. RowInv'
    BY <1>42, <1>a, <1>e DEF RowInv, Carries, MessageInv, WorkInv, Exists,
       Crash, Resumed, FreeJob, IdleCheck, IdleRetry, IdleDelete
  <2>2. WorkInv'
    BY <1>42, <1>a, <1>b DEF WorkInv, Exists, Gone, Crash, Resumed, FreeJob,
       IdleCheck, IdleRetry, IdleDelete
  <2>3. PublishInv'
    BY <1>42, <1>a, <1>c DEF PublishInv, StoredOrGone, FullyStored, ChunksOf,
       Gone, Exists, WorkInv, RowInv, Crash, Resumed, FreeJob, IdleCheck,
       IdleRetry, IdleDelete
  <2>4. MessageInv'
    BY <1>42, <1>e DEF MessageInv, Carries, WorkInv, Crash, Resumed, FreeJob,
       IdleCheck, IdleRetry, IdleDelete
  <2>5. ReadyIsStored'
    BY <1>42, <1>a DEF ReadyIsStored, PublishInv, StoredOrGone, FullyStored,
       ChunksOf, Gone, Exists, Crash, Resumed, FreeJob, IdleCheck, IdleRetry,
       IdleDelete
  <2> QED
    BY <2>1, <2>2, <2>3, <2>4, <2>5 DEF StoredInv
<1>43. CASE UNCHANGED vars
  <2>1. RowInv'
    BY <1>43 DEF vars, RowInv, Carries, MessageInv, WorkInv, Exists
  <2>2. WorkInv'
    BY <1>43 DEF vars, WorkInv, Exists, Gone
  <2>3. PublishInv'
    BY <1>43 DEF vars, PublishInv, StoredOrGone, FullyStored, ChunksOf, Gone,
       Exists, WorkInv, RowInv
  <2>4. MessageInv'
    BY <1>43 DEF vars, MessageInv, Carries, WorkInv
  <2>5. ReadyIsStored'
    BY <1>43 DEF vars, ReadyIsStored, PublishInv, StoredOrGone, FullyStored,
       ChunksOf, Gone, Exists
  <2> QED
    BY <2>1, <2>2, <2>3, <2>4, <2>5 DEF StoredInv
<1> QED
  BY <1>1, <1>2, <1>3, <1>4, <1>5, <1>6, <1>7, <1>8, <1>9, <1>10, <1>11, <1>12,
     <1>13, <1>14, <1>15, <1>16, <1>17, <1>18, <1>19, <1>20, <1>21, <1>22,
     <1>23, <1>24, <1>25, <1>26, <1>27, <1>28, <1>29, <1>30, <1>31, <1>32,
     <1>33, <1>34, <1>35, <1>36, <1>37, <1>38, <1>39, <1>40, <1>41, <1>42,
     <1>43
  DEF Next, UploadStep, JobStep, DeleteStep, CheckStep, RetryStep

-----------------------------------------------------------------------------
(***************************************************************************)
(* KeptInv.                                                                *)
(***************************************************************************)

LEMMA KeptInit == Init => KeptInv
<1> SUFFICES ASSUME Init PROVE KeptInv
  OBVIOUS
<1>1. BudgetInv
  BY EngineAssumption DEF Init, BudgetInv
<1>2. SnapshotInv /\ JobsQuietInv /\ ChecksQuietInv
  BY DEF Init, SnapshotInv, JobsQuietInv, ChecksQuietInv, IdleDelete, FreeJob,
     IdleCheck
<1>3. LiveMessagesKept /\ LostIsEarned
  BY DEF Init, LiveMessagesKept, LostIsEarned
<1> QED
  BY <1>1, <1>2, <1>3 DEF KeptInv

LEMMA CheckGotoFacts ==
  ASSUME TypeOK, NEW q \in Checkers, NEW pc, CheckGoto(q, pc)
  PROVE  /\ \/ check'[q].pc = "idle" /\ check'[q].ids = {}
            \/ /\ check'[q].pc = pc
               /\ check'[q].ids = check[q].ids /\ check'[q].file = check[q].file
         /\ \A p \in Checkers : p # q => check'[p] = check[p]
  BY DEF TypeOK, CheckGoto, IdleCheck

\* The messages a step removes from the channel are deleted by the user, or
\* they are those of a file that is gone.
NothingLost ==
  DatabaseQuiet' =>
    \A m \in channel : m \in channel' \/ m \in byHand' \/ Gone(log[m][1])

\* No job gets closer to giving up a message, and no download to giving up a
\* file.
JobsHarmless ==
  \A j \in Jobs : \/ job'[j] = job[j]
                  \/ job'[j].pc \notin {"posted", "writing", "orphan"}

ChecksHarmless ==
  \A q \in Checkers :
    \/ check'[q].pc # "lost" /\ check'[q].ids = {}
    \/ /\ check'[q].file = check[q].file
       /\ check'[q].ids = check[q].ids
       /\ check'[q].pc = "lost" => check[q].pc = "lost"

NoNewLost == \A f \in Files : file'[f] = "LOST" => file[f] = "LOST"

NothingRecorded ==
  \A k \in ChunkIds : chunkMsg'[k] # NoMsg => chunkMsg'[k] = chunkMsg[k]

\* The frame of the invariants: each conjunct survives a step that is
\* harmless to what it reads.
LEMMA KeptFrame ==
  ASSUME StoredInv, StoredInv', KeptInv, HistoryStep
  PROVE  /\ BudgetInv'
         /\ UNCHANGED <<del, trash, check>> => SnapshotInv'
         /\ NothingLost /\ JobsHarmless => JobsQuietInv'
         /\ NothingLost /\ ChecksHarmless => ChecksQuietInv'
         /\ NothingLost /\ NothingRecorded => LiveMessagesKept'
         /\ NoNewLost => LostIsEarned'
<1>1. BudgetInv' /\ (DatabaseQuiet' => DatabaseQuiet)
  <2>1. budget \in [FaultKinds -> Nat] /\ budget' \in [FaultKinds -> Nat]
    BY DEF StoredInv, TypeOK
  <2>2. FaultBudget \in [FaultKinds -> Nat] /\ "database" \in FaultKinds
    BY EngineAssumption DEF FaultKinds
  <2>3. /\ \A kind \in FaultKinds : budget[kind] <= FaultBudget[kind]
        /\ \A kind \in FaultKinds : budget'[kind] <= budget[kind]
    BY DEF KeptInv, BudgetInv, HistoryStep
  <2> QED
    BY <2>1, <2>2, <2>3 DEF BudgetInv, DatabaseQuiet
<1>2. /\ log \in Seq(ChunkIds) /\ log' \in Seq(ChunkIds)
      /\ Len(log) \in Nat /\ Len(log') \in Nat
      /\ channel \subseteq 1..Len(log) /\ byHand \subseteq 1..Len(log)
  BY DEF StoredInv, TypeOK
<1>3. /\ \A m, f : CarriesFor(m, f) => CarriesFor(m, f)'
      /\ \A m \in 1..Len(log) : log[m] \in ChunkIds /\ log[m][1] \in Files
  BY <1>2 DEF CarriesFor, HistoryStep, ChunkIds
<1>4. ASSUME NothingLost, DatabaseQuiet', NEW m, NEW f \in Files,
             m \notin channel' \cup byHand',
             m \in channel \cup byHand, log[m][1] = f
      PROVE  Gone(f) /\ Gone(f)'
  BY <1>2, <1>4 DEF NothingLost, HistoryStep, Gone
<1>5. ASSUME UNCHANGED <<del, trash, check>> PROVE SnapshotInv'
  <2>1. ASSUME NEW t \in trash, NEW m \in t.ids
        PROVE  m \in 1..Len(log') /\ file'[log'[m][1]] = "GONE"
    <3>1. m \in 1..Len(log) /\ Gone(log[m][1])
      BY <2>1 DEF KeptInv, SnapshotInv
    <3> QED
      BY <1>2, <1>3, <3>1 DEF HistoryStep
  <2>2. \A f \in Files : \A m \in del[f].ids : CarriesFor(m, f)'
    BY <1>3 DEF KeptInv, SnapshotInv
  <2>3. \A q \in Checkers : \A m \in check[q].ids : CarriesFor(m, check[q].file)'
    BY <1>3, <1>5 DEF KeptInv, SnapshotInv
  <2> QED
    BY <1>5, <2>1, <2>2, <2>3 DEF SnapshotInv, Gone, CarriesFor
<1>6. ASSUME NothingLost, JobsHarmless PROVE JobsQuietInv'
  <2> SUFFICES ASSUME DatabaseQuiet', NEW j \in Jobs, job'[j] = job[j]
               PROVE  /\ job[j].pc = "orphan" => Gone(job[j].key[1])'
                      /\ job[j].pc \in {"posted", "writing"} =>
                           Kept(job[j].msg)' \/ Gone(job[j].key[1])'
    BY <1>6 DEF JobsHarmless, JobsQuietInv, Gone, Kept
  <2>1. /\ job[j].pc = "orphan" => Gone(job[j].key[1])
        /\ job[j].pc \in {"posted", "writing"} =>
             Kept(job[j].msg) \/ Gone(job[j].key[1])
    BY <1>1 DEF KeptInv, JobsQuietInv
  <2>2. job[j].pc # "free" => job[j].key[1] \in Files
    BY DEF StoredInv, WorkInv, ChunkIds
  <2>3. job[j].pc \in {"posted", "writing"} => log[job[j].msg] = job[j].key
    BY DEF StoredInv, MessageInv, Carries
  <2>4. job[j].pc # "free" /\ Gone(job[j].key[1]) => Gone(job[j].key[1])'
    BY <2>2 DEF HistoryStep, Gone
  <2> QED
    BY <1>4, <1>6, <2>1, <2>2, <2>3, <2>4 DEF Kept
<1>7. ASSUME NothingLost, ChecksHarmless PROVE ChecksQuietInv'
  <2> SUFFICES ASSUME DatabaseQuiet', NEW q \in Checkers,
                      check'[q].file = check[q].file,
                      check'[q].ids = check[q].ids,
                      check'[q].pc = "lost" => check[q].pc = "lost"
               PROVE  /\ \A m \in check[q].ids :
                           Kept(m)' \/ Gone(check[q].file)'
                      /\ check[q].pc = "lost" =>
                           \/ Gone(check[q].file)'
                           \/ \E m \in byHand' : CarriesFor(m, check[q].file)'
    BY <1>7 DEF ChecksHarmless, ChecksQuietInv, Gone, Kept
  <2>1. /\ \A m \in check[q].ids : Kept(m) \/ Gone(check[q].file)
        /\ check[q].pc = "lost" =>
             \/ Gone(check[q].file)
             \/ \E m \in byHand : CarriesFor(m, check[q].file)
    BY <1>1 DEF KeptInv, ChecksQuietInv
  <2>2. \A m \in check[q].ids : CarriesFor(m, check[q].file)
    BY DEF KeptInv, SnapshotInv
  <2>3. check[q].pc # "idle" => check[q].file \in Files
    BY DEF StoredInv, PublishInv
  <2>4. \A m \in check[q].ids : log[m][1] = check[q].file /\ check[q].file \in Files
    BY <1>3, <2>2 DEF CarriesFor
  <2>5. check[q].file \in Files /\ Gone(check[q].file) => Gone(check[q].file)'
    BY DEF HistoryStep, Gone
  <2>6. ASSUME NEW m \in check[q].ids PROVE Kept(m)' \/ Gone(check[q].file)'
    BY <1>4, <1>7, <2>1, <2>4, <2>5, <2>6 DEF Kept
  <2>7. byHand \subseteq byHand'
    BY DEF HistoryStep
  <2> QED
    BY <1>3, <2>1, <2>3, <2>5, <2>6, <2>7
<1>8. ASSUME NothingLost, NothingRecorded PROVE LiveMessagesKept'
  <2> SUFFICES ASSUME DatabaseQuiet', NEW k \in ChunkIds, chunkMsg'[k] # NoMsg
               PROVE  chunkMsg'[k] \in channel' \cup byHand'
    BY DEF LiveMessagesKept
  <2>1. chunkMsg'[k] = chunkMsg[k] /\ chunkMsg[k] \in channel \cup byHand
    BY <1>1, <1>8 DEF NothingRecorded, KeptInv, LiveMessagesKept
  <2>2. k[1] \in Files /\ log[chunkMsg[k]] = k /\ ~Gone(k[1])
    BY <2>1 DEF StoredInv, RowInv, Carries, Exists, Gone, ChunkIds
  <2> QED
    BY <1>4, <1>8, <2>1, <2>2
<1>9. ASSUME NoNewLost PROVE LostIsEarned'
  <2> SUFFICES ASSUME DatabaseQuiet', NEW f \in Files, file'[f] = "LOST"
               PROVE  \E m \in byHand' : log'[m][1] = f
    BY DEF LostIsEarned
  <2>1. PICK m \in byHand : log[m][1] = f
    BY <1>1, <1>9 DEF NoNewLost, KeptInv, LostIsEarned
  <2> QED
    BY <1>2, <2>1 DEF HistoryStep
<1> QED
  BY <1>1, <1>5, <1>6, <1>7, <1>8, <1>9


\* A step that is harmless to all of them at once.
Harmless ==
  /\ UNCHANGED <<del, trash, check>>
  /\ NothingLost
  /\ JobsHarmless
  /\ NothingRecorded
  /\ NoNewLost

LEMMA KeptByHarmless ==
  ASSUME StoredInv, StoredInv', KeptInv, HistoryStep, Harmless
  PROVE  KeptInv'
<1>1. ChecksHarmless
  BY DEF Harmless, ChecksHarmless
<1> QED
  BY <1>1, KeptFrame DEF Harmless, KeptInv

LEMMA KeptNext == StoredInv /\ StoredInv' /\ KeptInv /\ [Next]_vars => KeptInv'
<1> SUFFICES ASSUME StoredInv, StoredInv', KeptInv, [Next]_vars PROVE KeptInv'
  OBVIOUS
<1> USE DEF rows, telegram, requests, around
<1>a. TypeOK /\ HistoryStep
  BY HistoryGrows DEF StoredInv
<1>b. /\ file \in [Files -> {"NEW", "UPLOADING", "READY", "ERROR", "LOST", "GONE"}]
      /\ chunkMsg \in [ChunkIds -> Nat]
      /\ job \in [Jobs -> JobType]
      /\ del \in [Files -> DeleteType]
      /\ check \in [Checkers -> CheckType]
  BY <1>a DEF TypeOK
<1>c. log \in Seq(ChunkIds) /\ Len(log) \in Nat
  BY <1>a DEF TypeOK
<1>d. DatabaseQuiet' => DatabaseQuiet
  <2>1. budget["database"] \in Nat /\ FaultBudget["database"] \in Nat
        /\ budget'["database"] \in Nat /\ "database" \in FaultKinds
    BY EngineAssumption DEF FaultKinds, StoredInv, TypeOK
  <2> QED
    BY <1>a, <2>1 DEF DatabaseQuiet, HistoryStep, KeptInv, BudgetInv
<1>e. \A f \in Files : Gone(f) => Gone(f)'
  BY <1>a DEF HistoryStep, Gone
<1>f. \A j \in Jobs :
        /\ job[j].pc # "free" => job[j].key[1] \in Files /\ file[job[j].key[1]] # "NEW"
        /\ job[j].pc \in {"posted", "writing", "verifying", "orphan"} =>
             job[j].msg \in 1..Len(log) /\ log[job[j].msg] = job[j].key
  BY DEF StoredInv, WorkInv, MessageInv, Carries, ChunkIds
<1>g. \A m, f : CarriesFor(m, f) => CarriesFor(m, f)'
  <2>1. Len(log') \in Nat
    BY DEF StoredInv, TypeOK
  <2> QED
    BY <1>a, <1>c, <2>1 DEF CarriesFor, HistoryStep
<1>1. ASSUME NEW f \in Files, CreateUpload(f) PROVE KeptInv'
  <2>1. Harmless
    BY <1>1, <1>b DEF CreateUpload, Harmless, NothingLost, JobsHarmless,
       NothingRecorded, NoNewLost
  <2> QED
    BY <1>a, <2>1, KeptByHarmless
<1>2. ASSUME NEW f \in Files, StageChunk(f) PROVE KeptInv'
  <2>1. Harmless
    BY <1>2, <1>b DEF StageChunk, Harmless, NothingLost, JobsHarmless,
       NothingRecorded, NoNewLost
  <2> QED
    BY <1>a, <2>1, KeptByHarmless
<1>3. ASSUME NEW f \in Files, EnqueueChunk(f) PROVE KeptInv'
  <2>1. Harmless
    BY <1>3, <1>b DEF EnqueueChunk, NewJob, Harmless, NothingLost,
       JobsHarmless, NothingRecorded, NoNewLost
  <2> QED
    BY <1>a, <2>1, KeptByHarmless
<1>4. ASSUME NEW f \in Files, RestartChunk(f) PROVE KeptInv'
  <2>1. Harmless
    BY <1>4, <1>b DEF RestartChunk, Harmless, NothingLost, JobsHarmless,
       NothingRecorded, NoNewLost
  <2> QED
    BY <1>a, <2>1, KeptByHarmless
<1>5. ASSUME NEW f \in Files, AdvanceUpload(f) PROVE KeptInv'
  <2>1. Harmless
    BY <1>5, <1>b DEF AdvanceUpload, Harmless, NothingLost, JobsHarmless,
       NothingRecorded, NoNewLost
  <2> QED
    BY <1>a, <2>1, KeptByHarmless
<1>6. ASSUME NEW f \in Files, EnqueueFails(f) PROVE KeptInv'
  <2>1. Harmless
    BY <1>6, <1>b DEF EnqueueFails, Resumed, Harmless, NothingLost,
       JobsHarmless, NothingRecorded, NoNewLost
  <2> QED
    BY <1>a, <2>1, KeptByHarmless
<1>7. ASSUME NEW j \in Jobs, JobStart(j) PROVE KeptInv'
  <2>1. JobsHarmless
    BY <1>7, <1>a, GotoFacts, FinishFacts, FailAttemptFacts
    DEF JobStart, JobsHarmless
  <2>2. Harmless
    BY <1>7, <2>1, <1>b DEF JobStart, Harmless, NothingLost, NothingRecorded,
       NoNewLost
  <2> QED
    BY <1>a, <2>2, KeptByHarmless
<1>8. ASSUME NEW j \in Jobs, JobMark(j) PROVE KeptInv'
  <2>1. JobsHarmless
    BY <1>8, <1>a, GotoFacts, FinishFacts, FailAttemptFacts
    DEF JobMark, JobsHarmless
  <2>2. Harmless
    BY <1>8, <2>1, <1>b DEF JobMark, Harmless, NothingLost, NothingRecorded,
       NoNewLost
  <2> QED
    BY <1>a, <2>2, KeptByHarmless
<1>9. ASSUME NEW j \in Jobs, JobLock(j) PROVE KeptInv'
  <2>1. JobsHarmless
    BY <1>9, <1>a, GotoFacts, FinishFacts, FailAttemptFacts
    DEF JobLock, JobsHarmless
  <2>2. Harmless
    BY <1>9, <2>1, <1>b DEF JobLock, Harmless, NothingLost, NothingRecorded,
       NoNewLost
  <2> QED
    BY <1>a, <2>2, KeptByHarmless
<1>10. ASSUME NEW j \in Jobs, JobSend(j) PROVE KeptInv'
  <2>1. /\ NothingLost /\ NothingRecorded /\ NoNewLost
        /\ ChecksHarmless /\ UNCHANGED <<del, trash, check>>
    BY <1>10 DEF JobSend, Post, NothingLost, NothingRecorded, NoNewLost,
       ChecksHarmless
  <2>2. JobsQuietInv'
    <3>1. /\ job'[j].pc \in {"posted", "queued", "failing"}
          /\ job'[j].pc = "posted" => job'[j].msg \in channel'
          /\ \A i \in Jobs : i # j => job'[i] = job[i]
      BY <1>10, <1>a, <1>b, FailAttemptFacts DEF JobSend, Post
    <3>2. channel \subseteq channel' /\ byHand' = byHand /\ file' = file
      BY <1>10 DEF JobSend, Post
    <3> QED
      BY <1>d, <3>1, <3>2 DEF KeptInv, JobsQuietInv, Kept, Gone
  <2> QED
    BY <1>a, <2>1, <2>2, KeptFrame DEF KeptInv
<1>11. ASSUME NEW j \in Jobs, JobSendFails(j) PROVE KeptInv'
  <2>1. JobsHarmless
    BY <1>11, <1>a, GotoFacts, FinishFacts, FailAttemptFacts
    DEF JobSendFails, JobsHarmless
  <2>2. Harmless
    BY <1>11, <2>1, <1>b DEF JobSendFails, Harmless, NothingLost,
       NothingRecorded, NoNewLost, Post
  <2> QED
    BY <1>a, <2>2, KeptByHarmless
<1>12. ASSUME NEW j \in Jobs, JobSurvivor(j) PROVE KeptInv'
  <2>1. /\ NothingLost /\ NothingRecorded /\ NoNewLost
        /\ ChecksHarmless /\ UNCHANGED <<del, trash, check>>
    BY <1>12 DEF JobSurvivor, NothingLost, NothingRecorded, NoNewLost,
       ChecksHarmless
  <2>2. JobsQuietInv'
    <3>1. /\ job'[j].pc = IF Exists(job[j].key[1]) THEN "writing" ELSE "orphan"
          /\ job'[j].key = job[j].key /\ job'[j].msg = job[j].msg
          /\ \A i \in Jobs : i # j => job'[i] = job[i]
      BY <1>12, <1>a, GotoFacts DEF JobSurvivor
    <3> QED
      BY <1>12, <1>d, <1>f, <3>1
      DEF JobSurvivor, KeptInv, JobsQuietInv, Kept, Gone, Exists
  <2> QED
    BY <1>a, <2>1, <2>2, KeptFrame DEF KeptInv
<1>13. ASSUME NEW j \in Jobs, JobWrite(j) PROVE KeptInv'
  <2>1. /\ NothingLost /\ NoNewLost
        /\ ChecksHarmless /\ UNCHANGED <<del, trash, check>>
    BY <1>13 DEF JobWrite, NothingLost, NoNewLost, ChecksHarmless
  <2>2. JobsQuietInv'
    <3>1. /\ job'[j].pc = IF Exists(job[j].key[1]) THEN "verifying" ELSE "orphan"
          /\ job'[j].key = job[j].key
          /\ \A i \in Jobs : i # j => job'[i] = job[i]
      BY <1>13, <1>a, GotoFacts DEF JobWrite
    <3> QED
      BY <1>13, <1>d, <1>f, <3>1
      DEF JobWrite, KeptInv, JobsQuietInv, Kept, Gone, Exists
  <2>3. LiveMessagesKept'
    BY <1>13, <1>b, <1>d, <1>f
    DEF JobWrite, KeptInv, LiveMessagesKept, JobsQuietInv, Kept, Gone, Exists
  <2> QED
    BY <1>a, <2>1, <2>2, <2>3, KeptFrame DEF KeptInv
<1>14. ASSUME NEW j \in Jobs, JobRecorded(j) PROVE KeptInv'
  <2>1. /\ NothingLost /\ NothingRecorded /\ NoNewLost
        /\ ChecksHarmless /\ UNCHANGED <<del, trash, check>>
    BY <1>14 DEF JobRecorded, NothingLost, NothingRecorded, NoNewLost,
       ChecksHarmless
  <2>2. JobsQuietInv'
    <3>1. /\ job'[j].pc = IF Exists(job[j].key[1]) THEN "unstaging" ELSE "orphan"
          /\ job'[j].key = job[j].key
          /\ \A i \in Jobs : i # j => job'[i] = job[i]
      BY <1>14, <1>a, GotoFacts DEF JobRecorded
    <3> QED
      BY <1>14, <1>d, <1>f, <3>1
      DEF JobRecorded, KeptInv, JobsQuietInv, Kept, Gone, Exists
  <2> QED
    BY <1>a, <2>1, <2>2, KeptFrame DEF KeptInv
<1>15. ASSUME NEW j \in Jobs, JobUnstage(j) PROVE KeptInv'
  <2>1. JobsHarmless
    BY <1>15, <1>a, GotoFacts, FinishFacts, FailAttemptFacts
    DEF JobUnstage, JobsHarmless
  <2>2. Harmless
    BY <1>15, <2>1, <1>b DEF JobUnstage, Harmless, NothingLost,
       NothingRecorded, NoNewLost
  <2> QED
    BY <1>a, <2>2, KeptByHarmless
<1>16. ASSUME NEW j \in Jobs, JobCount(j) PROVE KeptInv'
  <2>1. JobsHarmless
    BY <1>16, <1>a, GotoFacts, FinishFacts, FailAttemptFacts
    DEF JobCount, JobsHarmless
  <2>2. Harmless
    BY <1>16, <2>1, <1>b DEF JobCount, Harmless, NothingLost, NothingRecorded,
       NoNewLost
  <2> QED
    BY <1>a, <2>2, KeptByHarmless
<1>17. ASSUME NEW j \in Jobs, JobPublish(j) PROVE KeptInv'
  <2>1. JobsHarmless
    BY <1>17, <1>a, GotoFacts, FinishFacts, FailAttemptFacts
    DEF JobPublish, JobsHarmless
  <2>2. Harmless
    BY <1>17, <2>1, <1>b DEF JobPublish, Harmless, NothingLost,
       NothingRecorded, NoNewLost
  <2> QED
    BY <1>a, <2>2, KeptByHarmless
<1>18. ASSUME NEW j \in Jobs, JobOrphan(j) PROVE KeptInv'
  <2>1. JobsHarmless
    BY <1>18, <1>a, GotoFacts DEF JobOrphan, JobsHarmless
  <2>2. NothingLost
    BY <1>18, <1>d, <1>f DEF JobOrphan, NothingLost, KeptInv, JobsQuietInv
  <2>3. Harmless
    BY <1>18, <2>1, <2>2 DEF JobOrphan, Harmless, NothingRecorded, NoNewLost
  <2> QED
    BY <1>a, <2>3, KeptByHarmless
<1>19. ASSUME NEW j \in Jobs, JobFailChunk(j) PROVE KeptInv'
  <2>1. JobsHarmless
    BY <1>19, <1>a, GotoFacts, FinishFacts, FailAttemptFacts
    DEF JobFailChunk, JobsHarmless
  <2>2. Harmless
    BY <1>19, <2>1, <1>b DEF JobFailChunk, Harmless, NothingLost,
       NothingRecorded, NoNewLost
  <2> QED
    BY <1>a, <2>2, KeptByHarmless
<1>20. ASSUME NEW j \in Jobs, JobFailFile(j) PROVE KeptInv'
  <2>1. JobsHarmless
    BY <1>20, <1>a, GotoFacts, FinishFacts, FailAttemptFacts
    DEF JobFailFile, JobsHarmless
  <2>2. Harmless
    BY <1>20, <2>1, <1>b DEF JobFailFile, Harmless, NothingLost,
       NothingRecorded, NoNewLost
  <2> QED
    BY <1>a, <2>2, KeptByHarmless
<1>21. ASSUME NEW j \in Jobs, JobDbFails(j) PROVE KeptInv'
  <2>1. ~DatabaseQuiet'
    <3>1. budget["database"] \in Nat /\ FaultBudget["database"] \in Nat
          /\ budget["database"] <= FaultBudget["database"]
      BY <1>a, EngineAssumption DEF TypeOK, FaultKinds, KeptInv, BudgetInv
    <3>2. budget'["database"] = budget["database"] - 1
      BY <1>21, <1>a DEF JobDbFails, Spend, TypeOK, FaultKinds
    <3> QED
      BY <3>1, <3>2 DEF DatabaseQuiet
  <2>2. UNCHANGED <<del, trash, check>>
    BY <1>21 DEF JobDbFails
  <2>3. BudgetInv' /\ SnapshotInv'
    BY <1>a, <2>2, KeptFrame
  <2> QED
    BY <2>1, <2>3
    DEF KeptInv, JobsQuietInv, ChecksQuietInv, LiveMessagesKept, LostIsEarned
<1>22. ASSUME NEW t \in trash, TrashRun(t) PROVE KeptInv'
  <2>1. \A m \in t.ids : Gone(log[m][1])
    BY DEF KeptInv, SnapshotInv
  <2>2. /\ NothingLost /\ JobsHarmless /\ NothingRecorded /\ NoNewLost
        /\ ChecksHarmless
    BY <1>22, <2>1 DEF TrashRun, NothingLost, JobsHarmless, NothingRecorded,
       NoNewLost, ChecksHarmless
  <2>3. /\ \A u \in trash' : \E s \in trash : u.ids = s.ids
        /\ UNCHANGED <<del, check, log, file>>
    BY <1>22 DEF TrashRun
  <2>4. SnapshotInv'
    BY <2>3 DEF KeptInv, SnapshotInv, CarriesFor, Gone
  <2> QED
    BY <1>a, <2>2, <2>4, KeptFrame DEF KeptInv
<1>23. ASSUME NEW t \in trash, TrashFails(t) PROVE KeptInv'
  <2>1. \A m \in t.ids : Gone(log[m][1])
    BY DEF KeptInv, SnapshotInv
  <2>2. /\ NothingLost /\ JobsHarmless /\ NothingRecorded /\ NoNewLost
        /\ ChecksHarmless
    BY <1>23, <2>1 DEF TrashFails, NothingLost, JobsHarmless, NothingRecorded,
       NoNewLost, ChecksHarmless
  <2>3. /\ \A u \in trash' : \E s \in trash : u.ids = s.ids
        /\ UNCHANGED <<del, check, log, file>>
    BY <1>23 DEF TrashFails
  <2>4. SnapshotInv'
    BY <2>3 DEF KeptInv, SnapshotInv, CarriesFor, Gone
  <2> QED
    BY <1>a, <2>2, <2>4, KeptFrame DEF KeptInv
<1>24. ASSUME NEW f \in Files, DeleteRead(f) PROVE KeptInv'
  <2>1. /\ NothingLost /\ JobsHarmless /\ NothingRecorded /\ NoNewLost
        /\ ChecksHarmless
    BY <1>24 DEF DeleteRead, NothingLost, JobsHarmless, NothingRecorded,
       NoNewLost, ChecksHarmless
  <2>2. \A m \in MessagesOf(f) : CarriesFor(m, f)
    BY DEF MessagesOf, ChunksOf, StoredInv, RowInv, Carries, CarriesFor
  <2>3. /\ \A g \in Files : del'[g].ids = IF g = f THEN MessagesOf(f)
                                                ELSE del[g].ids
        /\ UNCHANGED <<trash, check, log, file>>
    BY <1>24, <1>b DEF DeleteRead
  <2>4. SnapshotInv'
    BY <2>2, <2>3 DEF KeptInv, SnapshotInv, CarriesFor, Gone
  <2> QED
    BY <1>a, <2>1, <2>4, KeptFrame DEF KeptInv
<1>25. ASSUME NEW f \in Files, DeleteRows(f) PROVE KeptInv'
  <2>1. /\ NothingLost /\ JobsHarmless /\ NothingRecorded /\ NoNewLost
        /\ ChecksHarmless
    BY <1>25, <1>b DEF DeleteRows, NothingLost, JobsHarmless, NothingRecorded,
       NoNewLost, ChecksHarmless
  <2>2. /\ \A g \in Files : del'[g].ids = del[g].ids
        /\ UNCHANGED <<trash, check, log>>
    BY <1>25, <1>b DEF DeleteRows
  <2>3. \A t \in trash : \A m \in t.ids : log[m][1] \in Files
    BY <1>c DEF KeptInv, SnapshotInv, ChunkIds
  <2>4. SnapshotInv'
    BY <1>e, <2>2, <2>3 DEF KeptInv, SnapshotInv, CarriesFor, Gone
  <2> QED
    BY <1>a, <2>1, <2>4, KeptFrame DEF KeptInv
<1>26. ASSUME NEW f \in Files, DeleteCleanup(f) PROVE KeptInv'
  <2>1. /\ NothingLost /\ JobsHarmless /\ NothingRecorded /\ NoNewLost
        /\ ChecksHarmless
    BY <1>26 DEF DeleteCleanup, NothingLost, JobsHarmless, NothingRecorded,
       NoNewLost, ChecksHarmless
  <2>2. Gone(f) /\ \A m \in del[f].ids : m \in 1..Len(log) /\ Gone(log[m][1])
    BY <1>26 DEF DeleteCleanup, StoredInv, WorkInv, KeptInv, SnapshotInv, CarriesFor
  <2>3. /\ \A g \in Files : del'[g].ids \subseteq del[g].ids
        /\ \A u \in trash' : u \in trash \/ u.ids = del[f].ids
        /\ UNCHANGED <<check, log, file>>
    BY <1>26, <1>b DEF DeleteCleanup
  <2>4. SnapshotInv'
    BY <2>2, <2>3 DEF KeptInv, SnapshotInv, CarriesFor, Gone
  <2> QED
    BY <1>a, <2>1, <2>4, KeptFrame DEF KeptInv
<1>27. ASSUME NEW f \in Files, DeleteFails(f) PROVE KeptInv'
  <2>1. /\ NothingLost /\ JobsHarmless /\ NothingRecorded /\ NoNewLost
        /\ ChecksHarmless
    BY <1>27 DEF DeleteFails, NothingLost, JobsHarmless, NothingRecorded,
       NoNewLost, ChecksHarmless
  <2>2. /\ \A g \in Files : del'[g].ids \subseteq del[g].ids
        /\ UNCHANGED <<trash, check, log, file>>
    BY <1>27, <1>b DEF DeleteFails
  <2>3. SnapshotInv'
    BY <2>2 DEF KeptInv, SnapshotInv, CarriesFor, Gone
  <2> QED
    BY <1>a, <2>1, <2>3, KeptFrame DEF KeptInv
<1>28. ASSUME NEW q \in Checkers, NEW f \in Files,
        NEW by \in {"download", "retry"}, CheckStart(q, f, by) PROVE KeptInv'
  <2>1. /\ NothingLost /\ JobsHarmless /\ NothingRecorded /\ NoNewLost
        /\ UNCHANGED <<del, trash, log, file, channel, byHand>>
    BY <1>28 DEF CheckStart, NothingLost, JobsHarmless, NothingRecorded, NoNewLost
  <2>2. /\ check'[q].file = f /\ check'[q].ids = MessagesOf(f)
        /\ check'[q].pc # "lost"
        /\ \A p \in Checkers : p # q => check'[p] = check[p]
    BY <1>28, <1>b DEF CheckStart
  <2>3. \A m \in MessagesOf(f) : /\ CarriesFor(m, f)
                                 /\ DatabaseQuiet => Kept(m)
    BY DEF MessagesOf, ChunksOf, StoredInv, RowInv, Carries, CarriesFor,
       KeptInv, LiveMessagesKept, Kept
  <2>4. SnapshotInv'
    BY <2>1, <2>2, <2>3 DEF KeptInv, SnapshotInv, CarriesFor, Gone
  <2>5. ChecksQuietInv'
    BY <1>d, <2>1, <2>2, <2>3
    DEF KeptInv, ChecksQuietInv, CarriesFor, Gone, Kept
  <2> QED
    BY <1>a, <2>1, <2>4, <2>5, KeptFrame DEF KeptInv
<1>29. ASSUME NEW q \in Checkers, CheckVerify(q) PROVE KeptInv'
  <2>1. /\ NothingLost /\ JobsHarmless /\ NothingRecorded /\ NoNewLost
        /\ UNCHANGED <<del, trash, log, file, channel, byHand>>
    BY <1>29 DEF CheckVerify, NothingLost, JobsHarmless, NothingRecorded, NoNewLost
  <2>2. /\ \/ check'[q].pc = "idle" /\ check'[q].ids = {}
           \/ /\ check'[q].pc = "lost" => ~(check[q].ids \subseteq channel)
              /\ check'[q].ids = check[q].ids /\ check'[q].file = check[q].file
        /\ \A p \in Checkers : p # q => check'[p] = check[p]
    BY <1>29, <1>a, CheckGotoFacts DEF CheckVerify
  <2>3. SnapshotInv'
    BY <2>1, <2>2 DEF KeptInv, SnapshotInv, CarriesFor, Gone
  <2>4. ChecksQuietInv'
    BY <1>d, <2>1, <2>2
    DEF KeptInv, ChecksQuietInv, SnapshotInv, CarriesFor, Gone, Kept
  <2> QED
    BY <1>a, <2>1, <2>3, <2>4, KeptFrame DEF KeptInv
<1>30. ASSUME NEW q \in Checkers, CheckFails(q) PROVE KeptInv'
  <2>1. /\ NothingLost /\ JobsHarmless /\ NothingRecorded /\ NoNewLost
        /\ UNCHANGED <<del, trash, log>>
    BY <1>30, <1>b DEF CheckFails, NothingLost, JobsHarmless, NothingRecorded, NoNewLost
  <2>2. /\ \/ check'[q].pc = "idle" /\ check'[q].ids = {}
           \/ /\ check'[q].pc # "lost"
              /\ check'[q].ids = check[q].ids /\ check'[q].file = check[q].file
        /\ \A p \in Checkers : p # q => check'[p] = check[p]
    BY <1>30, <1>a, CheckGotoFacts DEF CheckFails
  <2>3. \A t \in trash : \A m \in t.ids : log[m][1] \in Files
    BY <1>c DEF KeptInv, SnapshotInv, ChunkIds
  <2>4. SnapshotInv' /\ ChecksHarmless
    BY <1>e, <2>1, <2>2, <2>3
    DEF KeptInv, SnapshotInv, CarriesFor, Gone, ChecksHarmless
  <2> QED
    BY <1>a, <2>1, <2>4, KeptFrame DEF KeptInv
<1>31. ASSUME NEW q \in Checkers, CheckRepair(q) PROVE KeptInv'
  <2>1. /\ NothingLost /\ JobsHarmless /\ NothingRecorded /\ NoNewLost
        /\ UNCHANGED <<del, trash, log>>
    BY <1>31, <1>b DEF CheckRepair, NothingLost, JobsHarmless, NothingRecorded, NoNewLost
  <2>2. /\ \/ check'[q].pc = "idle" /\ check'[q].ids = {}
           \/ /\ check'[q].pc # "lost"
              /\ check'[q].ids = check[q].ids /\ check'[q].file = check[q].file
        /\ \A p \in Checkers : p # q => check'[p] = check[p]
    BY <1>31, <1>a, CheckGotoFacts DEF CheckRepair
  <2>3. \A t \in trash : \A m \in t.ids : log[m][1] \in Files
    BY <1>c DEF KeptInv, SnapshotInv, ChunkIds
  <2>4. SnapshotInv' /\ ChecksHarmless
    BY <1>e, <2>1, <2>2, <2>3
    DEF KeptInv, SnapshotInv, CarriesFor, Gone, ChecksHarmless
  <2> QED
    BY <1>a, <2>1, <2>4, KeptFrame DEF KeptInv
<1>32. ASSUME NEW q \in Checkers, CheckStream(q) PROVE KeptInv'
  <2>1. /\ NothingLost /\ JobsHarmless /\ NothingRecorded /\ NoNewLost
        /\ UNCHANGED <<del, trash, log, file, channel, byHand>>
    BY <1>32 DEF CheckStream, NothingLost, JobsHarmless, NothingRecorded, NoNewLost
  <2>2. /\ \/ check'[q].pc = "idle" /\ check'[q].ids = {}
           \/ /\ check'[q].pc = "lost" => ~(check[q].ids \subseteq channel)
              /\ check'[q].ids = check[q].ids /\ check'[q].file = check[q].file
        /\ \A p \in Checkers : p # q => check'[p] = check[p]
    BY <1>32, <1>a, CheckGotoFacts DEF CheckStream
  <2>3. SnapshotInv'
    BY <2>1, <2>2 DEF KeptInv, SnapshotInv, CarriesFor, Gone
  <2>4. ChecksQuietInv'
    BY <1>d, <2>1, <2>2
    DEF KeptInv, ChecksQuietInv, SnapshotInv, CarriesFor, Gone, Kept
  <2> QED
    BY <1>a, <2>1, <2>3, <2>4, KeptFrame DEF KeptInv
<1>33. ASSUME NEW q \in Checkers, CheckLost(q) PROVE KeptInv'
  <2>1. /\ NothingLost /\ JobsHarmless /\ NothingRecorded
        /\ UNCHANGED <<del, trash, log, byHand>>
    BY <1>33 DEF CheckLost, NothingLost, JobsHarmless, NothingRecorded
  <2>2. /\ check'[q].pc # "lost" /\ check'[q].ids = {}
        /\ \A p \in Checkers : p # q => check'[p] = check[p]
    BY <1>33, <1>b DEF CheckLost, CheckGoto, IdleCheck
  <2>3. \A t \in trash : \A m \in t.ids : log[m][1] \in Files
    BY <1>c DEF KeptInv, SnapshotInv, ChunkIds
  <2>4. SnapshotInv' /\ ChecksHarmless
    BY <1>e, <2>1, <2>2, <2>3
    DEF KeptInv, SnapshotInv, CarriesFor, Gone, ChecksHarmless
  <2>5. LostIsEarned'
    <3>1. \A f \in Files : file'[f] = "LOST" =>
             file[f] = "LOST" \/ (f = check[q].file /\ ~Gone(f))
      BY <1>33, <1>b DEF CheckLost, Exists, Gone
    <3> QED
      BY <1>33, <1>d, <2>1, <3>1
      DEF CheckLost, KeptInv, LostIsEarned, ChecksQuietInv, CarriesFor
  <2> QED
    BY <1>a, <2>1, <2>4, <2>5, KeptFrame DEF KeptInv
<1>34. ASSUME NEW r \in Retriers, NEW f \in Files, RetryRead(r, f) PROVE KeptInv'
  <2>1. Harmless
    BY <1>34, <1>b DEF RetryRead, Unfinished, Harmless, NothingLost,
       JobsHarmless, NothingRecorded, NoNewLost
  <2> QED
    BY <1>a, <2>1, KeptByHarmless
<1>35. ASSUME NEW r \in Retriers, RetryReset(r) PROVE KeptInv'
  <2>1. Harmless
    BY <1>35, <1>b DEF RetryReset, Harmless, NothingLost, JobsHarmless,
       NothingRecorded, NoNewLost
  <2> QED
    BY <1>a, <2>1, KeptByHarmless
<1>36. ASSUME NEW r \in Retriers, RetryMark(r) PROVE KeptInv'
  <2>1. Harmless
    BY <1>36, <1>b DEF RetryMark, IdleRetry, Harmless, NothingLost,
       JobsHarmless, NothingRecorded, NoNewLost
  <2> QED
    BY <1>a, <2>1, KeptByHarmless
<1>37. ASSUME NEW r \in Retriers, RetryEnqueue(r) PROVE KeptInv'
  <2>1. Harmless
    BY <1>37, <1>b DEF RetryEnqueue, NewJob, IdleRetry, Harmless, NothingLost,
       JobsHarmless, NothingRecorded, NoNewLost
  <2> QED
    BY <1>a, <2>1, KeptByHarmless
<1>38. ASSUME NEW r \in Retriers, RetryFails(r) PROVE KeptInv'
  <2>1. Harmless
    BY <1>38, <1>b DEF RetryFails, IdleRetry, Harmless, NothingLost,
       JobsHarmless, NothingRecorded, NoNewLost
  <2> QED
    BY <1>a, <2>1, KeptByHarmless
<1>39. ASSUME NEW m \in channel, DeleteByHand(m) PROVE KeptInv'
  <2>1. Harmless
    BY <1>39, <1>b DEF DeleteByHand, Harmless, NothingLost, JobsHarmless,
       NothingRecorded, NoNewLost
  <2> QED
    BY <1>a, <2>1, KeptByHarmless
<1>40. ASSUME ConnectionFails PROVE KeptInv'
  <2>1. Harmless
    BY <1>40, <1>b DEF ConnectionFails, Harmless, NothingLost, JobsHarmless,
       NothingRecorded, NoNewLost
  <2> QED
    BY <1>a, <2>1, KeptByHarmless
<1>41. ASSUME ConnectionRecovers PROVE KeptInv'
  <2>1. Harmless
    BY <1>41, <1>b DEF ConnectionRecovers, Harmless, NothingLost, JobsHarmless,
       NothingRecorded, NoNewLost
  <2> QED
    BY <1>a, <2>1, KeptByHarmless
<1>42. ASSUME Crash PROVE KeptInv'
  <2>1. /\ NothingLost /\ JobsHarmless /\ NothingRecorded /\ NoNewLost
        /\ UNCHANGED <<log, file>>
    BY <1>42 DEF Crash, NothingLost, JobsHarmless, NothingRecorded, NoNewLost,
       FreeJob
  <2>2. /\ \A g \in Files : del'[g].ids \subseteq del[g].ids
        /\ trash' \subseteq trash
        /\ \A q \in Checkers : check'[q].ids = {} /\ check'[q].pc = "idle"
    BY <1>42 DEF Crash, IdleDelete, IdleCheck
  <2>3. SnapshotInv' /\ ChecksHarmless
    BY <2>1, <2>2 DEF KeptInv, SnapshotInv, CarriesFor, Gone, ChecksHarmless
  <2> QED
    BY <1>a, <2>1, <2>3, KeptFrame DEF KeptInv
<1>43. CASE UNCHANGED vars
  <2>1. Harmless
    BY <1>43 DEF vars, Harmless, NothingLost, JobsHarmless, NothingRecorded,
       NoNewLost
  <2> QED
    BY <1>a, <2>1, KeptByHarmless
<1> QED
  BY <1>1, <1>2, <1>3, <1>4, <1>5, <1>6, <1>7, <1>8, <1>9, <1>10, <1>11, <1>12,
     <1>13, <1>14, <1>15, <1>16, <1>17, <1>18, <1>19, <1>20, <1>21, <1>22,
     <1>23, <1>24, <1>25, <1>26, <1>27, <1>28, <1>29, <1>30, <1>31, <1>32,
     <1>33, <1>34, <1>35, <1>36, <1>37, <1>38, <1>39, <1>40, <1>41, <1>42,
     <1>43
  DEF Next, UploadStep, JobStep, DeleteStep, CheckStep, RetryStep

-----------------------------------------------------------------------------
(***************************************************************************)
(* BytesInv.                                                               *)
(***************************************************************************)

LEMMA BytesInit == Init => BytesInv
  BY DEF Init, BytesInv, UnstageInv, BytesSurvive, HandedOver, Exists, FreeJob,
     ChunkIds

\* A chunk that can still be stored, or was.
Covered(k) == k \in staged \/ chunkMsg[k] # NoMsg

\* The step leaves covered what the server has received.
CoveredStays ==
  \A k \in ChunkIds :
    HandedOver(k)' /\ (HandedOver(k) => Covered(k)) => Covered(k)'

IdsStay ==
  \A k \in ChunkIds :
    chunkMsg[k] # NoMsg => chunkMsg'[k] # NoMsg \/ file'[k[1]] = "GONE"

\* No job gets closer to unlinking a staging file.
JobsKeepFiles ==
  \A j \in Jobs : \/ job'[j] = job[j]
                  \/ job'[j].pc \notin {"verifying", "unstaging", "cleaning"}

LEMMA BytesFrame ==
  ASSUME StoredInv, StoredInv', KeptInv, KeptInv', BytesInv, HistoryStep
  PROVE  /\ DatabaseQuiet' => DatabaseQuiet
         /\ DiskQuiet' => DiskQuiet
         /\ IdsStay /\ JobsKeepFiles => UnstageInv'
         /\ (DatabaseQuiet' /\ DiskQuiet' => CoveredStays) => BytesSurvive'
<1>1. (DatabaseQuiet' => DatabaseQuiet) /\ (DiskQuiet' => DiskQuiet)
  <2>1. budget \in [FaultKinds -> Nat] /\ budget' \in [FaultKinds -> Nat]
    BY DEF StoredInv, TypeOK
  <2>2. FaultBudget \in [FaultKinds -> Nat]
    BY EngineAssumption
  <2>3. "database" \in FaultKinds /\ "crash" \in FaultKinds
    BY DEF FaultKinds
  <2>4. /\ \A kind \in FaultKinds : budget[kind] <= FaultBudget[kind]
        /\ \A kind \in FaultKinds : budget'[kind] <= budget[kind]
    BY DEF KeptInv, BudgetInv, HistoryStep
  <2> QED
    BY <2>1, <2>2, <2>3, <2>4 DEF DatabaseQuiet, DiskQuiet
<1>2. ASSUME IdsStay, JobsKeepFiles PROVE UnstageInv'
  <2> SUFFICES ASSUME DatabaseQuiet', NEW j \in Jobs, job'[j] = job[j],
                      job[j].pc \in {"verifying", "unstaging", "cleaning"}
               PROVE  chunkMsg'[job[j].key] # NoMsg \/ Gone(job[j].key[1])'
    BY <1>2 DEF JobsKeepFiles, UnstageInv, Gone
  <2>1. job[j].key \in ChunkIds /\ job[j].key[1] \in Files
    BY DEF StoredInv, WorkInv, ChunkIds
  <2>2. chunkMsg[job[j].key] # NoMsg \/ Gone(job[j].key[1])
    BY <1>1 DEF BytesInv, UnstageInv
  <2> QED
    BY <1>2, <2>1, <2>2 DEF IdsStay, HistoryStep, Gone
<1>3. ASSUME DatabaseQuiet' /\ DiskQuiet' => CoveredStays PROVE BytesSurvive'
  <2> SUFFICES ASSUME DatabaseQuiet', DiskQuiet', NEW k \in ChunkIds, HandedOver(k)'
               PROVE  k \in staged' \/ chunkMsg'[k] \in channel' \cup byHand'
    BY DEF BytesSurvive, HandedOver, Exists
  <2>1. NoMsg \notin channel \cup byHand
    BY DEF StoredInv, TypeOK, NoMsg
  <2>2. HandedOver(k) => Covered(k)
    BY <1>1, <2>1 DEF BytesInv, BytesSurvive, Covered
  <2>3. Covered(k)'
    BY <1>3, <2>2 DEF CoveredStays
  <2> QED
    BY <2>3 DEF Covered, KeptInv, LiveMessagesKept
<1> QED
  BY <1>1, <1>2, <1>3

LEMMA BytesNext ==
  StoredInv /\ StoredInv' /\ KeptInv /\ KeptInv' /\ BytesInv /\ [Next]_vars
    => BytesInv'
<1> SUFFICES ASSUME StoredInv, StoredInv', KeptInv, KeptInv', BytesInv, [Next]_vars
             PROVE  BytesInv'
  OBVIOUS
<1> USE DEF rows, telegram, requests, around
<1>a. TypeOK /\ HistoryStep
  BY HistoryGrows DEF StoredInv
<1>b. /\ file \in [Files -> {"NEW", "UPLOADING", "READY", "ERROR", "LOST", "GONE"}]
      /\ chunkMsg \in [ChunkIds -> Nat]
      /\ job \in [Jobs -> JobType]
      /\ upload \in [Files -> UploadType]
  BY <1>a DEF TypeOK
<1>c. \A k \in ChunkIds : k[1] \in Files /\ k[2] \in 1..NumChunks
  BY DEF ChunkIds
<1>d. \A j \in Jobs :
        job[j].pc # "free" => job[j].key \in ChunkIds /\ file[job[j].key[1]] # "NEW"
  BY DEF StoredInv, WorkInv
<1>e. /\ DatabaseQuiet' => DatabaseQuiet
      /\ DiskQuiet' => DiskQuiet
      /\ IdsStay /\ JobsKeepFiles => UnstageInv'
      /\ (DatabaseQuiet' /\ DiskQuiet' => CoveredStays) => BytesSurvive'
  BY <1>a, BytesFrame
<1>f. ASSUME UNCHANGED <<chunkMsg, staged, upload>>,
             \A f \in Files : Exists(f)' => Exists(f)
      PROVE  IdsStay /\ CoveredStays
  BY <1>c, <1>f DEF IdsStay, CoveredStays, Covered, HandedOver, Exists
<1>g. ASSUME UNCHANGED <<chunkMsg, staged, upload, file>> PROVE IdsStay /\ CoveredStays
  BY <1>f, <1>g DEF Exists
<1>1. ASSUME \/ \E t \in trash : TrashRun(t) \/ TrashFails(t)
             \/ \E f \in Files : DeleteRead(f)
             \/ \E q \in Checkers :
                  \/ \E f \in Files, by \in {"download", "retry"} : CheckStart(q, f, by)
                  \/ CheckVerify(q) \/ CheckFails(q) \/ CheckStream(q)
             \/ \E r \in Retriers :
                  \/ \E f \in Files : RetryRead(r, f)
                  \/ RetryReset(r) \/ RetryFails(r)
             \/ \E m \in channel : DeleteByHand(m)
             \/ ConnectionFails \/ ConnectionRecovers
             \/ UNCHANGED vars
      PROVE  BytesInv'
  <2>1. UNCHANGED <<file, chunkMsg, staged, upload, job>>
    BY <1>1
    DEF vars, TrashRun, TrashFails, DeleteRead, CheckStart, CheckVerify, CheckFails,
        CheckStream, RetryRead, RetryReset, RetryFails, DeleteByHand,
        ConnectionFails, ConnectionRecovers
  <2>2. JobsKeepFiles
    BY <2>1 DEF JobsKeepFiles
  <2> QED
    BY <1>e, <1>g, <2>1, <2>2 DEF BytesInv
<1>2. ASSUME \/ \E j \in Jobs : JobPublish(j) \/ JobFailFile(j)
             \/ \E q \in Checkers : CheckRepair(q) \/ CheckLost(q)
             \/ \E r \in Retriers : RetryMark(r)
      PROVE  BytesInv'
  <2>1. UNCHANGED <<chunkMsg, staged, upload>>
    BY <1>2 DEF JobPublish, JobFailFile, CheckRepair, CheckLost, RetryMark
  <2>2. \A f \in Files : Exists(f)' => Exists(f)
    BY <1>2, <1>b
    DEF JobPublish, JobFailFile, CheckRepair, CheckLost, RetryMark, Exists
  <2>3. JobsKeepFiles
    BY <1>2, <1>a, FinishFacts
    DEF JobPublish, JobFailFile, CheckRepair, CheckLost, RetryMark, JobsKeepFiles
  <2> QED
    BY <1>e, <1>f, <2>1, <2>2, <2>3 DEF BytesInv
<1>3. ASSUME NEW j \in Jobs,
             \/ JobMark(j) \/ JobLock(j) \/ JobSend(j) \/ JobSendFails(j)
             \/ JobSurvivor(j) \/ JobCount(j) \/ JobFailChunk(j)
      PROVE  BytesInv'
  <2>1. UNCHANGED <<file, chunkMsg, staged, upload>>
    BY <1>3 DEF JobMark, JobLock, JobSend, JobSendFails, JobSurvivor, JobCount,
       JobFailChunk
  <2>2. /\ job'[j].pc \notin {"verifying", "unstaging", "cleaning"}
        /\ \A i \in Jobs : i # j => job'[i] = job[i]
    <3>1. CASE JobSend(j)
      BY <3>1, <1>a, <1>b, FailAttemptFacts DEF JobSend
    <3>2. CASE ~JobSend(j)
      BY <1>3, <3>2, <1>a, GotoFacts, FinishFacts, FailAttemptFacts
      DEF JobMark, JobLock, JobSendFails, JobSurvivor, JobCount, JobFailChunk
    <3> QED
      BY <3>1, <3>2
  <2>3. JobsKeepFiles
    BY <2>2 DEF JobsKeepFiles
  <2> QED
    BY <1>e, <1>g, <2>1, <2>3 DEF BytesInv
<1>4. ASSUME NEW r \in Retriers, RetryEnqueue(r) PROVE BytesInv'
  <2>1. UNCHANGED <<file, chunkMsg, staged, upload>> /\ JobsKeepFiles
    BY <1>4, <1>b DEF RetryEnqueue, NewJob, JobsKeepFiles
  <2> QED
    BY <1>e, <1>g, <2>1 DEF BytesInv
<1>5. ASSUME NEW f \in Files, CreateUpload(f) PROVE BytesInv'
  <2>1. IdsStay /\ JobsKeepFiles
    BY <1>5 DEF CreateUpload, IdsStay, JobsKeepFiles
  <2>2. CoveredStays
    BY <1>5, <1>b, <1>c
    DEF CreateUpload, CoveredStays, Covered, HandedOver, Exists
  <2> QED
    BY <1>e, <2>1, <2>2 DEF BytesInv
<1>6. ASSUME NEW f \in Files, StageChunk(f) PROVE BytesInv'
  <2>1. IdsStay /\ JobsKeepFiles
    BY <1>6 DEF StageChunk, IdsStay, JobsKeepFiles
  <2>2. ASSUME NEW k \in ChunkIds, HandedOver(k)', HandedOver(k) => Covered(k)
        PROVE  Covered(k)'
    <3>1. CASE k[1] # f
      BY <1>6, <1>b, <1>c, <2>2, <3>1
      DEF StageChunk, Covered, HandedOver, Exists
    <3>2. CASE k[1] = f
      <4>1. k = <<f, k[2]>> /\ k[2] \in Nat /\ upload[f].next \in Nat
        BY <1>b, <3>2 DEF ChunkIds, UploadType
      <4>2. k[2] <= upload[f].next
        BY <1>6, <1>b, <2>2, <3>2 DEF StageChunk, HandedOver
      <4>3. CASE k[2] = upload[f].next
        BY <1>6, <4>1, <4>3 DEF StageChunk, Covered
      <4>4. CASE k[2] < upload[f].next
        BY <1>6, <2>2, <3>2, <4>4 DEF StageChunk, Covered, HandedOver, Exists
      <4> QED
        BY <4>1, <4>2, <4>3, <4>4
    <3> QED
      BY <3>1, <3>2
  <2> QED
    BY <1>e, <2>1, <2>2 DEF BytesInv, CoveredStays
<1>7. ASSUME NEW f \in Files, RestartChunk(f) PROVE BytesInv'
  <2>1. IdsStay /\ JobsKeepFiles
    BY <1>7 DEF RestartChunk, IdsStay, JobsKeepFiles
  <2>2. \A k \in ChunkIds : HandedOver(k) => k # <<f, upload[f].next>>
    BY <1>7, <1>b DEF RestartChunk, HandedOver, UploadType
  <2>3. CoveredStays
    BY <1>7, <2>2 DEF RestartChunk, CoveredStays, Covered, HandedOver, Exists
  <2> QED
    BY <1>e, <2>1, <2>3 DEF BytesInv
<1>8. ASSUME NEW f \in Files, EnqueueChunk(f) \/ AdvanceUpload(f) \/ EnqueueFails(f)
      PROVE  BytesInv'
  <2>1. UNCHANGED <<file, chunkMsg, staged>>
    BY <1>8 DEF EnqueueChunk, AdvanceUpload, EnqueueFails
  <2>2. JobsKeepFiles
    BY <1>8, <1>b
    DEF EnqueueChunk, AdvanceUpload, EnqueueFails, NewJob, JobsKeepFiles
  <2>3. ASSUME NEW k \in ChunkIds, HandedOver(k)' PROVE HandedOver(k)
    <3>1. k[1] # f => upload'[k[1]] = upload[k[1]]
      BY <1>8, <1>b, <1>c DEF EnqueueChunk, AdvanceUpload, EnqueueFails
    <3>2. CASE k[1] # f
      BY <2>1, <2>3, <3>1, <3>2 DEF HandedOver, Exists
    <3>3. CASE k[1] = f
      <4>1. /\ k[2] \in 1..NumChunks /\ NumChunks \in Nat
            /\ upload[f].next \in 1..NumChunks
            /\ Exists(f)
        BY <1>b, <1>c, <2>1, <2>3, <3>3, EngineAssumption
        DEF UploadType, HandedOver, Exists
      <4>2. CASE EnqueueChunk(f)
        BY <1>b, <2>3, <3>3, <4>1, <4>2 DEF EnqueueChunk, HandedOver
      <4>3. CASE AdvanceUpload(f)
        BY <1>b, <2>3, <3>3, <4>1, <4>3 DEF AdvanceUpload, HandedOver, IsLastChunk
      <4>4. CASE EnqueueFails(f)
        BY <1>b, <2>3, <3>3, <4>1, <4>4 DEF EnqueueFails, Resumed, HandedOver
      <4> QED
        BY <1>8, <4>2, <4>3, <4>4
    <3> QED
      BY <3>2, <3>3
  <2>4. IdsStay /\ CoveredStays
    BY <2>1, <2>3 DEF IdsStay, CoveredStays, Covered
  <2> QED
    BY <1>e, <2>2, <2>4 DEF BytesInv
<1>9. ASSUME NEW j \in Jobs, JobStart(j) PROVE BytesInv'
  <2>1. UNCHANGED <<file, chunkMsg, staged, upload>>
    BY <1>9 DEF JobStart
  <2>2. /\ job'[j].pc = "cleaning" => NothingToDo(job[j].key)
        /\ job'[j].pc \in {"cleaning", "marking", "queued", "failing"}
        /\ job'[j].key = job[j].key
        /\ \A i \in Jobs : i # j => job'[i] = job[i]
    BY <1>9, <1>a, GotoFacts, FailAttemptFacts DEF JobStart
  <2>3. job'[j].pc = "cleaning" =>
          chunkMsg[job[j].key] # NoMsg \/ Gone(job[j].key[1])
    BY <1>9, <1>d, <2>2
    DEF JobStart, NothingToDo, Exists, Gone, StoredInv, RowInv
  <2>4. UnstageInv'
    BY <1>e, <2>1, <2>2, <2>3 DEF BytesInv, UnstageInv, Gone
  <2> QED
    BY <1>e, <1>g, <2>1, <2>4 DEF BytesInv
<1>10. ASSUME NEW j \in Jobs, JobWrite(j) PROVE BytesInv'
  <2>1. /\ job[j].key \in ChunkIds
        /\ job[j].msg # NoMsg
        /\ UNCHANGED <<file, staged, upload>>
    BY <1>10, <1>d DEF JobWrite, StoredInv, MessageInv, Carries, NoMsg
  <2>2. /\ job'[j].pc = "verifying" => chunkMsg'[job[j].key] = job[j].msg
        /\ job'[j].pc \in {"verifying", "orphan"}
        /\ job'[j].key = job[j].key
        /\ \A i \in Jobs : i # j => job'[i] = job[i]
    BY <1>10, <1>a, <1>b, <2>1, GotoFacts DEF JobWrite
  <2>3. \A k \in ChunkIds : chunkMsg[k] # NoMsg => chunkMsg'[k] # NoMsg
    BY <1>10, <1>b, <2>1 DEF JobWrite
  <2>4. UnstageInv'
    BY <1>d, <1>e, <2>1, <2>2, <2>3 DEF BytesInv, UnstageInv, Gone
  <2>5. CoveredStays
    BY <2>1, <2>3 DEF CoveredStays, Covered, HandedOver, Exists
  <2> QED
    BY <1>e, <2>4, <2>5 DEF BytesInv
<1>11. ASSUME NEW j \in Jobs, JobRecorded(j) \/ JobOrphan(j) PROVE BytesInv'
  <2>1. UNCHANGED <<file, chunkMsg, staged, upload>>
    BY <1>11 DEF JobRecorded, JobOrphan
  <2>2. /\ job'[j].pc \in {"unstaging", "orphan", "cleaning"}
        /\ job'[j].pc = "unstaging" => job[j].pc = "verifying"
        /\ job'[j].pc = "cleaning" => job[j].pc = "orphan"
        /\ job'[j].key = job[j].key
        /\ \A i \in Jobs : i # j => job'[i] = job[i]
    BY <1>11, <1>a, GotoFacts DEF JobRecorded, JobOrphan
  <2>3. DatabaseQuiet /\ job[j].pc = "orphan" => Gone(job[j].key[1])
    BY DEF KeptInv, JobsQuietInv
  <2>4. UnstageInv'
    BY <1>e, <2>1, <2>2, <2>3 DEF BytesInv, UnstageInv, Gone
  <2> QED
    BY <1>e, <1>g, <2>1, <2>4 DEF BytesInv
<1>12. ASSUME NEW j \in Jobs, JobUnstage(j) PROVE BytesInv'
  <2>1. UNCHANGED <<file, chunkMsg, upload>> /\ staged' = staged \ {job[j].key}
    BY <1>12 DEF JobUnstage
  <2>2. JobsKeepFiles
    BY <1>12, <1>a, GotoFacts, FinishFacts DEF JobUnstage, JobsKeepFiles
  <2>3. DatabaseQuiet => chunkMsg[job[j].key] # NoMsg \/ Gone(job[j].key[1])
    BY <1>12 DEF JobUnstage, BytesInv, UnstageInv
  <2>4. DatabaseQuiet => CoveredStays
    BY <2>1, <2>3 DEF CoveredStays, Covered, HandedOver, Exists, Gone
  <2>5. IdsStay
    BY <2>1 DEF IdsStay
  <2> QED
    BY <1>e, <2>2, <2>4, <2>5 DEF BytesInv
<1>13. ASSUME NEW j \in Jobs, JobDbFails(j) PROVE BytesInv'
  <2>1. ~DatabaseQuiet'
    <3>1. "database" \in FaultKinds /\ FaultBudget["database"] \in Nat
      BY EngineAssumption DEF FaultKinds
    <3>2. budget \in [FaultKinds -> Nat] /\ budget["database"] <= FaultBudget["database"]
      BY <1>a, <3>1 DEF TypeOK, KeptInv, BudgetInv
    <3>3. budget'["database"] = budget["database"] - 1
      BY <1>13, <3>1, <3>2 DEF JobDbFails, Spend
    <3> QED
      BY <3>1, <3>2, <3>3 DEF DatabaseQuiet
  <2> QED
    BY <2>1 DEF BytesInv, UnstageInv, BytesSurvive
<1>14. ASSUME NEW f \in Files, DeleteRows(f) PROVE BytesInv'
  <2>1. /\ file' = [file EXCEPT ![f] = "GONE"]
        /\ UNCHANGED <<staged, job>>
        /\ \A k \in ChunkIds : k[1] # f => /\ chunkMsg'[k] = chunkMsg[k]
                                          /\ upload'[k[1]] = upload[k[1]]
    BY <1>14, <1>b, <1>c DEF DeleteRows
  <2>2. \A k \in ChunkIds : k[1] = f => file'[k[1]] = "GONE"
    BY <1>b, <2>1
  <2>3. \A k \in ChunkIds : k[1] # f => file'[k[1]] = file[k[1]]
    BY <1>b, <1>c, <2>1
  <2>4. IdsStay /\ JobsKeepFiles
    BY <2>1, <2>2 DEF IdsStay, JobsKeepFiles
  <2>5. CoveredStays
    BY <2>1, <2>2, <2>3 DEF CoveredStays, Covered, HandedOver, Exists
  <2> QED
    BY <1>e, <2>4, <2>5 DEF BytesInv
<1>15. ASSUME NEW f \in Files, DeleteCleanup(f) \/ DeleteFails(f) PROVE BytesInv'
  <2>1. /\ UNCHANGED <<file, chunkMsg, upload, job>>
        /\ staged' = {k \in staged : k[1] # f}
    BY <1>15 DEF DeleteCleanup, DeleteFails
  <2>2. Gone(f)
    BY <1>15 DEF DeleteCleanup, DeleteFails, StoredInv, WorkInv
  <2>3. IdsStay /\ JobsKeepFiles
    BY <2>1 DEF IdsStay, JobsKeepFiles
  <2>4. CoveredStays
    BY <2>1, <2>2 DEF CoveredStays, Covered, HandedOver, Exists, Gone
  <2> QED
    BY <1>e, <2>3, <2>4 DEF BytesInv
<1>16. ASSUME Crash PROVE BytesInv'
  <2>1. ~DiskQuiet'
    <3>1. "crash" \in FaultKinds /\ FaultBudget["crash"] \in Nat
      BY EngineAssumption DEF FaultKinds
    <3>2. budget \in [FaultKinds -> Nat] /\ budget["crash"] <= FaultBudget["crash"]
      BY <1>a, <3>1 DEF TypeOK, KeptInv, BudgetInv
    <3>3. budget'["crash"] = budget["crash"] - 1
      BY <1>16, <3>1, <3>2 DEF Crash, Spend
    <3> QED
      BY <3>1, <3>2, <3>3 DEF DiskQuiet
  <2>2. IdsStay /\ JobsKeepFiles
    BY <1>16 DEF Crash, IdsStay, JobsKeepFiles, FreeJob
  <2> QED
    BY <1>e, <2>1, <2>2 DEF BytesInv
<1> QED
  BY <1>1, <1>2, <1>3, <1>4, <1>5, <1>6, <1>7, <1>8, <1>9, <1>10, <1>11, <1>12,
     <1>13, <1>14, <1>15, <1>16
  DEF Next, UploadStep, JobStep, DeleteStep, CheckStep, RetryStep
-----------------------------------------------------------------------------
(***************************************************************************)
(* Theorems.                                                               *)
(***************************************************************************)

\* The inductive invariant holds in every reachable state: rows, suspended
\* jobs, snapshots and messages stay consistent under every interleaving of
\* the worker, the requests, the queue's redeliveries and the user.
THEOREM EngineCorrect == Spec => []EngineInv
<1>1. Init => EngineInv
  BY StoredInit, KeptInit, BytesInit DEF EngineInv
<1>2. EngineInv /\ [Next]_vars => EngineInv'
  BY TypeNext, StoredNext, KeptNext, BytesNext DEF EngineInv, StoredInv
<1> QED
  BY <1>1, <1>2, PTL DEF Spec

\* A file shown as READY or LOST has a message id for every chunk, whatever
\* the worker's count, a download's repair or a retry acted on.
THEOREM ReadyCorrect == Spec => []ReadyIsStored
  BY EngineCorrect, PTL DEF EngineInv, StoredInv

\* Orphan removal and cleanup jobs never delete the message a live row points
\* at, unless a database call of a job has failed.
THEOREM MessagesKept == Spec => []LiveMessagesKept
  BY EngineCorrect, PTL DEF EngineInv, KeptInv

\* markFileLost only ever marks a file one of whose messages its user deleted,
\* unless a database call of a job has failed.
THEOREM LostCorrect == Spec => []LostIsEarned
  BY EngineCorrect, PTL DEF EngineInv, KeptInv

\* The bytes of a chunk its client no longer sends are staged or stored, unless
\* the process was restarted or a database call of a job has failed.
THEOREM BytesAreKept == Spec => []BytesSurvive
  BY EngineCorrect, PTL DEF EngineInv, BytesInv

\* What follows for the reader of a file: every chunk of a READY file is in the
\* channel, unless a database call of a job has failed or the user has deleted it
\* there.  (With a failed call it is not so: ReadyIsDownloadable is refuted.)
THEOREM ReadyDownloads ==
  Spec => [](DatabaseQuiet =>
               \A f \in Files : file[f] = "READY" =>
                 \A k \in ChunksOf(f) : chunkMsg[k] \in channel \cup byHand)
<1>1. ReadyIsStored /\ LiveMessagesKept =>
        (DatabaseQuiet =>
           \A f \in Files : file[f] = "READY" =>
             \A k \in ChunksOf(f) : chunkMsg[k] \in channel \cup byHand)
  BY DEF ReadyIsStored, LiveMessagesKept, FullyStored, ChunksOf, ChunkIds
<1> QED
  BY <1>1, ReadyCorrect, MessagesKept, PTL

(***************************************************************************)
(* The engine implements FileLifecycle: every step is a step of the        *)
(* lifecycle of one file, or changes nothing a user is shown.              *)
(***************************************************************************)

\* The mapping of the variable stored.
StoredChunks == [f \in Files |-> {c \in 1..NumChunks : chunkMsg[<<f, c>>] # NoMsg}]

LEMMA LifecycleInit == Init => Lifecycle!Init
  BY DEF Init, Lifecycle!Init, ChunkIds

LEMMA LifecycleNext ==
  EngineInv /\ [Next]_vars => [Lifecycle!Next]_(Lifecycle!lifecycleVars)
<1> SUFFICES ASSUME EngineInv, [Next]_vars
             PROVE  Lifecycle!Next \/ UNCHANGED Lifecycle!lifecycleVars
  OBVIOUS
<1> USE DEF rows, telegram, requests, around
<1>a. /\ file \in [Files -> {"NEW", "UPLOADING", "READY", "ERROR", "LOST", "GONE"}]
      /\ chunkMsg \in [ChunkIds -> Nat]
  BY DEF EngineInv, StoredInv, TypeOK
<1>b. UNCHANGED <<file, chunkMsg>> => UNCHANGED Lifecycle!lifecycleVars
  BY DEF Lifecycle!lifecycleVars
<1>c. ASSUME NEW f \in Files, NEW s, Exists(f), file' = [file EXCEPT ![f] = s],
             UNCHANGED chunkMsg,
             \/ s \in {"UPLOADING", "ERROR"}
             \/ s \in {"READY", "LOST"} /\ FullyStored(f)
      PROVE  Lifecycle!Next
  <2>1. /\ Lifecycle!Alive(f) /\ Lifecycle!SetStatus(f, s)
    BY <1>c DEF Lifecycle!Alive, Exists, Lifecycle!SetStatus
  <2>2. FullyStored(f) => StoredChunks[f] = 1..NumChunks
    BY DEF FullyStored, ChunksOf, ChunkIds, StoredChunks
  <2>3. CASE s \in {"UPLOADING", "ERROR"}
    BY <2>1, <2>3 DEF Lifecycle!Next, Lifecycle!Fail, Lifecycle!Resume
  <2>4. CASE s \in {"READY", "LOST"} /\ FullyStored(f)
    BY <2>1, <2>2, <2>4
    DEF Lifecycle!Next, Lifecycle!Publish, Lifecycle!Lose, StoredChunks
  <2> QED
    BY <1>c, <2>3, <2>4
<1>1. ASSUME NEW f \in Files, CreateUpload(f) PROVE Lifecycle!Next
  BY <1>1
  DEF CreateUpload, Lifecycle!Next, Lifecycle!Create, Lifecycle!SetStatus
<1>2. ASSUME NEW j \in Jobs, JobWrite(j)
      PROVE  Lifecycle!Next \/ UNCHANGED Lifecycle!lifecycleVars
  <2>1. CASE ~Exists(job[j].key[1])
    BY <1>2, <1>b, <2>1 DEF JobWrite
  <2>2. CASE Exists(job[j].key[1])
    <3>1. job[j].key \in ChunkIds /\ job[j].msg # NoMsg
      BY <1>2 DEF JobWrite, EngineInv, StoredInv, WorkInv, MessageInv, Carries,
         NoMsg
    <3>2. PICK f \in Files, c \in 1..NumChunks : job[j].key = <<f, c>>
      BY <3>1 DEF ChunkIds
    <3>3. chunkMsg' = [chunkMsg EXCEPT ![<<f, c>>] = job[j].msg] /\ UNCHANGED file
      BY <1>2, <2>2, <3>2 DEF JobWrite
    <3>4. Exists(f)
      BY <2>2, <3>2
    <3>5. \A g \in Files, d \in 1..NumChunks :
            chunkMsg'[<<g, d>>] # NoMsg <=>
              chunkMsg[<<g, d>>] # NoMsg \/ (g = f /\ d = c)
      BY <1>a, <3>1, <3>3 DEF ChunkIds
    <3>6. StoredChunks' = [StoredChunks EXCEPT ![f] = @ \cup {c}]
      BY <3>5 DEF StoredChunks
    <3>7. Lifecycle!Store(f, c)
      BY <3>3, <3>4, <3>6
      DEF Lifecycle!Store, Lifecycle!Alive, Exists, StoredChunks
    <3> QED
      BY <3>7 DEF Lifecycle!Next
  <2> QED
    BY <2>1, <2>2
<1>3. ASSUME NEW j \in Jobs, JobPublish(j) \/ JobFailFile(j)
      PROVE  Lifecycle!Next \/ UNCHANGED Lifecycle!lifecycleVars
  <2> DEFINE f == job[j].key[1]
  <2>1. f \in Files
    BY <1>3 DEF JobPublish, JobFailFile, EngineInv, StoredInv, WorkInv, ChunkIds
  <2>2. JobPublish(j) /\ Exists(f) => FullyStored(f)
    BY DEF JobPublish, EngineInv, StoredInv, PublishInv, StoredOrGone, Gone, Exists
  <2>3. CASE ~Exists(f)
    BY <1>3, <1>b, <2>3 DEF JobPublish, JobFailFile
  <2>4. CASE Exists(f)
    BY <1>3, <1>c, <2>1, <2>2, <2>4 DEF JobPublish, JobFailFile
  <2> QED
    BY <2>3, <2>4
<1>4. ASSUME NEW f \in Files, DeleteRows(f) PROVE Lifecycle!Next
  <2>1. Exists(f)
    BY <1>4 DEF DeleteRows, EngineInv, StoredInv, WorkInv
  <2>2. Lifecycle!Delete(f)
    BY <1>4, <1>a, <2>1
    DEF DeleteRows, Lifecycle!Delete, Lifecycle!Alive, Exists, ChunkIds
  <2> QED
    BY <2>2 DEF Lifecycle!Next
<1>5. ASSUME NEW q \in Checkers, CheckRepair(q) \/ CheckLost(q)
      PROVE  Lifecycle!Next \/ UNCHANGED Lifecycle!lifecycleVars
  <2> DEFINE f == check[q].file
  <2>1. f \in Files /\ (Exists(f) => FullyStored(f))
    BY <1>5 DEF CheckRepair, CheckLost, EngineInv, StoredInv, PublishInv,
       StoredOrGone, Gone, Exists
  <2>2. CASE ~Exists(f)
    BY <1>5, <1>b, <2>2 DEF CheckRepair, CheckLost
  <2>3. CASE Exists(f)
    BY <1>5, <1>c, <2>1, <2>3 DEF CheckRepair, CheckLost
  <2> QED
    BY <2>2, <2>3
<1>6. ASSUME NEW r \in Retriers, RetryMark(r)
      PROVE  Lifecycle!Next \/ UNCHANGED Lifecycle!lifecycleVars
  <2> DEFINE f == retry[r].file
  <2>1. CASE ~Exists(f) \/ f \notin Files
    BY <1>6, <1>a, <1>b, <2>1 DEF RetryMark
  <2>2. CASE Exists(f) /\ f \in Files
    BY <1>6, <1>c, <2>2 DEF RetryMark
  <2> QED
    BY <2>1, <2>2
<1>7. ASSUME \/ \E f \in Files :
                  \/ StageChunk(f) \/ RestartChunk(f) \/ EnqueueChunk(f)
                  \/ AdvanceUpload(f) \/ EnqueueFails(f)
             \/ \E j \in Jobs :
                  \/ JobStart(j) \/ JobMark(j) \/ JobLock(j) \/ JobSend(j)
                  \/ JobSendFails(j) \/ JobSurvivor(j) \/ JobRecorded(j)
                  \/ JobUnstage(j) \/ JobCount(j) \/ JobOrphan(j)
                  \/ JobFailChunk(j) \/ JobDbFails(j)
             \/ \E t \in trash : TrashRun(t) \/ TrashFails(t)
             \/ \E f \in Files : DeleteRead(f) \/ DeleteCleanup(f) \/ DeleteFails(f)
             \/ \E q \in Checkers :
                  \/ \E f \in Files, by \in {"download", "retry"} : CheckStart(q, f, by)
                  \/ CheckVerify(q) \/ CheckFails(q) \/ CheckStream(q)
             \/ \E r \in Retriers :
                  \/ \E f \in Files : RetryRead(r, f)
                  \/ RetryReset(r) \/ RetryEnqueue(r) \/ RetryFails(r)
             \/ \E m \in channel : DeleteByHand(m)
             \/ ConnectionFails \/ ConnectionRecovers \/ Crash
             \/ UNCHANGED vars
      PROVE  UNCHANGED Lifecycle!lifecycleVars
  <2>1. UNCHANGED <<file, chunkMsg>>
    BY <1>7
    DEF vars, StageChunk, RestartChunk, AdvanceUpload, EnqueueChunk, EnqueueFails, JobStart,
        JobMark, JobLock,
        JobSend, JobSendFails, JobSurvivor, JobRecorded, JobUnstage, JobCount,
        JobOrphan, JobFailChunk, JobDbFails, TrashRun, TrashFails, DeleteRead,
        DeleteCleanup, DeleteFails, CheckStart, CheckVerify, CheckFails,
        CheckStream, RetryRead, RetryReset, RetryEnqueue, RetryFails,
        DeleteByHand, ConnectionFails, ConnectionRecovers, Crash
  <2> QED
    BY <1>b, <2>1
<1> QED
  BY <1>1, <1>2, <1>3, <1>4, <1>5, <1>6, <1>7
  DEF Next, UploadStep, JobStep, DeleteStep, CheckStep, RetryStep

\* The storage engine implements the lifecycle a file is promised: its rows
\* only ever go through the steps of FileLifecycle, whatever the interleaving.
THEOREM EngineImplementsLifecycle == Spec => LifecycleSpec
<1>1. Init => Lifecycle!Init
  BY LifecycleInit
<1>2. EngineInv /\ [Next]_vars => [Lifecycle!Next]_(Lifecycle!lifecycleVars)
  BY LifecycleNext
<1> QED
  BY <1>1, <1>2, EngineCorrect, PTL DEF Spec, LifecycleSpec, Lifecycle!Spec
=============================================================================

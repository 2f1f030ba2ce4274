-------------------------- MODULE ProcessingProofs --------------------------
(***************************************************************************)
(* Theorems about Processing, for any documents, handlers and pipeline,    *)
(* any retry limit and any number of faults.                               *)
(***************************************************************************)
EXTENDS Processing, TLAPS

-----------------------------------------------------------------------------
(* Types                                                                   *)

\* The pipeline has a first and a last section, and every step in between
\* names one.
LEMMA PipelineFacts ==
    /\ LastStep \in Nat \ {0}
    /\ DOMAIN Pipeline = 1..LastStep
    /\ 1 \in DOMAIN Pipeline
    /\ \A i \in DOMAIN Pipeline : Pipeline[i] \in Section
BY PipelineAssumption DEF LastStep, Section

\* Every way a handler moves keeps its state well-typed.
LEMMA HandlerMovesTyped ==
    ASSUME HandlerTypeOK, NEW h \in Handler, pc[h] # "idle"
    PROVE  /\ \A label \in Label \ {"idle"} : Goto(h, label) => HandlerTypeOK'
           /\ Leave(h) => HandlerTypeOK'
           /\ Abandon(h) => HandlerTypeOK'
           /\ Reject(h) => HandlerTypeOK'
           /\ Catch(h) => HandlerTypeOK'
           /\ CatchStage(h) => HandlerTypeOK'
           /\ Advance(h) => HandlerTypeOK'
<1>1. \A label \in Label \ {"idle"} : Goto(h, label) => HandlerTypeOK'
  BY DEF HandlerTypeOK, Goto
<1>2. Leave(h) => HandlerTypeOK'
  BY PipelineFacts DEF HandlerTypeOK, Leave, Label
<1>3. Abandon(h) => HandlerTypeOK'
  BY PipelineFacts DEF HandlerTypeOK, Abandon, Label
<1>4. Reject(h) => HandlerTypeOK'
  BY <1>2, <1>3 DEF Reject
<1>5. Catch(h) => HandlerTypeOK'
  BY PipelineFacts DEF HandlerTypeOK, Catch, Label
<1>6. CatchStage(h) => HandlerTypeOK'
  BY DEF HandlerTypeOK, CatchStage, Label
<1>7. Advance(h) => HandlerTypeOK'
  <2> HAVE Advance(h)
  <2>1. step[h] # LastStep => step[h] + 1 \in DOMAIN Pipeline
    BY PipelineFacts DEF HandlerTypeOK
  <2>2. step' \in [Handler -> DOMAIN Pipeline]
    BY <2>1 DEF HandlerTypeOK, Advance
  <2>3. pc' \in [Handler -> Label] /\ pc'[h] # "idle"
        /\ \A k \in Handler \ {h} : pc'[k] = pc[k]
    BY DEF HandlerTypeOK, Advance, Label
  <2> QED
    BY <2>2, <2>3 DEF HandlerTypeOK, Advance
<1> QED
  BY <1>1, <1>2, <1>3, <1>4, <1>5, <1>6, <1>7

\* Before the first upload every variable holds a value of its kind.
LEMMA TypeCorrectInit == Init => TypeOK
BY PipelineFacts, DocAssumption
DEF Init, TypeOK, RowTypeOK, BrokerTypeOK, HandlerTypeOK, FaultTypeOK, Label

\* No action of the api, of a handler, of the broker or of a fault leaves the
\* types: the case analysis behind TypeCorrect.
LEMMA TypeCorrectStep == TypeOK /\ [Next]_vars => TypeOK'
<1> SUFFICES ASSUME TypeOK, [Next]_vars PROVE TypeOK'
  OBVIOUS
<1> USE DEF TypeOK
<1>1. CASE UNCHANGED vars
  BY <1>1 DEF vars, rowVars, brokerVars, handlerVars, faultVars,
              RowTypeOK, BrokerTypeOK, HandlerTypeOK, FaultTypeOK
<1>2. ASSUME NEW d \in Doc, Create(d) \/ Publish(d) \/ LosePublish(d) \/ Delete(d)
      PROVE  TypeOK'
  BY <1>2 DEF Create, Publish, LosePublish, Delete, rowVars, brokerVars,
              handlerVars, faultVars, RowTypeOK, BrokerTypeOK, HandlerTypeOK,
              FaultTypeOK, DocStatus
<1>3. ASSUME NEW h \in Handler, NEW d \in Doc, Deliver(h, d)
      PROVE  TypeOK'
  <2>1. HandlerTypeOK'
    BY <1>3, DocAssumption DEF Deliver, HandlerTypeOK, Label
  <2> QED
    BY <1>3, <2>1 DEF Deliver, rowVars, faultVars, RowTypeOK, BrokerTypeOK, FaultTypeOK
<1>4. ASSUME NEW h \in Handler, HandlerStep(h)
      PROVE  TypeOK'
  <2>1. pc[h] # "idle" /\ job[h] \in Doc
    BY <1>4 DEF HandlerStep, Find, DropOrphan, Begin, MergeRead, StageFails,
                MergeWrite, Recompute, Mark, Finish, Ack, Fail, GiveUp,
                DeadLetter, Requeue, HandlerTypeOK
  <2>3. DbFault => dbFaults' \in Nat
    BY DEF DbFault, FaultTypeOK
  <2>4. CASE Find(h)
    BY <2>1, <2>3, <2>4, HandlerMovesTyped
    DEF Find, Label, rowVars, brokerVars, RowTypeOK, BrokerTypeOK, FaultTypeOK
  <2>5. CASE DropOrphan(h)
    BY <2>1, <2>5, HandlerMovesTyped
    DEF DropOrphan, rowVars, brokerVars, faultVars, RowTypeOK, BrokerTypeOK, FaultTypeOK
  <2>6. CASE Begin(h)
    BY <2>1, <2>3, <2>6, HandlerMovesTyped
    DEF Begin, ForgetFailure, Works, Throws, Label, DocStatus, brokerVars,
        RowTypeOK, BrokerTypeOK, FaultTypeOK
  <2>7. CASE MergeRead(h)
    <3>1. HandlerTypeOK'
      BY <2>1, <2>7 DEF MergeRead, HandlerTypeOK, RowTypeOK, Label
    <3> QED
      BY <2>7, <3>1
      DEF MergeRead, rowVars, brokerVars, faultVars, RowTypeOK, BrokerTypeOK, FaultTypeOK
  <2>8. CASE StageFails(h)
    BY <2>1, <2>3, <2>8, HandlerMovesTyped
    DEF StageFails, rowVars, brokerVars, RowTypeOK, BrokerTypeOK, FaultTypeOK
  <2>9. CASE MergeWrite(h)
    <3>1. Merged(h) \in SUBSET Section
      BY PipelineFacts DEF Merged, Key, HandlerTypeOK
    <3>2. HandlerTypeOK'
      BY <2>1, <2>9, HandlerMovesTyped DEF MergeWrite, Label
    <3>3. RowTypeOK'
      BY <2>1, <2>9, <3>1 DEF MergeWrite, RowTypeOK
    <3> QED
      BY <2>3, <2>9, <3>2, <3>3
      DEF MergeWrite, Works, Throws, brokerVars, BrokerTypeOK, FaultTypeOK
  <2>10. CASE Recompute(h)
    BY <2>1, <2>3, <2>10, HandlerMovesTyped
    DEF Recompute, rowVars, brokerVars, RowTypeOK, BrokerTypeOK, FaultTypeOK
  <2>11. CASE Mark(h)
    <3>1. Key(h) \in Section
      BY PipelineFacts DEF Key, HandlerTypeOK
    <3> QED
      BY <2>1, <2>3, <2>11, <3>1, HandlerMovesTyped
      DEF Mark, Works, Throws, brokerVars, RowTypeOK, BrokerTypeOK, FaultTypeOK
  <2>12. CASE Finish(h)
    BY <2>1, <2>3, <2>12, HandlerMovesTyped
    DEF Finish, Works, Throws, Label, DocStatus, brokerVars, RowTypeOK,
        BrokerTypeOK, FaultTypeOK
  <2>13. CASE Ack(h)
    BY <2>1, <2>13, HandlerMovesTyped
    DEF Ack, rowVars, brokerVars, faultVars, RowTypeOK, BrokerTypeOK, FaultTypeOK
  <2>14. CASE Fail(h)
    BY <2>1, <2>3, <2>14, HandlerMovesTyped
    DEF Fail, Works, Throws, Label, brokerVars, RowTypeOK, BrokerTypeOK, FaultTypeOK
  <2>15. CASE GiveUp(h)
    BY <2>1, <2>3, <2>15, HandlerMovesTyped
    DEF GiveUp, Works, Throws, Label, DocStatus, brokerVars, RowTypeOK,
        BrokerTypeOK, FaultTypeOK
  <2>16. CASE DeadLetter(h) \/ Requeue(h)
    BY <2>1, <2>16, HandlerMovesTyped
    DEF DeadLetter, Requeue, rowVars, faultVars, RowTypeOK, BrokerTypeOK, FaultTypeOK
  <2> QED
    BY <1>4, <2>4, <2>5, <2>6, <2>7, <2>8, <2>9, <2>10, <2>11, <2>12, <2>13,
       <2>14, <2>15, <2>16 DEF HandlerStep
<1>5. HeldJobs \subseteq Doc
  BY DEF HeldJobs, HandlerTypeOK
<1>6. HandlersLoseMessages => HandlerTypeOK'
  BY DEF HandlersLoseMessages, HandlerTypeOK, Label
<1>7. CASE WorkerCrash
  <2>1. HandlerTypeOK'
    BY <1>7, PipelineFacts DEF WorkerCrash, HandlerTypeOK, Label
  <2> QED
    BY <1>5, <1>7, <2>1
    DEF WorkerCrash, rowVars, RowTypeOK, BrokerTypeOK, FaultTypeOK
<1>8. CASE ConnectionLost \/ AckTimeout
  BY <1>5, <1>6, <1>8
  DEF ConnectionLost, AckTimeout, ChannelClosed, rowVars, RowTypeOK,
      BrokerTypeOK, FaultTypeOK
<1>9. CASE BrokerRestart
  BY <1>5, <1>6, <1>9
  DEF BrokerRestart, rowVars, RowTypeOK, BrokerTypeOK, FaultTypeOK
<1> QED
  BY <1>1, <1>2, <1>3, <1>4, <1>7, <1>8, <1>9 DEF Next, ApiNext, WorkerNext

\* Whatever the interleaving and the faults, every variable keeps its type and
\* a handler is idle exactly when it has no document.
THEOREM TypeCorrect == Spec => []TypeOK
BY TypeCorrectInit, TypeCorrectStep, PTL DEF Spec

-----------------------------------------------------------------------------
(* What one step of one handler can touch                                  *)

\* A handler moves alone.  It either keeps its document and its message, or
\* it ends.
LEMMA HandlerMovesAlone ==
    ASSUME HandlerTypeOK, NEW h \in Handler, HandlerStep(h)
    PROVE  /\ pc[h] # "idle" /\ job[h] \in Doc
           /\ \A k \in Handler \ {h} :
                 /\ pc'[k] = pc[k] /\ job'[k] = job[k] /\ held'[k] = held[k]
                 /\ step'[k] = step[k] /\ seen'[k] = seen[k]
           /\ \/ pc'[h] # "idle" /\ job'[h] = job[h] /\ held'[h] = held[h]
              \/ pc'[h] = "idle" /\ job'[h] = NoDoc /\ held'[h] = FALSE
<1> USE DEF HandlerTypeOK
<1>1. pc[h] # "idle" /\ job[h] \in Doc
  BY DEF HandlerStep, Find, DropOrphan, Begin, MergeRead, StageFails,
         MergeWrite, Recompute, Mark, Finish, Ack, Fail, GiveUp, DeadLetter, Requeue
<1>2. \/ \E label \in Label \ {"idle"} : Goto(h, label)
      \/ Leave(h) \/ Abandon(h) \/ Catch(h) \/ CatchStage(h) \/ Advance(h)
      \/ MergeRead(h)
  BY DEF HandlerStep, Find, DropOrphan, Begin, StageFails, MergeWrite,
         Recompute, Mark, Finish, Ack, Fail, GiveUp, DeadLetter, Requeue, Reject, Label
<1>3. ASSUME NEW label \in Label \ {"idle"}, Goto(h, label)
      PROVE  /\ \A k \in Handler \ {h} : pc'[k] = pc[k]
             /\ pc'[h] # "idle" /\ UNCHANGED <<job, step, seen, held>>
  BY <1>3 DEF Goto
<1>4. CASE Leave(h)
  BY <1>1, <1>4 DEF Leave
<1>5. CASE Abandon(h) \/ Catch(h) \/ CatchStage(h) \/ Advance(h) \/ MergeRead(h)
  BY <1>1, <1>5 DEF Abandon, Catch, CatchStage, Advance, MergeRead
<1> QED
  BY <1>1, <1>2, <1>3, <1>4, <1>5

\* It writes no row but that of its document, and never makes that one new.
LEMMA HandlerWritesItsRow ==
    ASSUME TypeOK, NEW h \in Handler, HandlerStep(h)
    PROVE  /\ \A d \in Doc \ {job[h]} :
                 /\ status'[d] = status[d] /\ retryCount'[d] = retryCount[d]
                 /\ failedStage'[d] = failedStage[d]
                 /\ failureReason'[d] = failureReason[d]
                 /\ sections'[d] = sections[d]
           /\ \A d \in Doc : status[d] # "NEW" => status'[d] # "NEW"
           /\ \A d \in Doc : status[d] = "GONE" => status'[d] = "GONE"
           /\ \A d \in Doc : retryCount'[d] >= retryCount[d]
           /\ UNCHANGED <<outbox, lost, crashes, closes>>
<1> USE DEF TypeOK, RowTypeOK
<1>1. CASE Find(h) \/ DropOrphan(h) \/ MergeRead(h) \/ StageFails(h)
           \/ Recompute(h) \/ Ack(h)
  BY <1>1 DEF Find, DropOrphan, MergeRead, StageFails, Recompute, Ack,
              rowVars, brokerVars, faultVars
<1>2. CASE Begin(h)
  BY <1>2 DEF Begin, ForgetFailure, Works, brokerVars
<1>3. CASE MergeWrite(h) \/ Mark(h)
  BY <1>3 DEF MergeWrite, Mark, brokerVars
<1>4. CASE Finish(h) \/ GiveUp(h)
  BY <1>4 DEF Finish, GiveUp, Works, brokerVars
<1>5. CASE Fail(h)
  <2>1. job[h] \in Doc
    BY HandlerMovesAlone DEF TypeOK
  <2> QED
    BY <1>5, <2>1 DEF Fail, Works, brokerVars
<1>6. CASE DeadLetter(h) \/ Requeue(h)
  BY <1>6 DEF DeadLetter, Requeue, rowVars, faultVars
<1> QED
  BY <1>1, <1>2, <1>3, <1>4, <1>5, <1>6 DEF HandlerStep

-----------------------------------------------------------------------------
(* One copy of every task                                                  *)

\* A document that was never accepted has no task: with OneCopy, inductive.
NewHasNoTask ==
    \A d \in Doc : status[d] = "NEW" =>
        /\ d \notin outbox \union ready \union dlq \union lost
        /\ \A h \in Handler : job[h] # d

TaskInv == TypeOK /\ OneCopy /\ NewHasNoTask

\* Every action moves a task from one place to another and never copies it.
LEMMA TaskInvStep == TypeOK' /\ TaskInv /\ [Next]_vars => TaskInv'
<1> SUFFICES ASSUME TypeOK', TaskInv, [Next]_vars PROVE TaskInv'
  OBVIOUS
<1> USE DEF TaskInv
<1>1. CASE UNCHANGED vars
  BY <1>1 DEF vars, rowVars, brokerVars, handlerVars, OneCopy, NewHasNoTask
<1>2. ASSUME NEW d \in Doc, Create(d) \/ Publish(d) \/ LosePublish(d) \/ Delete(d)
      PROVE  TaskInv'
  BY <1>2 DEF Create, Publish, LosePublish, Delete, rowVars, brokerVars,
              handlerVars, OneCopy, NewHasNoTask, TypeOK, RowTypeOK, HandlerTypeOK, DocStatus
<1>3. ASSUME NEW h \in Handler, NEW d \in Doc, Deliver(h, d)
      PROVE  TaskInv'
  BY <1>3 DEF Deliver, rowVars, OneCopy, NewHasNoTask, TypeOK, HandlerTypeOK
<1>4. ASSUME NEW h \in Handler, HandlerStep(h)
      PROVE  TaskInv'
  <2>1. /\ \A k \in Handler \ {h} : job'[k] = job[k] /\ held'[k] = held[k]
        /\ \/ job'[h] = job[h] /\ held'[h] = held[h]
           \/ job'[h] = NoDoc /\ held'[h] = FALSE
        /\ job[h] \in Doc
    BY <1>4, HandlerMovesAlone DEF TypeOK
  <2>2. /\ \A d \in Doc : status[d] # "NEW" => status'[d] # "NEW"
        /\ UNCHANGED <<outbox, lost>>
    BY <1>4, HandlerWritesItsRow
  <2>3. CASE UNCHANGED <<ready, dlq>>
    BY <2>1, <2>2, <2>3, DocAssumption DEF OneCopy, NewHasNoTask
  <2>4. CASE DeadLetter(h) \/ Requeue(h)
    <3>1. held'[h] = FALSE
      BY <2>4 DEF DeadLetter, Requeue, Leave, TypeOK, HandlerTypeOK
    <3>2. /\ ready' \union dlq' \subseteq
                ready \union dlq \union (IF held[h] THEN {job[h]} ELSE {})
          /\ UNCHANGED ready \/ UNCHANGED dlq
      BY <2>4 DEF DeadLetter, Requeue
    <3>3. OneCopy'
      <4>1. \A k, l \in Handler : k # l /\ held'[k] /\ held'[l] => job'[k] # job'[l]
        BY <2>1, <3>1 DEF OneCopy
      <4>2. \A k \in Handler : held'[k] =>
                 job'[k] \notin outbox' \union ready' \union dlq' \union lost'
        BY <2>1, <2>2, <3>1, <3>2 DEF OneCopy
      <4>3. held[h] => job[h] \notin outbox \union ready \union dlq \union lost
        BY DEF OneCopy
      <4>4. CASE DeadLetter(h)
        BY <2>2, <4>1, <4>2, <4>3, <4>4 DEF DeadLetter, OneCopy
      <4>5. CASE Requeue(h)
        BY <2>2, <4>1, <4>2, <4>3, <4>5 DEF Requeue, OneCopy
      <4> QED
        BY <2>4, <4>4, <4>5
    <3>4. NewHasNoTask'
      BY <2>1, <2>2, <3>2, DocAssumption DEF NewHasNoTask
    <3> QED
      BY <3>3, <3>4
  <2> QED
    BY <1>4, <2>3, <2>4
    DEF HandlerStep, Find, DropOrphan, Begin, MergeRead, StageFails, MergeWrite,
        Recompute, Mark, Finish, Ack, Fail, GiveUp, brokerVars
<1>5. CASE WorkerCrash
  BY <1>5, DocAssumption DEF WorkerCrash, HeldJobs, rowVars, OneCopy, NewHasNoTask
<1>6. CASE ConnectionLost \/ AckTimeout
  <2>1. /\ ready' = ready \union HeldJobs
        /\ \A h \in Handler : held'[h] = FALSE /\ job'[h] \in {job[h], NoDoc}
        /\ UNCHANGED <<outbox, dlq, lost, status>>
    BY <1>6 DEF ConnectionLost, AckTimeout, ChannelClosed, HandlersLoseMessages, rowVars
  <2> QED
    BY <2>1, DocAssumption DEF HeldJobs, OneCopy, NewHasNoTask
<1>7. CASE BrokerRestart
  <2>1. /\ lost' = lost \union ready \union dlq \union HeldJobs
        /\ ready' = {} /\ dlq' = {}
        /\ \A h \in Handler : held'[h] = FALSE /\ job'[h] \in {job[h], NoDoc}
        /\ UNCHANGED <<outbox, status>>
    BY <1>7 DEF BrokerRestart, HandlersLoseMessages, rowVars
  <2> QED
    BY <2>1, DocAssumption DEF HeldJobs, OneCopy, NewHasNoTask
<1> QED
  BY <1>1, <1>2, <1>3, <1>4, <1>5, <1>6, <1>7 DEF Next, ApiNext, WorkerNext

\* At first there is no task anywhere.
LEMMA TaskInvInit == Init => TaskInv
BY TypeCorrectInit, DocAssumption DEF Init, TaskInv, OneCopy, NewHasNoTask

\* No acknowledgement, rejection, requeue, crash, disconnect or restart of the
\* broker ever duplicates the task of a document.
THEOREM TaskNeverDuplicated == Spec => []OneCopy
<1>1. TaskInv => OneCopy
  BY DEF TaskInv
<1> QED
  BY <1>1, TaskInvInit, TypeCorrect, TaskInvStep, PTL DEF Spec

-----------------------------------------------------------------------------
(* FAILED has been earned                                                  *)

FailedInv ==
    /\ FailedOnlyWhenExhausted
    /\ \A h \in Handler : pc[h] = "giveUp" => retryCount[job[h]] >= MaxRetries

\* A handler on its way to FAILED has seen the attempts used up, and no step of
\* another handler of the same document lowers them.
LEMMA FailedInvStep == TypeOK /\ TypeOK' /\ FailedInv /\ [Next]_vars => FailedInv'
<1> SUFFICES ASSUME TypeOK, TypeOK', FailedInv, [Next]_vars PROVE FailedInv'
  OBVIOUS
<1> USE DEF FailedInv, FailedOnlyWhenExhausted
<1>1. CASE UNCHANGED vars
  BY <1>1 DEF vars, rowVars, handlerVars
<1>2. ASSUME NEW d \in Doc, Create(d) \/ Publish(d) \/ LosePublish(d) \/ Delete(d)
      PROVE  FailedInv'
  BY <1>2 DEF Create, Publish, LosePublish, Delete, rowVars, handlerVars, TypeOK, RowTypeOK
<1>3. ASSUME NEW h \in Handler, NEW d \in Doc, Deliver(h, d)
      PROVE  FailedInv'
  BY <1>3 DEF Deliver, rowVars, TypeOK, HandlerTypeOK
<1>4. ASSUME NEW h \in Handler, HandlerStep(h)
      PROVE  FailedInv'
  <2> DEFINE d == job[h]
  <2>1. d \in Doc
    BY <1>4, HandlerMovesAlone DEF TypeOK
  <2>2. \A k \in Handler \ {h} : pc'[k] = pc[k] /\ job'[k] = job[k]
    BY <1>4, HandlerMovesAlone DEF TypeOK
  <2>3. \A k \in Handler \ {h} : pc'[k] = "giveUp" => retryCount'[job'[k]] >= MaxRetries
    <3> SUFFICES ASSUME NEW k \in Handler \ {h}, pc[k] = "giveUp"
                 PROVE  retryCount'[job[k]] >= MaxRetries
      BY <2>2
    <3>1. job[k] \in Doc /\ retryCount[job[k]] >= MaxRetries
      BY DEF TypeOK, HandlerTypeOK
    <3>2. retryCount'[job[k]] >= retryCount[job[k]]
      BY <1>4, <3>1, HandlerWritesItsRow
    <3> QED
      BY <3>1, <3>2, BoundAssumption DEF TypeOK, RowTypeOK
  <2>4. pc'[h] = "giveUp" => retryCount'[job'[h]] >= MaxRetries
    <3>1. CASE Fail(h)
      BY <2>1, <3>1, BoundAssumption
      DEF Fail, Goto, Exhausted, Reject, Abandon, Leave, TypeOK, RowTypeOK, HandlerTypeOK
    <3>2. CASE Find(h) \/ DropOrphan(h) \/ Begin(h) \/ MergeRead(h) \/ StageFails(h)
               \/ MergeWrite(h) \/ Recompute(h) \/ Mark(h) \/ Finish(h) \/ Ack(h)
      BY <3>2 DEF Find, DropOrphan, Begin, MergeRead, StageFails, MergeWrite,
                  Recompute, Mark, Finish, Ack, Goto, Leave, Catch, CatchStage,
                  Advance, TypeOK, HandlerTypeOK
    <3>3. CASE GiveUp(h) \/ DeadLetter(h) \/ Requeue(h)
      BY <3>3 DEF GiveUp, DeadLetter, Requeue, Goto, Leave, Reject, Abandon,
                  TypeOK, HandlerTypeOK
    <3> QED
      BY <1>4, <3>1, <3>2, <3>3 DEF HandlerStep
  <2>5. \A e \in Doc : status'[e] = "FAILED" => retryCount'[e] >= MaxRetries /\ failureReason'[e]
    <3>1. CASE GiveUp(h)
      BY <2>1, <3>1, BoundAssumption DEF GiveUp, TypeOK, RowTypeOK
    <3>2. CASE ~GiveUp(h)
      <4>1. \A e \in Doc : status'[e] = "FAILED" =>
                 status[e] = "FAILED" /\ failureReason'[e] = failureReason[e]
        BY <1>4, <3>2
        DEF HandlerStep, Find, DropOrphan, Begin, ForgetFailure, MergeRead, StageFails,
            MergeWrite, Recompute, Mark, Finish, Ack, Fail, DeadLetter, Requeue,
            rowVars, TypeOK, RowTypeOK
      <4>2. \A e \in Doc : retryCount'[e] >= retryCount[e]
        BY <1>4, HandlerWritesItsRow
      <4> QED
        BY <4>1, <4>2, BoundAssumption DEF TypeOK, RowTypeOK
    <3> QED
      BY <3>1, <3>2
  <2> QED
    BY <2>3, <2>4, <2>5
<1>5. CASE WorkerCrash
  BY <1>5 DEF WorkerCrash, rowVars
<1>6. CASE ConnectionLost \/ AckTimeout \/ BrokerRestart
  BY <1>6 DEF ConnectionLost, AckTimeout, BrokerRestart, ChannelClosed,
              HandlersLoseMessages, rowVars, TypeOK, HandlerTypeOK
<1> QED
  BY <1>1, <1>2, <1>3, <1>4, <1>5, <1>6 DEF Next, ApiNext, WorkerNext

\* At first no document is FAILED and no handler is giving one up.
LEMMA FailedInvInit == Init => FailedInv
BY DEF Init, FailedInv, FailedOnlyWhenExhausted

\* A document is FAILED only when its attempts are used up, and then it says
\* why: also when channels close and handlers of one document overlap.
THEOREM FailureIsEarned == Spec => []FailedOnlyWhenExhausted
<1>1. FailedInv => FailedOnlyWhenExhausted
  BY DEF FailedInv
<1> QED
  BY <1>1, FailedInvInit, TypeCorrect, FailedInvStep, PTL DEF Spec
=============================================================================

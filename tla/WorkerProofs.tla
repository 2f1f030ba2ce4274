---------------------------- MODULE WorkerProofs ----------------------------
(***************************************************************************)
(* What holds as long as the channel of the worker stays open, that is,    *)
(* when a handler keeps its message to the end: crashes, failing stages,   *)
(* failing database calls and deleted documents are all still allowed.     *)
(* From this follows that the worker implements Lifecycle.                 *)
(***************************************************************************)
EXTENDS ProcessingProofs

\* Every handler that is not idle still has its message.
AllHold == \A h \in Handler : pc[h] # "idle" => held[h]

\* How far a handler is, against the row of its document.  The row may have
\* been deleted at any await; otherwise nobody else has touched it.
InPipeline(h) == pc[h] \in {"read", "write", "recompute", "finish"}

Attempt(h) ==
    LET d == job[h] IN
    /\ InPipeline(h) \/ pc[h] = "mark" => status[d] \in {"PROCESSING", "GONE"}
    /\ pc[h] = "ack" => status[d] \in {"DONE", "GONE"}
    /\ pc[h] = "deadLetter" => status[d] \in {"FAILED", "GONE"}
    /\ status[d] = "PROCESSING" /\ InPipeline(h) =>
          /\ ~failureReason[d] /\ failedStage[d] = NoStage
          /\ WrittenBefore(step[h]) \subseteq sections[d]
          /\ pc[h] = "write" => seen[h] = sections[d]
          /\ pc[h] = "recompute" => Key(h) \in sections[d]
          /\ pc[h] = "finish" => sections[d] = Section

Verdict(d) ==
    /\ status[d] = "DONE" =>
          sections[d] = Section /\ ~failureReason[d] /\ failedStage[d] = NoStage
    /\ d \in dlq => status[d] \in {"FAILED", "GONE"}
    /\ status[d] \in {"PENDING", "PROCESSING"} =>
          d \in outbox \union ready \union lost \/ \E h \in Handler : job[h] = d

WorkerInv ==
    /\ AllHold
    /\ \A h \in Handler : pc[h] \in {"idle", "find", "begin"} => step[h] = 1
    /\ \A h \in Handler : pc[h] # "idle" => Attempt(h)
    /\ \A d \in Doc : Verdict(d)

-----------------------------------------------------------------------------
(* The prefix of the report a handler has written                          *)

\* Nothing before the first step, one more section with every step, and the
\* whole report after the last.
LEMMA WrittenBeforeFacts ==
    /\ WrittenBefore(1) = {}
    /\ \A i \in DOMAIN Pipeline :
          i # LastStep => WrittenBefore(i + 1) = WrittenBefore(i) \union {Pipeline[i]}
    /\ WrittenBefore(LastStep) \union {Pipeline[LastStep]} = Section
    /\ \A i \in DOMAIN Pipeline : WrittenBefore(i) \subseteq Section
BY PipelineFacts DEF WrittenBefore, Section

-----------------------------------------------------------------------------
(* One step of a handler, for its own document                             *)

\* With open channels, a step of one handler touches neither the state nor the
\* document of any other.
LEMMA OwnDocument ==
    ASSUME TaskInv, WorkerInv, NEW h \in Handler, HandlerStep(h), NEW d, d = job[h]
    PROVE  /\ pc'[h] # "idle" => held'[h] /\ Attempt(h)'
           /\ pc'[h] \in {"idle", "find", "begin"} => step'[h] = 1
           /\ Verdict(d)'
<1> USE DEF TaskInv, TypeOK
<1>1. /\ pc[h] # "idle" /\ d \in Doc /\ held[h] /\ Attempt(h) /\ Verdict(d)
      /\ d \notin dlq
      /\ pc[h] \in {"find", "begin"} => step[h] = 1
  BY HandlerMovesAlone DEF WorkerInv, AllHold, OneCopy
<1>2. \/ pc'[h] # "idle" /\ held'[h] /\ job'[h] = d /\ \E k \in Handler : job'[k] = d
      \/ pc'[h] = "idle" /\ job'[h] = NoDoc
  BY <1>1, HandlerMovesAlone
<1>3. step[h] \in DOMAIN Pipeline /\ Key(h) \in Section
  BY PipelineFacts DEF HandlerTypeOK, Key
<1> USE DEF RowTypeOK, HandlerTypeOK
<1>20. ASSUME Leave(h)
       PROVE  /\ pc'[h] # "idle" => held'[h] /\ Attempt(h)'
              /\ pc'[h] \in {"idle", "find", "begin"} => step'[h] = 1
  <2>1. pc'[h] = "idle" /\ step'[h] = 1
    BY <1>20 DEF Leave
  <2> QED
    BY <2>1
\* Steps into the catch block, or out of it, that leave the row alone.
<1>4. ASSUME UNCHANGED <<status, sections, dlq>>, pc'[h] \notin {"idle", "find", "begin"},
             ~InPipeline(h)', pc'[h] \notin {"mark", "ack", "deadLetter"},
             UNCHANGED <<failureReason, failedStage>> \/ status[d] # "DONE"
      PROVE  Attempt(h)' /\ Verdict(d)'
  BY <1>1, <1>2, <1>4 DEF Attempt, Verdict, InPipeline
<1>5. CASE Find(h)
  <2>1. CASE pc'[h] = "begin"
    BY <1>1, <1>2, <1>5, <2>1
    DEF Find, Goto, Catch, rowVars, brokerVars, Attempt, Verdict, InPipeline
  <2>2. CASE pc'[h] # "begin"
    BY <1>1, <1>2, <1>4, <1>5, <2>2 DEF Find, Goto, Catch, rowVars, brokerVars, InPipeline
  <2> QED
    BY <2>1, <2>2
<1>6. CASE DropOrphan(h)
  <2>1. Leave(h) /\ status[d] = "GONE" /\ UNCHANGED <<status, dlq>>
    BY <1>1, <1>6 DEF DropOrphan, rowVars, brokerVars
  <2>2. Verdict(d)'
    BY <1>1, <2>1 DEF Verdict
  <2> QED
    BY <1>20, <2>1, <2>2
<1>7. CASE Begin(h)
  <2>1. CASE pc'[h] = "fail"
    BY <1>1, <1>2, <1>4, <1>7, <2>1 DEF Begin, ForgetFailure, Goto, Catch, brokerVars, InPipeline
  <2>2. CASE pc'[h] # "fail"
    <3>1. /\ pc'[h] = "read" /\ step'[h] = 1 /\ status'[d] = "PROCESSING"
          /\ ~failureReason'[d] /\ failedStage'[d] = NoStage
          /\ UNCHANGED <<sections, dlq>>
      BY <1>1, <1>7, <2>2 DEF Begin, ForgetFailure, Goto, Catch, brokerVars
    <3> QED
      BY <1>1, <1>2, <3>1, WrittenBeforeFacts DEF Attempt, Verdict, InPipeline
  <2> QED
    BY <2>1, <2>2
<1>8. CASE MergeRead(h)
  BY <1>1, <1>2, <1>8 DEF MergeRead, rowVars, brokerVars, Attempt, Verdict, InPipeline
<1>9. CASE StageFails(h)
  BY <1>1, <1>2, <1>9
  DEF StageFails, CatchStage, rowVars, brokerVars, Attempt, Verdict, InPipeline
\* After a section is in the report.
<1>10. ASSUME Advance(h), UNCHANGED <<status, failedStage, failureReason, dlq>>,
              status[d] \in {"PROCESSING", "GONE"},
              status[d] = "PROCESSING" =>
                  /\ ~failureReason[d] /\ failedStage[d] = NoStage
                  /\ WrittenBefore(step[h]) \union {Key(h)} \subseteq sections'[d],
              sections'[d] \subseteq Section
       PROVE  pc'[h] \notin {"idle", "find", "begin"} /\ Attempt(h)' /\ Verdict(d)'
  <2>1. CASE step[h] = LastStep
    <3>1. pc'[h] = "finish" /\ step'[h] = step[h]
      BY <1>10, <2>1 DEF Advance
    <3>2. status[d] = "PROCESSING" => sections'[d] = Section
      BY <1>10, <2>1, WrittenBeforeFacts DEF Key
    <3>3. status[d] = "PROCESSING" => WrittenBefore(step[h]) \subseteq sections'[d]
      BY <1>10
    <3> QED
      BY <1>1, <1>2, <1>10, <3>1, <3>2, <3>3 DEF Attempt, Verdict, InPipeline
  <2>2. CASE step[h] # LastStep
    <3>1. pc'[h] = "read" /\ step'[h] = step[h] + 1
      BY <1>10, <2>2 DEF Advance
    <3>2. status[d] = "PROCESSING" => WrittenBefore(step[h] + 1) \subseteq sections'[d]
      BY <1>3, <1>10, <2>2, WrittenBeforeFacts DEF Key
    <3> QED
      BY <1>1, <1>2, <1>10, <3>1, <3>2 DEF Attempt, Verdict, InPipeline
  <2> QED
    BY <2>1, <2>2
<1>11. CASE MergeWrite(h)
  <2>1. CASE CatchStage(h) /\ UNCHANGED sections
    BY <1>1, <1>2, <1>11, <2>1
    DEF MergeWrite, CatchStage, brokerVars, Attempt, Verdict, InPipeline
  <2>2. CASE ~(CatchStage(h) /\ UNCHANGED sections)
    <3>1. /\ pc[h] = "write" /\ Works(d)
          /\ sections'[d] = seen[h] \union {Key(h)}
          /\ IF Recomputes(Key(h)) THEN Goto(h, "recompute") ELSE Advance(h)
          /\ UNCHANGED <<status, failedStage, failureReason, dlq>>
      BY <1>1, <1>11, <2>2 DEF MergeWrite, Merged, brokerVars
    <3>2. /\ status[d] = "PROCESSING" /\ ~failureReason[d] /\ failedStage[d] = NoStage
          /\ WrittenBefore(step[h]) \union {Key(h)} \subseteq sections'[d]
          /\ sections'[d] \subseteq Section
      BY <1>1, <1>3, <3>1 DEF Works, Attempt, InPipeline
    <3>3. CASE Advance(h)
      BY <1>10, <3>1, <3>2, <3>3, <1>2
    <3>4. CASE Goto(h, "recompute")
      <4>1. pc'[h] = "recompute" /\ step'[h] = step[h]
        BY <3>4 DEF Goto
      <4>2. Key(h)' = Key(h)
        BY <4>1 DEF Key
      <4> QED
        BY <1>1, <1>2, <3>1, <3>2, <4>1, <4>2 DEF Attempt, Verdict, InPipeline
    <3> QED
      BY <3>1, <3>3, <3>4
  <2> QED
    BY <2>1, <2>2
<1>12. CASE Recompute(h)
  <2>1. CASE CatchStage(h)
    BY <1>1, <1>2, <1>12, <2>1
    DEF Recompute, CatchStage, rowVars, brokerVars, Attempt, Verdict, InPipeline
  <2>2. CASE Advance(h)
    <3>1. /\ pc[h] = "recompute"
          /\ UNCHANGED <<status, failedStage, failureReason, sections, dlq>>
      BY <1>12 DEF Recompute, rowVars, brokerVars
    <3>2. /\ status[d] \in {"PROCESSING", "GONE"}
          /\ status[d] = "PROCESSING" =>
                  /\ ~failureReason[d] /\ failedStage[d] = NoStage
                  /\ WrittenBefore(step[h]) \union {Key(h)} \subseteq sections'[d]
          /\ sections'[d] \subseteq Section
      BY <1>1, <3>1 DEF Attempt, InPipeline
    <3> QED
      BY <1>2, <1>10, <2>2, <3>1, <3>2
  <2> QED
    BY <1>12, <2>1, <2>2 DEF Recompute
<1>13. CASE Mark(h)
  BY <1>1, <1>2, <1>4, <1>13 DEF Mark, Catch, Works, brokerVars, Attempt, InPipeline
<1>14. CASE Finish(h)
  <2>1. CASE pc'[h] = "ack"
    <3>1. /\ status[d] = "PROCESSING" /\ status'[d] = "DONE" /\ pc[h] = "finish"
          /\ UNCHANGED <<failedStage, failureReason, sections, dlq>>
      BY <1>1, <1>14, <2>1 DEF Finish, Goto, Catch, Works, brokerVars, Attempt, InPipeline
    <3> QED
      BY <1>1, <1>2, <2>1, <3>1 DEF Attempt, Verdict, InPipeline
  <2>2. CASE pc'[h] # "ack"
    BY <1>1, <1>2, <1>4, <1>14, <2>2 DEF Finish, Goto, Catch, brokerVars, InPipeline
  <2> QED
    BY <2>1, <2>2
<1>15. CASE Ack(h)
  <2>1. /\ Leave(h) /\ status[d] \in {"DONE", "GONE"}
        /\ UNCHANGED <<status, sections, failureReason, failedStage, dlq>>
    BY <1>1, <1>15 DEF Ack, rowVars, brokerVars, Attempt
  <2>2. Verdict(d)'
    BY <1>1, <2>1 DEF Verdict
  <2> QED
    BY <1>20, <2>1, <2>2
<1>16. CASE Fail(h)
  BY <1>1, <1>2, <1>4, <1>16 DEF Fail, Goto, Reject, Abandon, brokerVars, InPipeline
<1>17. CASE GiveUp(h)
  <2>1. CASE pc'[h] = "deadLetter"
    BY <1>1, <1>2, <1>17, <2>1
    DEF GiveUp, Goto, Reject, Abandon, brokerVars, Attempt, Verdict, InPipeline
  <2>2. CASE pc'[h] # "deadLetter"
    BY <1>1, <1>2, <1>4, <1>17, <2>2
    DEF GiveUp, Goto, Reject, Abandon, brokerVars, InPipeline
  <2> QED
    BY <2>1, <2>2
<1>18. CASE DeadLetter(h)
  <2>1. /\ Leave(h) /\ status[d] \in {"FAILED", "GONE"} /\ UNCHANGED status
    BY <1>1, <1>18 DEF DeadLetter, rowVars, Attempt
  <2>2. Verdict(d)'
    BY <1>1, <2>1 DEF Verdict
  <2> QED
    BY <1>20, <2>1, <2>2
<1>19. CASE Requeue(h)
  <2>1. /\ Leave(h) /\ d \in ready'
        /\ UNCHANGED <<status, sections, failureReason, failedStage, dlq>>
    BY <1>1, <1>19 DEF Requeue, rowVars
  <2>2. Verdict(d)'
    BY <1>1, <2>1 DEF Verdict
  <2> QED
    BY <1>20, <2>1, <2>2
<1> QED
  BY <1>5, <1>6, <1>7, <1>8, <1>9, <1>11, <1>12, <1>13, <1>14, <1>15, <1>16,
     <1>17, <1>18, <1>19 DEF HandlerStep

-----------------------------------------------------------------------------
(* Every step                                                              *)

\* At first no handler works and no document has a verdict.
LEMMA WorkerInvInit == Init => WorkerInv
BY DocAssumption DEF Init, WorkerInv, AllHold, Verdict

\* Every action, the crash of the worker included, keeps what is known of each
\* attempt and each verdict.
LEMMA WorkerInvStep ==
    ~ChannelsClose /\ TaskInv /\ TaskInv' /\ WorkerInv /\ [Next]_vars => WorkerInv'
<1> SUFFICES ASSUME ~ChannelsClose, TaskInv, TaskInv', WorkerInv, [Next]_vars
             PROVE  WorkerInv'
  OBVIOUS
<1> USE DEF TaskInv, TypeOK
<1>1. CASE UNCHANGED vars
  BY <1>1 DEF vars, rowVars, brokerVars, handlerVars, WorkerInv, AllHold, Attempt,
              Verdict, InPipeline, Key
<1>2. ASSUME NEW d \in Doc, Create(d) \/ Publish(d) \/ LosePublish(d) \/ Delete(d)
      PROVE  WorkerInv'
  <2>1. /\ UNCHANGED <<pc, job, step, seen, held>>
        /\ \A e \in Doc \ {d} : status'[e] = status[e] /\ sections'[e] = sections[e]
        /\ UNCHANGED <<failureReason, failedStage, dlq>>
    BY <1>2 DEF Create, Publish, LosePublish, Delete, rowVars, brokerVars, handlerVars, RowTypeOK
  <2>2. ASSUME NEW h \in Handler, pc[h] # "idle" PROVE Attempt(h)'
    <3>1. Attempt(h) /\ job[h] \in Doc
      BY <2>2 DEF WorkerInv, HandlerTypeOK
    <3>2. job[h] = d => \/ status'[d] = "GONE"
                        \/ status'[d] = status[d] /\ sections'[d] = sections[d]
      BY <1>2, <2>2 DEF Create, Publish, LosePublish, Delete, rowVars, RowTypeOK, NewHasNoTask
    <3> QED
      BY <2>1, <3>1, <3>2 DEF Attempt, InPipeline, Key
  <2>3. ASSUME NEW e \in Doc PROVE Verdict(e)'
    <3>1. Verdict(e)
      BY DEF WorkerInv
    <3> QED
      BY <1>2, <2>1, <3>1
      DEF Create, Publish, LosePublish, Delete, rowVars, brokerVars, Verdict, RowTypeOK,
          NewHasNoTask
  <2> QED
    BY <2>1, <2>2, <2>3 DEF WorkerInv, AllHold
<1>3. ASSUME NEW h \in Handler, NEW d \in Doc, Deliver(h, d)
      PROVE  WorkerInv'
  <2>1. /\ pc[h] = "idle" /\ d \in ready /\ ready' = ready \ {d} /\ pc'[h] = "find"
        /\ job'[h] = d /\ held'[h] /\ step'[h] = step[h]
        /\ \A k \in Handler \ {h} : pc'[k] = pc[k] /\ job'[k] = job[k] /\ held'[k] = held[k]
        /\ UNCHANGED <<step, seen, status, failureReason, failedStage, sections,
                       outbox, dlq, lost>>
    BY <1>3 DEF Deliver, rowVars, HandlerTypeOK
  <2>2. ASSUME NEW k \in Handler, pc'[k] # "idle" PROVE Attempt(k)'
    BY <2>1, <2>2 DEF WorkerInv, Attempt, InPipeline, Key
  <2>3. ASSUME NEW e \in Doc PROVE Verdict(e)'
    BY <2>1, DocAssumption DEF WorkerInv, Verdict, HandlerTypeOK
  <2> QED
    BY <2>1, <2>2, <2>3 DEF WorkerInv, AllHold
<1>4. ASSUME NEW h \in Handler, HandlerStep(h)
      PROVE  WorkerInv'
  <2>1. job[h] \in Doc /\ held[h] /\ pc[h] # "idle"
    BY <1>4, HandlerMovesAlone DEF WorkerInv, AllHold
  <2>2. /\ \A k \in Handler \ {h} :
              /\ pc'[k] = pc[k] /\ job'[k] = job[k] /\ held'[k] = held[k]
              /\ step'[k] = step[k] /\ seen'[k] = seen[k]
        /\ job'[h] \in {job[h], NoDoc}
    BY <1>4, HandlerMovesAlone
  <2>3. /\ \A e \in Doc \ {job[h]} :
              /\ status'[e] = status[e] /\ sections'[e] = sections[e]
              /\ failedStage'[e] = failedStage[e] /\ failureReason'[e] = failureReason[e]
        /\ UNCHANGED <<outbox, lost>>
    BY <1>4, HandlerWritesItsRow
  <2>4. ready \subseteq ready' /\ dlq' \subseteq dlq \union {job[h]}
    BY <1>4
    DEF HandlerStep, Find, DropOrphan, Begin, MergeRead, StageFails, MergeWrite,
        Recompute, Mark, Finish, Ack, Fail, GiveUp, DeadLetter, Requeue, brokerVars
  <2>5. ASSUME NEW k \in Handler \ {h}, pc'[k] # "idle"
        PROVE  held'[k] /\ Attempt(k)'
    <3>1. held[k] /\ Attempt(k) /\ job[k] \in Doc /\ job[k] # job[h]
      BY <2>1, <2>2, <2>5 DEF WorkerInv, AllHold, HandlerTypeOK, OneCopy
    <3> QED
      BY <2>2, <2>3, <3>1 DEF Attempt, InPipeline, Key
  <2>6. ASSUME NEW e \in Doc, e # job[h] PROVE Verdict(e)'
    <3>1. Verdict(e)
      BY DEF WorkerInv
    <3>2. (\E k \in Handler : job[k] = e) => \E k \in Handler : job'[k] = e
      BY <2>2, <2>6
    <3> QED
      BY <2>3, <2>4, <2>6, <3>1, <3>2 DEF Verdict
  <2>7. /\ pc'[h] # "idle" => held'[h] /\ Attempt(h)'
        /\ pc'[h] \in {"idle", "find", "begin"} => step'[h] = 1
    BY <1>4, OwnDocument
  <2>8. ASSUME NEW e \in Doc, e = job[h] PROVE Verdict(e)'
    BY <1>4, <2>8, OwnDocument
  <2> QED
    BY <2>2, <2>5, <2>6, <2>7, <2>8 DEF WorkerInv, AllHold
<1>5. CASE WorkerCrash
  <2>1. \A e \in Doc : Verdict(e)'
    BY <1>5 DEF WorkerCrash, HeldJobs, rowVars, WorkerInv, AllHold, Verdict, HandlerTypeOK
  <2> QED
    BY <1>5, <2>1 DEF WorkerCrash, WorkerInv, AllHold
<1>6. CASE ConnectionLost \/ AckTimeout \/ BrokerRestart
  BY <1>6 DEF ConnectionLost, AckTimeout, BrokerRestart
<1> QED
  BY <1>1, <1>2, <1>3, <1>4, <1>5, <1>6 DEF Next, ApiNext, WorkerNext

\* As long as channels stay open: no two handlers on one document, a DONE
\* document with its whole report and no trace of a failure, a dead letter only
\* for a FAILED document, and a task for every document without a verdict.
THEOREM WorkerIsSafe ==
    Spec => [](SoleHandler /\ DoneHasEverySection /\ DoneHasNoFailure
               /\ DeadLetterIsFailed /\ UnfinishedHasTask)
<1> DEFINE Safe == /\ SoleHandler /\ DoneHasEverySection /\ DoneHasNoFailure
                   /\ DeadLetterIsFailed /\ UnfinishedHasTask
           Inv == ~ChannelsClose => WorkerInv
<1>1. Init => TaskInv
  BY TaskInvInit
<1>2. Init => Inv
  BY WorkerInvInit
<1>3. TaskInv /\ TaskInv' /\ Inv /\ [Next]_vars => Inv'
  BY WorkerInvStep
<1>4. TaskInv /\ Inv => Safe
  <2> SUFFICES ASSUME ~ChannelsClose, TaskInv, WorkerInv PROVE Safe
    BY DEF SoleHandler, DoneHasEverySection, DoneHasNoFailure, DeadLetterIsFailed,
           UnfinishedHasTask
  <2>1. SoleHandler
    BY DEF SoleHandler, TaskInv, TypeOK, HandlerTypeOK, WorkerInv, AllHold, OneCopy
  <2>2. DoneHasEverySection /\ DoneHasNoFailure
    BY DEF DoneHasEverySection, DoneHasNoFailure, WorkerInv, Verdict
  <2>3. DeadLetterIsFailed
    BY DEF DeadLetterIsFailed, TaskInv, TypeOK, BrokerTypeOK, WorkerInv, Verdict
  <2>4. UnfinishedHasTask
    BY DocAssumption
    DEF UnfinishedHasTask, HeldJobs, TaskInv, TypeOK, HandlerTypeOK, WorkerInv, AllHold, Verdict
  <2> QED
    BY <2>1, <2>2, <2>3, <2>4
<1>5. Spec => []TaskInv
  BY <1>1, TypeCorrect, TaskInvStep, PTL DEF Spec
<1> QED
  BY <1>2, <1>3, <1>4, <1>5, PTL DEF Spec

\* No two handlers work on one document while channels stay open.
THEOREM OneHandlerPerDocument == Spec => []SoleHandler
BY WorkerIsSafe, PTL

\* A DONE document has its whole report while channels stay open.
THEOREM DoneIsComplete == Spec => []DoneHasEverySection
BY WorkerIsSafe, PTL

\* A DONE document shows no failure of an earlier attempt while channels stay
\* open.
THEOREM DoneIsClean == Spec => []DoneHasNoFailure
BY WorkerIsSafe, PTL

\* A dead letter has told its client so while channels stay open.
THEOREM DeadLettersAreFailed == Spec => []DeadLetterIsFailed
BY WorkerIsSafe, PTL

\* No error path forgets a task while channels stay open.
THEOREM NoTaskForgotten == Spec => []UnfinishedHasTask
BY WorkerIsSafe, PTL

-----------------------------------------------------------------------------
(* With open channels the worker implements Lifecycle: every step of a      *)
(* handler is a step of the document a client may see, or changes nothing   *)
(* a client sees.                                                           *)

\* A verdict the worker has not crashed on has no task left: nothing but the
\* last act of its handler, which settles the message, is still to come.
Final(d) ==
    status[d] \in Settled /\ crashes = 0 =>
        /\ d \notin outbox \union ready
        /\ \A h \in Handler : job[h] = d => pc[h] \in {"ack", "deadLetter"}

FinalInv == \A d \in Doc : Final(d)

Inv == TaskInv /\ FailedInv /\ WorkerInv /\ FinalInv

-----------------------------------------------------------------------------
(* What a handler may do to the status of its document                     *)

\* A handler settles a document by Finish or GiveUp alone, after which only its
\* last act remains; that act queues nothing, and neither does any step but
\* Requeue.
LEMMA HandlerOnVerdict ==
    ASSUME TaskInv, WorkerInv, NEW h \in Handler, HandlerStep(h), NEW d, d = job[h]
    PROVE  /\ status'[d] \in Settled /\ status'[d] # status[d] =>
                 /\ status[d] # "GONE"
                 /\ \/ Finish(h) /\ pc'[h] = "ack"
                    \/ GiveUp(h) /\ pc'[h] = "deadLetter"
           /\ pc[h] \in {"ack", "deadLetter"} =>
                 pc'[h] = "idle" /\ UNCHANGED <<status, ready, outbox>>
           /\ ~Requeue(h) => UNCHANGED ready
<1> USE DEF TaskInv, TypeOK
<1>1. d \in Doc /\ held[h]
  BY HandlerMovesAlone DEF WorkerInv, AllHold
<1>2. status'[d] \in Settled /\ status'[d] # status[d] =>
         /\ status[d] # "GONE"
         /\ \/ Finish(h) /\ pc'[h] = "ack"
            \/ GiveUp(h) /\ pc'[h] = "deadLetter"
  <2>1. CASE Finish(h) \/ GiveUp(h)
    BY <1>1, <2>1 DEF Finish, GiveUp, Works, Goto, RowTypeOK, HandlerTypeOK
  <2>2. CASE Begin(h)
    BY <1>1, <2>2 DEF Begin, Settled, RowTypeOK
  <2> QED
    BY <2>1, <2>2
    DEF HandlerStep, Find, DropOrphan, MergeRead, StageFails, MergeWrite, Recompute,
        Mark, Ack, Fail, DeadLetter, Requeue, rowVars
<1>3. pc[h] \in {"ack", "deadLetter"} =>
         pc'[h] = "idle" /\ UNCHANGED <<status, ready, outbox>>
  <2> SUFFICES ASSUME pc[h] \in {"ack", "deadLetter"}
               PROVE  pc'[h] = "idle" /\ UNCHANGED <<status, ready, outbox>>
    OBVIOUS
  <2>1. Ack(h) \/ DeadLetter(h)
    BY DEF HandlerStep, Find, DropOrphan, Begin, MergeRead, StageFails, MergeWrite,
           Recompute, Mark, Finish, Fail, GiveUp, Requeue
  <2> QED
    BY <1>1, <2>1 DEF Ack, DeadLetter, Leave, rowVars, brokerVars, HandlerTypeOK
<1>4. ~Requeue(h) => UNCHANGED ready
  BY DEF HandlerStep, Find, DropOrphan, Begin, MergeRead, StageFails, MergeWrite,
         Recompute, Mark, Finish, Ack, Fail, GiveUp, DeadLetter, brokerVars
<1> QED
  BY <1>2, <1>3, <1>4

\* No step before a crash puts the task of a settled document back to work.
LEMMA FinalInvStep ==
    ~ChannelsClose /\ TaskInv /\ TaskInv' /\ WorkerInv /\ FinalInv /\ [Next]_vars => FinalInv'
<1> SUFFICES ASSUME ~ChannelsClose, TaskInv, TaskInv', WorkerInv, FinalInv, [Next]_vars,
                    NEW e \in Doc
             PROVE  Final(e)'
  BY DEF FinalInv
<1> USE DEF TaskInv, TypeOK
<1>1. Final(e)
  BY DEF FinalInv
<1>2. CASE UNCHANGED vars
  BY <1>1, <1>2 DEF vars, rowVars, brokerVars, handlerVars, faultVars, Final
<1>3. ASSUME NEW d \in Doc, Create(d) \/ Publish(d) \/ LosePublish(d) \/ Delete(d)
      PROVE  Final(e)'
  BY <1>1, <1>3 DEF Create, Publish, LosePublish, Delete, rowVars, brokerVars,
                    handlerVars, faultVars, Final, Settled, RowTypeOK, DocStatus
<1>4. ASSUME NEW h \in Handler, NEW d \in Doc, Deliver(h, d)
      PROVE  Final(e)'
  <2>1. /\ d \in ready /\ ready' = ready \ {d} /\ job'[h] = d
        /\ \A k \in Handler \ {h} : pc'[k] = pc[k] /\ job'[k] = job[k]
        /\ UNCHANGED <<status, outbox, crashes>>
    BY <1>4 DEF Deliver, rowVars, faultVars, HandlerTypeOK
  <2> QED
    BY <1>1, <2>1 DEF Final
<1>5. ASSUME NEW h \in Handler, HandlerStep(h)
      PROVE  Final(e)'
  <2>1. /\ \A k \in Handler \ {h} : pc'[k] = pc[k] /\ job'[k] = job[k]
        /\ job'[h] \in {job[h], NoDoc} /\ job[h] \in Doc /\ pc[h] # "idle"
        /\ pc'[h] = "idle" => job'[h] = NoDoc
        /\ UNCHANGED <<outbox, crashes>>
    BY <1>5, HandlerMovesAlone, HandlerWritesItsRow
  <2>2. held[h]
    BY <2>1 DEF WorkerInv, AllHold
  <2>3. CASE e # job[h]
    <3>1. status'[e] = status[e]
      BY <1>5, <2>3, HandlerWritesItsRow
    <3>2. ready' \subseteq ready \union {job[h]}
      BY <1>5, HandlerOnVerdict DEF Requeue
    <3> QED
      BY <1>1, <2>1, <2>3, <3>1, <3>2, DocAssumption DEF Final
  <2>4. CASE e = job[h]
    <3> SUFFICES ASSUME status'[e] \in Settled, crashes = 0
                 PROVE  /\ e \notin outbox' \union ready'
                        /\ \A k \in Handler : job'[k] = e => pc'[k] \in {"ack", "deadLetter"}
      BY <2>1 DEF Final
    <3>1. e \notin outbox \union ready /\ \A k \in Handler \ {h} : job[k] # e
      BY <2>1, <2>2, <2>4, DocAssumption DEF OneCopy, WorkerInv, AllHold, HandlerTypeOK
    <3>2. CASE status'[e] = status[e]
      <4>1. pc[h] \in {"ack", "deadLetter"}
        BY <1>1, <2>4, <3>2 DEF Final
      <4> QED
        BY <1>5, <2>1, <2>4, <3>1, <4>1, HandlerOnVerdict, DocAssumption
    <3>3. CASE status'[e] # status[e]
      <4>1. /\ pc'[h] \in {"ack", "deadLetter"}
            /\ Finish(h) \/ GiveUp(h)
        BY <1>5, <2>4, <3>3, HandlerOnVerdict
      <4>2. UNCHANGED ready
        BY <4>1 DEF Finish, GiveUp, brokerVars
      <4> QED
        BY <2>1, <3>1, <4>1, <4>2
    <3> QED
      BY <3>2, <3>3
  <2> QED
    BY <2>3, <2>4
<1>6. CASE WorkerCrash
  BY <1>6 DEF WorkerCrash, Final, FaultTypeOK
<1>7. CASE ConnectionLost \/ AckTimeout \/ BrokerRestart
  BY <1>7 DEF ConnectionLost, AckTimeout, BrokerRestart
<1> QED
  BY <1>2, <1>3, <1>4, <1>5, <1>6, <1>7 DEF Next, ApiNext, WorkerNext

\* The four invariants together hold in every state of the specification.
LEMMA InvHolds == Spec => [](~ChannelsClose => Inv)
<1>1. Spec => []TaskInv
  BY TaskInvInit, TypeCorrect, TaskInvStep, PTL DEF Spec
<1>2. Spec => []FailedInv
  BY FailedInvInit, FailedInvStep, TypeCorrect, PTL DEF Spec
<1>3. Init => (~ChannelsClose => WorkerInv /\ FinalInv)
  BY WorkerInvInit DEF Init, FinalInv, Final, Settled
<1>4. TaskInv /\ TaskInv' /\ (~ChannelsClose => WorkerInv /\ FinalInv) /\ [Next]_vars
         => (~ChannelsClose => WorkerInv /\ FinalInv)'
  BY WorkerInvStep, FinalInvStep
<1>5. TaskInv /\ FailedInv /\ (~ChannelsClose => WorkerInv /\ FinalInv)
         => (~ChannelsClose => Inv)
  BY DEF Inv
<1> QED
  BY <1>1, <1>2, <1>3, <1>4, <1>5, PTL DEF Spec

-----------------------------------------------------------------------------
(* Every step is a step of the promise                                     *)

\* A handler that is still to begin or to fail an attempt works on a document
\* that Lifecycle considers open.
LEMMA WorkIsOpen ==
    ASSUME Inv, NEW h \in Handler, pc[h] \in {"begin", "fail", "giveUp"},
           status[job[h]] # "GONE"
    PROVE  Promise!Open(job[h])
<1>1. job[h] \in Doc /\ status[job[h]] \in {"PENDING", "PROCESSING"} \union Settled
  BY DEF Inv, TaskInv, TypeOK, RowTypeOK, HandlerTypeOK, NewHasNoTask, DocStatus, Settled
<1>2. status[job[h]] \in Settled => crashes > 0
  BY <1>1 DEF Inv, FinalInv, Final, TaskInv, TypeOK, FaultTypeOK
<1> QED
  BY <1>1, <1>2 DEF Promise!Open, Settled

\* Every step of a handler is a step that Lifecycle allows, or a stutter.
LEMMA HandlerRefines ==
    ASSUME Inv, NEW h \in Handler, HandlerStep(h)
    PROVE  Promise!Next \/ UNCHANGED Promise!vars
<1> DEFINE d == job[h]
<1> USE DEF Inv, TaskInv, TypeOK
<1>1. d \in Doc /\ pc[h] # "idle" /\ held[h] /\ Attempt(h)
  BY HandlerMovesAlone DEF WorkerInv, AllHold
<1>2. CASE \/ Find(h) \/ DropOrphan(h) \/ MergeRead(h) \/ StageFails(h) \/ Recompute(h)
           \/ Mark(h) \/ Ack(h) \/ DeadLetter(h) \/ Requeue(h)
  BY <1>2 DEF Find, DropOrphan, MergeRead, StageFails, Recompute, Mark, Ack,
              DeadLetter, Requeue, rowVars, faultVars, Promise!vars
<1>3. CASE Begin(h)
  <2>1. CASE UNCHANGED <<status, failureReason>>
    BY <1>3, <2>1 DEF Begin, Promise!vars
  <2>2. CASE ~UNCHANGED <<status, failureReason>>
    <3>1. Promise!Open(d)
      BY <1>3, <2>2, WorkIsOpen DEF Begin, Works
    <3>2. Promise!Process(d)
      BY <1>3, <2>2, <3>1 DEF Begin, ForgetFailure, Promise!Process
    <3> QED
      BY <1>1, <3>2 DEF Promise!Next
  <2> QED
    BY <2>1, <2>2
<1>4. CASE MergeWrite(h)
  <2>1. CASE UNCHANGED sections
    BY <1>4, <2>1 DEF MergeWrite, Promise!vars
  <2>2. CASE ~UNCHANGED sections
    <3>1. /\ pc[h] = "write" /\ status[d] # "GONE"
          /\ sections' = [sections EXCEPT ![d] = seen[h] \union {Key(h)}]
      BY <1>4, <2>2 DEF MergeWrite, Merged, Works
    <3>2. status[d] = "PROCESSING" /\ seen[h] = sections[d]
      BY <1>1, <3>1 DEF Attempt, InPipeline
    <3>3. Key(h) \in Section
      BY PipelineFacts DEF Key, HandlerTypeOK
    <3>4. Promise!Report(d, Key(h))
      BY <1>4, <3>1, <3>2 DEF MergeWrite, Promise!Report
    <3> QED
      BY <1>1, <3>3, <3>4 DEF Promise!Next
  <2> QED
    BY <2>1, <2>2
<1>5. CASE Finish(h)
  <2>1. CASE UNCHANGED status
    BY <1>5, <2>1 DEF Finish, Promise!vars
  <2>2. CASE ~UNCHANGED status
    <3>1. status[d] = "PROCESSING" /\ sections[d] = Section
      BY <1>1, <1>5, <2>2 DEF Finish, Works, Attempt, InPipeline
    <3>2. Promise!Complete(d)
      BY <1>5, <2>2, <3>1 DEF Finish, Promise!Complete
    <3> QED
      BY <1>1, <3>2 DEF Promise!Next
  <2> QED
    BY <2>1, <2>2
<1>6. CASE Fail(h)
  <2>1. CASE UNCHANGED retryCount
    BY <1>6, <2>1 DEF Fail, Promise!vars
  <2>2. CASE ~UNCHANGED retryCount
    <3>1. Promise!Open(d)
      BY <1>6, <2>2, WorkIsOpen DEF Fail, Works
    <3>2. Promise!AttemptFails(d)
      BY <1>6, <2>2, <3>1 DEF Fail, Promise!AttemptFails
    <3> QED
      BY <1>1, <3>2 DEF Promise!Next
  <2> QED
    BY <2>1, <2>2
<1>7. CASE GiveUp(h)
  <2>1. CASE UNCHANGED <<status, failureReason>>
    BY <1>7, <2>1 DEF GiveUp, Promise!vars
  <2>2. CASE ~UNCHANGED <<status, failureReason>>
    <3>1. Promise!Open(d) /\ retryCount[d] >= MaxRetries
      BY <1>7, <2>2, WorkIsOpen DEF GiveUp, Works, FailedInv
    <3>2. Promise!GiveUp(d)
      BY <1>7, <2>2, <3>1 DEF GiveUp, Promise!GiveUp
    <3> QED
      BY <1>1, <3>2 DEF Promise!Next
  <2> QED
    BY <2>1, <2>2
<1> QED
  BY <1>2, <1>3, <1>4, <1>5, <1>6, <1>7 DEF HandlerStep

\* Every step of the system is a step that Lifecycle allows, or a stutter.
LEMMA StepRefines ==
    ~ChannelsClose /\ Inv /\ [Next]_vars => [Promise!Next]_(Promise!vars)
<1> SUFFICES ASSUME ~ChannelsClose, Inv, [Next]_vars
             PROVE  Promise!Next \/ UNCHANGED Promise!vars
  OBVIOUS
<1>1. CASE UNCHANGED vars
  BY <1>1 DEF vars, rowVars, faultVars, Promise!vars
<1>2. ASSUME NEW d \in Doc, Create(d)
      PROVE  Promise!Next
  <2>1. Promise!Accept(d)
    BY <1>2 DEF Create, faultVars, Promise!Accept
  <2> QED
    BY <2>1 DEF Promise!Next
<1>3. ASSUME NEW d \in Doc, Delete(d)
      PROVE  Promise!Next
  <2>1. Promise!Remove(d)
    BY <1>3 DEF Delete, faultVars, DocStatus, Promise!Remove
  <2> QED
    BY <2>1 DEF Promise!Next
<1>4. ASSUME NEW d \in Doc, Publish(d) \/ LosePublish(d)
      PROVE  UNCHANGED Promise!vars
  BY <1>4 DEF Publish, LosePublish, rowVars, faultVars, Promise!vars
<1>5. ASSUME NEW h \in Handler, NEW d \in Doc, Deliver(h, d)
      PROVE  UNCHANGED Promise!vars
  BY <1>5 DEF Deliver, rowVars, faultVars, Promise!vars
<1>6. ASSUME NEW h \in Handler, HandlerStep(h)
      PROVE  Promise!Next \/ UNCHANGED Promise!vars
  BY <1>6, HandlerRefines
<1>7. CASE WorkerCrash
  BY <1>7 DEF WorkerCrash, rowVars, Promise!Next, Promise!Redelivery
<1>8. CASE ConnectionLost \/ AckTimeout \/ BrokerRestart
  BY <1>8 DEF ConnectionLost, AckTimeout, BrokerRestart
<1> QED
  BY <1>1, <1>2, <1>3, <1>4, <1>5, <1>6, <1>7, <1>8 DEF Next, ApiNext, WorkerNext

\* With open channels the queue, the handlers, their retries and the crashes
\* of the worker together implement Lifecycle: reports only grow and only
\* while PROCESSING, DONE comes with a complete report, FAILED after the last
\* attempt, and only a crash reopens a document.
THEOREM WorkerImplementsLifecycle ==
    ASSUME ~ChannelsClose PROVE Spec => KeepsPromise
<1>1. Init => Promise!Init
  BY DEF Init, Promise!Init
<1>2. (~ChannelsClose => Inv) /\ [Next]_vars => [Promise!Next]_(Promise!vars)
  BY StepRefines
<1> QED
  BY <1>1, <1>2, InvHolds, PTL DEF Spec, KeepsPromise, Promise!Spec

\* No stage erases what another one has written, as long as channels are open.
THEOREM StagesEraseNothing == Spec => ReportOnlyGrows
<1> DEFINE Grows == \A d \in Doc : ~ChannelsClose /\ status'[d] # "GONE"
                        => sections[d] \subseteq sections'[d]
<1>1. (~ChannelsClose => Inv) /\ [Next]_vars => [Grows]_vars
  <2> SUFFICES ASSUME ~ChannelsClose, Inv, [Next]_vars,
                      NEW d \in Doc, status'[d] # "GONE"
               PROVE  sections[d] \subseteq sections'[d]
    OBVIOUS
  <2>1. CASE Promise!Next
    BY <2>1 DEF Promise!Next, Promise!Accept, Promise!Process, Promise!Report,
                Promise!Complete, Promise!AttemptFails, Promise!GiveUp, Promise!Remove,
                Promise!Redelivery, Inv, TaskInv, TypeOK, RowTypeOK
  <2>2. CASE UNCHANGED Promise!vars
    BY <2>2 DEF Promise!vars
  <2> QED
    BY <2>1, <2>2, StepRefines
<1> QED
  BY <1>1, InvHolds, PTL DEF Spec, ReportOnlyGrows

\* Before a crash no step changes a verdict, but for the deletion of its row.
LEMMA VerdictStays ==
    ASSUME ~ChannelsClose, Inv, [Next]_vars, NEW d \in Doc, crashes = 0, status[d] \in Settled
    PROVE  status'[d] \in {status[d], "GONE"}
<1>1. CASE UNCHANGED vars
  BY <1>1 DEF vars, rowVars
<1>2. ASSUME NEW e \in Doc, Create(e) \/ Publish(e) \/ LosePublish(e) \/ Delete(e)
      PROVE  status'[d] \in {status[d], "GONE"}
  BY <1>2 DEF Create, Publish, LosePublish, Delete, rowVars, Settled, Inv, TaskInv,
              TypeOK, RowTypeOK
<1>3. ASSUME NEW h \in Handler, HandlerStep(h)
      PROVE  status'[d] = status[d]
  <2>1. CASE job[h] = d
    <3>1. pc[h] \in {"ack", "deadLetter"}
      BY <2>1 DEF Inv, FinalInv, Final
    <3> QED
      BY <1>3, <3>1, HandlerOnVerdict DEF Inv
  <2>2. CASE job[h] # d
    BY <1>3, <2>2, HandlerWritesItsRow DEF Inv, TaskInv
  <2> QED
    BY <2>1, <2>2
<1>4. ASSUME NEW h \in Handler, NEW e \in Doc, Deliver(h, e)
      PROVE  status'[d] = status[d]
  BY <1>4 DEF Deliver, rowVars
<1>5. CASE WorkerCrash \/ ConnectionLost \/ AckTimeout \/ BrokerRestart
  BY <1>5 DEF WorkerCrash, ConnectionLost, AckTimeout, BrokerRestart, ChannelClosed, rowVars
<1> QED
  BY <1>1, <1>2, <1>3, <1>4, <1>5 DEF Next, ApiNext, WorkerNext

\* A verdict is withdrawn by a crash of the worker and by nothing else.
THEOREM VerdictsAreFinal == Spec => VerdictIsFinal
<1> DEFINE Stays == \A d \in Doc : ~ChannelsClose /\ crashes = 0 /\ status[d] \in Settled
                        => status'[d] \in {status[d], "GONE"}
<1>1. (~ChannelsClose => Inv) /\ [Next]_vars => [Stays]_vars
  BY VerdictStays
<1> QED
  BY <1>1, InvHolds, PTL DEF Spec, VerdictIsFinal
=============================================================================

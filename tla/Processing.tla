----------------------------- MODULE Processing -----------------------------
(***************************************************************************)
(* The asynchronous half of the system: how one analysis task travels from *)
(* the api process through RabbitMQ into the handlers of the worker, and   *)
(* what every step of a handler does to the row of the document.           *)
(*                                                                         *)
(* A document is identified by its content (Document.contentHash is        *)
(* unique).  The worker consumes with noAck: false and no prefetch, so any *)
(* number of handlers (server/src/processing/processing.controller.ts) run *)
(* at once in one event loop and interleave at every await: an action      *)
(* below is the code between two awaits.                                   *)
(*                                                                         *)
(* What a stage computes is left out; what it does to the report           *)
(* (AnalysisResult.detailsJson) is not: every section is written by the    *)
(* read and the later write of mergeDetails.                               *)
(***************************************************************************)
EXTENDS Naturals, Sequences, FiniteSets

CONSTANTS
    Doc,            \* documents, named by their content
    Handler,        \* handlers the worker may be running at once
    NoDoc,          \* the job of an idle handler
    Pipeline,       \* the sections of a report, in the order they are written
    MaxRetries,     \* RABBITMQ_MAX_RETRIES
    Deletable,      \* documents whose row somebody may delete by hand
    ChannelsClose,  \* may the consumer's channel close under a live worker?
    MayLose,        \* may a non-persistent or unsent message disappear?
    MaxCrashes,     \* bound: crashes of the worker process
    MaxCloses,      \* bound: losses of the broker connection
    MaxDbFaults     \* bound: database calls that throw

ASSUME DocAssumption == NoDoc \notin Doc /\ Deletable \subseteq Doc
ASSUME PipelineAssumption == Pipeline \in Seq(STRING) /\ Pipeline # <<>>
ASSUME BoundAssumption ==
    /\ MaxRetries \in Nat \ {0}
    /\ MaxCrashes \in Nat /\ MaxCloses \in Nat /\ MaxDbFaults \in Nat
    /\ ChannelsClose \in BOOLEAN /\ MayLose \in BOOLEAN

\* The pipeline of the code.  The plagiarism stage writes two sections.
FullPipeline ==
    <<"plagiarism", "selfPlagiarism", "paraphrase", "grammar", "style",
      "spam", "aiDetector", "externalSearch">>

StageOf(key) == IF key = "selfPlagiarism" THEN "plagiarism" ELSE key

\* The stages whose last act is recomputeOriginality.
Recomputes(key) == key \in {"selfPlagiarism", "paraphrase"}

Section == {Pipeline[i] : i \in DOMAIN Pipeline}
WrittenBefore(i) == {Pipeline[j] : j \in {k \in DOMAIN Pipeline : k < i}}

\* Names of the form A_B are broken forms of A, in the way B says: a property
\* that no such form violates would say nothing about A.
LastStep_OffByOne == Len(Pipeline) + 1
LastStep == Len(Pipeline)

VARIABLES
    \* the row of each document
    status, retryCount, failedStage, failureReason, sections,
    \* where its task is: still in the api process, queued, dead, gone
    outbox, ready, dlq, lost,
    \* the handlers of the worker
    pc, job, step, seen, held,
    \* faults so far
    crashes, closes, dbFaults

rowVars     == <<status, retryCount, failedStage, failureReason, sections>>
brokerVars  == <<outbox, ready, dlq, lost>>
handlerVars == <<pc, job, step, seen, held>>
faultVars   == <<crashes, closes, dbFaults>>
vars        == <<rowVars, brokerVars, handlerVars, faultVars>>

DocStatus == {"PENDING", "PROCESSING", "DONE", "FAILED"}
Settled   == {"DONE", "FAILED"}
NoStage   == "none"

\* Between which awaits of handleAnalyzeDocument a handler is.
Label == {"idle", "find", "begin", "read", "write", "recompute", "finish",
          "ack", "mark", "fail", "giveUp", "deadLetter", "requeue", "stuck"}

HeldJobs   == {job[h] : h \in {k \in Handler : held[k]}}
Running(h) == pc[h] \notin {"idle", "stuck"}

Init ==
    /\ status = [d \in Doc |-> "NEW"]
    /\ retryCount = [d \in Doc |-> 0]
    /\ failedStage = [d \in Doc |-> NoStage]
    /\ failureReason = [d \in Doc |-> FALSE]
    /\ sections = [d \in Doc |-> {}]
    /\ outbox = {} /\ ready = {} /\ dlq = {} /\ lost = {}
    /\ pc = [h \in Handler |-> "idle"]
    /\ job = [h \in Handler |-> NoDoc]
    /\ step = [h \in Handler |-> 1]
    /\ seen = [h \in Handler |-> {}]
    /\ held = [h \in Handler |-> FALSE]
    /\ crashes = 0 /\ closes = 0 /\ dbFaults = 0

-----------------------------------------------------------------------------
(* How a handler moves                                                     *)

Goto(h, label) ==
    /\ pc' = [pc EXCEPT ![h] = label]
    /\ UNCHANGED <<job, step, seen, held>>

\* The handler is over; its message, if it still had one, is settled.
Leave(h) ==
    /\ pc' = [pc EXCEPT ![h] = "idle"]
    /\ job' = [job EXCEPT ![h] = NoDoc]
    /\ step' = [step EXCEPT ![h] = 1]
    /\ seen' = [seen EXCEPT ![h] = {}]
    /\ held' = [held EXCEPT ![h] = FALSE]

\* The promise of the handler rejects outside its try block: nobody settles
\* the message, which stays unacknowledged on the open channel.
Abandon(h) ==
    /\ pc' = [pc EXCEPT ![h] = "stuck"]
    /\ step' = [step EXCEPT ![h] = 1]
    /\ seen' = [seen EXCEPT ![h] = {}]
    /\ UNCHANGED <<job, held>>

Reject_Acks(h) == Leave(h)
Reject(h) == IF held[h] THEN Abandon(h) ELSE Leave(h)

\* A database call on the row of d either works or throws, and a call that
\* updates or refers to a deleted row always throws.
Works(d)  == status[d] # "GONE" /\ UNCHANGED dbFaults
DbFault   == dbFaults < MaxDbFaults /\ dbFaults' = dbFaults + 1
Throws(d) == (status[d] = "GONE" /\ UNCHANGED dbFaults) \/ DbFault

-----------------------------------------------------------------------------
(* The api process and the broker                                          *)

\* document.create, the last database call of uploadDocument: the row is
\* there, the task is not yet.
Create(d) ==
    /\ status[d] = "NEW"
    /\ status' = [status EXCEPT ![d] = "PENDING"]
    /\ outbox' = outbox \union {d}
    /\ UNCHANGED <<retryCount, failedStage, failureReason, sections,
                   ready, dlq, lost, handlerVars, faultVars>>

Publish(d) ==
    /\ d \in outbox
    /\ outbox' = outbox \ {d}
    /\ ready' = ready \union {d}
    /\ UNCHANGED <<dlq, lost, rowVars, handlerVars, faultVars>>

\* emit is fire-and-forget: the api dies, or its connect fails, before the
\* message leaves, and nothing publishes it again.
LosePublish(d) ==
    /\ MayLose
    /\ d \in outbox
    /\ outbox' = outbox \ {d}
    /\ lost' = lost \union {d}
    /\ UNCHANGED <<ready, dlq, rowVars, handlerVars, faultVars>>

\* Nobody in the code deletes a document; the handler is ready for it.
Delete(d) ==
    /\ d \in Deletable /\ status[d] \in DocStatus
    /\ status' = [status EXCEPT ![d] = "GONE"]
    /\ sections' = [sections EXCEPT ![d] = {}]
    /\ UNCHANGED <<retryCount, failedStage, failureReason, brokerVars,
                   handlerVars, faultVars>>

Deliver(h, d) ==
    /\ pc[h] = "idle" /\ d \in ready
    /\ ready' = ready \ {d}
    /\ pc' = [pc EXCEPT ![h] = "find"]
    /\ job' = [job EXCEPT ![h] = d]
    /\ held' = [held EXCEPT ![h] = TRUE]
    /\ UNCHANGED <<outbox, dlq, lost, step, seen, rowVars, faultVars>>

-----------------------------------------------------------------------------
(* The handler of one task: handleAnalyzeDocument                          *)

Key(h) == Pipeline[step[h]]

\* The catch block of the handler, and the one around a stage.
Catch(h) ==
    /\ pc' = [pc EXCEPT ![h] = "fail"]
    /\ step' = [step EXCEPT ![h] = 1]
    /\ seen' = [seen EXCEPT ![h] = {}]
    /\ UNCHANGED <<job, held>>

CatchStage(h) ==
    /\ pc' = [pc EXCEPT ![h] = "mark"]
    /\ seen' = [seen EXCEPT ![h] = {}]
    /\ UNCHANGED <<job, step, held>>

\* After a section: the next one, or the end of the pipeline.
Advance(h) ==
    /\ IF step[h] = LastStep
       THEN pc' = [pc EXCEPT ![h] = "finish"] /\ UNCHANGED step
       ELSE /\ pc' = [pc EXCEPT ![h] = "read"]
            /\ step' = [step EXCEPT ![h] = @ + 1]
    /\ seen' = [seen EXCEPT ![h] = {}]
    /\ UNCHANGED <<job, held>>

Find(h) ==
    /\ pc[h] = "find"
    /\ \/ status[job[h]] # "GONE" /\ Goto(h, "begin") /\ UNCHANGED dbFaults
       \/ DbFault /\ Catch(h)
    /\ UNCHANGED <<rowVars, brokerVars, crashes, closes>>

\* The row is not there: the message is acknowledged and dropped.
DropOrphan(h) ==
    /\ pc[h] = "find" /\ status[job[h]] = "GONE"
    /\ IF held[h] THEN Leave(h) ELSE Catch(h)
    /\ UNCHANGED <<rowVars, brokerVars, faultVars>>

ForgetFailure_ReasonOnly(d) ==
    /\ failureReason' = [failureReason EXCEPT ![d] = FALSE]
    /\ UNCHANGED failedStage

ForgetFailure(d) ==
    /\ failureReason' = [failureReason EXCEPT ![d] = FALSE]
    /\ failedStage' = [failedStage EXCEPT ![d] = NoStage]

Begin(h) ==
    LET d == job[h] IN
    /\ pc[h] = "begin"
    /\ \/ /\ Works(d)
          /\ status' = [status EXCEPT ![d] = "PROCESSING"]
          /\ ForgetFailure(d)
          /\ Goto(h, "read")
       \/ /\ Throws(d) /\ Catch(h)
          /\ UNCHANGED <<status, failureReason, failedStage>>
    /\ UNCHANGED <<retryCount, sections, brokerVars, crashes, closes>>

\* mergeDetails, its first half: the report as it is now.
MergeRead(h) ==
    /\ pc[h] = "read"
    /\ seen' = [seen EXCEPT ![h] = sections[job[h]]]
    /\ pc' = [pc EXCEPT ![h] = "write"]
    /\ UNCHANGED <<job, step, held, rowVars, brokerVars, faultVars>>

\* A stage throws before it has anything to merge.  Between the two sections
\* of the plagiarism stage only the database can.
StageFails(h) ==
    /\ pc[h] = "read"
    /\ IF StageOf(Key(h)) = Key(h) THEN UNCHANGED dbFaults ELSE DbFault
    /\ CatchStage(h)
    /\ UNCHANGED <<rowVars, brokerVars, crashes, closes>>

\* mergeDetails, its second half: the report read earlier plus one section.
Merged_Overwrites(h) == {Key(h)}
Merged(h) == seen[h] \union {Key(h)}

MergeWrite(h) ==
    LET d == job[h] IN
    /\ pc[h] = "write"
    /\ \/ /\ Works(d)
          /\ sections' = [sections EXCEPT ![d] = Merged(h)]
          /\ IF Recomputes(Key(h)) THEN Goto(h, "recompute") ELSE Advance(h)
       \/ Throws(d) /\ CatchStage(h) /\ UNCHANGED sections
    /\ UNCHANGED <<status, retryCount, failedStage, failureReason,
                   brokerVars, crashes, closes>>

\* recomputeOriginality; without a result it returns silently.  Its find and
\* its update are one step here, because this module leaves the values out;
\* Borrowing, which follows the values, takes them apart.
Recompute(h) ==
    /\ pc[h] = "recompute"
    /\ \/ Advance(h) /\ UNCHANGED dbFaults
       \/ DbFault /\ CatchStage(h)
    /\ UNCHANGED <<rowVars, brokerVars, crashes, closes>>

Mark(h) ==
    LET d == job[h] IN
    /\ pc[h] = "mark"
    /\ \/ /\ Works(d)
          /\ failedStage' = [failedStage EXCEPT ![d] = StageOf(Key(h))]
       \/ Throws(d) /\ UNCHANGED failedStage
    /\ Catch(h)
    /\ UNCHANGED <<status, retryCount, failureReason, sections,
                   brokerVars, crashes, closes>>

Finish(h) ==
    LET d == job[h] IN
    /\ pc[h] = "finish"
    /\ \/ /\ Works(d)
          /\ status' = [status EXCEPT ![d] = "DONE"]
          /\ Goto(h, "ack")
       \/ Throws(d) /\ Catch(h) /\ UNCHANGED status
    /\ UNCHANGED <<retryCount, failedStage, failureReason, sections,
                   brokerVars, crashes, closes>>

\* The ack is inside the try block: on a closed channel it throws into the
\* catch block although the document is DONE.
Ack(h) ==
    /\ pc[h] = "ack"
    /\ IF held[h] THEN Leave(h) ELSE Catch(h)
    /\ UNCHANGED <<rowVars, brokerVars, faultVars>>

-----------------------------------------------------------------------------
(* handleFailure.  It has no catch of its own.                             *)

Exhausted_OneEarly(n) == n + 1 >= MaxRetries
Exhausted(n) == n >= MaxRetries

Fail(h) ==
    LET d == job[h] IN
    /\ pc[h] = "fail"
    /\ \/ /\ Works(d)
          /\ retryCount' = [retryCount EXCEPT ![d] = @ + 1]
          /\ Goto(h, IF Exhausted(retryCount[d] + 1) THEN "giveUp" ELSE "requeue")
       \/ Throws(d) /\ Reject(h) /\ UNCHANGED retryCount
    /\ UNCHANGED <<status, failedStage, failureReason, sections,
                   brokerVars, crashes, closes>>

GiveUp(h) ==
    LET d == job[h] IN
    /\ pc[h] = "giveUp"
    /\ \/ /\ Works(d)
          /\ status' = [status EXCEPT ![d] = "FAILED"]
          /\ failureReason' = [failureReason EXCEPT ![d] = TRUE]
          /\ Goto(h, "deadLetter")
       \/ Throws(d) /\ Reject(h) /\ UNCHANGED <<status, failureReason>>
    /\ UNCHANGED <<retryCount, failedStage, sections, brokerVars, crashes, closes>>

\* nack without requeue, and nack with it.  On a closed channel a nack
\* throws, and the broker has already taken the message back.
DeadLetter_Requeued(h) ==
    /\ pc[h] = "deadLetter"
    /\ ready' = IF held[h] THEN ready \union {job[h]} ELSE ready
    /\ Leave(h)
    /\ UNCHANGED <<outbox, dlq, lost, rowVars, faultVars>>

DeadLetter_RequeuedToo(h) ==
    /\ pc[h] = "deadLetter"
    /\ dlq' = IF held[h] THEN dlq \union {job[h]} ELSE dlq
    /\ ready' = IF held[h] THEN ready \union {job[h]} ELSE ready
    /\ Leave(h)
    /\ UNCHANGED <<outbox, lost, rowVars, faultVars>>

DeadLetter(h) ==
    /\ pc[h] = "deadLetter"
    /\ dlq' = IF held[h] THEN dlq \union {job[h]} ELSE dlq
    /\ Leave(h)
    /\ UNCHANGED <<outbox, ready, lost, rowVars, faultVars>>

Requeue_DeadLetters(h) ==
    /\ pc[h] = "requeue"
    /\ dlq' = IF held[h] THEN dlq \union {job[h]} ELSE dlq
    /\ Leave(h)
    /\ UNCHANGED <<outbox, ready, lost, rowVars, faultVars>>

Requeue_RetriesInPlace(h) ==
    /\ pc[h] = "requeue"
    /\ ready' = IF held[h] THEN ready \union {job[h]} ELSE ready
    /\ pc' = [pc EXCEPT ![h] = "find"]
    /\ held' = [held EXCEPT ![h] = FALSE]
    /\ UNCHANGED <<job, step, seen, outbox, dlq, lost, rowVars, faultVars>>

Requeue(h) ==
    /\ pc[h] = "requeue"
    /\ ready' = IF held[h] THEN ready \union {job[h]} ELSE ready
    /\ Leave(h)
    /\ UNCHANGED <<outbox, dlq, lost, rowVars, faultVars>>

-----------------------------------------------------------------------------
(* Faults of the worker process and of its connection                      *)

\* The process dies and is restarted: every unacknowledged message is queued
\* again, whatever its handler had already done.
WorkerCrash ==
    /\ crashes < MaxCrashes
    /\ \E h \in Handler : pc[h] # "idle"
    /\ crashes' = crashes + 1
    /\ ready' = ready \union HeldJobs
    /\ pc' = [h \in Handler |-> "idle"]
    /\ job' = [h \in Handler |-> NoDoc]
    /\ step' = [h \in Handler |-> 1]
    /\ seen' = [h \in Handler |-> {}]
    /\ held' = [h \in Handler |-> FALSE]
    /\ UNCHANGED <<outbox, dlq, lost, rowVars, closes, dbFaults>>

\* The channel closes under a live worker.  The broker takes the messages
\* back, and the handlers that were running run on, now without a message.
HandlersLoseMessages ==
    LET over == {h \in Handler : pc[h] = "stuck"} IN
    /\ pc' = [h \in Handler |-> IF h \in over THEN "idle" ELSE pc[h]]
    /\ job' = [h \in Handler |-> IF h \in over THEN NoDoc ELSE job[h]]
    /\ held' = [h \in Handler |-> FALSE]
    /\ UNCHANGED <<step, seen>>

ChannelClosed ==
    /\ ready' = ready \union HeldJobs
    /\ HandlersLoseMessages
    /\ closes' = closes + 1
    /\ UNCHANGED <<outbox, dlq, lost, rowVars, crashes, dbFaults>>

ConnectionLost ==
    /\ ChannelsClose /\ closes < MaxCloses /\ HeldJobs # {}
    /\ ChannelClosed

\* The broker closes a channel that leaves a message unacknowledged too long.
AckTimeout ==
    /\ ChannelsClose /\ \E h \in Handler : pc[h] = "stuck"
    /\ ChannelClosed

\* The queues are durable, the messages published into them are not.
BrokerRestart ==
    /\ ChannelsClose /\ MayLose /\ closes < MaxCloses
    /\ ready \union dlq \union HeldJobs # {}
    /\ lost' = lost \union ready \union dlq \union HeldJobs
    /\ ready' = {} /\ dlq' = {}
    /\ HandlersLoseMessages
    /\ closes' = closes + 1
    /\ UNCHANGED <<outbox, rowVars, crashes, dbFaults>>

-----------------------------------------------------------------------------
HandlerStep(h) ==
    \/ Find(h) \/ DropOrphan(h) \/ Begin(h)
    \/ MergeRead(h) \/ StageFails(h) \/ MergeWrite(h) \/ Recompute(h) \/ Mark(h)
    \/ Finish(h) \/ Ack(h)
    \/ Fail(h) \/ GiveUp(h) \/ DeadLetter(h) \/ Requeue(h)

WorkerNext ==
    \/ \E h \in Handler, d \in Doc : Deliver(h, d)
    \/ \E h \in Handler : HandlerStep(h)
    \/ WorkerCrash \/ ConnectionLost \/ AckTimeout \/ BrokerRestart

ApiNext == \E d \in Doc : Create(d) \/ Publish(d) \/ LosePublish(d) \/ Delete(d)

Next == ApiNext \/ WorkerNext

Spec == Init /\ [][Next]_vars

\* The event loop resumes every handler whose await is over, the api flushes
\* its socket, the broker pushes queued messages to a live consumer and, where
\* channels close at all, enforces its acknowledgement timeout.  Nothing
\* forces a crash, a disconnect or an upload.
Fairness ==
    /\ \A h \in Handler : WF_vars(HandlerStep(h))
    /\ \A d \in Doc : WF_vars(Publish(d) \/ LosePublish(d))
    /\ \A d \in Doc : WF_vars(\E h \in Handler : Deliver(h, d))
    /\ WF_vars(AckTimeout)

FairSpec == Spec /\ Fairness

-----------------------------------------------------------------------------
(* What the worker promises                                                *)

RowTypeOK ==
    /\ status \in [Doc -> DocStatus \union {"NEW", "GONE"}]
    /\ retryCount \in [Doc -> Nat]
    /\ failedStage \in [Doc -> {StageOf(key) : key \in Section} \union {NoStage}]
    /\ failureReason \in [Doc -> BOOLEAN]
    /\ sections \in [Doc -> SUBSET Section]

BrokerTypeOK ==
    /\ outbox \subseteq Doc /\ ready \subseteq Doc
    /\ dlq \subseteq Doc /\ lost \subseteq Doc

HandlerTypeOK ==
    /\ pc \in [Handler -> Label]
    /\ job \in [Handler -> Doc \union {NoDoc}]
    /\ \A h \in Handler : job[h] = NoDoc <=> pc[h] = "idle"
    /\ step \in [Handler -> DOMAIN Pipeline]
    /\ seen \in [Handler -> SUBSET Section]
    /\ held \in [Handler -> BOOLEAN]
    /\ \A h \in Handler : held[h] => pc[h] # "idle"

FaultTypeOK == crashes \in Nat /\ closes \in Nat /\ dbFaults \in Nat

\* Every variable holds values of its kind, and a handler has a document
\* exactly while it has something to do.
TypeOK == RowTypeOK /\ BrokerTypeOK /\ HandlerTypeOK /\ FaultTypeOK

\* However messages are acknowledged, rejected, requeued or taken back, the
\* task of a document is in at most one place: no redelivery duplicates it.
OneCopy ==
    /\ \A h, k \in Handler : h # k /\ held[h] /\ held[k] => job[h] # job[k]
    /\ \A h \in Handler : held[h] => job[h] \notin outbox \union ready \union dlq \union lost
    /\ outbox \intersect (ready \union dlq \union lost) = {}
    /\ ready \intersect (dlq \union lost) = {}
    /\ dlq \intersect lost = {}

\* As long as channels stay open, two handlers never work on one document.
SoleHandler ==
    ~ChannelsClose =>
        \A h, k \in Handler : h # k /\ pc[h] # "idle" => job[h] # job[k]

\* A document is DONE only with every section of its report, whatever failed
\* and was retried before.
DoneHasEverySection ==
    ~ChannelsClose => \A d \in Doc : status[d] = "DONE" => sections[d] = Section

\* The failure data a client reads belongs to the verdict it reads: a DONE
\* document shows no failure of an earlier attempt.
DoneHasNoFailure ==
    ~ChannelsClose =>
        \A d \in Doc : status[d] = "DONE" => ~failureReason[d] /\ failedStage[d] = NoStage

\* FAILED is never set before the attempts are used up, and never without a
\* reason, even by a handler whose message was taken back.
FailedOnlyWhenExhausted ==
    \A d \in Doc : status[d] = "FAILED" => retryCount[d] >= MaxRetries /\ failureReason[d]

\* A task in the dead letter queue has told its client so.
DeadLetterIsFailed ==
    ~ChannelsClose => \A d \in dlq : status[d] \in {"FAILED", "GONE"}

\* An accepted document that has no verdict yet still has its task, unless a
\* message was lost: no error path forgets it.
UnfinishedHasTask ==
    ~ChannelsClose =>
        \A d \in Doc : status[d] \in {"PENDING", "PROCESSING"} =>
            d \in outbox \union ready \union lost \union HeldJobs

\* A verdict is final until the worker crashes with the message in its hands.
VerdictIsFinal ==
    [][\A d \in Doc : ~ChannelsClose /\ crashes = 0 /\ status[d] \in Settled
           => status'[d] \in {status[d], "GONE"}]_vars

\* No stage erases what another one has written (analysis-result.service.ts).
ReportOnlyGrows ==
    [][\A d \in Doc : ~ChannelsClose /\ status'[d] # "GONE"
           => sections[d] \subseteq sections'[d]]_vars

\* While channels stay open, a client sees the worker keep the promises of
\* Lifecycle: a crash is what hands out a task again.
Promise == INSTANCE Lifecycle
    WITH phase <- status, report <- sections, attempts <- retryCount,
         reason <- failureReason, redeliveries <- crashes

KeepsPromise == Promise!Spec

\* Every accepted document gets a verdict that stays, unless its message was
\* lost.
EventuallySettled ==
    \A d \in Doc : status[d] = "PENDING" ~>
        [](status[d] \in Settled \union {"GONE"} \/ d \in lost)

\* Every queued task is answered unless it is lost: some verdict appears, even
\* if the handler that wrote it had lost its message.
QueuedIsAnswered ==
    \A d \in Doc :
        d \in ready ~> status[d] \in Settled \union {"GONE"} \/ d \in lost
=============================================================================

--------------------------- MODULE UploadsProofs ---------------------------
(***************************************************************************)
(* Theorems about Uploads: the invariants of the worker survive the api in *)
(* front of it, and what a client is shown of a document never goes back.  *)
(***************************************************************************)
EXTENDS Uploads, WorkerProofs

\* What the worker relies on, whoever uploads.
TaskSide == TaskInv /\ FailedInv /\ (~ChannelsClose => WorkerInv /\ FinalInv)

\* A request has a document once it is received, and its row before it is
\* answered with a status.  Nobody deletes a row here.
Requested(r) ==
    /\ IF rpc[r] = "off" THEN answer[r] = "none" ELSE content[r] \in Doc
    /\ rpc[r] = "emit" \/ answer[r] \in DocStatus =>
           content[r] \in Doc /\ status[content[r]] # "NEW"

RequestInv ==
    /\ rpc \in [Request -> RequestLabel]
    /\ content \in [Request -> Doc \union {NoDoc}]
    /\ answer \in [Request -> Refusal \union DocStatus]
    /\ \A r \in Request : Requested(r)
    /\ \A d \in Doc : status[d] # "GONE"

\* A stream has a document that exists, at most one answer on its way, and
\* ends with a verdict.
Watching(s) ==
    /\ spc[s] = "off" => shown[s] = "none" /\ fetched[s] = {}
    /\ spc[s] # "off" =>
           watched[s] \in Doc /\ status[watched[s]] # "NEW" /\ shown[s] \in DocStatus
    /\ fetched[s] = {} \/ \E st \in DocStatus : fetched[s] = {st}
    /\ asked[s] => fetched[s] = {}
    /\ spc[s] = "closed" => shown[s] \in Settled

StreamInv ==
    /\ spc \in [Stream -> {"off", "open", "closed", "broken"}]
    /\ watched \in [Stream -> Doc \union {NoDoc}]
    /\ shown \in [Stream -> {"none"} \union DocStatus]
    /\ asked \in [Stream -> BOOLEAN]
    /\ fetched \in [Stream -> SUBSET DocStatus]
    /\ \A s \in Stream : Watching(s)

\* st has been read from the row of d, and the row has not gone back since.
ReadFrom(st, d) == Rank(st) <= Rank(status[d]) /\ (st \in Settled => status[d] = st)

AnswersSeen ==
    \A r \in Request : answer[r] \in DocStatus => ReadFrom(answer[r], content[r])

StreamsSeen ==
    \A s \in Stream : spc[s] # "off" =>
        /\ ReadFrom(shown[s], watched[s])
        /\ \A st \in fetched[s] : ReadFrom(st, watched[s]) /\ Rank(shown[s]) <= Rank(st)

SeenInv == AnswersSeen /\ StreamsSeen

-----------------------------------------------------------------------------
(* The worker behind the api                                               *)

\* A request is received before it takes any other step.
LEMMA RequestHasContent ==
    ASSUME RequestInv, NEW r \in Request, RequestStep(r)
    PROVE  content[r] \in Doc /\ rpc[r] # "off"
BY DEF RequestInv, Requested, RequestStep, Lookup, Prepare, Insert, Emit

\* For the worker a step of the api is one of its own steps, a stutter, or a
\* crash of the api.
LEMMA ApiSteps == RequestInv /\ [UploadNext]_uploadVars => [Next]_vars \/ ApiCrash
<1> SUFFICES ASSUME RequestInv, [UploadNext]_uploadVars PROVE [Next]_vars \/ ApiCrash
  OBVIOUS
<1>1. CASE UNCHANGED uploadVars
  BY <1>1 DEF uploadVars
<1>2. ASSUME NEW r \in Request, NEW d \in Doc, Receive(r, d) PROVE UNCHANGED vars
  BY <1>2 DEF Receive
<1>3. ASSUME NEW r \in Request, RequestStep(r) PROVE [Next]_vars
  <2>1. content[r] \in Doc
    BY <1>3, RequestHasContent
  <2> QED
    BY <1>3, <2>1 DEF RequestStep, Lookup, Prepare, Insert, Emit, Next, ApiNext
<1>4. ASSUME NEW d \in Doc, Send(d) PROVE Next
  BY <1>4 DEF Send, Next, ApiNext
<1>5. ASSUME NEW s \in Stream, NEW r \in Request, Subscribe(s, r) PROVE UNCHANGED vars
  BY <1>5 DEF Subscribe
<1>6. ASSUME NEW s \in Stream, Tick(s) \/ Fetch(s) \/ Show(s) PROVE UNCHANGED vars
  BY <1>6 DEF Tick, Fetch, Show
<1>7. CASE WorkerNext
  BY <1>7 DEF Next
<1> QED
  BY <1>1, <1>2, <1>3, <1>4, <1>5, <1>6, <1>7 DEF UploadNext

\* What the api had not sent when it died is lost, and nothing else.
LEMMA ApiCrashKeepsTasks == TaskSide /\ ApiCrash => TaskSide'
<1> SUFFICES ASSUME TaskSide, ApiCrash PROVE TaskSide'
  OBVIOUS
<1>1. /\ lost' = lost \union outbox /\ outbox' = {}
      /\ UNCHANGED <<ready, dlq, rowVars, handlerVars, faultVars>>
  BY DEF ApiCrash
<1> USE <1>1 DEF TaskSide, rowVars, handlerVars, faultVars
<1>2. TypeOK'
  BY DEF TaskInv, TypeOK, RowTypeOK, BrokerTypeOK, HandlerTypeOK, FaultTypeOK
<1>3. OneCopy' /\ NewHasNoTask'
  BY DEF TaskInv, OneCopy, NewHasNoTask
<1>4. FailedInv'
  BY DEF FailedInv, FailedOnlyWhenExhausted
<1>5. ASSUME ~ChannelsClose PROVE WorkerInv' /\ FinalInv'
  <2>1. \A h \in Handler : pc[h] # "idle" => Attempt(h)'
    BY <1>5 DEF WorkerInv, Attempt, InPipeline, Key
  <2>2. \A d \in Doc : Verdict(d)'
    BY <1>5 DEF WorkerInv, Verdict
  <2>3. \A d \in Doc : Final(d)'
    BY <1>5 DEF FinalInv, Final
  <2> QED
    BY <1>5, <2>1, <2>2, <2>3 DEF WorkerInv, AllHold, FinalInv
<1> QED
  BY <1>2, <1>3, <1>4, <1>5 DEF TaskInv

\* No step of the api or of the worker breaks what the worker relies on.
LEMMA TaskSideStep == TaskSide /\ RequestInv /\ [UploadNext]_uploadVars => TaskSide'
<1> SUFFICES ASSUME TaskSide, RequestInv, [UploadNext]_uploadVars PROVE TaskSide'
  OBVIOUS
<1>1. CASE [Next]_vars
  <2>1. TypeOK'
    BY <1>1, TypeCorrectStep DEF TaskSide, TaskInv
  <2>2. TaskInv' /\ FailedInv'
    BY <1>1, <2>1, TaskInvStep, FailedInvStep DEF TaskSide, TaskInv
  <2> QED
    BY <1>1, <2>2, WorkerInvStep, FinalInvStep DEF TaskSide
<1> QED
  BY <1>1, ApiSteps, ApiCrashKeepsTasks

-----------------------------------------------------------------------------
(* Rows, as a client may read them                                         *)

\* A row is created once, nobody deletes it, and it is PENDING only until its
\* first attempt begins.
LEMMA RowsGoForward ==
    ASSUME TaskSide, RequestInv, [UploadNext]_uploadVars, NEW d \in Doc
    PROVE  /\ status'[d] # "GONE"
           /\ status[d] # "NEW" => status'[d] # "NEW"
           /\ status'[d] = "PENDING" => status[d] \in {"NEW", "PENDING"}
<1> USE DEF TaskSide, TaskInv, TypeOK, RowTypeOK, RequestInv
<1>1. CASE UNCHANGED status
  BY <1>1
<1>2. ASSUME NEW e \in Doc, Create(e) PROVE status' = [status EXCEPT ![e] = "PENDING"]
  BY <1>2 DEF Create
<1>3. ASSUME NEW e \in Doc PROVE ~Delete(e)
  BY UploadAssumption DEF Delete
<1>4. ASSUME NEW h \in Handler, HandlerStep(h)
      PROVE  /\ status'[d] # "NEW" \/ status[d] = "NEW"
             /\ status'[d] \in {status[d], "PROCESSING", "DONE", "FAILED"}
  <2>1. status[d] # "NEW" => status'[d] # "NEW"
    BY <1>4, HandlerWritesItsRow
  <2> QED
    BY <1>4, <2>1 DEF HandlerStep, Find, DropOrphan, Begin, MergeRead, StageFails, MergeWrite,
       Recompute, Mark, Finish, Ack, Fail, GiveUp, DeadLetter, Requeue, rowVars
<1>5. [Next]_vars =>
         \/ UNCHANGED status \/ \E e \in Doc : Create(e) \/ Delete(e)
         \/ \E h \in Handler : HandlerStep(h)
  BY DEF Next, ApiNext, WorkerNext, Publish, LosePublish, Deliver, WorkerCrash, ConnectionLost,
         AckTimeout, BrokerRestart, ChannelClosed, vars, rowVars
<1>6. ApiCrash => UNCHANGED status
  BY DEF ApiCrash, rowVars
<1>7. ASSUME NEW e \in Doc, Create(e)
      PROVE  /\ status'[d] # "GONE"
             /\ status'[d] # "NEW" \/ status[d] = "NEW"
             /\ status'[d] = "PENDING" => status[d] \in {"NEW", "PENDING"}
  BY <1>2, <1>7 DEF Create
<1>8. ASSUME NEW h \in Handler, HandlerStep(h)
      PROVE  /\ status'[d] # "GONE"
             /\ status'[d] # "NEW" \/ status[d] = "NEW"
             /\ status'[d] = "PENDING" => status[d] \in {"NEW", "PENDING"}
  BY <1>4, <1>8
<1>9. CASE [Next]_vars
  BY <1>1, <1>3, <1>5, <1>7, <1>8, <1>9
<1> QED
  BY <1>1, <1>6, <1>9, ApiSteps

\* The last crash of the worker is not undone.
LEMMA CrashesCount ==
    TaskSide /\ RequestInv /\ [UploadNext]_uploadVars /\ crashes' = 0 => crashes = 0
<1> SUFFICES ASSUME TaskSide, RequestInv, [UploadNext]_uploadVars, crashes' = 0 PROVE crashes = 0
  OBVIOUS
<1>1. [Next]_vars => UNCHANGED crashes \/ WorkerCrash
  <2>1. ASSUME NEW h \in Handler, HandlerStep(h) PROVE UNCHANGED crashes
    BY <2>1, HandlerWritesItsRow DEF TaskSide, TaskInv
  <2> QED
    BY <2>1 DEF Next, ApiNext, WorkerNext, Create, Publish, LosePublish, Delete, Deliver,
       ConnectionLost, AckTimeout, BrokerRestart, ChannelClosed, vars, faultVars
<1>2. WorkerCrash => crashes' # 0
  BY DEF WorkerCrash, TaskSide, TaskInv, TypeOK, FaultTypeOK
<1> QED
  BY <1>1, <1>2, ApiSteps DEF ApiCrash, faultVars

\* What was read from a row stays behind it.
LEMMA ReadStays ==
    ASSUME TaskSide, RequestInv, [UploadNext]_uploadVars, ~ChannelsClose, crashes' = 0,
           NEW d \in Doc, status[d] # "NEW", NEW st, ReadFrom(st, d)
    PROVE  ReadFrom(st, d)'
<1>1. crashes = 0 /\ status[d] \in DocStatus /\ status'[d] \in DocStatus
  BY CrashesCount, RowsGoForward, TaskSideStep
     DEF RequestInv, TaskSide, TaskInv, TypeOK, RowTypeOK
<1>2. status[d] \in Settled => status'[d] = status[d]
  <2>1. CASE [Next]_vars
    BY <1>1, <2>1, VerdictStays DEF TaskSide, Inv, DocStatus
  <2>2. CASE ApiCrash
    BY <2>2 DEF ApiCrash, rowVars
  <2> QED
    BY <2>1, <2>2, ApiSteps
<1>3. status'[d] = "PENDING" => status[d] = "PENDING"
  BY <1>1, RowsGoForward DEF DocStatus
<1>4. Rank(status[d]) <= Rank(status'[d])
  BY <1>1, <1>2, <1>3 DEF Rank, DocStatus, Settled
<1>5. Rank(st) \in Nat /\ Rank(status[d]) \in Nat /\ Rank(status'[d]) \in Nat
  BY DEF Rank
<1> QED
  BY <1>2, <1>4, <1>5 DEF ReadFrom

-----------------------------------------------------------------------------
(* Requests and streams                                                    *)

\* At the start nobody has asked for anything.
LEMMA UploadsStart == UploadInit => TaskSide /\ RequestInv /\ StreamInv /\ SeenInv
<1> SUFFICES ASSUME UploadInit PROVE TaskSide /\ RequestInv /\ StreamInv /\ SeenInv
  OBVIOUS
<1>1. TaskInv /\ FailedInv /\ WorkerInv
  BY TaskInvInit, FailedInvInit, WorkerInvInit DEF UploadInit
<1>2. FinalInv
  BY DEF UploadInit, Init, FinalInv, Final, Settled
<1>3. RequestInv
  BY DEF UploadInit, Init, RequestInv, Requested, RequestLabel, Refusal, DocStatus
<1>4. StreamInv
  BY DEF UploadInit, StreamInv, Watching
<1>5. SeenInv
  BY DEF UploadInit, SeenInv, AnswersSeen, StreamsSeen, DocStatus
<1> QED
  BY <1>1, <1>2, <1>3, <1>4, <1>5 DEF TaskSide

\* A request is answered with a status only when it read one in the row of
\* its document, or wrote the row itself.
LEMMA RequestInvStep ==
    TaskSide /\ RequestInv /\ [UploadNext]_uploadVars => RequestInv'
<1> SUFFICES ASSUME TaskSide, RequestInv, [UploadNext]_uploadVars PROVE RequestInv'
  OBVIOUS
<1> USE DEF Requested, RequestLabel, Refusal
<1>1. \A d \in Doc : status'[d] # "GONE" /\ (status[d] # "NEW" => status'[d] # "NEW")
  BY RowsGoForward
<1>2. CASE UNCHANGED requestVars
  BY <1>1, <1>2 DEF RequestInv, requestVars
<1>3. ASSUME NEW q \in Request, NEW d \in Doc, Receive(q, d) PROVE RequestInv'
  BY <1>1, <1>3 DEF RequestInv, Receive, DocStatus
<1>4. ASSUME NEW q \in Request, RequestStep(q) PROVE RequestInv'
  <2>0. content[q] \in Doc /\ rpc[q] # "off"
    BY <1>4, RequestHasContent
  <2>1. status[content[q]] \in DocStatus \union {"NEW"}
    BY <2>0 DEF TaskSide, TaskInv, TypeOK, RowTypeOK, RequestInv
  <2>2. CASE Lookup(q)
    <3>1. CASE Proceed(q, "prepare")
      BY <1>1, <2>0, <3>1 DEF RequestInv, Proceed
    <3>2. CASE status[content[q]] # "NEW" /\ Respond(q, status[content[q]])
      BY <1>1, <2>0, <2>1, <3>2 DEF RequestInv, Respond, DocStatus
    <3>3. CASE Respond(q, "error")
      BY <1>1, <2>0, <3>3 DEF RequestInv, Respond, DocStatus
    <3> QED
      BY <2>2, <3>1, <3>2, <3>3 DEF Lookup
  <2>3. CASE Prepare(q)
    BY <1>1, <2>0, <2>3 DEF RequestInv, Prepare, Proceed, Respond, DocStatus
  <2>4. CASE Insert(q)
    <3>1. CASE Create(content[q]) /\ Proceed(q, "emit")
      <4>1. status'[content[q]] = "PENDING"
        BY <2>0, <3>1 DEF Create, TaskSide, TaskInv, TypeOK, RowTypeOK
      <4> QED
        BY <1>1, <2>0, <3>1, <4>1 DEF RequestInv, Proceed
    <3>2. CASE Respond(q, "error")
      BY <1>1, <2>0, <3>2 DEF RequestInv, Respond, DocStatus
    <3> QED
      BY <2>4, <3>1, <3>2 DEF Insert
  <2>5. CASE Emit(q)
    BY <1>1, <2>0, <2>5 DEF RequestInv, Emit, Respond, DocStatus
  <2> QED
    BY <1>4, <2>2, <2>3, <2>4, <2>5 DEF RequestStep
<1>5. CASE ApiCrash
  BY <1>1, <1>5 DEF RequestInv, ApiCrash
<1> QED
  BY <1>2, <1>3, <1>4, <1>5
  DEF UploadNext, Send, Subscribe, Tick, Fetch, Show, apiVars, uploadVars

\* A tick cancels the answer on its way, and a stream ends with the answer
\* that it shows.
LEMMA StreamInvStep ==
    TaskSide /\ RequestInv /\ StreamInv /\ [UploadNext]_uploadVars => StreamInv'
<1> SUFFICES ASSUME TaskSide, RequestInv, StreamInv, [UploadNext]_uploadVars
             PROVE  StreamInv'
  OBVIOUS
<1> USE DEF Watching
<1>1. \A d \in Doc : status[d] # "NEW" => status'[d] # "NEW"
  BY RowsGoForward
<1>2. \A d \in Doc : status[d] # "NEW" => status[d] \in DocStatus
  BY DEF TaskSide, TaskInv, TypeOK, RowTypeOK, RequestInv
<1>3. CASE UNCHANGED streamVars
  BY <1>1, <1>3 DEF StreamInv, streamVars
<1>4. ASSUME NEW p \in Stream, NEW r \in Request, Subscribe(p, r) PROVE StreamInv'
  <2>1. content[r] \in Doc /\ status[content[r]] # "NEW" /\ answer[r] \in DocStatus
    BY <1>4 DEF Subscribe, RequestInv, Requested
  <2> QED
    BY <1>1, <1>4, <2>1 DEF StreamInv, Subscribe
<1>5. ASSUME NEW p \in Stream, Tick(p) PROVE StreamInv'
  BY <1>1, <1>5 DEF StreamInv, Tick
<1>6. ASSUME NEW p \in Stream, Fetch(p) PROVE StreamInv'
  <2>1. watched[p] \in Doc /\ status[watched[p]] \in DocStatus /\ fetched[p] = {}
    BY <1>2, <1>6 DEF StreamInv, Fetch
  <2> QED
    BY <1>1, <1>6, <2>1 DEF StreamInv, Fetch
<1>7. ASSUME NEW p \in Stream, Show(p) PROVE StreamInv'
  <2>1. PICK st \in DocStatus :
          /\ fetched[p] = {st}
          /\ fetched' = [fetched EXCEPT ![p] = {}]
          /\ shown' = [shown EXCEPT ![p] = st]
          /\ spc' = [spc EXCEPT ![p] = IF st \in Settled THEN "closed" ELSE @]
    <3>1. PICK st \in fetched[p] :
            /\ fetched' = [fetched EXCEPT ![p] = @ \ {st}]
            /\ shown' = [shown EXCEPT ![p] = st]
            /\ spc' = [spc EXCEPT ![p] = IF Terminal(st) THEN "closed" ELSE @]
      BY <1>7 DEF Show
    <3>2. st \in DocStatus /\ fetched[p] = {st}
      BY <3>1 DEF StreamInv
    <3> QED
      BY <3>1, <3>2 DEF StreamInv, Terminal, Settled
  <2> QED
    BY <1>1, <1>7, <2>1 DEF StreamInv, Show
<1>8. CASE ApiCrash
  BY <1>1, <1>8 DEF StreamInv, ApiCrash
<1> QED
  BY <1>3, <1>4, <1>5, <1>6, <1>7, <1>8
  DEF UploadNext, Receive, RequestStep, Lookup, Prepare, Insert, Emit, Send, apiVars, uploadVars

\* As long as no redelivery reopens a document, what a client has read of it,
\* and what is on its way to the client, was true once and still is if it is a
\* verdict.
LEMMA SeenInvStep ==
    /\ TaskSide /\ RequestInv /\ StreamInv /\ SeenInv /\ [UploadNext]_uploadVars
    /\ ~ChannelsClose /\ crashes' = 0
    => SeenInv'
<1> SUFFICES ASSUME TaskSide, RequestInv, StreamInv, SeenInv, [UploadNext]_uploadVars,
                    ~ChannelsClose, crashes' = 0
             PROVE  SeenInv'
  OBVIOUS
<1>1. \A d \in Doc, st \in DocStatus :
         status[d] # "NEW" /\ ReadFrom(st, d) => ReadFrom(st, d)'
  BY ReadStays
<1>2. \A r \in Request : answer[r] \in DocStatus =>
         content[r] \in Doc /\ status[content[r]] # "NEW"
  BY DEF RequestInv, Requested
<1>3. \A s \in Stream : spc[s] # "off" =>
         /\ watched[s] \in Doc /\ status[watched[s]] # "NEW"
         /\ shown[s] \in DocStatus /\ fetched[s] \subseteq DocStatus
  BY DEF StreamInv, Watching
<1>4. \A d \in Doc : status[d] # "NEW" => status[d] \in DocStatus /\ ReadFrom(status[d], d)
  BY DEF ReadFrom, Rank, TaskSide, TaskInv, TypeOK, RowTypeOK, RequestInv
<1>5. AnswersSeen /\ StreamsSeen
  BY DEF SeenInv
<1>6. ASSUME UNCHANGED requestVars PROVE AnswersSeen'
  BY <1>1, <1>2, <1>5, <1>6 DEF requestVars, AnswersSeen
<1>7. ASSUME UNCHANGED streamVars PROVE StreamsSeen'
  BY <1>1, <1>3, <1>5, <1>7 DEF streamVars, StreamsSeen
<1>8. ASSUME NEW q \in Request, NEW d \in Doc, Receive(q, d) PROVE SeenInv'
  <2>1. answer[q] = "none" /\ UNCHANGED streamVars
    BY <1>8 DEF Receive, RequestInv, Requested
  <2>2. \A r \in Request : answer'[r] \in DocStatus =>
           content'[r] = content[r] /\ answer'[r] = answer[r]
    BY <1>8, <2>1 DEF Receive, RequestInv, DocStatus
  <2> QED
    BY <1>1, <1>2, <1>5, <1>7, <2>1, <2>2 DEF SeenInv, AnswersSeen
<1>9. ASSUME NEW q \in Request, RequestStep(q) PROVE SeenInv'
  <2>1. content[q] \in Doc /\ UNCHANGED <<content, streamVars>>
    BY <1>9, RequestHasContent
       DEF RequestStep, Lookup, Prepare, Insert, Emit, Proceed, Respond
  <2>2. ASSUME NEW r \in Request, r # q PROVE answer'[r] = answer[r]
    BY <1>9, <2>2 DEF RequestStep, Lookup, Prepare, Insert, Emit, Proceed, Respond, RequestInv
  <2>3. answer'[q] \in DocStatus =>
          \/ answer'[q] = answer[q]
          \/ status[content[q]] # "NEW" /\ answer'[q] \in {status[content[q]], "PENDING"}
    BY <1>9, <2>1
    DEF RequestStep, Lookup, Prepare, Insert, Emit, Proceed, Respond, RequestInv, Requested,
        DocStatus
  <2>4. status[content[q]] # "NEW" => ReadFrom("PENDING", content[q])
    BY <1>4, <2>1 DEF ReadFrom, Rank, Settled, DocStatus
  <2>5. answer'[q] \in DocStatus => ReadFrom(answer[q], content[q])'
    BY <1>1, <1>2, <1>4, <1>5, <2>1, <2>3, <2>4 DEF AnswersSeen
  <2>6. AnswersSeen'
    BY <1>1, <1>2, <1>5, <2>1, <2>2, <2>5 DEF AnswersSeen
  <2> QED
    BY <1>7, <2>1, <2>6 DEF SeenInv
<1>10. ASSUME NEW p \in Stream, NEW r \in Request, Subscribe(p, r) PROVE SeenInv'
  <2>1. /\ fetched'[p] = {} /\ shown'[p] = answer[r] /\ watched'[p] = content[r]
        /\ answer[r] \in DocStatus
        /\ \A s \in Stream \ {p} : /\ spc'[s] = spc[s] /\ watched'[s] = watched[s]
                                 /\ fetched'[s] = fetched[s] /\ shown'[s] = shown[s]
        /\ UNCHANGED requestVars
    BY <1>10 DEF Subscribe, StreamInv, Watching
  <2>2. ReadFrom(answer[r], content[r]) /\ content[r] \in Doc /\ status[content[r]] # "NEW"
    BY <1>2, <1>5, <2>1 DEF AnswersSeen
  <2>3. StreamsSeen'
    BY <1>1, <1>3, <1>5, <2>1, <2>2 DEF StreamsSeen
  <2> QED
    BY <1>6, <2>1, <2>3 DEF SeenInv
<1>11. ASSUME NEW p \in Stream, Tick(p) PROVE SeenInv'
  <2>1. /\ \A s \in Stream : fetched'[s] \subseteq fetched[s]
        /\ UNCHANGED <<spc, watched, shown, requestVars>>
    BY <1>11 DEF Tick, StreamInv
  <2>2. StreamsSeen'
    BY <1>1, <1>3, <1>5, <2>1 DEF StreamsSeen
  <2> QED
    BY <1>6, <2>1, <2>2 DEF SeenInv
<1>12. ASSUME NEW p \in Stream, Fetch(p) PROVE SeenInv'
  <2>1. spc[p] # "off" /\ watched[p] \in Doc /\ status[watched[p]] # "NEW"
    BY <1>3, <1>12 DEF Fetch
  <2>2. /\ fetched'[p] \subseteq fetched[p] \union {status[watched[p]]}
        /\ \A s \in Stream \ {p} : fetched'[s] = fetched[s]
        /\ \A s \in Stream : spc'[s] # "off" => spc[s] # "off"
        /\ UNCHANGED <<watched, shown, requestVars>>
    BY <1>12 DEF Fetch, StreamInv
  <2>3. Rank(shown[p]) <= Rank(status[watched[p]])
    BY <1>5, <2>1 DEF ReadFrom, StreamsSeen
  <2>4. StreamsSeen'
    BY <1>1, <1>3, <1>4, <1>5, <2>1, <2>2, <2>3 DEF StreamsSeen
  <2> QED
    BY <1>6, <2>2, <2>4 DEF SeenInv
<1>13. ASSUME NEW p \in Stream, Show(p) PROVE SeenInv'
  <2>1. PICK st \in fetched[p] :
          /\ fetched' = [fetched EXCEPT ![p] = @ \ {st}]
          /\ shown' = [shown EXCEPT ![p] = st]
    BY <1>13 DEF Show
  <2>2. spc[p] # "off" /\ fetched[p] = {st}
    BY <1>13, <2>1 DEF Show, StreamInv, Watching
  <2>3. /\ fetched'[p] = {} /\ shown'[p] = st
        /\ \A s \in Stream \ {p} : fetched'[s] = fetched[s] /\ shown'[s] = shown[s]
        /\ \A s \in Stream : spc'[s] # "off" => spc[s] # "off"
        /\ UNCHANGED <<watched, requestVars>>
    BY <1>13, <2>1, <2>2 DEF Show, StreamInv
  <2>4. StreamsSeen'
    BY <1>1, <1>3, <1>5, <2>1, <2>2, <2>3 DEF StreamsSeen
  <2> QED
    BY <1>6, <2>3, <2>4 DEF SeenInv
<1>14. CASE ApiCrash
  BY <1>1, <1>2, <1>3, <1>5, <1>14 DEF ApiCrash, SeenInv, AnswersSeen, StreamsSeen
<1>15. CASE UNCHANGED <<requestVars, streamVars>>
  BY <1>6, <1>7, <1>15 DEF SeenInv
<1> QED
  BY <1>8, <1>9, <1>10, <1>11, <1>12, <1>13, <1>14, <1>15
  DEF UploadNext, Send, apiVars, uploadVars

-----------------------------------------------------------------------------
(* Theorems                                                                *)

\* What every state of the specification satisfies.
LEMMA UploadInvHolds ==
    UploadSpec => [](/\ TaskSide /\ RequestInv /\ StreamInv
                     /\ ~ChannelsClose /\ crashes = 0 => SeenInv)
<1>1. /\ TaskSide /\ RequestInv /\ StreamInv /\ [UploadNext]_uploadVars
      /\ ~ChannelsClose /\ crashes = 0 => SeenInv
      => (~ChannelsClose /\ crashes = 0 => SeenInv)'
  BY SeenInvStep, CrashesCount
<1> QED
  BY <1>1, UploadsStart, TaskSideStep, RequestInvStep, StreamInvStep, PTL DEF UploadSpec

\* Every request and every stream stays in one of its states (documents.service.ts,
\* documents.controller.ts), and a stream never has two answers on their way.
THEOREM UploadTypeCorrect == UploadSpec => []UploadTypeOK
<1>1. RequestInv /\ StreamInv => UploadTypeOK
  BY DEF RequestInv, StreamInv, Watching, UploadTypeOK
<1> QED
  BY <1>1, UploadInvHolds, PTL

\* However uploads of one content overlap, and whoever crashes, a document has
\* at most one task, and it is in one place (documents.service.ts).
THEOREM UploadsDuplicateNothing == UploadSpec => []OneCopy
<1>1. TaskSide => OneCopy
  BY DEF TaskSide, TaskInv
<1> QED
  BY <1>1, UploadInvHolds, PTL

\* What a client reads of a document never goes back, as long as no redelivery
\* reopens the document: switchMap drops the answers that come too late.
THEOREM StreamsGoForward == UploadSpec => ShownGoesForward
<1>1. /\ TaskSide /\ RequestInv /\ StreamInv /\ [UploadNext]_uploadVars
      /\ ~ChannelsClose /\ crashes = 0 => SeenInv
      => [\A s \in Stream : ~ChannelsClose /\ crashes = 0
             => Rank(shown[s]) <= Rank(shown'[s])]_uploadVars
  <2> SUFFICES ASSUME StreamInv, SeenInv, UploadNext, NEW s \in Stream
               PROVE  Rank(shown[s]) <= Rank(shown'[s])
    OBVIOUS
  <2>1. CASE shown'[s] = shown[s]
    BY <2>1 DEF Rank
  <2>2. ASSUME NEW p \in Stream, NEW r \in Request, Subscribe(p, r)
        PROVE  shown'[s] = shown[s] \/ shown[s] = "none"
    BY <2>2 DEF Subscribe, StreamInv, Watching
  <2>3. ASSUME NEW p \in Stream, Show(p)
        PROVE  shown'[s] = shown[s] \/ Rank(shown[s]) <= Rank(shown'[s])
    BY <2>3 DEF Show, StreamInv, SeenInv, StreamsSeen
  <2>4. \/ shown'[s] = shown[s]
        \/ \E p \in Stream, r \in Request : Subscribe(p, r)
        \/ \E p \in Stream : Show(p)
    BY DEF UploadNext, Receive, RequestStep, Lookup, Prepare, Insert, Emit, Send, Tick, Fetch,
           ApiCrash, streamVars, apiVars
  <2>5. shown[s] = "none" => Rank(shown[s]) <= Rank(shown'[s])
    BY DEF Rank
  <2> QED
    BY <2>1, <2>2, <2>3, <2>4, <2>5
<1> QED
  BY <1>1, UploadInvHolds, PTL DEF UploadSpec, ShownGoesForward

\* A stream that has ended has told its client the verdict, which nothing but
\* a crash of the worker can reopen (documents.controller.ts).
THEOREM StreamsEndWithVerdict == UploadSpec => []ClosedShowsVerdict
<1>1. StreamInv /\ (~ChannelsClose /\ crashes = 0 => SeenInv) => ClosedShowsVerdict
  BY DEF StreamInv, Watching, SeenInv, StreamsSeen, ReadFrom, ClosedShowsVerdict
<1> QED
  BY <1>1, UploadInvHolds, PTL
=============================================================================

------------------------------ MODULE Uploads -------------------------------
(***************************************************************************)
(* The api process, in front of the worker of Processing: concurrent       *)
(* uploads of the same or of different content                             *)
(* (server/src/documents/documents.service.ts), and the clients that watch *)
(* a document through the event stream                                     *)
(* (server/src/documents/documents.controller.ts).                         *)
(*                                                                         *)
(* An upload looks the content up, reads the file, inserts the row and     *)
(* only then emits the task: four moments at which another upload, the     *)
(* worker or a crash of the api may come in between.                       *)
(***************************************************************************)
EXTENDS Processing

CONSTANTS
    Request,        \* upload requests
    Stream,         \* event streams
    TooLarge,       \* contents over MAX_FILE_SIZE_MB
    Unreadable,     \* contents of no supported type
    Untyped,        \* contents that are a text if the client says so
    MaxApiCrashes,  \* bound: crashes of the api process
    MaxApiFaults    \* bound: database calls of the api that throw

ASSUME UploadAssumption ==
    /\ TooLarge \subseteq Doc /\ Unreadable \subseteq Doc /\ Untyped \subseteq Doc
    /\ Deletable = {}
    /\ MaxApiCrashes \in Nat /\ MaxApiFaults \in Nat

VARIABLES
    rpc, content, answer,               \* the requests
    spc, watched, asked, fetched, shown, \* the streams
    apiCrashes, apiFaults

requestVars == <<rpc, content, answer>>
streamVars  == <<spc, watched, asked, fetched, shown>>
apiVars     == <<requestVars, streamVars, apiCrashes, apiFaults>>
uploadVars  == <<vars, apiVars>>

RequestLabel == {"off", "lookup", "prepare", "insert", "emit", "over"}
Refusal == {"none", "tooLarge", "unsupported", "error"}

UploadInit ==
    /\ Init
    /\ rpc = [r \in Request |-> "off"]
    /\ content = [r \in Request |-> NoDoc]
    /\ answer = [r \in Request |-> "none"]
    /\ spc = [s \in Stream |-> "off"]
    /\ watched = [s \in Stream |-> NoDoc]
    /\ asked = [s \in Stream |-> FALSE]
    /\ fetched = [s \in Stream |-> {}]
    /\ shown = [s \in Stream |-> "none"]
    /\ apiCrashes = 0 /\ apiFaults = 0

-----------------------------------------------------------------------------
(* uploadDocument                                                          *)

ApiFault == apiFaults < MaxApiFaults /\ apiFaults' = apiFaults + 1

Proceed(r, label) ==
    /\ rpc' = [rpc EXCEPT ![r] = label]
    /\ UNCHANGED <<content, answer>>

Respond(r, a) ==
    /\ rpc' = [rpc EXCEPT ![r] = "over"]
    /\ answer' = [answer EXCEPT ![r] = a]
    /\ UNCHANGED content

\* assertFileSize comes before anything else.
Receive(r, d) ==
    /\ rpc[r] = "off"
    /\ content' = [content EXCEPT ![r] = d]
    /\ IF d \in TooLarge
       THEN /\ rpc' = [rpc EXCEPT ![r] = "over"]
            /\ answer' = [answer EXCEPT ![r] = "tooLarge"]
       ELSE /\ rpc' = [rpc EXCEPT ![r] = "lookup"]
            /\ UNCHANGED answer
    /\ UNCHANGED <<vars, streamVars, apiCrashes, apiFaults>>

\* Known content is answered from its row, whatever state that row is in, and
\* nothing is published.
Lookup_Republishes(r) ==
    LET d == content[r] IN
    /\ rpc[r] = "lookup"
    /\ IF status[d] = "NEW"
       THEN Proceed(r, "prepare") /\ UNCHANGED vars
       ELSE /\ Respond(r, status[d])
            /\ outbox' = outbox \union {d}
            /\ UNCHANGED <<ready, dlq, lost, rowVars, handlerVars, faultVars>>
    /\ UNCHANGED <<streamVars, apiCrashes, apiFaults>>

Lookup(r) ==
    LET known == status[content[r]] # "NEW" IN
    /\ rpc[r] = "lookup"
    /\ \/ ~known /\ Proceed(r, "prepare") /\ UNCHANGED apiFaults
       \/ known /\ Respond(r, status[content[r]]) /\ UNCHANGED apiFaults
       \/ ApiFault /\ Respond(r, "error")
    /\ UNCHANGED <<vars, streamVars, apiCrashes>>

\* detectMimeType: the type is read off the content, except that a content
\* without a signature is believed to be the text it is declared to be.
Supported(d, declaredAsText) ==
    d \notin Unreadable /\ (d \in Untyped => declaredAsText)

\* Text, metrics, author, tampering and metadata: nothing that another
\* request or the worker reads before the row exists.
Prepare(r) ==
    /\ rpc[r] = "prepare"
    /\ \/ /\ \E declaredAsText \in BOOLEAN :
            IF Supported(content[r], declaredAsText)
            THEN Proceed(r, "insert")
            ELSE Respond(r, "unsupported")
          /\ UNCHANGED apiFaults
       \/ ApiFault /\ Respond(r, "error")
    /\ UNCHANGED <<vars, streamVars, apiCrashes>>

\* contentHash is unique: of two uploads that both missed the cache, one gets
\* its row, and the other an internal error.
Insert(r) ==
    LET d == content[r] IN
    /\ rpc[r] = "insert"
    /\ \/ Create(d) /\ Proceed(r, "emit") /\ UNCHANGED apiFaults
       \/ /\ status[d] # "NEW"
          /\ Respond(r, "error") /\ UNCHANGED <<vars, apiFaults>>
       \/ ApiFault /\ Respond(r, "error") /\ UNCHANGED vars
    /\ UNCHANGED <<streamVars, apiCrashes>>

\* publishAnalysisTask hands the message to the client library and returns;
\* the answer is the row as it was inserted.
Emit(r) ==
    /\ rpc[r] = "emit"
    /\ Respond(r, "PENDING")
    /\ UNCHANGED <<vars, streamVars, apiCrashes, apiFaults>>

\* The message leaves, or fails to, only after it was emitted.
Emitted(d) == ~\E r \in Request : rpc[r] = "emit" /\ content[r] = d

Send(d) ==
    /\ Emitted(d)
    /\ Publish(d) \/ LosePublish(d)
    /\ UNCHANGED apiVars

-----------------------------------------------------------------------------
(* The event stream: a timer, a query for every tick, and an event for     *)
(* every answer that no later tick has cancelled (switchMap).              *)

\* A client knows the id of a document from the answer to an upload.
Subscribe(s, r) ==
    /\ spc[s] = "off" /\ rpc[r] = "over" /\ answer[r] \in DocStatus
    /\ spc' = [spc EXCEPT ![s] = "open"]
    /\ watched' = [watched EXCEPT ![s] = content[r]]
    /\ shown' = [shown EXCEPT ![s] = answer[r]]
    /\ UNCHANGED <<asked, fetched, vars, requestVars, apiCrashes, apiFaults>>

Tick_CancelsNothing(s) ==
    /\ spc[s] = "open"
    /\ asked' = [asked EXCEPT ![s] = TRUE]
    /\ UNCHANGED <<spc, watched, fetched, shown, vars, requestVars,
                   apiCrashes, apiFaults>>

Tick(s) ==
    /\ spc[s] = "open"
    /\ asked' = [asked EXCEPT ![s] = TRUE]
    /\ fetched' = [fetched EXCEPT ![s] = {}]
    /\ UNCHANGED <<spc, watched, shown, vars, requestVars, apiCrashes, apiFaults>>

\* getById: the status as the database has it now, or an error that ends the
\* stream.
Fetch(s) ==
    /\ spc[s] = "open" /\ asked[s]
    /\ asked' = [asked EXCEPT ![s] = FALSE]
    /\ \/ /\ fetched' = [fetched EXCEPT ![s] = @ \union {status[watched[s]]}]
          /\ UNCHANGED <<spc, apiFaults>>
       \/ /\ ApiFault
          /\ spc' = [spc EXCEPT ![s] = "broken"]
          /\ UNCHANGED fetched
    /\ UNCHANGED <<watched, shown, vars, requestVars, apiCrashes>>

Terminal_DoneOnly(st) == st = "DONE"
Terminal(st) == st \in {"DONE", "FAILED"}

\* takeWhile is inclusive: the verdict is still sent before the stream ends.
Show_Exclusive(s) ==
    /\ spc[s] = "open"
    /\ \E st \in fetched[s] :
        /\ fetched' = [fetched EXCEPT ![s] = @ \ {st}]
        /\ IF Terminal(st)
           THEN spc' = [spc EXCEPT ![s] = "closed"] /\ UNCHANGED shown
           ELSE shown' = [shown EXCEPT ![s] = st] /\ UNCHANGED spc
    /\ UNCHANGED <<watched, asked, vars, requestVars, apiCrashes, apiFaults>>

Show(s) ==
    /\ spc[s] = "open"
    /\ \E st \in fetched[s] :
        /\ fetched' = [fetched EXCEPT ![s] = @ \ {st}]
        /\ shown' = [shown EXCEPT ![s] = st]
        /\ spc' = [spc EXCEPT ![s] = IF Terminal(st) THEN "closed" ELSE @]
    /\ UNCHANGED <<watched, asked, vars, requestVars, apiCrashes, apiFaults>>

-----------------------------------------------------------------------------
\* The api process dies: its requests and streams are cut off, and whatever
\* it had not sent is gone.
ApiCrash ==
    /\ apiCrashes < MaxApiCrashes
    /\ apiCrashes' = apiCrashes + 1
    /\ lost' = lost \union outbox
    /\ outbox' = {}
    /\ rpc' = [r \in Request |-> IF rpc[r] = "off" THEN "off" ELSE "over"]
    /\ spc' = [s \in Stream |-> IF spc[s] = "open" THEN "broken" ELSE spc[s]]
    /\ UNCHANGED <<content, answer, watched, asked, fetched, shown,
                   ready, dlq, rowVars, handlerVars, faultVars, apiFaults>>

RequestStep(r) == Lookup(r) \/ Prepare(r) \/ Insert(r) \/ Emit(r)

UploadNext ==
    \/ \E r \in Request, d \in Doc : Receive(r, d)
    \/ \E r \in Request : RequestStep(r)
    \/ \E d \in Doc : Send(d)
    \/ \E s \in Stream, r \in Request : Subscribe(s, r)
    \/ \E s \in Stream : Tick(s) \/ Fetch(s) \/ Show(s)
    \/ ApiCrash
    \/ WorkerNext /\ UNCHANGED apiVars

\* The worker is scheduled as in Processing, and so is the api.  The timer of
\* a stream ticks for ever; an answer may be late for some ticks, but not for
\* all of them.
UploadFairness ==
    /\ \A h \in Handler : WF_uploadVars(HandlerStep(h) /\ UNCHANGED apiVars)
    /\ \A d \in Doc :
        WF_uploadVars((\E h \in Handler : Deliver(h, d)) /\ UNCHANGED apiVars)
    /\ \A d \in Doc : WF_uploadVars(Send(d))
    /\ \A r \in Request : WF_uploadVars(RequestStep(r))
    /\ \A s \in Stream :
        WF_uploadVars(Tick(s)) /\ WF_uploadVars(Fetch(s)) /\ SF_uploadVars(Show(s))

UploadSpec == UploadInit /\ [][UploadNext]_uploadVars
FairUploadSpec == UploadSpec /\ UploadFairness

-----------------------------------------------------------------------------
(* What the api promises                                                   *)

\* Every request and every stream is in one of its states, and a stream has
\* at most one answer on its way.
UploadTypeOK ==
    /\ rpc \in [Request -> RequestLabel]
    /\ content \in [Request -> Doc \union {NoDoc}]
    /\ answer \in [Request -> Refusal \union DocStatus]
    /\ spc \in [Stream -> {"off", "open", "closed", "broken"}]
    /\ watched \in [Stream -> Doc \union {NoDoc}]
    /\ shown \in [Stream -> {"none"} \union DocStatus]
    /\ \A s \in Stream :
        /\ fetched[s] \subseteq DocStatus
        /\ asked[s] => fetched[s] = {}

Rank(st) == CASE st = "none" -> 0 [] st = "PENDING" -> 1
              [] st = "PROCESSING" -> 2 [] OTHER -> 3

\* What one client reads of a document, first in the answer to an upload and
\* then on the stream, never goes back, as long as no redelivery reopens the
\* document: no late answer overtakes a newer one.
ShownGoesForward ==
    [][\A s \in Stream : ~ChannelsClose /\ crashes = 0
           => Rank(shown[s]) <= Rank(shown'[s])]_uploadVars

\* A stream that has ended has told its client the verdict, and it is still
\* the verdict unless the worker crashed.
ClosedShowsVerdict ==
    \A s \in Stream : spc[s] = "closed" =>
        /\ shown[s] \in Settled
        /\ ~ChannelsClose /\ crashes = 0 => shown[s] = status[watched[s]]

\* Every stream ends, unless the task of its document was lost.
StreamEnds ==
    \A s \in Stream :
        spc[s] = "open" ~> spc[s] # "open" \/ watched[s] \in lost

\* "From here on the document is processed asynchronously by the worker
\* through RabbitMQ" (documents.service.ts): an upload that arrives when the
\* api crashes no more leads to a verdict, unless it is refused.
UploadIsProcessed ==
    \A r \in Request, d \in Doc :
        content[r] = d /\ rpc[r] = "lookup" /\ apiCrashes = MaxApiCrashes ~>
            status[d] \in Settled \/ (rpc[r] = "over" /\ answer[r] \in Refusal)
=============================================================================

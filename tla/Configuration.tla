---------------------------- MODULE Configuration ----------------------------
(***************************************************************************)
(* What the system is configured with, and by whom: the start of the api,  *)
(* which declares the queues and fills empty tables before it listens      *)
(* (QueueTopologyService, SettingsService, DictionarySeedService); the     *)
(* requests and the hand edits that change the tables; the worker, which   *)
(* reads them table by table while it analyses a document.                 *)
(*                                                                         *)
(* The api dies when a hook of its start throws, or at any other moment,   *)
(* and is started again; tables and queues are durable.  One document is   *)
(* followed; its task is retried or dead-lettered as Processing shows.     *)
(***************************************************************************)
EXTENDS Integers, Sequences, FiniteSets, Functions

CONSTANTS
    Phrase, DefaultCliches,     \* ClicheWord: phrases, and category -> defaults
    Spelling, Normal,           \* words as typed, and trimmed in lower case
    DefaultJunkWords, Norm, DefaultNorm,
    Feature, DefaultWeight,     \* features of the AI detector
    Updates,                    \* what PUT /weights may carry: sequences of items
    Request,                    \* requests, each sent at most once
    ConnectAttempts,            \* CONNECT_ATTEMPTS
    Score, Perplexities,        \* what the features and nlp-service answer
    MaxDeaths, MaxOutages, MaxHandEdits     \* bounds

Category == DOMAIN DefaultCliches
Word == {Normal[s] : s \in Spelling}

ASSUME ConfigurationAssumption ==
    /\ Category = {"BUREAUCRATIC", "AI_CLICHE"}
    /\ \A c \in Category : DefaultCliches[c] \subseteq Phrase /\ DefaultCliches[c] # {}
    /\ DefaultJunkWords \subseteq Word /\ DefaultJunkWords # {}
    /\ Norm \subseteq Nat \ {0} /\ DefaultNorm \in Norm
    /\ IsFiniteSet(Feature) /\ "perplexity" \in Feature
    /\ DefaultWeight \in [Feature -> Nat]
    /\ Updates \subseteq Seq([feature : STRING, weight : Int, enabled : SUBSET BOOLEAN])
    /\ ConnectAttempts \in Nat \ {0}
    /\ Score \subseteq 0..1000 /\ Perplexities \subseteq Nat
    /\ MaxDeaths \in Nat /\ MaxOutages \in Nat /\ MaxHandEdits \in Nat

VARIABLES
    rows,           \* table -> key -> the rest of the row
    serial,         \* for the ids of junk words: one per INSERT
    broker, queues, \* is it up; the queues that exist
    api,            \* [at, todo, tries, seed]: where the start is
    request,        \* the requests in flight and answered
    worker, task, read,     \* is it up; the task, and what it has read
    emptied,        \* dictionaries an editor has emptied, or all of whose
                    \* defaults he has entered in the other category
    deaths, outages, handEdits

stores  == <<rows, serial>>
queue   == <<broker, queues, task>>
reader  == <<worker, read>>
history == <<emptied, deaths, outages, handEdits>>
vars == <<stores, queue, api, request, reader, history>>

Empty == [k \in {} |-> 0]
\* createMany with skipDuplicates: the rows that are there stay as they are.
Under(table, more) ==
    [k \in DOMAIN table \union DOMAIN more |->
        IF k \in DOMAIN table THEN table[k] ELSE more[k]]

\* onModuleInit of the queue topology, the settings and the dictionaries.
Hook == {"topology", "settings", "dictionaries"}

\* The dictionaries in the order in which they are seeded.
Seeds == <<"BUREAUCRATIC", "AI_CLICHE", "junkWords", "weights">>
Table(s) == IF s \in Category THEN "cliches" ELSE s
\* The keys that count({ where }) finds.
Counted(s) ==
    IF s \in Category THEN {p \in DOMAIN rows.cliches : rows.cliches[p] = s}
    ELSE DOMAIN rows[s]
Defaults(s) ==
    CASE s \in Category -> [p \in DefaultCliches[s] |-> s]
      [] s = "junkWords" -> [w \in DefaultJunkWords |-> serial]
      [] s = "weights" -> [f \in Feature |-> [weight |-> DefaultWeight[f], enabled |-> TRUE]]

Down == [at |-> "down", todo |-> {}, tries |-> 0, seed |-> 0]

Init ==
    /\ rows = [t \in {"cliches", "junkWords", "weights", "norm"} |-> Empty]
    /\ serial = 0
    /\ broker \in {"up", "down"} /\ queues = {}
    /\ api = Down
    /\ request = [r \in Request |-> [op |-> "none"]]
    /\ worker = "down" /\ task = "none" /\ read = [weights |-> Empty]
    /\ emptied = {} /\ deaths = 0 /\ outages = 0 /\ handEdits = 0

-----------------------------------------------------------------------------
(* The start of the api.  Nest awaits the hooks one after the other, in an  *)
(* order its modules decide, and listens after the last one.                *)

Goto(label) ==
    api' = IF label \in {"starting", "listening"}
           THEN [Down EXCEPT !.at = label, !.todo = api.todo]
           ELSE [api EXCEPT !.at = label]

\* A hook throws, or the process is killed: nobody answers its requests.
Die ==
    /\ api' = Down
    /\ request' = [r \in Request |->
         IF request[r].op \in {"update", "remove"} THEN [op |-> "lost"] ELSE request[r]]

Start ==
    /\ api.at = "down"
    /\ api' = [Down EXCEPT !.at = "starting", !.todo = Hook]
    /\ UNCHANGED <<stores, queue, request, reader, history>>

RunHook(h) ==
    /\ api.at = "starting" /\ h \in api.todo
    /\ api' = [at |-> CASE h = "topology" -> "connect" [] h = "settings" -> "findNorm"
                        [] h = "dictionaries" -> "count",
               todo |-> api.todo \ {h}, tries |-> 0, seed |-> 1]
    /\ UNCHANGED <<stores, queue, request, reader, history>>

Listen_Early ==
    /\ api.at = "starting"
    /\ Goto("listening")
    /\ UNCHANGED <<stores, queue, request, reader, history>>
Listen ==
    /\ api.at = "starting" /\ api.todo = {}
    /\ Goto("listening")
    /\ UNCHANGED <<stores, queue, request, reader, history>>

\* connectWithRetry: the last failed attempt throws.
Connect_Forgiving ==
    /\ api.at = "connect"
    /\ \/ broker = "up" /\ Goto("declareDeadLetters")
       \/ broker = "down" /\ api' = [api EXCEPT !.at = "starting"]
    /\ UNCHANGED <<stores, queue, request, reader, history>>
Connect_OneMore ==
    /\ api.at = "connect"
    /\ \/ broker = "up" /\ Goto("declareDeadLetters") /\ UNCHANGED request
       \/ /\ broker = "down" /\ api.tries < ConnectAttempts
          /\ api' = [api EXCEPT !.tries = @ + 1] /\ UNCHANGED request
       \/ broker = "down" /\ api.tries = ConnectAttempts /\ Die
    /\ UNCHANGED <<stores, queue, reader, history>>
Connect ==
    /\ api.at = "connect"
    /\ \/ broker = "up" /\ Goto("declareDeadLetters") /\ UNCHANGED request
       \/ /\ broker = "down" /\ api.tries + 1 < ConnectAttempts
          /\ api' = [api EXCEPT !.tries = @ + 1] /\ UNCHANGED request
       \/ broker = "down" /\ api.tries + 1 = ConnectAttempts /\ Die
    /\ UNCHANGED <<stores, queue, reader, history>>

\* assertQueue, once for each of the two; without the broker it throws.
Declare(name, from, to) ==
    /\ api.at = from
    /\ IF broker = "up"
       THEN queues' = queues \union {name} /\ Goto(to) /\ UNCHANGED request
       ELSE Die /\ UNCHANGED queues
    /\ UNCHANGED <<stores, broker, task, reader, history>>

Topology ==
    \/ Declare("deadLetters", "declareDeadLetters", "declareTasks")
    \/ Declare("tasks", "declareTasks", "starting")

\* SettingsService.onModuleInit: findUnique, then create.
FindNorm_Unasked ==
    /\ api.at = "findNorm"
    /\ Goto("createNorm")
    /\ UNCHANGED <<stores, queue, request, reader, history>>
FindNorm ==
    /\ api.at = "findNorm"
    /\ Goto(IF rows.norm = Empty THEN "createNorm" ELSE "starting")
    /\ UNCHANGED <<stores, queue, request, reader, history>>

CreateNorm ==
    /\ api.at = "createNorm"
    /\ IF rows.norm = Empty
       THEN /\ rows' = [rows EXCEPT !.norm = [k \in {"pageNorm"} |-> DefaultNorm]]
            /\ Goto("starting") /\ UNCHANGED request
       ELSE Die /\ UNCHANGED rows
    /\ UNCHANGED <<serial, queue, reader, history>>

\* DictionarySeedService: count each dictionary, fill those without a row.
Seeded(label) ==
    IF label = "count" /\ api.seed = Len(Seeds) THEN Goto("starting")
    ELSE api' = [api EXCEPT !.at = label, !.seed = IF label = "count" THEN @ + 1 ELSE @]

CountRows_NotAsked ==
    /\ api.at = "count"
    /\ Seeded("fill")
    /\ UNCHANGED <<stores, queue, request, reader, history>>
CountRows ==
    /\ api.at = "count"
    /\ Seeded(IF Counted(Seeds[api.seed]) = {} THEN "fill" ELSE "count")
    /\ UNCHANGED <<stores, queue, request, reader, history>>

Fill ==
    LET s == Seeds[api.seed] IN
    /\ api.at = "fill"
    /\ rows' = [rows EXCEPT ![Table(s)] = Under(@, Defaults(s))]
    /\ serial' = IF s = "junkWords" THEN serial + 1 ELSE serial
    /\ Seeded("count")
    /\ emptied' = IF DOMAIN Defaults(s) \subseteq DOMAIN rows[Table(s)]
                  THEN emptied \union {s} ELSE emptied
    /\ UNCHANGED <<queue, request, reader, deaths, outages, handEdits>>

ApiStep ==
    \/ Start \/ Listen \/ Connect \/ Topology \/ FindNorm \/ CreateNorm \/ CountRows \/ Fill
    \/ \E h \in Hook : RunHook(h)

ApiDies ==
    /\ api.at # "down" /\ deaths < MaxDeaths
    /\ Die
    /\ deaths' = deaths + 1
    /\ UNCHANGED <<stores, queue, reader, emptied, outages, handEdits>>

-----------------------------------------------------------------------------
(* Editing: PUT /page-norm, POST and DELETE /junk-words, PUT /weights, and  *)
(* ClicheWord by hand.                                                      *)

Served(r) == api.at = "listening" /\ request[r].op = "none"
Answer(r, code) == request' = [request EXCEPT ![r] = code]

SetPageNorm(r, n) ==
    /\ Served(r)
    /\ rows' = [rows EXCEPT !.norm = [k \in {"pageNorm"} |-> n]]
    /\ Answer(r, [op |-> "done"])
    /\ UNCHANGED <<serial, queue, api, reader, history>>

\* An upsert that changes nothing if the word is there.
AddJunkWord(r, spelling) ==
    /\ Served(r)
    /\ rows' = [rows EXCEPT !.junkWords = Under(@, [w \in {Normal[spelling]} |-> serial])]
    /\ serial' = serial + 1
    /\ Answer(r, [op |-> "done"])
    /\ UNCHANGED <<queue, api, reader, history>>

\* remove: findUnique by id, and delete, which throws if the row is gone.
Exists(id) == id[1] \in DOMAIN rows.junkWords /\ rows.junkWords[id[1]] = id[2]

FindJunkWord(r, id) ==
    /\ Served(r)
    /\ Answer(r, IF Exists(id) THEN [op |-> "remove", id |-> id] ELSE [op |-> "notFound"])
    /\ UNCHANGED <<stores, queue, api, reader, history>>

Without(table, k) == Restrict(table, DOMAIN table \ {k})

DeleteJunkWord_Many(r) ==
    LET id == request[r].id IN
    /\ request[r].op = "remove"
    /\ Answer(r, [op |-> "removed", id |-> id])
    /\ rows' = IF Exists(id) THEN [rows EXCEPT !.junkWords = Without(@, id[1])] ELSE rows
    /\ emptied' = IF rows'.junkWords = Empty THEN emptied \union {"junkWords"} ELSE emptied
    /\ UNCHANGED <<serial, queue, api, reader, deaths, outages, handEdits>>
DeleteJunkWord(r) ==
    LET id == request[r].id IN
    /\ request[r].op = "remove"
    /\ IF Exists(id)
       THEN /\ rows' = [rows EXCEPT !.junkWords = Without(@, id[1])]
            /\ Answer(r, [op |-> "removed", id |-> id])
       ELSE Answer(r, [op |-> "internalError"]) /\ UNCHANGED rows
    /\ emptied' = IF rows'.junkWords = Empty THEN emptied \union {"junkWords"} ELSE emptied
    /\ UNCHANGED <<serial, queue, api, reader, deaths, outages, handEdits>>

\* updateMany: one upsert per item; a row without "enabled" in the item keeps
\* its own, a new one is enabled.
ReceiveUpdate(r, items) ==
    /\ Served(r)
    /\ Answer(r, [op |-> "update", items |-> items])
    /\ UNCHANGED <<stores, queue, api, reader, history>>

Upserted(item) ==
    [weight |-> item.weight,
     enabled |-> IF item.enabled # {} THEN TRUE \in item.enabled
                 ELSE item.feature \in DOMAIN rows.weights => rows.weights[item.feature].enabled]

UpsertNext(r) ==
    LET items == request[r].items IN
    /\ request[r].op = "update"
    /\ IF items = <<>> THEN Answer(r, [op |-> "done"]) /\ UNCHANGED rows
       ELSE /\ rows' = [rows EXCEPT !.weights =
                  Under([f \in {Head(items).feature} |-> Upserted(Head(items))], @)]
            /\ Answer(r, [op |-> "update", items |-> Tail(items)])
    /\ UNCHANGED <<serial, queue, api, reader, history>>

\* INSERT and DELETE by hand; the phrase is unique over both categories.
EditCliche(p) ==
    /\ handEdits < MaxHandEdits
    /\ handEdits' = handEdits + 1
    /\ \/ \E c \in Category :
             /\ p \notin DOMAIN rows.cliches
             /\ rows' = [rows EXCEPT !.cliches = Under(@, [q \in {p} |-> c])]
             /\ UNCHANGED emptied
       \/ /\ p \in DOMAIN rows.cliches
          /\ rows' = [rows EXCEPT !.cliches = Without(@, p)]
          /\ emptied' = emptied \union {c \in Category :
                 Counted(c) # {} /\ \A q \in DOMAIN rows'.cliches : rows'.cliches[q] # c}
    /\ UNCHANGED <<serial, queue, api, request, reader, deaths, outages>>

Edit ==
    \/ \E r \in Request :
         \/ \E n \in Norm : SetPageNorm(r, n)
         \/ \E s \in Spelling : AddJunkWord(r, s)
         \/ \E id \in Word \X (0..serial-1) : FindJunkWord(r, id)
         \/ \E items \in Updates : ReceiveUpdate(r, items)
         \/ DeleteJunkWord(r) \/ UpsertNext(r)
    \/ \E p \in Phrase : EditCliche(p)

-----------------------------------------------------------------------------
(* The broker, the worker, and the document.                                *)

BrokerFalls ==
    /\ broker = "up" /\ outages < MaxOutages
    /\ broker' = "down" /\ outages' = outages + 1
    /\ UNCHANGED <<stores, queues, task, api, request, reader, emptied, deaths, handEdits>>
BrokerRises ==
    /\ broker = "down" /\ broker' = "up"
    /\ UNCHANGED <<stores, queues, task, api, request, reader, history>>

\* Whoever connects to the queue of the tasks declares it, with the same
\* arguments as the api.
WithTasks == queues \union {"tasks"}

\* Started by compose when the api has become healthy.
WorkerStarts ==
    /\ worker = "down" /\ api.at = "listening" /\ broker = "up"
    /\ worker' = "up" /\ queues' = WithTasks
    /\ UNCHANGED <<stores, broker, task, api, request, read, history>>

\* The client of the api connects when it is first used.
Publish ==
    /\ task = "none" /\ api.at = "listening" /\ broker = "up"
    /\ task' = "queued" /\ queues' = WithTasks
    /\ UNCHANGED <<stores, broker, api, request, reader, history>>

\* StyleService, SpamService, AiDetectorService and its cliche feature read
\* what they need once each, in this order.
Read(from, to, table) ==
    /\ worker = "up" /\ task = from /\ task' = to
    /\ read' = [weights |-> IF table = "weights" THEN rows.weights ELSE Empty]
    /\ UNCHANGED <<stores, broker, queues, api, request, worker, history>>

Analyse ==
    \/ Read("queued", "style", "BUREAUCRATIC") \/ Read("style", "spam", "junkWords")
    \/ Read("spam", "detector", "weights") \/ Read("detector", "done", "AI_CLICHE")

\* A failed attempt that was not the last one, and one that was.
Retry ==
    /\ worker = "up" /\ task \in {"style", "spam", "detector"}
    /\ task' = "queued" /\ read' = [weights |-> Empty]
    /\ UNCHANGED <<stores, broker, queues, api, request, worker, history>>
DeadLetter ==
    /\ worker = "up" /\ task \in {"queued", "style", "spam", "detector"} /\ broker = "up"
    /\ task' = IF "deadLetters" \in queues THEN "deadLettered" ELSE "dropped"
    /\ read' = [weights |-> Empty]
    /\ UNCHANGED <<stores, broker, queues, api, request, worker, history>>

-----------------------------------------------------------------------------
(* The AI detector: a weighted mean of the scores of the enabled features.  *)
(* A feature whose score is not a number leaves with its weight; without    *)
(* such a rule it would count as a score of -1.  Scores are in thousandths. *)

NaN == -1

\* The lower the perplexity, the more like a machine.  No score if the feature
\* is off here or in nlp-service (503), or if nlp-service fails.
PerplexityScore(p) ==
    IF p = NaN THEN NaN ELSE IF p > 150 THEN 0 ELSE (2000 * (150 - p) + 150) \div 300

Scores ==
    {s \in [Feature -> Score \union {NaN} \union {PerplexityScore(p) : p \in Perplexities}] :
        s["perplexity"] \in {PerplexityScore(p) : p \in Perplexities \union {NaN}}}

Used_Unavailable(table, scores) == {f \in Feature \intersect DOMAIN table : table[f].enabled}
Used(table, scores) ==
    {f \in Feature \intersect DOMAIN table : table[f].enabled /\ scores[f] # NaN}

AiProbability(table, scores) ==
    LET U == Used(table, scores)
        weights == SumFunctionOnSet([f \in U |-> table[f].weight], U)
        sum == SumFunctionOnSet([f \in U |-> table[f].weight * scores[f]], U)
    IN IF weights > 0 THEN (2 * sum + weights) \div (2 * weights) ELSE 0

-----------------------------------------------------------------------------
Next ==
    \/ ApiStep \/ ApiDies \/ Edit
    \/ BrokerFalls \/ BrokerRises \/ WorkerStarts \/ Publish
    \/ Analyse \/ Retry \/ DeadLetter

Spec == Init /\ [][Next]_vars

\* Compose restarts the api and the broker whenever they stop, and starts the
\* worker once the api is healthy; a started api goes on.
FairSpec == Spec /\ WF_vars(ApiStep) /\ WF_vars(BrokerRises) /\ WF_vars(WorkerStarts)

-----------------------------------------------------------------------------
(* Properties.                                                              *)

\* The tables hold rows of their own kind, and the api never makes more than
\* CONNECT_ATTEMPTS attempts.
TypeOK ==
    /\ \A p \in DOMAIN rows.cliches : p \in Phrase /\ rows.cliches[p] \in Category
    /\ \A w \in DOMAIN rows.junkWords : w \in Word /\ rows.junkWords[w] \in 0..serial
    /\ \A f \in DOMAIN rows.weights :
           rows.weights[f].weight \in Int /\ rows.weights[f].enabled \in BOOLEAN
    /\ \A k \in DOMAIN rows.norm : k = "pageNorm" /\ rows.norm[k] \in Norm
    /\ serial \in Nat /\ queues \subseteq {"tasks", "deadLetters"}
    /\ api.todo \subseteq Hook /\ api.tries \in 0..ConnectAttempts-1

\* "Without them, on an empty database, every document would always get zero"
\* (dictionary-seed.service.ts): from the first task on, whatever died at the
\* start, there is a page norm, every feature has a weight, and a dictionary
\* has an entry unless an editor has taken the last one out.
AnalysisIsConfigured ==
    task # "none" =>
        /\ rows.norm # Empty
        /\ Feature \subseteq DOMAIN rows.weights
        /\ \A s \in Category \union {"junkWords"} : Counted(s) # {} \/ s \in emptied

\* "Without this step the exchange would silently lose the message"
\* (queue-topology.service.ts): however often the start broke off, no task is
\* dead-lettered before the queue for it exists.
DeadLettersAreKept == task # "dropped"

\* "Idempotent - does not touch data already edited" (README.md): a start of
\* the api changes a table that requests edit only if it has no row at all,
\* and no row of ClicheWord.
SeedTouchesNoEdits ==
    [][api.at # "listening" /\ handEdits' = handEdits =>
          /\ \A t \in {"junkWords", "weights", "norm"} : rows'[t] = rows[t] \/ rows[t] = Empty
          /\ \A p \in DOMAIN rows.cliches :
                 p \in DOMAIN rows'.cliches /\ rows'.cliches[p] = rows.cliches[p]]_vars

\* Of the requests that remove one junk word at the same time, one is told
\* that it did; a word that was added again is another row
\* (JunkWordsService.remove).
RemovedOnce ==
    \A q, r \in Request :
        q # r /\ request[q].op = "removed" /\ request[r].op = "removed"
        => request[q].id # request[r].id

\* Whatever the weights are edited to while the document is analysed and
\* whichever features have no score, the probability lies between the least
\* and the largest score used, so long as no weight is negative
\* (AiDetectorService.analyze).
ProbabilityIsAMean ==
    \A scores \in Scores :
        LET available == {f \in Feature \intersect DOMAIN read.weights :
                read.weights[f].enabled /\ scores[f] # NaN}
            p == AiProbability(read.weights, scores)
        IN /\ \A f \in available : read.weights[f].weight >= 0
           /\ \E f \in available : read.weights[f].weight > 0
           => /\ \E f \in available : scores[f] <= p
              /\ \E f \in available : p <= scores[f]

\* Whenever the broker is there in the end, so are the api and the worker: no
\* state an interrupted start leaves behind makes every later one throw
\* (QueueTopologyService, SettingsService, docker-compose.yml).
ApiListens == <>[](api.at = "listening" /\ worker = "up")
=============================================================================

-------------------------- MODULE ConfigurationProofs --------------------------
(***************************************************************************)
(* Proofs about Configuration, for any dictionaries, features, updates and  *)
(* requests, any number of attempts to connect, of deaths and of outages.   *)
(***************************************************************************)
EXTENDS Configuration, SumProofs

TableName == {"cliches", "junkWords", "weights", "norm"}
Item == [feature : STRING, weight : Int, enabled : SUBSET BOOLEAN]
Label == {"down", "starting", "listening", "connect", "declareDeadLetters", "declareTasks",
          "findNorm", "createNorm", "count", "fill"}
Tries == 0..ConnectAttempts-1
Entry == [weight : Int, enabled : BOOLEAN]

ApiTypeOK ==
    /\ api \in [at : Label, todo : SUBSET Hook, tries : Tries, seed : 0..4]
    /\ api.at \in {"count", "fill"} => api.seed # 0
    /\ api.at \in {"listening", "down"} => api.todo = {}
    /\ queues \subseteq {"tasks", "deadLetters"}

\* An update or a removal is in flight only while the api listens.
RequestTypeOK ==
    /\ request = [r \in Request |-> request[r]]
    /\ \A r \in Request :
           /\ request[r].op = "update" => request[r].items \in Seq(Item)
           /\ request[r].op \in {"update", "remove"} => api.at = "listening"

\* TypeOK, with the tables as functions and junk words numbered below serial.
ClichesOK == \A p \in DOMAIN rows.cliches : p \in Phrase /\ rows.cliches[p] \in Category
JunkWordsOK ==
    \A w \in DOMAIN rows.junkWords :
        w \in Word /\ rows.junkWords[w] \in Nat /\ rows.junkWords[w] < serial
WeightsOK == \A f \in DOMAIN rows.weights : rows.weights[f] \in Entry
NormOK == \A k \in DOMAIN rows.norm : k = "pageNorm" /\ rows.norm[k] \in Norm

RowsTypeOK ==
    /\ rows = [t \in TableName |-> rows[t]]
    /\ \A t \in TableName : rows[t] = [k \in DOMAIN rows[t] |-> rows[t][k]]
    /\ ClichesOK /\ JunkWordsOK /\ WeightsOK /\ NormOK
    /\ serial \in Nat

TypeInv == ApiTypeOK /\ RequestTypeOK /\ RowsTypeOK

-----------------------------------------------------------------------------
(* Tables                                                                  *)

\* A table without rows is the empty table.
LEMMA NoRows ==
    ASSUME NEW f, f = [k \in DOMAIN f |-> f[k]]
    PROVE  f = Empty <=> DOMAIN f = {}
BY DEF Empty

\* The four dictionaries in the order of their seeding, and their tables.
LEMMA SeedFacts ==
    /\ Len(Seeds) = 4
    /\ Seeds[1] = "BUREAUCRATIC" /\ Seeds[2] = "AI_CLICHE"
    /\ Seeds[3] = "junkWords" /\ Seeds[4] = "weights"
    /\ Category = {"BUREAUCRATIC", "AI_CLICHE"}
    /\ \A i \in 1..4 :
          \/ Seeds[i] \in Category /\ Table(Seeds[i]) = "cliches"
          \/ Seeds[i] \in {"junkWords", "weights"} /\ Seeds[i] \notin Category
             /\ Table(Seeds[i]) = Seeds[i]
BY ConfigurationAssumption DEF Seeds, Table

-----------------------------------------------------------------------------
(* Types                                                                   *)

\* Before the first start the tables are empty and of the right types.
LEMMA TypeInit == Init => TypeInv
BY ConfigurationAssumption DEF Init, TypeInv, ApiTypeOK, RequestTypeOK, RowsTypeOK, ClichesOK,
   JunkWordsOK, WeightsOK, NormOK, Down, Empty, Hook, Label, Tries, TableName

\* Where a step of the start goes.
LEMMA Moves ==
    ASSUME ApiTypeOK
    PROVE  /\ \A label \in Label \ {"down", "listening", "count", "fill"} :
                  Goto(label) => /\ api'.at = label /\ api'.todo = api.todo
                                 /\ api' \in [at : Label, todo : SUBSET Hook, tries : Tries, seed : 0..4]
           /\ Die => /\ api' = Down
                     /\ \A r \in Request : request'[r].op \notin {"update", "remove"}
           /\ Down \in [at : Label, todo : SUBSET Hook, tries : Tries, seed : 0..4]
           /\ Down.at = "down" /\ Down.todo = {}
<1>1. 0 \in Tries
  BY ConfigurationAssumption DEF Tries
<1>2. /\ Down \in [at : Label, todo : SUBSET Hook, tries : Tries, seed : 0..4]
      /\ Down.at = "down" /\ Down.todo = {}
  BY <1>1 DEF Down, Label
<1>3. ASSUME NEW label \in Label \ {"down", "listening", "count", "fill"}, Goto(label)
      PROVE  /\ api'.at = label /\ api'.todo = api.todo
             /\ api' \in [at : Label, todo : SUBSET Hook, tries : Tries, seed : 0..4]
  <2>1. CASE label = "starting"
    <3>1. api' = [Down EXCEPT !.at = "starting", !.todo = api.todo]
      BY <1>3, <2>1 DEF Goto
    <3>2. "starting" \in Label /\ api.todo \in SUBSET Hook
      BY DEF ApiTypeOK, Label
    <3>3. api'.at = "starting" /\ api'.todo = api.todo
      BY <1>2, <3>1
    <3>4. api' \in [at : Label, todo : SUBSET Hook, tries : Tries, seed : 0..4]
      BY <1>2, <3>1, <3>2
    <3> QED
      BY <2>1, <3>3, <3>4
  <2>2. CASE label # "starting"
    <3>1. api' = [api EXCEPT !.at = label]
      BY <1>3, <2>2 DEF Goto
    <3> QED
      BY <1>3, <3>1 DEF ApiTypeOK, Label
  <2> QED
    BY <2>1, <2>2
<1>4. Die => /\ api' = Down
             /\ \A r \in Request : request'[r].op \notin {"update", "remove"}
  BY DEF Die
<1> QED
  BY <1>2, <1>3, <1>4

\* Where the seeding goes after a count or a filling.
LEMMA SeededMoves ==
    ASSUME ApiTypeOK, api.at \in {"count", "fill"}, NEW label \in {"count", "fill"}, Seeded(label)
    PROVE  /\ api' \in [at : Label, todo : SUBSET Hook, tries : Tries, seed : 0..4]
           /\ api'.todo = api.todo
           /\ \/ label = "count" /\ api.seed = 4 /\ api'.at = "starting"
              \/ label = "count" /\ api.seed # 4 /\ api'.at = "count" /\ api'.seed = api.seed + 1
              \/ label = "fill" /\ api'.at = "fill" /\ api'.seed = api.seed
<1>1. CASE label = "count" /\ api.seed = 4
  BY <1>1, Moves, SeedFacts DEF Seeded, Label
<1>2. CASE ~(label = "count" /\ api.seed = 4)
  <2>1. api' = [api EXCEPT !.at = label, !.seed = IF label = "count" THEN @ + 1 ELSE @]
    BY <1>2, SeedFacts DEF Seeded
  <2>2. api.seed + 1 \in 0..4 \/ label = "fill"
    BY <1>2 DEF ApiTypeOK
  <2>3. api' \in [at : Label, todo : SUBSET Hook, tries : Tries, seed : 0..4]
    BY <2>1, <2>2 DEF ApiTypeOK, Label
  <2> QED
    BY <1>2, <2>1, <2>3 DEF ApiTypeOK
<1> QED
  BY <1>1, <1>2

\* No step leaves the labels of the start, its hooks or its attempts.
LEMMA ApiTyped == TypeInv /\ [Next]_vars => ApiTypeOK'
<1> SUFFICES ASSUME TypeInv, [Next]_vars PROVE ApiTypeOK'
  OBVIOUS
<1>0. ApiTypeOK
  BY DEF TypeInv
<1>1. CASE Start
  BY <1>0, <1>1, Moves DEF Start, ApiTypeOK, Label, Hook, Down, queue
<1>2. ASSUME NEW h \in Hook, RunHook(h) PROVE ApiTypeOK'
  <2>1. 0 \in Tries
    BY ConfigurationAssumption DEF Tries
  <2> QED
    BY <1>0, <1>2, <2>1 DEF RunHook, ApiTypeOK, Label, Hook, queue
<1>3. CASE Listen
  <2>1. api' = [at |-> "listening", todo |-> {}, tries |-> 0, seed |-> 0] /\ queues' = queues
    BY <1>3 DEF Listen, Goto, Down, queue
  <2>2. 0 \in Tries
    BY ConfigurationAssumption DEF Tries
  <2>3. api' \in [at : Label, todo : SUBSET Hook, tries : Tries, seed : 0..4]
    BY <2>1, <2>2 DEF Label
  <2> QED
    BY <1>0, <2>1, <2>3 DEF ApiTypeOK
<1>4. CASE Connect
  <2>1. CASE Goto("declareDeadLetters") \/ Die
    BY <1>0, <1>4, <2>1, Moves DEF Connect, ApiTypeOK, Label, queue
  <2>2. CASE api.tries + 1 < ConnectAttempts /\ api' = [api EXCEPT !.tries = @ + 1]
    <3>1. api.tries + 1 \in Tries
      BY <1>0, <2>2, ConfigurationAssumption DEF ApiTypeOK, Tries
    <3> QED
      BY <1>0, <1>4, <2>2, <3>1 DEF Connect, ApiTypeOK, queue
  <2> QED
    BY <1>4, <2>1, <2>2 DEF Connect
<1>5. CASE Topology
  <2>1. queues' \subseteq {"tasks", "deadLetters"}
    BY <1>0, <1>5 DEF Topology, Declare, ApiTypeOK
  <2>2. Goto("declareTasks") \/ Goto("starting") \/ Die
    BY <1>5 DEF Topology, Declare
  <2> QED
    BY <1>0, <2>1, <2>2, Moves DEF ApiTypeOK, Label
<1>6. CASE FindNorm \/ CreateNorm
  BY <1>0, <1>6, Moves DEF FindNorm, CreateNorm, ApiTypeOK, Label, queue
<1>7. CASE CountRows \/ Fill
  <2>1. /\ queues' = queues /\ api.at \in {"count", "fill"}
        /\ Seeded("count") \/ Seeded("fill")
    BY <1>7 DEF CountRows, Fill, queue
  <2> QED
    BY <1>0, <2>1, SeededMoves DEF ApiTypeOK
<1>8. CASE ApiDies
  BY <1>0, <1>8, Moves DEF ApiDies, ApiTypeOK, queue
<1>9. CASE UNCHANGED vars
  BY <1>0, <1>9 DEF vars, queue, ApiTypeOK
<1>10. CASE Edit
  BY <1>0, <1>10 DEF Edit, SetPageNorm, AddJunkWord, FindJunkWord, ReceiveUpdate, DeleteJunkWord,
                 UpsertNext, EditCliche, queue, ApiTypeOK
<1>11. CASE BrokerFalls \/ BrokerRises \/ WorkerStarts \/ Publish \/ Analyse \/ Retry \/ DeadLetter
  BY <1>0, <1>11 DEF BrokerFalls, BrokerRises, WorkerStarts, Publish, WithTasks, Analyse, Read,
                 Retry, DeadLetter, ApiTypeOK
<1> QED
  BY <1>1, <1>2, <1>3, <1>4, <1>5, <1>6, <1>7, <1>8, <1>9, <1>10, <1>11 DEF Next, ApiStep

\* The requests.  Die leaves none of them in flight.
LEMMA RequestsTyped == TypeInv /\ [Next]_vars => RequestTypeOK'
<1> SUFFICES ASSUME TypeInv, [Next]_vars PROVE RequestTypeOK'
  OBVIOUS
<1>0. ApiTypeOK /\ RequestTypeOK
  BY DEF TypeInv
<1>1. CASE Die
  BY <1>0, <1>1, Moves DEF Die, RequestTypeOK
<1>2. CASE request' = request /\ (api'.at = "listening" \/ api.at # "listening")
  BY <1>0, <1>2 DEF RequestTypeOK
<1>3. CASE Edit
  <2>1. ASSUME NEW r \in Request, NEW items \in Updates, ReceiveUpdate(r, items)
        PROVE  RequestTypeOK'
    BY <1>0, <2>1, ConfigurationAssumption DEF ReceiveUpdate, Served, Answer, RequestTypeOK, Item
  <2>2. ASSUME NEW r \in Request, UpsertNext(r) PROVE RequestTypeOK'
    <3>1. request[r].items \in Seq(Item)
      BY <1>0, <2>2 DEF UpsertNext, RequestTypeOK
    <3>2. request[r].items # <<>> => Tail(request[r].items) \in Seq(Item)
      BY <3>1
    <3>3. /\ api' = api /\ api.at = "listening"
          /\ \/ Answer(r, [op |-> "done"])
             \/ Answer(r, [op |-> "update", items |-> Tail(request[r].items)])
                /\ request[r].items # <<>>
      BY <1>0, <2>2 DEF UpsertNext, RequestTypeOK
    <3>4. request' = [request EXCEPT ![r] = request'[r]]
      BY <1>0, <3>3 DEF Answer, RequestTypeOK
    <3>5. \/ request'[r] = [op |-> "done"]
          \/ /\ request'[r] = [op |-> "update", items |-> Tail(request[r].items)]
             /\ request[r].items # <<>>
      BY <1>0, <3>3 DEF Answer, RequestTypeOK
    <3>6. /\ request'[r].op \in {"done", "update"}
          /\ request'[r].op = "update" => request'[r].items \in Seq(Item)
      <4>1. PICK items : items = Tail(request[r].items)
        OBVIOUS
      <4>2. CASE request'[r] = [op |-> "done"]
        BY <4>2
      <4>3. CASE request'[r] = [op |-> "update", items |-> items] /\ items \in Seq(Item)
        BY <4>3
      <4> QED
        BY <3>2, <3>5, <4>1, <4>2, <4>3
    <3> QED
      BY <1>0, <3>3, <3>4, <3>6 DEF RequestTypeOK
  <2>3. ASSUME NEW r \in Request, NEW id, FindJunkWord(r, id) PROVE RequestTypeOK'
    BY <1>0, <2>3 DEF FindJunkWord, Served, Answer, RequestTypeOK
  <2>4. ASSUME NEW r \in Request, DeleteJunkWord(r) PROVE RequestTypeOK'
    BY <1>0, <2>4 DEF DeleteJunkWord, Answer, RequestTypeOK
  <2>5. ASSUME NEW r \in Request,
               (\E n \in Norm : SetPageNorm(r, n)) \/ \E s \in Spelling : AddJunkWord(r, s)
        PROVE  RequestTypeOK'
    <3>1. api' = api /\ Answer(r, [op |-> "done"])
      BY <2>5 DEF SetPageNorm, AddJunkWord
    <3> QED
      BY <1>0, <3>1 DEF Answer, RequestTypeOK
  <2>6. ASSUME NEW p \in Phrase, EditCliche(p) PROVE RequestTypeOK'
    BY <1>0, <2>6 DEF EditCliche, RequestTypeOK
  <2> QED
    BY <1>3, <2>1, <2>2, <2>3, <2>4, <2>5, <2>6 DEF Edit
<1>4. CASE ApiStep
  BY <1>1, <1>2, <1>4 DEF ApiStep, Start, Listen, Connect, Topology, Declare, FindNorm, CreateNorm,
                 CountRows, Fill, RunHook
<1>5. CASE ApiDies \/ UNCHANGED vars
  BY <1>1, <1>2, <1>5 DEF ApiDies, vars
<1>6. CASE BrokerFalls \/ BrokerRises \/ WorkerStarts \/ Publish \/ Analyse \/ Retry \/ DeadLetter
  BY <1>2, <1>6 DEF BrokerFalls, BrokerRises, WorkerStarts, Publish, Analyse, Read, Retry, DeadLetter
<1> QED
  BY <1>3, <1>4, <1>5, <1>6 DEF Next

\* A step that replaces one table.
LEMMA ReplaceTable ==
    ASSUME RowsTypeOK, NEW t \in TableName, NEW f, f = [k \in DOMAIN f |-> f[k]],
           rows' = [rows EXCEPT ![t] = f]
    PROVE  /\ rows'[t] = f /\ \A u \in TableName \ {t} : rows'[u] = rows[u]
           /\ rows' = [u \in TableName |-> rows'[u]]
           /\ \A u \in TableName : rows'[u] = [k \in DOMAIN rows'[u] |-> rows'[u][k]]
BY DEF RowsTypeOK

\* The default rows of a dictionary are rows of its table.
LEMMA DefaultsTyped ==
    ASSUME RowsTypeOK, NEW i \in 1..4
    PROVE  /\ Seeds[i] \in Category =>
                  /\ DOMAIN Defaults(Seeds[i]) = DefaultCliches[Seeds[i]]
                  /\ \A p \in DefaultCliches[Seeds[i]] : Defaults(Seeds[i])[p] = Seeds[i]
           /\ Seeds[i] = "junkWords" =>
                  /\ DOMAIN Defaults(Seeds[i]) = DefaultJunkWords
                  /\ \A w \in DefaultJunkWords : Defaults(Seeds[i])[w] = serial
           /\ Seeds[i] = "weights" =>
                  /\ DOMAIN Defaults(Seeds[i]) = Feature
                  /\ \A f \in Feature : Defaults(Seeds[i])[f] \in Entry
<1>1. CASE Seeds[i] \in Category
  BY <1>1, SeedFacts DEF Defaults
<1>2. CASE Seeds[i] = "junkWords"
  BY <1>2, SeedFacts DEF Defaults
<1>3. CASE Seeds[i] = "weights"
  BY <1>3, SeedFacts, ConfigurationAssumption DEF Defaults, Entry
<1> QED
  BY <1>1, <1>2, <1>3, SeedFacts

\* What a filled dictionary looks like.
LEMMA Fills ==
    ASSUME TypeInv, Fill, NEW i, i = api.seed
    PROVE  LET s == Seeds[i] IN
           /\ i \in 1..4 /\ Table(s) \in TableName
           /\ rows'[Table(s)] = Under(rows[Table(s)], Defaults(s))
           /\ \A u \in TableName \ {Table(s)} : rows'[u] = rows[u]
           /\ rows' = [u \in TableName |-> rows'[u]]
           /\ \A u \in TableName : rows'[u] = [k \in DOMAIN rows'[u] |-> rows'[u][k]]
<1>1. i \in 1..4
  BY DEF Fill, TypeInv, ApiTypeOK
<1>2. Table(Seeds[i]) \in TableName
  BY <1>1, SeedFacts DEF TableName
<1>3. rows' = [rows EXCEPT ![Table(Seeds[i])] = Under(rows[Table(Seeds[i])], Defaults(Seeds[i]))]
  BY DEF Fill
<1> QED
  <2> DEFINE f == Under(rows[Table(Seeds[i])], Defaults(Seeds[i]))
  <2>1. f = [k \in DOMAIN f |-> f[k]]
    BY DEF Under
  <2> HIDE DEF f
  <2>2. rows' = [rows EXCEPT ![Table(Seeds[i])] = f]
    BY <1>3 DEF f
  <2>3. rows'[Table(Seeds[i])] = f /\ \A u \in TableName \ {Table(Seeds[i])} : rows'[u] = rows[u]
    BY <1>2, <2>1, <2>2, ReplaceTable DEF TypeInv
  <2>4. /\ rows' = [u \in TableName |-> rows'[u]]
        /\ \A u \in TableName : rows'[u] = [k \in DOMAIN rows'[u] |-> rows'[u][k]]
    BY <1>2, <2>1, <2>2, ReplaceTable DEF TypeInv
  <2> QED
    BY <1>1, <1>2, <2>3, <2>4 DEF f

\* Filling a table keeps its rows and adds rows of its kind.
LEMMA FillTyped ==
    ASSUME TypeInv, Fill
    PROVE  RowsTypeOK'
<1>1. PICK i : i = api.seed
  OBVIOUS
<1> DEFINE s == Seeds[i]
           D == Defaults(s)
           R == rows[Table(s)]
<1>2. /\ i \in 1..4 /\ Table(s) \in TableName /\ rows'[Table(s)] = Under(R, D)
      /\ \A u \in TableName \ {Table(s)} : rows'[u] = rows[u]
      /\ rows' = [u \in TableName |-> rows'[u]]
      /\ \A u \in TableName : rows'[u] = [k \in DOMAIN rows'[u] |-> rows'[u][k]]
  BY <1>1, Fills
<1>3. /\ DOMAIN Under(R, D) = DOMAIN R \union DOMAIN D
      /\ \A k \in DOMAIN R : Under(R, D)[k] = R[k]
      /\ \A k \in DOMAIN D \ DOMAIN R : Under(R, D)[k] = D[k]
  BY DEF Under
<1>4. serial' \in Nat /\ serial <= serial' /\ (s = "junkWords" => serial < serial')
  BY <1>1 DEF Fill, TypeInv, RowsTypeOK
<1>5. CASE s \in Category
  <2>1. Table(s) = "cliches"
    BY <1>5 DEF Table
  <2>2. \A p \in DOMAIN D : p \in Phrase /\ D[p] \in Category
    BY <1>2, <1>5, DefaultsTyped, ConfigurationAssumption DEF TypeInv
  <2>3. ClichesOK'
    BY <1>2, <1>3, <2>1, <2>2 DEF ClichesOK, TypeInv, RowsTypeOK
  <2>4. JunkWordsOK' /\ WeightsOK' /\ NormOK'
    BY <1>2, <1>4, <2>1 DEF JunkWordsOK, WeightsOK, NormOK, TypeInv, RowsTypeOK, TableName
  <2> QED
    BY <1>2, <1>4, <2>3, <2>4 DEF RowsTypeOK
<1>6. CASE s = "junkWords"
  <2>1. Table(s) = "junkWords"
    BY <1>6, SeedFacts DEF Table
  <2>2. \A w \in DOMAIN D : w \in Word /\ D[w] = serial
    BY <1>2, <1>6, DefaultsTyped, ConfigurationAssumption DEF TypeInv
  <2>3. JunkWordsOK'
    BY <1>2, <1>3, <1>4, <1>6, <2>1, <2>2 DEF JunkWordsOK, TypeInv, RowsTypeOK
  <2>4. ClichesOK' /\ WeightsOK' /\ NormOK'
    BY <1>2, <2>1 DEF ClichesOK, WeightsOK, NormOK, TypeInv, RowsTypeOK, TableName
  <2> QED
    BY <1>2, <1>4, <2>3, <2>4 DEF RowsTypeOK
<1>7. CASE s = "weights"
  <2>1. Table(s) = "weights"
    BY <1>7, SeedFacts DEF Table
  <2>2. \A f \in DOMAIN D : D[f] \in Entry
    BY <1>2, <1>7, DefaultsTyped DEF TypeInv
  <2>3. WeightsOK'
    BY <1>2, <1>3, <2>1, <2>2 DEF WeightsOK, TypeInv, RowsTypeOK
  <2>4. ClichesOK' /\ JunkWordsOK' /\ NormOK'
    BY <1>2, <1>4, <2>1 DEF ClichesOK, JunkWordsOK, NormOK, TypeInv, RowsTypeOK, TableName
  <2> QED
    BY <1>2, <1>4, <2>3, <2>4 DEF RowsTypeOK
<1> QED
  BY <1>2, <1>5, <1>6, <1>7, SeedFacts

\* The other steps that change a row, one table each.
LEMMA NormTyped ==
    ASSUME TypeInv, rows' # rows, CreateNorm \/ \E r \in Request, n \in Norm : SetPageNorm(r, n)
    PROVE  /\ RowsTypeOK' /\ rows'["norm"] # Empty /\ serial' = serial
           /\ \A u \in TableName \ {"norm"} : rows'[u] = rows[u]
<1>1. PICK n \in Norm : rows' = [rows EXCEPT !["norm"] = [k \in {"pageNorm"} |-> n]]
  BY ConfigurationAssumption DEF CreateNorm, SetPageNorm
<1> DEFINE f == [k \in {"pageNorm"} |-> n]
<1>2. /\ rows'["norm"] = f
      /\ \A u \in TableName \ {"norm"} : rows'[u] = rows[u]
      /\ rows' = [u \in TableName |-> rows'[u]]
      /\ \A u \in TableName : rows'[u] = [k \in DOMAIN rows'[u] |-> rows'[u][k]]
  <2>1. f = [k \in DOMAIN f |-> f[k]] /\ "norm" \in TableName
    BY DEF TableName
  <2>2. rows' = [rows EXCEPT !["norm"] = f]
    BY <1>1
  <2> HIDE DEF f
  <2> QED
    BY <2>1, <2>2, ReplaceTable DEF TypeInv
<1>3. serial' = serial
  BY DEF CreateNorm, SetPageNorm
<1>4. NormOK' /\ rows'["norm"] # Empty
  BY <1>2 DEF NormOK, Empty
<1>5. ClichesOK' /\ JunkWordsOK' /\ WeightsOK'
  BY <1>2, <1>3 DEF ClichesOK, JunkWordsOK, WeightsOK, TypeInv, RowsTypeOK, TableName
<1> QED
  BY <1>2, <1>3, <1>4, <1>5 DEF RowsTypeOK, TypeInv

\* Adding a junk word changes at most the row of that word.
LEMMA AddTyped ==
    ASSUME TypeInv, NEW r \in Request, NEW spelling \in Spelling, AddJunkWord(r, spelling)
    PROVE  /\ RowsTypeOK' /\ serial' = serial + 1
           /\ \A u \in TableName \ {"junkWords"} : rows'[u] = rows[u]
           /\ DOMAIN rows'["junkWords"] = DOMAIN rows["junkWords"] \union {Normal[spelling]}
           /\ \A w \in DOMAIN rows'["junkWords"] :
                  rows'["junkWords"][w] = IF w \in DOMAIN rows["junkWords"]
                                          THEN rows["junkWords"][w] ELSE serial
<1> DEFINE R == rows["junkWords"]
           f == Under(R, [w \in {Normal[spelling]} |-> serial])
<1>1. /\ f = [k \in DOMAIN f |-> f[k]]
      /\ DOMAIN f = DOMAIN R \union {Normal[spelling]}
      /\ \A w \in DOMAIN f : f[w] = IF w \in DOMAIN R THEN R[w] ELSE serial
  BY DEF Under
<1>2. rows' = [rows EXCEPT !["junkWords"] = f] /\ serial' = serial + 1
  BY DEF AddJunkWord
<1> HIDE DEF f
<1>3. /\ rows'["junkWords"] = f
      /\ \A u \in TableName \ {"junkWords"} : rows'[u] = rows[u]
      /\ rows' = [u \in TableName |-> rows'[u]]
      /\ \A u \in TableName : rows'[u] = [k \in DOMAIN rows'[u] |-> rows'[u][k]]
  <2>1. "junkWords" \in TableName
    BY DEF TableName
  <2> QED
    BY <1>1, <1>2, <2>1, ReplaceTable DEF TypeInv
<1>4. JunkWordsOK'
  BY <1>1, <1>2, <1>3 DEF JunkWordsOK, TypeInv, RowsTypeOK, Word
<1>5. ClichesOK' /\ NormOK' /\ WeightsOK'
  BY <1>3 DEF ClichesOK, NormOK, WeightsOK, TypeInv, RowsTypeOK, TableName
<1>6. serial' \in Nat
  BY <1>2 DEF TypeInv, RowsTypeOK
<1>7. RowsTypeOK'
  BY <1>3, <1>4, <1>5, <1>6 DEF RowsTypeOK
<1> QED
  BY <1>1, <1>2, <1>3, <1>7

\* Removing a junk word takes out its row and no other.
LEMMA RemoveTyped ==
    ASSUME TypeInv, NEW r \in Request, DeleteJunkWord(r), rows' # rows
    PROVE  /\ RowsTypeOK' /\ serial' = serial
           /\ \A u \in TableName \ {"junkWords"} : rows'[u] = rows[u]
           /\ DOMAIN rows'["junkWords"] = DOMAIN rows["junkWords"] \ {request[r].id[1]}
           /\ \A w \in DOMAIN rows'["junkWords"] : rows'["junkWords"][w] = rows["junkWords"][w]
<1> DEFINE R == rows["junkWords"]
           f == Without(R, request[r].id[1])
<1>1. /\ f = [k \in DOMAIN f |-> f[k]]
      /\ DOMAIN f = DOMAIN R \ {request[r].id[1]}
      /\ \A w \in DOMAIN f : f[w] = R[w]
  BY DEF Without, Restrict
<1>2. rows' = [rows EXCEPT !["junkWords"] = f] /\ serial' = serial
  BY DEF DeleteJunkWord
<1> HIDE DEF f
<1>3. /\ rows'["junkWords"] = f
      /\ \A u \in TableName \ {"junkWords"} : rows'[u] = rows[u]
      /\ rows' = [u \in TableName |-> rows'[u]]
      /\ \A u \in TableName : rows'[u] = [k \in DOMAIN rows'[u] |-> rows'[u][k]]
  <2>1. "junkWords" \in TableName
    BY DEF TableName
  <2> QED
    BY <1>1, <1>2, <2>1, ReplaceTable DEF TypeInv
<1>4. JunkWordsOK'
  BY <1>1, <1>2, <1>3 DEF JunkWordsOK, TypeInv, RowsTypeOK
<1>5. ClichesOK' /\ NormOK' /\ WeightsOK'
  BY <1>3 DEF ClichesOK, NormOK, WeightsOK, TypeInv, RowsTypeOK, TableName
<1> QED
  BY <1>1, <1>2, <1>3, <1>4, <1>5 DEF RowsTypeOK, TypeInv

\* An upsert of a weight loses no row.
LEMMA UpsertTyped ==
    ASSUME TypeInv, NEW r \in Request, UpsertNext(r), rows' # rows
    PROVE  /\ RowsTypeOK' /\ serial' = serial
           /\ \A u \in TableName \ {"weights"} : rows'[u] = rows[u]
           /\ DOMAIN rows["weights"] \subseteq DOMAIN rows'["weights"]
<1> DEFINE R == rows["weights"]
           i == Head(request[r].items)
           f == Under([g \in {i.feature} |-> Upserted(i)], R)
<1>1. /\ f = [k \in DOMAIN f |-> f[k]]
      /\ DOMAIN f = DOMAIN R \union {i.feature}
      /\ \A g \in DOMAIN f : f[g] = IF g = i.feature THEN Upserted(i) ELSE R[g]
  BY DEF Under
<1>2. rows' = [rows EXCEPT !["weights"] = f] /\ serial' = serial
  BY DEF UpsertNext
<1>3. i \in Item
  BY DEF UpsertNext, TypeInv, RequestTypeOK
<1>4. Upserted(i) \in Entry
  <2> HIDE DEF i
  <2>2. (TRUE \in i.enabled) \in BOOLEAN
    OBVIOUS
  <2>3. (i.feature \in DOMAIN R => R[i.feature].enabled) \in BOOLEAN
    OBVIOUS
  <2>4. Upserted(i).enabled \in BOOLEAN
    BY <2>2, <2>3 DEF Upserted
  <2>5. i.weight \in Int
    BY <1>3 DEF Item
  <2> QED
    BY <2>4, <2>5 DEF Upserted, Entry
<1> HIDE DEF f, i
<1>5. /\ rows'["weights"] = f
      /\ \A u \in TableName \ {"weights"} : rows'[u] = rows[u]
      /\ rows' = [u \in TableName |-> rows'[u]]
      /\ \A u \in TableName : rows'[u] = [k \in DOMAIN rows'[u] |-> rows'[u][k]]
  <2>1. "weights" \in TableName
    BY DEF TableName
  <2> QED
    BY <1>1, <1>2, <2>1, ReplaceTable DEF TypeInv
<1>6. WeightsOK'
  BY <1>1, <1>4, <1>5 DEF WeightsOK, TypeInv, RowsTypeOK
<1>7. ClichesOK' /\ NormOK' /\ JunkWordsOK'
  BY <1>2, <1>5 DEF ClichesOK, NormOK, JunkWordsOK, TypeInv, RowsTypeOK, TableName
<1> QED
  BY <1>1, <1>2, <1>5, <1>6, <1>7 DEF RowsTypeOK, TypeInv

\* An edit of ClicheWord by hand touches the row of one phrase.
LEMMA ClicheTyped ==
    ASSUME TypeInv, NEW p \in Phrase, EditCliche(p)
    PROVE  /\ RowsTypeOK' /\ serial' = serial
           /\ \A u \in TableName \ {"cliches"} : rows'[u] = rows[u]
           /\ \A q \in DOMAIN rows["cliches"] \ {p} :
                  q \in DOMAIN rows'["cliches"] /\ rows'["cliches"][q] = rows["cliches"][q]
<1> DEFINE R == rows["cliches"]
<1>1. PICK f : /\ rows' = [rows EXCEPT !["cliches"] = f]
               /\ \/ f = Without(R, p)
                  \/ \E c \in Category : f = Under(R, [q \in {p} |-> c])
  BY DEF EditCliche
<1>2. /\ f = [k \in DOMAIN f |-> f[k]]
      /\ \A q \in DOMAIN f : (q = p /\ f[q] \in Category) \/ (q \in DOMAIN R /\ f[q] = R[q])
      /\ \A q \in DOMAIN R \ {p} : q \in DOMAIN f /\ f[q] = R[q]
  <2>1. CASE f = Without(R, p)
    <3>1. f = [q \in DOMAIN R \ {p} |-> R[q]]
      BY <2>1 DEF Without, Restrict
    <3> QED
      BY <3>1
  <2>2. ASSUME NEW c \in Category, f = Under(R, [q \in {p} |-> c])
        PROVE  /\ f = [k \in DOMAIN f |-> f[k]]
               /\ \A q \in DOMAIN f : (q = p /\ f[q] \in Category) \/ (q \in DOMAIN R /\ f[q] = R[q])
               /\ \A q \in DOMAIN R \ {p} : q \in DOMAIN f /\ f[q] = R[q]
    <3>1. f = [q \in DOMAIN R \union {p} |-> IF q \in DOMAIN R THEN R[q] ELSE c]
      BY <2>2 DEF Under
    <3>2. DOMAIN f = DOMAIN R \union {p} /\ f = [k \in DOMAIN f |-> f[k]]
      BY <3>1
    <3>3. \A q \in DOMAIN f : f[q] = IF q \in DOMAIN R THEN R[q] ELSE c
      BY <3>1
    <3> QED
      BY <3>2, <3>3
  <2> QED
    BY <1>1, <2>1, <2>2
<1>3. /\ rows'["cliches"] = f
      /\ \A u \in TableName \ {"cliches"} : rows'[u] = rows[u]
      /\ rows' = [u \in TableName |-> rows'[u]]
      /\ \A u \in TableName : rows'[u] = [k \in DOMAIN rows'[u] |-> rows'[u][k]]
  <2>1. "cliches" \in TableName
    BY DEF TableName
  <2> QED
    BY <1>1, <1>2, <2>1, ReplaceTable DEF TypeInv
<1>4. serial' = serial
  BY DEF EditCliche
<1>5. ClichesOK'
  BY <1>2, <1>3 DEF ClichesOK, TypeInv, RowsTypeOK
<1>6. WeightsOK' /\ NormOK' /\ JunkWordsOK'
  BY <1>3, <1>4 DEF WeightsOK, NormOK, JunkWordsOK, TypeInv, RowsTypeOK, TableName
<1> QED
  BY <1>2, <1>3, <1>4, <1>5, <1>6 DEF RowsTypeOK, TypeInv

\* Every other step leaves the tables alone.
RowStep ==
    \/ CreateNorm \/ Fill
    \/ \E r \in Request :
         \/ \E n \in Norm : SetPageNorm(r, n)
         \/ \E s \in Spelling : AddJunkWord(r, s)
         \/ DeleteJunkWord(r) \/ UpsertNext(r)
    \/ \E p \in Phrase : EditCliche(p)

\* The tables change in fillings and edits only.
LEMMA OtherStepsKeepRows == [Next]_vars /\ ~RowStep => UNCHANGED <<rows, serial, emptied>>
<1> SUFFICES ASSUME [Next]_vars, ~RowStep PROVE UNCHANGED <<rows, serial, emptied>>
  OBVIOUS
<1> USE DEF stores, history
<1>1. CASE ApiStep
  BY <1>1 DEF ApiStep, RowStep, Start, Listen, Connect, Topology, Declare, FindNorm, CountRows, RunHook
<1>2. CASE ApiDies \/ UNCHANGED vars
  BY <1>2 DEF ApiDies, vars
<1>3. CASE Edit
  BY <1>3 DEF Edit, RowStep, FindJunkWord, ReceiveUpdate
<1>4. CASE BrokerFalls \/ BrokerRises \/ WorkerStarts \/ Publish \/ Analyse \/ Retry \/ DeadLetter
  BY <1>4 DEF BrokerFalls, BrokerRises, WorkerStarts, Publish, Analyse, Read, Retry, DeadLetter
<1> QED
  BY <1>1, <1>2, <1>3, <1>4 DEF Next

\* No step puts a wrong row into a table.
LEMMA RowsTyped == TypeInv /\ [Next]_vars => RowsTypeOK'
<1> SUFFICES ASSUME TypeInv, [Next]_vars PROVE RowsTypeOK'
  OBVIOUS
<1>1. CASE UNCHANGED <<rows, serial>>
  BY <1>1 DEF TypeInv, RowsTypeOK, ClichesOK, JunkWordsOK, WeightsOK, NormOK
<1>2. CASE RowStep
  <2>1. serial' = serial \/ rows' # rows \/ Fill \/ \E r \in Request, s \in Spelling : AddJunkWord(r, s)
    BY <1>2 DEF RowStep, CreateNorm, SetPageNorm, DeleteJunkWord, UpsertNext, EditCliche
  <2> QED
    BY <1>1, <1>2, <2>1, FillTyped, NormTyped, AddTyped, RemoveTyped, UpsertTyped, ClicheTyped
    DEF RowStep
<1> QED
  BY <1>1, <1>2, OtherStepsKeepRows

\* The type invariant is inductive.
LEMMA TypeStep == TypeInv /\ [Next]_vars => TypeInv'
BY ApiTyped, RequestsTyped, RowsTyped DEF TypeInv

\* Every table holds rows of its own kind after any edits, and no start makes
\* more attempts to connect than it may.
THEOREM ConfigurationTypeCorrect == Spec => []TypeOK
<1>1. TypeInv => TypeOK
  <2> SUFFICES ASSUME TypeInv PROVE TypeOK
    OBVIOUS
  <2>1. \A w \in DOMAIN rows.junkWords : w \in Word /\ rows.junkWords[w] \in 0..serial
    BY DEF TypeInv, RowsTypeOK, JunkWordsOK
  <2>2. api.todo \subseteq Hook /\ api.tries \in Tries
    BY DEF TypeInv, ApiTypeOK
  <2> QED
    BY <2>1, <2>2
    DEF TypeInv, TypeOK, ApiTypeOK, RowsTypeOK, ClichesOK, WeightsOK, NormOK, Entry, Tries
<1> QED
  BY <1>1, TypeInit, TypeStep, PTL DEF Spec

-----------------------------------------------------------------------------
(* Edits                                                                   *)

\* While the api starts, only its hooks and hands change a table.
LEMMA QuietStart ==
    ASSUME TypeInv, RowStep, api.at # "listening"
    PROVE  CreateNorm \/ Fill \/ \E p \in Phrase : EditCliche(p)
BY DEF RowStep, SetPageNorm, AddJunkWord, Served, DeleteJunkWord, UpsertNext, TypeInv, RequestTypeOK

\* A table that requests edit is still empty when it is filled.
FillsEmpty ==
    api.at = "fill" /\ Seeds[api.seed] \notin Category => DOMAIN rows[Seeds[api.seed]] = {}

\* A table stays empty from its count to its filling: nobody else listens yet.
LEMMA FillsEmptyStep == TypeInv /\ FillsEmpty /\ [Next]_vars => FillsEmpty'
<1> SUFFICES ASSUME TypeInv, FillsEmpty, [Next]_vars,
                    api'.at = "fill", Seeds[api'.seed] \notin Category
             PROVE  DOMAIN rows'[Seeds[api'.seed]] = {}
  BY DEF FillsEmpty
<1>0. ApiTypeOK
  BY DEF TypeInv
<1>1. CASE CountRows
  <2>1. api'.seed = api.seed /\ Counted(Seeds[api.seed]) = {} /\ rows' = rows /\ api.seed \in 1..4
    <3>1. Seeded(IF Counted(Seeds[api.seed]) = {} THEN "fill" ELSE "count") /\ api.at = "count"
      BY <1>1 DEF CountRows
    <3>2. rows' = rows
      BY <1>1 DEF CountRows, stores
    <3> QED
      BY <1>0, <3>1, <3>2, SeededMoves DEF ApiTypeOK
  <2> QED
    BY <2>1 DEF Counted
<1>2. CASE api' = api
  <2>1. CASE rows' = rows
    BY <1>2, <2>1 DEF FillsEmpty
  <2>2. CASE rows' # rows
    <3>1. \E p \in Phrase : EditCliche(p)
      <4>1. RowStep
        BY <2>2, OtherStepsKeepRows
      <4>2. ~CreateNorm /\ ~Fill
        <5>1. ~Fill
          BY <1>0, <1>2, SeededMoves DEF Fill
        <5> QED
          BY <1>2, <5>1 DEF CreateNorm
      <4> QED
        BY <1>2, <4>1, <4>2, QuietStart
    <3>2. Seeds[api.seed] \in TableName \ {"cliches"}
      BY <1>0, <1>2, SeedFacts DEF ApiTypeOK, TableName
    <3> QED
      BY <1>2, <3>1, <3>2, ClicheTyped DEF FillsEmpty
  <2> QED
    BY <2>1, <2>2
<1>3. CASE ApiStep \/ ApiDies
  <2>1. CASE Start \/ ApiDies \/ Die
    BY <1>0, <2>1, Moves DEF Start, ApiDies
  <2>2. ASSUME NEW h \in Hook, RunHook(h) PROVE FALSE
    BY <2>2 DEF RunHook, Hook
  <2>3. CASE Listen
    BY <2>3 DEF Listen, Goto, Down
  <2>4. CASE Connect \/ Topology \/ FindNorm \/ CreateNorm
    <3>1. CASE api.at # "fill" /\ \E label \in Label \ {"down", "listening", "count", "fill"} : Goto(label)
      BY <1>0, <3>1, Moves
    <3>2. CASE Connect /\ api' = [api EXCEPT !.tries = @ + 1]
      BY <1>0, <3>2 DEF Connect, ApiTypeOK
    <3> QED
      BY <2>1, <2>4, <3>1, <3>2 DEF Connect, Topology, Declare, FindNorm, CreateNorm, Label
  <2>5. CASE Fill
    BY <1>0, <2>5, SeededMoves DEF Fill
  <2> QED
    BY <1>1, <1>3, <2>1, <2>2, <2>3, <2>4, <2>5 DEF ApiStep
<1>4. CASE Edit \/ BrokerFalls \/ BrokerRises \/ WorkerStarts \/ Publish \/ Analyse \/ Retry
           \/ DeadLetter \/ UNCHANGED vars
  <2>1. api' = api
    BY <1>4 DEF Edit, SetPageNorm, AddJunkWord, FindJunkWord, ReceiveUpdate, DeleteJunkWord,
                UpsertNext, EditCliche, BrokerFalls, BrokerRises, WorkerStarts, Publish, Analyse,
                Read, Retry, DeadLetter, vars
  <2> QED
    BY <1>2, <2>1
<1> QED
  BY <1>3, <1>4 DEF Next

\* Filling never replaces a row.
LEMMA FillKeepsRows ==
    ASSUME TypeInv, Fill, NEW t \in TableName
    PROVE  \A k \in DOMAIN rows[t] : k \in DOMAIN rows'[t] /\ rows'[t][k] = rows[t][k]
<1>1. PICK i : i = api.seed
  OBVIOUS
<1>2. CASE t = Table(Seeds[i])
  <2>1. rows'[t] = Under(rows[t], Defaults(Seeds[i]))
    BY <1>1, <1>2, Fills
  <2> QED
    BY <2>1 DEF Under
<1>3. CASE t # Table(Seeds[i])
  BY <1>1, <1>3, Fills
<1> QED
  BY <1>2, <1>3

\* A start of the api overwrites nothing that was edited.
THEOREM EditsSurviveStarts == Spec => SeedTouchesNoEdits
<1> DEFINE Untouched ==
        api.at # "listening" /\ handEdits' = handEdits =>
          /\ \A t \in {"junkWords", "weights", "norm"} : rows'[t] = rows[t] \/ rows[t] = Empty
          /\ \A p \in DOMAIN rows.cliches :
                 p \in DOMAIN rows'.cliches /\ rows'.cliches[p] = rows.cliches[p]
<1>1. Init => FillsEmpty
  BY DEF Init, FillsEmpty, Down
<1>2. TypeInv /\ FillsEmpty /\ [Next]_vars => [Untouched]_vars
  <2> SUFFICES ASSUME TypeInv, FillsEmpty, [Next]_vars, api.at # "listening", handEdits' = handEdits
               PROVE  /\ \A t \in {"junkWords", "weights", "norm"} : rows'[t] = rows[t] \/ rows[t] = Empty
                      /\ \A p \in DOMAIN rows.cliches :
                             p \in DOMAIN rows'.cliches /\ rows'.cliches[p] = rows.cliches[p]
    OBVIOUS
  <2>1. CASE rows' = rows
    BY <2>1
  <2>2. CASE rows' # rows /\ CreateNorm
    <3>1. rows["norm"] = Empty
      BY <2>2 DEF CreateNorm
    <3> QED
      BY <2>2, <3>1, NormTyped DEF TableName
  <2>3. CASE Fill
    <3>1. PICK i : i = api.seed
      OBVIOUS
    <3>2. \A p \in DOMAIN rows["cliches"] :
              p \in DOMAIN rows'["cliches"] /\ rows'["cliches"][p] = rows["cliches"][p]
      BY <2>3, FillKeepsRows DEF TableName
    <3>3. i \in 1..4 /\ \A u \in TableName \ {Table(Seeds[i])} : rows'[u] = rows[u]
      BY <2>3, <3>1, Fills
    <3>4. CASE Seeds[i] \in Category
      BY <3>2, <3>3, <3>4 DEF Table, TableName
    <3>5. CASE Seeds[i] \notin Category
      <4>1. Table(Seeds[i]) = Seeds[i] /\ Seeds[i] \in {"junkWords", "weights"}
        BY <3>3, <3>5, SeedFacts
      <4>2. DOMAIN rows[Seeds[i]] = {}
        BY <2>3, <3>1, <3>5 DEF Fill, FillsEmpty
      <4>3. rows[Seeds[i]] = Empty
        BY <4>1, <4>2, NoRows DEF TypeInv, RowsTypeOK, TableName
      <4> QED
        BY <3>2, <3>3, <4>1, <4>3 DEF TableName
    <3> QED
      BY <3>4, <3>5
  <2>4. CASE \E p \in Phrase : EditCliche(p)
    <3>1. handEdits' = handEdits + 1 /\ handEdits < MaxHandEdits
      BY <2>4 DEF EditCliche
    <3> QED
      BY <3>1, ConfigurationAssumption
  <2> QED
    BY <2>1, <2>2, <2>3, <2>4, OtherStepsKeepRows, QuietStart
<1> QED
  BY <1>1, <1>2, TypeInit, TypeStep, FillsEmptyStep, PTL DEF Spec, SeedTouchesNoEdits

-----------------------------------------------------------------------------
(* Removals                                                                *)

\* A junk word is the row it was, or a new one with a number of its own.
LEMMA JunkRows ==
    ASSUME TypeInv, [Next]_vars
    PROVE  /\ serial' \in Nat /\ serial <= serial'
           /\ \A w \in DOMAIN rows'["junkWords"] :
                 \/ w \in DOMAIN rows["junkWords"] /\ rows'["junkWords"][w] = rows["junkWords"][w]
                 \/ rows'["junkWords"][w] = serial
<1>0. serial \in Nat /\ serial' \in Nat
  BY TypeStep DEF TypeInv, RowsTypeOK
<1>1. CASE UNCHANGED <<rows, serial>>
  BY <1>0, <1>1
<1>2. CASE Fill
  <2>1. PICK i : i = api.seed
    OBVIOUS
  <2>2. serial <= serial'
    BY <1>0, <1>2 DEF Fill
  <2>3. CASE Table(Seeds[i]) # "junkWords"
    BY <1>0, <1>2, <2>1, <2>2, <2>3, Fills DEF TableName
  <2>4. CASE Table(Seeds[i]) = "junkWords"
    <3>1. i \in 1..4 /\ rows'["junkWords"] = Under(rows["junkWords"], Defaults(Seeds[i]))
      BY <1>2, <2>1, <2>4, Fills
    <3>2. Seeds[i] = "junkWords"
      BY <2>4, <3>1, SeedFacts
    <3>3. \A w \in DOMAIN Defaults(Seeds[i]) : Defaults(Seeds[i])[w] = serial
      BY <3>1, <3>2, DefaultsTyped DEF TypeInv
    <3> QED
      BY <1>0, <2>2, <3>1, <3>3 DEF Under
  <2> QED
    BY <2>3, <2>4
<1>3. ASSUME NEW r \in Request, NEW s \in Spelling, AddJunkWord(r, s)
      PROVE  /\ serial <= serial'
             /\ \A w \in DOMAIN rows'["junkWords"] :
                   \/ w \in DOMAIN rows["junkWords"] /\ rows'["junkWords"][w] = rows["junkWords"][w]
                   \/ rows'["junkWords"][w] = serial
  BY <1>0, <1>3, AddTyped
<1>4. ASSUME NEW r \in Request, DeleteJunkWord(r), rows' # rows
      PROVE  /\ serial <= serial'
             /\ \A w \in DOMAIN rows'["junkWords"] :
                   w \in DOMAIN rows["junkWords"] /\ rows'["junkWords"][w] = rows["junkWords"][w]
  BY <1>0, <1>4, RemoveTyped
<1>5. ASSUME NEW r \in Request, UpsertNext(r), rows' # rows
      PROVE  serial' = serial /\ rows'["junkWords"] = rows["junkWords"]
  BY <1>5, UpsertTyped DEF TableName
<1>6. ASSUME NEW p \in Phrase, EditCliche(p)
      PROVE  serial' = serial /\ rows'["junkWords"] = rows["junkWords"]
  BY <1>6, ClicheTyped DEF TableName
<1>7. ASSUME rows' # rows, CreateNorm \/ \E r \in Request, n \in Norm : SetPageNorm(r, n)
      PROVE  serial' = serial /\ rows'["junkWords"] = rows["junkWords"]
  BY <1>7, NormTyped DEF TableName
<1>8. rows' = rows => serial' = serial \/ Fill \/ \E r \in Request, s \in Spelling : AddJunkWord(r, s)
  BY OtherStepsKeepRows DEF RowStep, CreateNorm, SetPageNorm, DeleteJunkWord, UpsertNext, EditCliche
<1> QED
  BY <1>0, <1>1, <1>2, <1>3, <1>4, <1>5, <1>6, <1>7, <1>8, OtherStepsKeepRows DEF RowStep

\* The row that a request has found, in a table.
Present(table, id) == id[1] \in DOMAIN table /\ table[id[1]] = id[2]

\* A row that was removed never comes back, because its number does not.
RemoveInv ==
    /\ \A r \in Request :
           request[r].op \in {"remove", "removed"} =>
               request[r].id[2] \in Nat /\ request[r].id[2] < serial
    /\ \A r \in Request : request[r].op = "removed" => ~Present(rows["junkWords"], request[r].id)
    /\ RemovedOnce

\* The numbers of the rows make every removal one of its own.
LEMMA RemoveStep == TypeInv /\ RemoveInv /\ [Next]_vars => RemoveInv'
<1> SUFFICES ASSUME TypeInv, RemoveInv, [Next]_vars PROVE RemoveInv'
  OBVIOUS
<1>1. ASSUME NEW id, id[2] \in Nat, id[2] < serial, ~Present(rows["junkWords"], id)
      PROVE  ~Present(rows'["junkWords"], id)
  <2>1. /\ serial \in Nat
        /\ \A w \in DOMAIN rows'["junkWords"] :
              \/ w \in DOMAIN rows["junkWords"] /\ rows'["junkWords"][w] = rows["junkWords"][w]
              \/ rows'["junkWords"][w] = serial
    BY JunkRows DEF TypeInv, RowsTypeOK
  <2> QED
    BY <1>1, <2>1 DEF Present
<1>2. serial \in Nat /\ serial' \in Nat /\ serial <= serial'
  BY JunkRows DEF TypeInv, RowsTypeOK
<1>3. CASE \A r \in Request :
              request'[r] = request[r] \/ request'[r].op \notin {"remove", "removed"}
  <2>1. ASSUME NEW r \in Request, request'[r].op \in {"remove", "removed"}
        PROVE  request'[r] = request[r] /\ request'[r].id[2] \in Nat /\ request'[r].id[2] < serial'
    BY <1>2, <1>3, <2>1 DEF RemoveInv
  <2>2. ASSUME NEW r \in Request, request'[r].op = "removed"
        PROVE  ~Present(rows'["junkWords"], request'[r].id)
    BY <1>1, <2>1, <2>2 DEF RemoveInv
  <2>3. RemovedOnce'
    BY <2>1 DEF RemoveInv, RemovedOnce
  <2> QED
    BY <2>1, <2>2, <2>3 DEF RemoveInv
<1>4. ASSUME NEW r \in Request, NEW id \in Word \X (0..serial-1), FindJunkWord(r, id)
      PROVE  RemoveInv'
  <2>1. rows' = rows /\ serial' = serial /\ id[2] \in Nat /\ id[2] < serial
    BY <1>2, <1>4 DEF FindJunkWord, stores
  <2>2. /\ \A q \in Request \ {r} : request'[q] = request[q]
        /\ request'[r] = [op |-> "remove", id |-> id] \/ request'[r].op = "notFound"
    BY <1>4 DEF FindJunkWord, Answer, TypeInv, RequestTypeOK
  <2> QED
    BY <2>1, <2>2 DEF RemoveInv, RemovedOnce
<1>5. ASSUME NEW r \in Request, DeleteJunkWord(r) PROVE RemoveInv'
  <2>1. PICK id : id = request[r].id
    OBVIOUS
  <2>2. \A q \in Request \ {r} : request'[q] = request[q]
    BY <1>5 DEF DeleteJunkWord, Answer, TypeInv, RequestTypeOK
  <2>3. CASE ~Exists(id)
    <3>1. request'[r] = [op |-> "internalError"]
      BY <1>5, <2>1, <2>3 DEF DeleteJunkWord, Answer, TypeInv, RequestTypeOK
    <3> QED
      BY <1>3, <2>2, <3>1
  <2>4. CASE Exists(id)
    <3>1. /\ request'[r] = [op |-> "removed", id |-> id] /\ serial' = serial
          /\ rows' = [rows EXCEPT !["junkWords"] = Without(rows["junkWords"], id[1])]
      BY <1>5, <2>1, <2>4 DEF DeleteJunkWord, Answer, TypeInv, RequestTypeOK
    <3>2. DOMAIN rows'["junkWords"] = DOMAIN rows["junkWords"] \ {id[1]}
      BY <3>1 DEF Without, Restrict, TypeInv, RowsTypeOK, TableName
    <3>3. ~Present(rows'["junkWords"], id)
      BY <3>2 DEF Present
    <3>4. id[2] \in Nat /\ id[2] < serial
      BY <1>5, <2>1 DEF DeleteJunkWord, RemoveInv
    <3>5. \A q \in Request : request[q].op = "removed" => request[q].id # id
      BY <2>4 DEF RemoveInv, Exists, Present
    <3>6. RemovedOnce'
      BY <2>2, <3>1, <3>5 DEF RemoveInv, RemovedOnce
    <3>7. ASSUME NEW q \in Request, request'[q].op = "removed"
          PROVE  ~Present(rows'["junkWords"], request'[q].id)
      BY <1>1, <2>2, <3>1, <3>3, <3>7 DEF RemoveInv
    <3> QED
      BY <2>2, <3>1, <3>4, <3>6, <3>7 DEF RemoveInv
  <2> QED
    BY <2>3, <2>4
<1>6. CASE Edit
  <2>1. ASSUME NEW r \in Request,
               \/ \E n \in Norm : SetPageNorm(r, n)
               \/ \E s \in Spelling : AddJunkWord(r, s)
               \/ \E items \in Updates : ReceiveUpdate(r, items)
               \/ UpsertNext(r)
        PROVE  RemoveInv'
    <3>1. Answer(r, [op |-> "done"]) \/ \E items : Answer(r, [op |-> "update", items |-> items])
      BY <2>1 DEF SetPageNorm, AddJunkWord, ReceiveUpdate, UpsertNext
    <3>2. /\ \A q \in Request \ {r} : request'[q] = request[q]
          /\ request'[r].op \in {"done", "update"}
      BY <3>1 DEF Answer, TypeInv, RequestTypeOK
    <3> QED
      BY <1>3, <3>2
  <2>2. ASSUME NEW p \in Phrase, EditCliche(p) PROVE RemoveInv'
    BY <1>3, <2>2 DEF EditCliche
  <2> QED
    BY <1>4, <1>5, <1>6, <2>1, <2>2 DEF Edit
<1>7. CASE request' = request \/ Die
  <2>1. CASE request' = request
    BY <1>3, <2>1
  <2>2. CASE Die
    <3>1. \A q \in Request : request'[q] = request[q] \/ request'[q].op = "lost"
      BY <2>2 DEF Die
    <3> QED
      BY <1>3, <3>1
  <2> QED
    BY <1>7, <2>1, <2>2
<1>8. CASE ApiStep \/ ApiDies
  BY <1>7, <1>8 DEF ApiStep, Start, Listen, Connect, Topology, Declare, FindNorm, CreateNorm,
                 CountRows, Fill, RunHook, ApiDies
<1>9. CASE BrokerFalls \/ BrokerRises \/ WorkerStarts \/ Publish \/ Analyse \/ Retry \/ DeadLetter
           \/ UNCHANGED vars
  BY <1>7, <1>9 DEF BrokerFalls, BrokerRises, WorkerStarts, Publish, Analyse, Read, Retry,
                 DeadLetter, vars
<1> QED
  BY <1>6, <1>8, <1>9 DEF Next

\* However many requests remove one word at once, and whether or not it is added
\* again between them, each row is removed for one of them.
THEOREM OneRemovalPerRow == Spec => []RemovedOnce
<1>1. Init => RemoveInv
  BY DEF Init, RemoveInv, RemovedOnce
<1>2. RemoveInv => RemovedOnce
  BY DEF RemoveInv
<1> QED
  BY <1>1, <1>2, TypeInit, TypeStep, RemoveStep, PTL DEF Spec

-----------------------------------------------------------------------------
(* The start                                                               *)

\* A hook has run to its end since the api was started.
Past(hook, labels) == api.at \notin {"down"} \union labels /\ hook \notin api.todo

\* Everything but the steps of the start leaves the api where it is, or stops it.
LEMMA ApiElsewhere ==
    ASSUME TypeInv, [Next]_vars, ~ApiStep
    PROVE  api' = api \/ (api'.at = "down" /\ task' = task)
<1>1. CASE ApiDies
  BY <1>1, Moves DEF ApiDies, queue, TypeInv
<1>2. CASE ~ApiDies
  BY <1>2 DEF Next, Edit, SetPageNorm, AddJunkWord, FindJunkWord, ReceiveUpdate, DeleteJunkWord,
              UpsertNext, EditCliche, BrokerFalls, BrokerRises, WorkerStarts, Publish, Analyse,
              Read, Retry, DeadLetter, vars
<1> QED
  BY <1>1, <1>2

\* No step of the start touches the task.
LEMMA StartKeepsTask == ApiStep => task' = task
BY DEF ApiStep, Start, Listen, Connect, Topology, Declare, FindNorm, CreateNorm, CountRows, Fill,
       RunHook, queue

\* The first task comes from an api that listens.
LEMMA FirstTask ==
    ASSUME TypeInv, [Next]_vars, task = "none", task' # "none"
    PROVE  api' = api /\ api.at = "listening" /\ api.todo = {} /\ task' = "queued"
<1>1. Publish
  BY StartKeepsTask DEF Next, ApiDies, Edit, SetPageNorm, AddJunkWord, FindJunkWord, ReceiveUpdate,
         DeleteJunkWord, UpsertNext, EditCliche, BrokerFalls, BrokerRises, WorkerStarts, Analyse,
         Read, Retry, DeadLetter, vars, queue
<1> QED
  BY <1>1 DEF Publish, TypeInv, ApiTypeOK

\* The dead letter queue is there whenever the hook of the queues is over, and
\* as soon as there is a task.
QueueInv ==
    /\ Past("topology", {"connect", "declareDeadLetters"}) => "deadLetters" \in queues
    /\ task # "none" => "deadLetters" \in queues /\ task # "dropped"

\* The queues are declared before the first task and stay.
LEMMA QueueStep == TypeInv /\ QueueInv /\ [Next]_vars => QueueInv'
<1> SUFFICES ASSUME TypeInv, QueueInv, [Next]_vars PROVE QueueInv'
  OBVIOUS
<1>0. ApiTypeOK
  BY DEF TypeInv
<1>1. queues \subseteq queues'
  BY DEF Next, ApiStep, Start, Listen, Connect, Topology, Declare, FindNorm, CreateNorm, CountRows,
         Fill, RunHook, ApiDies, Edit, SetPageNorm, AddJunkWord, FindJunkWord, ReceiveUpdate,
         DeleteJunkWord, UpsertNext, EditCliche, BrokerFalls, BrokerRises, WorkerStarts, Publish,
         WithTasks, Analyse, Read, Retry, DeadLetter, vars, queue
<1>2. task' # "none" => "deadLetters" \in queues' /\ task' # "dropped"
  <2>1. CASE task = "none"
    BY <1>1, <2>1, FirstTask DEF QueueInv, Past
  <2>2. CASE task # "none"
    <3>1. "deadLetters" \in queues /\ task # "dropped"
      BY <2>2 DEF QueueInv
    <3>2. CASE DeadLetter
      BY <1>1, <3>1, <3>2 DEF DeadLetter
    <3>3. CASE ~DeadLetter /\ ~ApiStep
      <4>1. task' # "dropped"
        BY <3>1, <3>3 DEF Next, ApiDies, Edit, SetPageNorm, AddJunkWord, FindJunkWord, ReceiveUpdate,
               DeleteJunkWord, UpsertNext, EditCliche, BrokerFalls, BrokerRises, WorkerStarts,
               Publish, Analyse, Read, Retry, vars, queue
      <4> QED
        BY <1>1, <3>1, <4>1
    <3>4. CASE ApiStep
      BY <1>1, <3>1, <3>4, StartKeepsTask
    <3> QED
      BY <3>2, <3>3, <3>4
  <2> QED
    BY <2>1, <2>2
<1>3. Past("topology", {"connect", "declareDeadLetters"})' => "deadLetters" \in queues'
  <2> SUFFICES ASSUME api'.at \notin {"down", "connect", "declareDeadLetters"},
                      "topology" \notin api'.todo
               PROVE  "deadLetters" \in queues'
    BY DEF Past
  <2>1. CASE api.at \notin {"down", "connect", "declareDeadLetters"} /\ "topology" \notin api.todo
    BY <1>1, <2>1 DEF QueueInv, Past
  <2>2. CASE ~ApiStep
    BY <2>1, <2>2, ApiElsewhere
  <2>3. ~Start /\ ~Die
    <3>1. Start => "topology" \in api'.todo
      BY DEF Start, Down, Hook
    <3>2. Die => api'.at = "down"
      BY DEF Die, Down
    <3> QED
      BY <3>1, <3>2
  <2>4. ASSUME NEW h \in Hook, RunHook(h) PROVE "deadLetters" \in queues'
    BY <1>0, <2>1, <2>4 DEF RunHook, ApiTypeOK
  <2>5. CASE Listen
    BY <2>1, <2>5 DEF Listen
  <2>6. CASE FindNorm \/ CreateNorm
    BY <1>0, <2>1, <2>3, <2>6, Moves DEF FindNorm, CreateNorm, Label
  <2>7. CASE CountRows \/ Fill
    BY <1>0, <2>1, <2>7, SeededMoves DEF CountRows, Fill
  <2>8. CASE Connect
    BY <1>0, <2>3, <2>8, Moves DEF Connect, Label, ApiTypeOK
  <2>9. CASE Declare("deadLetters", "declareDeadLetters", "declareTasks")
    BY <2>3, <2>9 DEF Declare
  <2>10. CASE Declare("tasks", "declareTasks", "starting")
    BY <1>0, <2>1, <2>3, <2>10, Moves DEF Declare, Label
  <2> QED
    BY <2>2, <2>3, <2>4, <2>5, <2>6, <2>7, <2>8, <2>9, <2>10 DEF ApiStep, Topology
<1> QED
  BY <1>2, <1>3 DEF QueueInv

\* No task is rejected into nothing, however often a start broke off before it
\* had declared the queues.
THEOREM DeadLettersReachTheirQueue == Spec => []DeadLettersAreKept
<1>1. Init => QueueInv
  BY DEF Init, QueueInv, Past, Down
<1>2. QueueInv => DeadLettersAreKept
  BY DEF QueueInv, DeadLettersAreKept
<1> QED
  BY <1>1, <1>2, TypeInit, TypeStep, QueueStep, PTL DEF Spec

\* The page norm is there when the hook of the settings is over.
NormInv ==
    /\ Past("settings", {"findNorm", "createNorm"}) => rows["norm"] # Empty
    /\ task # "none" => rows["norm"] # Empty

\* Nothing deletes the page norm.
LEMMA NormStays ==
    ASSUME TypeInv, [Next]_vars, rows["norm"] # Empty
    PROVE  rows'["norm"] # Empty
<1>1. CASE rows' = rows
  BY <1>1
<1>2. CASE Fill
  <2>1. PICK i : i = api.seed
    OBVIOUS
  <2>2. i \in 1..4 /\ \A u \in TableName \ {Table(Seeds[i])} : rows'[u] = rows[u]
    BY <1>2, <2>1, Fills
  <2>3. Table(Seeds[i]) # "norm"
    BY <2>2, SeedFacts
  <2> QED
    BY <2>2, <2>3 DEF TableName
<1>3. CASE rows' # rows /\ ~Fill
  BY <1>3, OtherStepsKeepRows, NormTyped, AddTyped, RemoveTyped, UpsertTyped, ClicheTyped
  DEF RowStep, TableName
<1> QED
  BY <1>1, <1>2, <1>3

\* The page norm is there once the hook of the settings is over.
LEMMA NormStep == TypeInv /\ NormInv /\ [Next]_vars => NormInv'
<1> SUFFICES ASSUME TypeInv, NormInv, [Next]_vars PROVE NormInv'
  OBVIOUS
<1>0. ApiTypeOK
  BY DEF TypeInv
<1>1. task' # "none" => rows'["norm"] # Empty
  BY FirstTask, NormStays DEF NormInv, Past
<1>2. Past("settings", {"findNorm", "createNorm"})' => rows'["norm"] # Empty
  <2> SUFFICES ASSUME api'.at \notin {"down", "findNorm", "createNorm"}, "settings" \notin api'.todo
               PROVE  rows'["norm"] # Empty
    BY DEF Past
  <2>1. CASE api.at \notin {"down", "findNorm", "createNorm"} /\ "settings" \notin api.todo
    BY <2>1, NormStays DEF NormInv, Past
  <2>2. CASE ~ApiStep
    BY <2>1, <2>2, ApiElsewhere
  <2>3. CASE Start \/ Die
    BY <1>0, <2>3, Moves DEF Start, Down, Hook
  <2>4. ASSUME NEW h \in Hook, RunHook(h) PROVE rows'["norm"] # Empty
    BY <1>0, <2>1, <2>4 DEF RunHook, ApiTypeOK
  <2>5. CASE Listen
    BY <2>1, <2>5 DEF Listen
  <2>6. CASE FindNorm
    <3>1. CASE rows["norm"] = Empty
      BY <1>0, <2>6, <3>1, Moves DEF FindNorm, Label
    <3>2. CASE rows["norm"] # Empty
      BY <3>2, NormStays
    <3> QED
      BY <3>1, <3>2
  <2>7. CASE CreateNorm
    <3>1. CASE rows["norm"] = Empty
      <4>1. rows' = [rows EXCEPT !["norm"] = [k \in {"pageNorm"} |-> DefaultNorm]]
        BY <2>7, <3>1 DEF CreateNorm
      <4>2. rows'["norm"] = [k \in {"pageNorm"} |-> DefaultNorm]
        BY <4>1 DEF TypeInv, RowsTypeOK, TableName
      <4> QED
        BY <4>2 DEF Empty
    <3>2. CASE rows["norm"] # Empty
      BY <3>2, NormStays
    <3> QED
      BY <3>1, <3>2
  <2>8. CASE CountRows \/ Fill
    BY <1>0, <2>1, <2>8, SeededMoves DEF CountRows, Fill
  <2>9. CASE Connect \/ Topology
    BY <1>0, <2>1, <2>3, <2>9, Moves DEF Connect, Topology, Declare, Label, ApiTypeOK
  <2> QED
    BY <2>2, <2>3, <2>4, <2>5, <2>6, <2>7, <2>8, <2>9 DEF ApiStep
<1> QED
  BY <1>1, <1>2 DEF NormInv

\* A dictionary that has been seen to: it has rows, or an editor emptied it.  The
\* weights cannot be emptied, and once there they are complete.
Ready(s) ==
    IF s = "weights" THEN Feature \subseteq DOMAIN rows["weights"]
    ELSE Counted(s) # {} \/ s \in emptied

AllOrNothing == DOMAIN rows["weights"] = {} \/ Ready("weights")

DictInv ==
    /\ \A i \in 1..4 :
           Past("dictionaries", {}) /\ (api.at \in {"count", "fill"} => i < api.seed)
           => Ready(Seeds[i])
    /\ task # "none" => \A i \in 1..4 : Ready(Seeds[i])
    /\ AllOrNothing

\* What a step does to the dictionaries.
LEMMA FillReadies ==
    ASSUME TypeInv, Fill, NEW i, i = api.seed
    PROVE  Ready(Seeds[i])' /\ \A j \in 1..4 : Ready(Seeds[j]) => Ready(Seeds[j])'
<1> DEFINE s == Seeds[i]
           D == Defaults(s)
           R == rows[Table(s)]
<1>1. /\ i \in 1..4 /\ rows'[Table(s)] = Under(R, D)
      /\ \A u \in TableName \ {Table(s)} : rows'[u] = rows[u]
  BY Fills
<1>2. /\ DOMAIN Under(R, D) = DOMAIN R \union DOMAIN D
      /\ \A k \in DOMAIN R : Under(R, D)[k] = R[k]
      /\ \A k \in DOMAIN D \ DOMAIN R : Under(R, D)[k] = D[k]
  BY DEF Under
<1>3. /\ emptied \subseteq emptied'
      /\ DOMAIN D \subseteq DOMAIN R => s \in emptied'
  BY DEF Fill
<1>4. Ready(s)'
  <2>1. CASE s \in Category
    <3>1. Table(s) = "cliches" /\ s # "weights" /\ s # "junkWords"
      BY <2>1, SeedFacts DEF Table
    <3>2. CASE DOMAIN D \subseteq DOMAIN R
      BY <1>3, <3>1, <3>2 DEF Ready
    <3>3. CASE \E p \in DOMAIN D : p \notin DOMAIN R
      <4>1. PICK p : p \in DOMAIN D /\ p \notin DOMAIN R
        BY <3>3
      <4>2. D[p] = s
        BY <1>1, <2>1, <4>1, DefaultsTyped DEF TypeInv
      <4>3. p \in DOMAIN rows'["cliches"] /\ rows'["cliches"][p] = s
        BY <1>1, <1>2, <3>1, <4>1, <4>2
      <4> QED
        BY <2>1, <3>1, <4>3 DEF Ready, Counted
    <3> QED
      BY <3>2, <3>3
  <2>2. CASE s = "junkWords"
    <3>1. Table(s) = "junkWords" /\ s \notin Category /\ DOMAIN D = DefaultJunkWords
      BY <1>1, <2>2, SeedFacts, DefaultsTyped DEF Table, TypeInv
    <3>2. DOMAIN rows'["junkWords"] # {}
      BY <1>1, <1>2, <3>1, ConfigurationAssumption
    <3> QED
      BY <2>2, <3>1, <3>2 DEF Ready, Counted
  <2>3. CASE s = "weights"
    <3>1. Table(s) = "weights" /\ DOMAIN D = Feature
      BY <1>1, <2>3, SeedFacts, DefaultsTyped DEF Table, TypeInv
    <3> QED
      BY <1>1, <1>2, <2>3, <3>1 DEF Ready
  <2> QED
    BY <1>1, <2>1, <2>2, <2>3, SeedFacts
<1>5. ASSUME NEW t \in TableName
      PROVE  \A k \in DOMAIN rows[t] : k \in DOMAIN rows'[t] /\ rows'[t][k] = rows[t][k]
  BY FillKeepsRows
<1>6. ASSUME NEW j \in 1..4, Ready(Seeds[j]) PROVE Ready(Seeds[j])'
  BY <1>3, <1>5, <1>6, SeedFacts DEF Ready, Counted, TableName
<1> QED
  BY <1>4, <1>6

\* A dictionary that was ready stays so, or an editor has emptied it.
LEMMA ReadyStays ==
    ASSUME TypeInv, [Next]_vars, NEW j \in 1..4, Ready(Seeds[j])
    PROVE  Ready(Seeds[j])'
<1>1. CASE UNCHANGED <<rows, emptied>>
  BY <1>1 DEF Ready, Counted
<1>2. CASE Fill
  BY <1>2, FillReadies
<1>3. ASSUME rows' # rows, CreateNorm \/ \E r \in Request, n \in Norm : SetPageNorm(r, n)
      PROVE  Ready(Seeds[j])'
  <2>1. emptied' = emptied
    BY <1>3 DEF CreateNorm, SetPageNorm, history
  <2> QED
    BY <1>3, <2>1, NormTyped, SeedFacts DEF Ready, Counted, TableName
<1>4. ASSUME NEW r \in Request, NEW s \in Spelling, AddJunkWord(r, s) PROVE Ready(Seeds[j])'
  <2>1. emptied' = emptied
    BY <1>4 DEF AddJunkWord, history
  <2> QED
    BY <1>4, <2>1, AddTyped, SeedFacts DEF Ready, Counted, TableName
<1>5. ASSUME NEW r \in Request, DeleteJunkWord(r), rows' # rows PROVE Ready(Seeds[j])'
  <2>1. /\ emptied \subseteq emptied'
        /\ rows'.junkWords = Empty => "junkWords" \in emptied'
    BY <1>5 DEF DeleteJunkWord
  <2>2. \A u \in TableName \ {"junkWords"} : rows'[u] = rows[u]
    BY <1>5, RemoveTyped
  <2>3. CASE Seeds[j] = "junkWords"
    <3>1. DOMAIN rows'["junkWords"] = {} => rows'["junkWords"] = Empty
      BY <1>5, RemoveTyped, NoRows DEF RowsTypeOK, TableName
    <3> QED
      BY <2>1, <2>3, <3>1, SeedFacts DEF Ready, Counted
  <2>4. CASE Seeds[j] # "junkWords"
    BY <2>1, <2>2, <2>4, SeedFacts DEF Ready, Counted, TableName
  <2> QED
    BY <2>3, <2>4
<1>6. ASSUME NEW r \in Request, UpsertNext(r), rows' # rows PROVE Ready(Seeds[j])'
  <2>1. emptied' = emptied
    BY <1>6 DEF UpsertNext, history
  <2> QED
    BY <1>6, <2>1, UpsertTyped, SeedFacts DEF Ready, Counted, TableName
<1>7. ASSUME NEW p \in Phrase, EditCliche(p) PROVE Ready(Seeds[j])'
  <2>1. CASE Seeds[j] \notin Category
    <3>1. emptied \subseteq emptied' /\ \A u \in TableName \ {"cliches"} : rows'[u] = rows[u]
      BY <1>7, ClicheTyped DEF EditCliche
    <3> QED
      BY <2>1, <3>1, SeedFacts DEF Ready, Counted, TableName
  <2>2. CASE Seeds[j] \in Category
    <3> DEFINE c == Seeds[j]
    <3>1. c # "weights" /\ c # "junkWords"
      BY <2>2, SeedFacts
    <3>2. CASE c \in emptied
      BY <1>7, <3>1, <3>2 DEF EditCliche, Ready
    <3>3. CASE Counted(c) # {} /\ p \notin DOMAIN rows.cliches
      <4>1. PICK q : q \in DOMAIN rows["cliches"] /\ rows["cliches"][q] = c
        BY <2>2, <3>3 DEF Counted
      <4>2. q \in DOMAIN rows'["cliches"] /\ rows'["cliches"][q] = c
        BY <1>7, <3>3, <4>1, ClicheTyped
      <4> QED
        BY <2>2, <3>1, <4>2 DEF Ready, Counted
    <3>4. CASE Counted(c) # {} /\ p \in DOMAIN rows.cliches
      <4>1. (\A q \in DOMAIN rows'.cliches : rows'.cliches[q] # c) => c \in emptied'
        BY <1>7, <2>2, <3>4 DEF EditCliche
      <4> QED
        BY <2>2, <3>1, <4>1 DEF Ready, Counted
    <3> QED
      BY <3>1, <3>2, <3>3, <3>4 DEF Ready
  <2> QED
    BY <2>1, <2>2
<1>8. rows' = rows => emptied \subseteq emptied'
  <2>1. CASE Fill
    BY <2>1 DEF Fill
  <2>2. CASE ~Fill
    BY <2>2, OtherStepsKeepRows
    DEF RowStep, CreateNorm, SetPageNorm, AddJunkWord, DeleteJunkWord, UpsertNext, EditCliche, history
  <2> QED
    BY <2>1, <2>2
<1>9. CASE rows' = rows
  BY <1>8, <1>9 DEF Ready, Counted
<1>10. CASE rows' # rows
  BY <1>2, <1>3, <1>4, <1>5, <1>6, <1>7, <1>10, OtherStepsKeepRows DEF RowStep
<1> QED
  BY <1>9, <1>10

\* The weights are all there or none of them is.
LEMMA WeightsStayComplete == TypeInv /\ DictInv /\ [Next]_vars => AllOrNothing'
<1> SUFFICES ASSUME TypeInv, DictInv, [Next]_vars PROVE AllOrNothing'
  OBVIOUS
<1>1. Seeds[4] = "weights" /\ 4 \in 1..4
  BY SeedFacts
<1>2. CASE Ready("weights")
  <2>1. Ready(Seeds[4])'
    BY <1>1, <1>2, ReadyStays
  <2> QED
    BY <1>1, <2>1 DEF AllOrNothing
<1>3. CASE DOMAIN rows["weights"] = {} /\ ~Ready("weights")
  <2>1. CASE rows'["weights"] = rows["weights"]
    BY <1>3, <2>1 DEF AllOrNothing
  <2>2. ASSUME NEW r \in Request, UpsertNext(r) PROVE FALSE
    BY <1>1, <1>3, <2>2 DEF UpsertNext, TypeInv, RequestTypeOK, ApiTypeOK, DictInv, Past
  <2>3. CASE Fill
    <3>1. PICK i : i = api.seed
      OBVIOUS
    <3>2. i \in 1..4 /\ \A u \in TableName \ {Table(Seeds[i])} : rows'[u] = rows[u]
      BY <2>3, <3>1, Fills
    <3>3. CASE Table(Seeds[i]) = "weights"
      <4>1. Seeds[i] = "weights"
        BY <3>2, <3>3, SeedFacts
      <4>2. Ready(Seeds[i])'
        BY <2>3, <3>1, FillReadies
      <4> QED
        BY <4>1, <4>2 DEF AllOrNothing, Ready
    <3>4. CASE Table(Seeds[i]) # "weights"
      BY <2>1, <3>2, <3>4 DEF TableName
    <3> QED
      BY <3>3, <3>4
  <2>4. CASE rows' # rows /\ ~Fill /\ ~(\E r \in Request : UpsertNext(r))
    BY <2>1, <2>4, OtherStepsKeepRows, NormTyped, AddTyped, RemoveTyped, ClicheTyped
    DEF RowStep, TableName
  <2> QED
    BY <2>1, <2>2, <2>3, <2>4
<1> QED
  BY <1>2, <1>3 DEF DictInv, AllOrNothing

\* The dictionaries already counted or filled are ready.
LEMMA DictStep == TypeInv /\ DictInv /\ [Next]_vars => DictInv'
<1> SUFFICES ASSUME TypeInv, DictInv, [Next]_vars PROVE DictInv'
  OBVIOUS
<1>0. ApiTypeOK
  BY DEF TypeInv
<1>1. ASSUME NEW i \in 1..4, task' # "none" PROVE Ready(Seeds[i])'
  BY <1>1, FirstTask, ReadyStays DEF DictInv, Past
<1>2. ASSUME NEW i \in 1..4, api'.at # "down", "dictionaries" \notin api'.todo,
             api'.at \in {"count", "fill"} => i < api'.seed
      PROVE  Ready(Seeds[i])'
  <2>1. CASE /\ api.at # "down" /\ "dictionaries" \notin api.todo
             /\ api.at \in {"count", "fill"} => i < api.seed
    BY <2>1, ReadyStays DEF DictInv, Past
  <2>2. CASE ~ApiStep
    BY <1>2, <2>1, <2>2, ApiElsewhere
  <2>3. CASE Start \/ Die
    BY <1>0, <1>2, <2>3, Moves DEF Start, Down, Hook
  <2>4. ASSUME NEW h \in Hook, RunHook(h) PROVE Ready(Seeds[i])'
    <3>1. CASE h = "dictionaries"
      <4>1. api'.at = "count" /\ api'.seed = 1
        BY <2>4, <3>1 DEF RunHook
      <4> QED
        BY <1>2, <4>1
    <3>2. CASE h # "dictionaries"
      BY <1>0, <1>2, <2>1, <2>4, <3>2 DEF RunHook, ApiTypeOK
    <3> QED
      BY <3>1, <3>2
  <2>5. CASE Listen
    BY <2>1, <2>5 DEF Listen
  <2>6. CASE FindNorm \/ CreateNorm
    BY <1>0, <1>2, <2>1, <2>3, <2>6, Moves DEF FindNorm, CreateNorm, Label
  <2>7. CASE Connect \/ Topology
    BY <1>0, <1>2, <2>1, <2>3, <2>7, Moves DEF Connect, Topology, Declare, Label, ApiTypeOK
  <2>8. CASE CountRows
    <3>1. api.at = "count" /\ api.seed \in 1..4
      BY <1>0, <2>8 DEF CountRows, ApiTypeOK
    <3>2. CASE Counted(Seeds[api.seed]) = {}
      BY <1>0, <1>2, <2>1, <2>8, <3>1, <3>2, SeededMoves DEF CountRows
    <3>3. CASE Counted(Seeds[api.seed]) # {}
      <4>1. Ready(Seeds[api.seed])
        BY <3>1, <3>3, SeedFacts DEF DictInv, AllOrNothing, Ready, Counted
      <4>2. CASE i = api.seed
        BY <4>1, <4>2, ReadyStays
      <4>3. CASE i # api.seed
        <5>1. i < api.seed
          <6>1. /\ api'.todo = api.todo
                /\ \/ api.seed = 4
                   \/ api'.at = "count" /\ api'.seed = api.seed + 1
            BY <1>0, <2>8, <3>1, <3>3, SeededMoves DEF CountRows
          <6> QED
            BY <1>2, <3>1, <4>3, <6>1
        <5>2. "dictionaries" \notin api.todo
          BY <1>0, <1>2, <2>8, <3>1, <3>3, SeededMoves DEF CountRows
        <5> QED
          BY <2>1, <3>1, <5>1, <5>2
      <4> QED
        BY <4>2, <4>3
    <3> QED
      BY <3>2, <3>3
  <2>9. CASE Fill
    <3>1. api.at = "fill" /\ api.seed \in 1..4
      BY <1>0, <2>9 DEF Fill, ApiTypeOK
    <3>2. CASE i = api.seed
      BY <2>9, <3>2, FillReadies
    <3>3. CASE i # api.seed
      <4>1. /\ api'.todo = api.todo
            /\ \/ api.seed = 4
               \/ api'.at = "count" /\ api'.seed = api.seed + 1
        BY <1>0, <2>9, <3>1, SeededMoves DEF Fill
      <4>2. i < api.seed
        BY <1>2, <3>1, <3>3, <4>1
      <4> QED
        BY <1>2, <2>1, <3>1, <4>1, <4>2
    <3> QED
      BY <3>2, <3>3
  <2> QED
    BY <2>2, <2>3, <2>4, <2>5, <2>6, <2>7, <2>8, <2>9 DEF ApiStep
<1>3. AllOrNothing'
  BY WeightsStayComplete
<1> QED
  BY <1>1, <1>2, <1>3 DEF DictInv, Past

\* Nothing is analysed before there is something to analyse it with, whatever
\* died at the starts before.
THEOREM TasksFindTheirDictionaries == Spec => []AnalysisIsConfigured
<1>1. Init => NormInv /\ DictInv
  BY DEF Init, NormInv, DictInv, Past, Down, AllOrNothing, Empty
<1>2. NormInv /\ DictInv => AnalysisIsConfigured
  <2> SUFFICES ASSUME NormInv, DictInv, task # "none"
               PROVE  /\ rows.norm # Empty /\ Feature \subseteq DOMAIN rows.weights
                      /\ \A s \in Category \union {"junkWords"} : Counted(s) # {} \/ s \in emptied
    BY DEF AnalysisIsConfigured
  <2>1. \A i \in 1..4 : Ready(Seeds[i])
    BY DEF DictInv
  <2>2. Ready("BUREAUCRATIC") /\ Ready("AI_CLICHE") /\ Ready("junkWords") /\ Ready("weights")
    BY <2>1, SeedFacts
  <2> QED
    BY <2>2, SeedFacts DEF Ready, NormInv
<1> QED
  BY <1>1, <1>2, TypeInit, TypeStep, NormStep, DictStep, PTL DEF Spec

-----------------------------------------------------------------------------
(* The probability of the AI detector                                      *)

\* The weights that a document is analysed with are weights.
ReadOK == \A f \in DOMAIN read.weights : read.weights[f] \in Entry

\* They were in the table when they were read.
LEMMA ReadStep == TypeInv /\ ReadOK /\ [Next]_vars => ReadOK'
<1> SUFFICES ASSUME TypeInv, ReadOK, [Next]_vars PROVE ReadOK'
  OBVIOUS
<1>1. \/ UNCHANGED read
      \/ read' = [weights |-> Empty] \/ read' = [weights |-> rows.weights]
  <2> USE DEF reader
  <2>1. CASE ApiStep
    BY <2>1 DEF ApiStep, Start, Listen, Connect, Topology, Declare, FindNorm, CreateNorm,
                CountRows, Fill, RunHook
  <2>2. CASE ApiDies \/ UNCHANGED vars
    BY <2>2 DEF ApiDies, vars
  <2>3. CASE Edit
    BY <2>3 DEF Edit, SetPageNorm, AddJunkWord, FindJunkWord, ReceiveUpdate, DeleteJunkWord,
                UpsertNext, EditCliche
  <2>4. CASE BrokerFalls \/ BrokerRises \/ WorkerStarts \/ Publish
    BY <2>4 DEF BrokerFalls, BrokerRises, WorkerStarts, Publish
  <2>5. CASE Analyse \/ Retry \/ DeadLetter
    BY <2>5 DEF Analyse, Read, Retry, DeadLetter
  <2> QED
    BY <2>1, <2>2, <2>3, <2>4, <2>5 DEF Next
<1> QED
  BY <1>1 DEF ReadOK, Empty, TypeInv, RowsTypeOK, WeightsOK

\* A score is missing or lies between 0 and 1000.
LEMMA ScoreRange ==
    ASSUME NEW scores \in Scores, NEW f \in Feature
    PROVE  scores[f] \in {NaN} \union 0..1000
<1>1. \A p \in Nat : PerplexityScore(p) \in {NaN} \union 0..1000
  BY DEF PerplexityScore, NaN
<1> DEFINE Q == {PerplexityScore(p) : p \in Perplexities}
<1>2. scores[f] \in Score \union {NaN} \union Q
  BY DEF Scores
<1>3. Score \subseteq 0..1000 /\ Perplexities \subseteq Nat
  BY ConfigurationAssumption
<1>4. ASSUME NEW p \in Perplexities PROVE PerplexityScore(p) \in {NaN} \union 0..1000
  BY <1>1, <1>3
<1> HIDE DEF NaN
<1>5. Q \subseteq {NaN} \union 0..1000
  BY ONLY <1>4
<1> HIDE DEF Q
<1>6. CASE scores[f] \in Score
  BY <1>3, <1>6
<1>7. CASE scores[f] = NaN
  BY <1>7
<1>8. CASE scores[f] \in Q
  BY <1>5, <1>8
<1> QED
  BY <1>2, <1>6, <1>7, <1>8

\* A mean of scores lies between the least and the largest of them.
LEMMA MeanOfScores ==
    ASSUME TypeInv, ReadOK PROVE ProbabilityIsAMean
<1> SUFFICES ASSUME NEW scores \in Scores,
                    NEW U, U = Used(read.weights, scores),
                    \A f \in U : read.weights[f].weight >= 0,
                    \E f \in U : read.weights[f].weight > 0
             PROVE  LET p == AiProbability(read.weights, scores) IN
                    /\ \E f \in U : scores[f] <= p
                    /\ \E f \in U : p <= scores[f]
  BY DEF ProbabilityIsAMean, Used
<1> DEFINE w == [f \in U |-> read.weights[f].weight]
           W == SumFunctionOnSet(w, U)
           V == SumFunctionOnSet([f \in U |-> w[f] * scores[f]], U)
<1>1. IsFiniteSet(U) /\ U # {}
  BY ConfigurationAssumption, FS_Subset DEF Used
<1>2. \A f \in U : w[f] \in Nat
  <2> TAKE f \in U
  <2> DEFINE e == read.weights[f]
  <2>1. w[f] = e.weight
    OBVIOUS
  <2>2. e.weight >= 0
    OBVIOUS
  <2>3. f \in DOMAIN read.weights
    BY Zenon DEF Used
  <2>4. e \in Entry
    BY <2>3, Zenon DEF ReadOK
  <2> HIDE DEF e, w
  <2>5. e.weight \in Int
    BY ONLY <2>4 DEF Entry
  <2> QED
    BY ONLY <2>1, <2>2, <2>5
<1>3. \A f \in U : scores[f] \in Nat /\ scores[f] <= 1000
  <2> TAKE f \in U
  <2>1. f \in Feature /\ scores[f] # NaN
    BY Zenon DEF Used
  <2>2. scores[f] \in {NaN} \union 0..1000
    BY ONLY <2>1, scores \in Scores, ScoreRange
  <2> HIDE DEF NaN
  <2> QED
    BY ONLY <2>1, <2>2
<1>4. PICK least \in U : \A f \in U : scores[least] <= scores[f]
  <2> DEFINE T == {scores[f] : f \in U}
  <2>1. PICK n \in T : \A m \in T : n <= m
    <3>1. T # {} /\ T \subseteq Nat
      BY <1>1, <1>3
    <3> QED
      BY <3>1, LeastNumber
  <2> QED
    BY <2>1
<1>5. PICK most \in U : \A f \in U : scores[f] <= scores[most]
  <2> DEFINE T == {1000 - scores[f] : f \in U}
  <2>1. PICK n \in T : \A m \in T : n <= m
    <3>1. T # {} /\ T \subseteq Nat
      BY <1>1, <1>3
    <3> QED
      BY <3>1, LeastNumber
  <2>2. PICK g \in U : n = 1000 - scores[g]
    OBVIOUS
  <2>3. ASSUME NEW f \in U PROVE scores[f] <= scores[g]
    <3>1. n <= 1000 - scores[f]
      BY <2>1
    <3> QED
      BY <1>3, <2>2, <3>1
  <2> QED
    BY <2>3
<1>6. /\ W > 0
      /\ scores[least] <= (2 * V + W) \div (2 * W)
      /\ (2 * V + W) \div (2 * W) <= scores[most]
  <2>1. \A f \in U : w[f] \in Nat /\ scores[f] \in scores[least]..scores[most]
    BY <1>2, <1>3, <1>4, <1>5
  <2>2. scores[least] \in Int /\ scores[most] \in Int /\ \E f \in U : w[f] > 0
    BY <1>3
  <2> HIDE DEF w
  <2> QED
    BY <1>1, <2>1, <2>2, MeanIsBetween
<1>7. AiProbability(read.weights, scores) = (2 * V + W) \div (2 * W)
  <2>1. [f \in U |-> w[f] * scores[f]] = [f \in U |-> read.weights[f].weight * scores[f]]
    OBVIOUS
  <2> QED
    BY <1>6, <2>1 DEF AiProbability
<1> QED
  BY <1>6, <1>7

\* Whatever the weights are edited to while a document is analysed, the AI
\* detector answers with a mean of the scores it has (AiDetectorService.analyze).
THEOREM ProbabilitiesAreMeans == Spec => []ProbabilityIsAMean
<1>1. Init => ReadOK
  BY DEF Init, ReadOK, Empty
<1> QED
  BY <1>1, TypeInit, TypeStep, ReadStep, MeanOfScores, PTL DEF Spec
=============================================================================

------------------------------- MODULE Corpus -------------------------------
(***************************************************************************)
(* The reference corpus: how a source gets into it                         *)
(* (server/src/corpus/corpus.service.ts), and how the plagiarism and the   *)
(* paraphrase stage look for copied passages and for retold sentences in   *)
(* it (plagiarism.service.ts and paraphrase.service.ts in                  *)
(* server/src/pipeline).                                                   *)
(*                                                                         *)
(* A source lives in three places that no transaction holds together: its  *)
(* row with all its shingles in Postgres, the windows of its shingles in   *)
(* the LSH index in Redis, and the embeddings of its sentences, replaced   *)
(* one by one.  A text is the sequence of its shingles.                    *)
(***************************************************************************)
EXTENDS Naturals, Sequences, FiniteSets

CONSTANTS
    Source,         \* sources, named by their content
    Shingles,       \* the shingles of each source
    Text,           \* the shingles of the text that is checked
    Sentences,      \* how many sentences each source has
    Similar,        \* pairs of windows that fall into a common LSH bucket
    TextSentences,  \* how many sentences the checked text has
    Alike,          \* which of them a sentence of a source is close enough to
    Adder,          \* requests that add a source
    Checker,        \* analyses that check the text
    NoSource,       \* the source of an idle adder
    ChunkSize,      \* CHUNK_SIZE
    ChunkStride,    \* CHUNK_STRIDE
    MaxFaults,      \* bound: calls that throw, and crashes of the api
    MaxRedisFaults  \* bound: Redis commands that fail

\* The windows of a text: one every ChunkStride shingles, until one reaches
\* its end.
Starts(s) ==
    {i \in {k * ChunkStride : k \in 0..Len(s)} :
        /\ i < Len(s)
        /\ i > 0 => i - ChunkStride + ChunkSize < Len(s)}

Window(s, i) == {s[j] : j \in {k \in DOMAIN s : i < k /\ k <= i + ChunkSize}}
Windows(s)   == {Window(s, i) : i \in Starts(s)}

Hashes(s) == {s[i] : i \in DOMAIN s}
AllWindows == Windows(Text) \union UNION {Windows(Shingles[c]) : c \in Source}

ASSUME SourceAssumption ==
    /\ NoSource \notin Source
    /\ Text \in Seq(Nat) /\ Shingles \in [Source -> Seq(Nat)]
    /\ ChunkSize \in Nat /\ ChunkStride \in Nat \ {0} /\ ChunkStride <= ChunkSize
    /\ Sentences \in [Source -> Nat] /\ TextSentences \in Nat
    /\ MaxFaults \in Nat /\ MaxRedisFaults \in Nat

\* Equal windows have equal signatures; different ones may collide.
ASSUME SimilarAssumption == \A w \in AllWindows : <<w, w>> \in Similar

VARIABLES
    rows,           \* the sources with a row, and therefore with shingles
    bands,          \* the LSH index: pairs of a source and a window
    embedded,       \* the sentences stored for each source
    apc, adding, next, reply,               \* the adders
    cpc, todo, candidates, owed,            \* the checkers
    reported, matched, sentence, retold,    \* and what they report
    faults, redisFaults

adderVars   == <<apc, adding, next, reply>>
reportVars  == <<reported, matched, sentence, retold>>
checkerVars == <<cpc, todo, candidates, owed, reportVars>>
vars == <<rows, bands, embedded, adderVars, checkerVars, faults, redisFaults>>

Init ==
    /\ rows = {} /\ bands = {}
    /\ embedded = [c \in Source |-> 0]
    /\ apc = [a \in Adder |-> "off"]
    /\ adding = [a \in Adder |-> NoSource]
    /\ next = [a \in Adder |-> 0]
    /\ reply = [a \in Adder |-> "none"]
    /\ cpc = [k \in Checker |-> "off"]
    /\ todo = [k \in Checker |-> {}]
    /\ candidates = [k \in Checker |-> {}]
    /\ owed = [k \in Checker |-> {}]
    /\ reported = [k \in Checker |-> {}]
    /\ matched = [k \in Checker |-> 0]
    /\ sentence = [k \in Checker |-> 1]
    /\ retold = [k \in Checker |-> {}]
    /\ faults = 0 /\ redisFaults = 0

-----------------------------------------------------------------------------
(* addDocument                                                             *)

Goto(a, label, n) ==
    /\ apc' = [apc EXCEPT ![a] = label]
    /\ next' = [next EXCEPT ![a] = n]
    /\ UNCHANGED <<adding, reply>>

Respond(a, r) ==
    /\ apc' = [apc EXCEPT ![a] = "over"]
    /\ reply' = [reply EXCEPT ![a] = r]
    /\ UNCHANGED <<adding, next>>

\* A call throws: the request is answered with an error, and what it has
\* already stored stays.
Throws(a) ==
    /\ faults < MaxFaults
    /\ faults' = faults + 1
    /\ Respond(a, "error")

Receive(a, c) ==
    /\ apc[a] = "off"
    /\ apc' = [apc EXCEPT ![a] = "lookup"]
    /\ adding' = [adding EXCEPT ![a] = c]
    /\ UNCHANGED <<next, reply, rows, bands, embedded, checkerVars, faults, redisFaults>>

\* The text is extracted first: an unsupported or damaged file is refused with
\* nothing stored.  A source with a row is then answered from the row, whatever
\* became of its index entries and embeddings.
Lookup_IndexesFirst(a) ==
    /\ apc[a] = "lookup"
    /\ \/ adding[a] \in rows /\ Respond(a, "existing") /\ UNCHANGED faults
       \/ adding[a] \notin rows /\ Goto(a, "index", 0) /\ UNCHANGED faults
    /\ UNCHANGED <<rows, bands, embedded, checkerVars, redisFaults>>

Lookup(a) ==
    /\ apc[a] = "lookup"
    /\ \/ adding[a] \in rows /\ Respond(a, "existing") /\ UNCHANGED faults
       \/ adding[a] \notin rows /\ Goto(a, "create", 0) /\ UNCHANGED faults
       \/ Throws(a)
    /\ UNCHANGED <<rows, bands, embedded, checkerVars, redisFaults>>

\* One insert stores the row with all its shingles.  contentHash is unique.
Create_NoUniqueHash(a) ==
    /\ apc[a] = "create"
    /\ rows' = rows \union {adding[a]}
    /\ Goto(a, IF Shingles[adding[a]] = <<>> THEN "embed" ELSE "index", 0)
    /\ UNCHANGED <<bands, embedded, checkerVars, faults, redisFaults>>

Create(a) ==
    LET c == adding[a] IN
    /\ apc[a] = "create"
    /\ \/ /\ c \notin rows
          /\ rows' = rows \union {c}
          /\ Goto(a, IF Shingles[c] = <<>> THEN "embed" ELSE "index", 0)
          /\ UNCHANGED faults
       \/ c \in rows /\ Respond(a, "error") /\ UNCHANGED <<rows, faults>>
       \/ Throws(a) /\ UNCHANGED rows
    /\ UNCHANGED <<bands, embedded, checkerVars, redisFaults>>

\* The result of the Redis pipeline is not looked at: a command that failed
\* leaves the window out of the index, and the loop goes on.
Index_FirstWindowOnly(a) ==
    /\ apc[a] = "index"
    /\ bands' = bands \union {<<adding[a], Window(Shingles[adding[a]], 0)>>}
    /\ Goto(a, "embed", 0)
    /\ UNCHANGED <<rows, embedded, checkerVars, faults, redisFaults>>

Index(a) ==
    LET c == adding[a]
        i == next[a] IN
    /\ apc[a] = "index"
    /\ \/ /\ bands' = bands \union {<<c, Window(Shingles[c], i)>>}
          /\ UNCHANGED redisFaults
       \/ /\ redisFaults < MaxRedisFaults
          /\ redisFaults' = redisFaults + 1
          /\ UNCHANGED bands
    /\ IF i + ChunkStride \in Starts(Shingles[c])
       THEN Goto(a, "index", i + ChunkStride)
       ELSE Goto(a, "embed", 0)
    /\ UNCHANGED <<rows, embedded, checkerVars, faults>>

\* embedSentences asks the nlp-service, which may be unavailable.
Embed_SwallowsErrors(a) ==
    /\ apc[a] = "embed"
    /\ \/ Goto(a, "clear", 0) /\ UNCHANGED faults
       \/ faults < MaxFaults /\ faults' = faults + 1 /\ Respond(a, "added")
    /\ UNCHANGED <<rows, bands, embedded, checkerVars, redisFaults>>

Embed(a) ==
    /\ apc[a] = "embed"
    /\ \/ Goto(a, "clear", 0) /\ UNCHANGED faults
       \/ Throws(a)
    /\ UNCHANGED <<rows, bands, embedded, checkerVars, redisFaults>>

\* replaceSentences: a DELETE, then one INSERT for every sentence.
Clear(a) ==
    LET c == adding[a] IN
    /\ apc[a] = "clear"
    /\ \/ /\ embedded' = [embedded EXCEPT ![c] = 0]
          /\ IF Sentences[c] = 0 THEN Respond(a, "added") ELSE Goto(a, "store", 1)
          /\ UNCHANGED faults
       \/ Throws(a) /\ UNCHANGED embedded
    /\ UNCHANGED <<rows, bands, checkerVars, redisFaults>>

Store(a) ==
    LET c == adding[a] IN
    /\ apc[a] = "store"
    /\ \/ /\ embedded' = [embedded EXCEPT ![c] = @ + 1]
          /\ IF next[a] = Sentences[c]
             THEN Respond(a, "added")
             ELSE Goto(a, "store", next[a] + 1)
          /\ UNCHANGED faults
       \/ Throws(a) /\ UNCHANGED embedded
    /\ UNCHANGED <<rows, bands, checkerVars, redisFaults>>

\* The api dies in the middle of its requests.
Crash ==
    /\ faults < MaxFaults
    /\ \E a \in Adder : apc[a] \notin {"off", "over"}
    /\ faults' = faults + 1
    /\ apc' = [a \in Adder |-> IF apc[a] = "off" THEN "off" ELSE "over"]
    /\ UNCHANGED <<adding, next, reply, rows, bands, embedded, checkerVars, redisFaults>>

-----------------------------------------------------------------------------
(* The plagiarism stage: candidates from Redis, certainty from Postgres    *)

\* What the check owes: the sources that were answered as added before it
\* began.
Begin(k) ==
    /\ cpc[k] = "off"
    /\ cpc' = [cpc EXCEPT ![k] = "search"]
    /\ todo' = [todo EXCEPT ![k] = Windows(Text)]
    /\ owed' = [owed EXCEPT ![k] =
         {c \in Source : \E a \in Adder : adding[a] = c /\ reply[a] = "added"}]
    /\ UNCHANGED <<candidates, reportVars, rows, bands, embedded, adderVars,
                   faults, redisFaults>>

\* findCandidateIds for one window; the windows are looked up in any order.
Search(k, w) ==
    /\ cpc[k] = "search" /\ w \in todo[k]
    /\ todo' = [todo EXCEPT ![k] = @ \ {w}]
    /\ candidates' = [candidates EXCEPT ![k] =
         @ \union {c \in Source : \E v \in AllWindows : <<c, v>> \in bands /\ <<v, w>> \in Similar}]
    /\ UNCHANGED <<cpc, owed, reportVars, rows, bands, embedded, adderVars,
                   faults, redisFaults>>

\* The exact comparison: the rows of CorpusShingle, by source and position,
\* of a candidate and with a shingle of the text.
Matches(k) ==
    {m \in UNION {{c} \X DOMAIN Shingles[c] : c \in candidates[k] \intersect rows} :
        Shingles[m[1]][m[2]] \in Hashes(Text)}

\* matchedHashSet.size; plagiarismPct is its share in all shingles of the text.
MatchedShingles_Rows(k) == Cardinality(Matches(k))
MatchedShingles(k) == Cardinality({Shingles[m[1]][m[2]] : m \in Matches(k)})

Verify(k) ==
    /\ cpc[k] = "search" /\ todo[k] = {}
    /\ cpc' = [cpc EXCEPT ![k] = IF TextSentences = 0 THEN "over" ELSE "compare"]
    /\ reported' = [reported EXCEPT ![k] = {m[1] : m \in Matches(k)}]
    /\ matched' = [matched EXCEPT ![k] = MatchedShingles(k)]
    /\ UNCHANGED <<sentence, retold, todo, candidates, owed, rows, bands, embedded,
                   adderVars, faults, redisFaults>>

-----------------------------------------------------------------------------
(* The paraphrase stage: each sentence of the text asks for the nearest    *)
(* stored one, which counts if it is close enough.  If any stored one is,  *)
(* the nearest is one of them.                                             *)

Nearest(i) ==
    {c \in rows : \E j \in 1..embedded[c] : <<i, c, j>> \in Alike}

Compare(k) ==
    LET i == sentence[k] IN
    /\ cpc[k] = "compare"
    /\ IF Nearest(i) = {} THEN UNCHANGED retold
       ELSE \E c \in Nearest(i) : retold' = [retold EXCEPT ![k] = @ \union {<<i, c>>}]
    /\ sentence' = [sentence EXCEPT ![k] = i + 1]
    /\ cpc' = [cpc EXCEPT ![k] = IF i = TextSentences THEN "over" ELSE "compare"]
    /\ UNCHANGED <<reported, matched, todo, candidates, owed, rows, bands, embedded,
                   adderVars, faults, redisFaults>>

-----------------------------------------------------------------------------
AdderStep(a) ==
    \/ Lookup(a) \/ Create(a) \/ Index(a) \/ Embed(a) \/ Clear(a) \/ Store(a)

Next ==
    \/ \E a \in Adder, c \in Source : Receive(a, c)
    \/ \E a \in Adder : AdderStep(a)
    \/ \E k \in Checker :
        Begin(k) \/ Verify(k) \/ Compare(k) \/ \E w \in AllWindows : Search(k, w)
    \/ Crash

Spec == Init /\ [][Next]_vars

-----------------------------------------------------------------------------
(* What the corpus promises                                                *)

StoreTypeOK ==
    /\ rows \subseteq Source
    /\ bands \subseteq rows \X AllWindows
    /\ embedded \in [Source -> Nat]

AdderTypeOK ==
    /\ apc \in [Adder -> {"off", "lookup", "create", "index", "embed", "clear", "store", "over"}]
    /\ adding \in [Adder -> Source \union {NoSource}]
    /\ \A a \in Adder : adding[a] = NoSource <=> apc[a] = "off"
    /\ next \in [Adder -> Nat]
    /\ reply \in [Adder -> {"none", "added", "existing", "error"}]

CheckerTypeOK ==
    /\ cpc \in [Checker -> {"off", "search", "compare", "over"}]
    /\ todo \in [Checker -> SUBSET Windows(Text)]
    /\ candidates \in [Checker -> SUBSET Source]
    /\ owed \in [Checker -> SUBSET Source]
    /\ reported \in [Checker -> SUBSET Source]
    /\ matched \in [Checker -> Nat] /\ sentence \in [Checker -> Nat]
    /\ retold \in [Checker -> SUBSET (Nat \X Source)]

\* Every variable holds values of its kind, and no entry of the index points
\* to a source without a row.
TypeOK ==
    /\ StoreTypeOK /\ AdderTypeOK /\ CheckerTypeOK
    /\ faults \in Nat /\ redisFaults \in Nat

Missing(c) == {w \in Windows(Shingles[c]) : <<c, w>> \notin bands}
Searchable(c) == c \in rows /\ Missing(c) = {} /\ embedded[c] = Sentences[c]

\* An upload that was answered as added can be found by both searches: every
\* sentence is stored and every window indexed, but for one window for each
\* command that Redis refused.
AddedIsSearchable ==
    \A a \in Adder : reply[a] = "added" =>
        /\ adding[a] \in rows /\ embedded[adding[a]] = Sentences[adding[a]]
        /\ Cardinality(Missing(adding[a])) <= redisFaults

\* However requests for one source race and fail, no sentence is stored twice.
SentencesOnce == \A c \in Source : embedded[c] <= Sentences[c]

\* The owed sources with more windows of the text than Redis refused.
Findable(k) ==
    {c \in owed[k] : Cardinality(Windows(Shingles[c]) \intersect Windows(Text)) > redisFaults}

\* A check reports every source that was added before it began and of which
\* the text repeats a window, although the index and the rows are written
\* and read without a transaction; a refused Redis command hides a source only
\* if there is no other window to find it by.
CopyIsFound ==
    \A k \in Checker : cpc[k] \in {"compare", "over"} => Findable(k) \subseteq reported[k]

\* The shingles of the text that are copied if the corpus is S.
Copied(S) == Hashes(Text) \intersect UNION {Hashes(Shingles[c]) : c \in S}

\* Whatever is added while the check runs and whatever collides in the index,
\* the reported share is that of a corpus between the one the check began with
\* and the one it ended with: nothing that both sides have is lost, a shingle
\* of several sources, or at several places, counts once, and what only the
\* index takes for a copy does not count (PlagiarismService.analyze).
ShareIsOfTheCorpus ==
    \A k \in Checker : cpc[k] \in {"compare", "over"} =>
        /\ Cardinality(Copied(Findable(k))) <= matched[k]
        /\ matched[k] <= Cardinality(Copied(rows))
        /\ matched[k] <= Len(Text)

\* A retold sentence of a source that was added before the check began is
\* counted, whatever requests for the same source do to its stored sentences
\* meanwhile (ParaphraseService.analyze, VectorSearchService).
ParaphraseIsFound ==
    \A k \in Checker : cpc[k] = "over" =>
        \A i \in 1..TextSentences :
            (\E c \in owed[k] : \E j \in 1..Sentences[c] : <<i, c, j>> \in Alike)
            => \E c \in Source : <<i, c>> \in retold[k]

\* POST /api/corpus "adds a document to the reference corpus the uploaded
\* works are checked against" (README.md): an answer 201 about a source nobody
\* is still working on says that the source can be found.
AcceptedIsSearchable ==
    \A a \in Adder :
        /\ reply[a] \in {"added", "existing"}
        /\ ~\E b \in Adder : adding[b] = adding[a] /\ apc[b] # "over"
        => Searchable(adding[a])
=============================================================================

# Antiplagiat: TLA+ models and proofs

The repository is a plagiarism checker for documents: an HTTP `api` and a
`worker` (one NestJS code base under `server/`), a Python `nlp-service`, and
PostgreSQL, Redis and RabbitMQ between them. This directory models the parts of
it that are concurrent, distributed or fail halfway, checks them with TLC and
proves the most important results with TLAPS.

## 1. Inventory

| Component | State | Operations | Hard behaviours | What makes it correct |
|---|---|---|---|---|
| Task processing (`processing/`, `results/`) | row of a document: status, retryCount, failedStage, failureReason; its report `detailsJson` | `handleAnalyzeDocument`, `runPipeline`, `handleFailure`, `mergeDetails`, `recomputeOriginality` | any number of handlers interleave at every `await`; redelivery after crashes and closed channels; the error handler itself may throw | a verdict is earned, complete and final; no task is duplicated or forgotten; no stage erases another one's section |
| Task queue (`queue/`, RabbitMQ) | queue, dead letter queue, unacknowledged deliveries | publish, deliver, ack, nack with and without requeue | non-persistent messages, fire-and-forget publish, channels closing under a live handler | every queued task is answered; dead tasks have told their client |
| Uploads and event stream (`documents/`) | requests in flight, open streams | `uploadDocument`, `getById`, `stream` | concurrent uploads of one content; crash between insert and publish; late answers to earlier ticks | one row and one task per content; what a client sees never goes back; a stream ends with the verdict |
| Reference corpus (`corpus/`, `shingling/`, `vector-search/`) | rows with shingles (Postgres), LSH bands (Redis), sentence embeddings (pgvector) | `addDocument`, `indexCorpusDocument`, `replaceSentences`, `findCandidateIds`, `findNearestCorpusSentence` | three stores without a transaction; racing requests; refused Redis commands; checks during an insert | what was answered as added is found by both searches; nothing is stored twice; the reported share counts what both sides have, once |
| Plagiarism, self-plagiarism, paraphrase (`pipeline/`) | shingles of documents, percentages, originality | the first two stages | analyses of one author's documents at the same time; repeated attempts | shingles stored once; one of two copies is found; originality fits the percentages shown |
| Grammar, style, spam, AI detector, external search | their section of the report | `analyze` | may fail at any point; weights and dictionaries edited meanwhile; features without a score | the section is theirs alone; shares do not depend on the length of the text; the probability is a mean of the scores used |
| Metrics, language, tampering, metadata (`documents/`, `tampering/`, `document-metadata/`) | none | called by `uploadDocument` | boundary values; texts in two alphabets and several languages | every disguised letter is reported and no honest one; the dominant language is the largest |
| Settings and dictionaries (`settings/`, `dictionary-seed/`, `junk-words/`, `detector-weights/`) | page norm, weights, cliches, junk words | filling at every start of the api, editing, reading by the worker | starts that break off between two calls; requests and hand edits that interleave; edits while a document is analysed | a document is never analysed with an empty dictionary nobody emptied; edits survive starts; one row is removed once |
| NLP client, nlp-service | loaded models | embed, lemmatize, perplexity, OCR | unavailable or slow | an error reaches the caller as an exception |
| Application shell (`main.ts`, modules, `health/`) | none | the order of a start, wiring, validation, health | a hook that throws ends the process, compose starts it again | the api listens in the end, and not before its hooks are over |

The api inserts a row and *publishes* its id; the broker *delivers* it to the
worker; the worker's stages *write* the row and the report, *read* what the
corpus requests and the edits of the api have stored, and *call* nlp-service;
the client *polls* the row through the api's event stream. The api *declares*
the queues and *fills* the dictionaries at its start, and compose starts the
worker after it. Nothing else connects the two processes: every interaction goes
through Postgres, Redis or the queue.

## 2. Modules

| Module | What it is | Code |
|---|---|---|
| `Lifecycle` | abstract specification: what a client is promised about a document | - |
| `Processing` | api, broker and worker around one task; a handler is a program counter between two awaits | `processing.controller.ts`, `analysis-result.service.ts`, `queue/` |
| `Uploads` | EXTENDS `Processing`: requests and event streams in front of the same worker | `documents.service.ts`, `documents.controller.ts` |
| `Corpus` | adding a source and searching for copied windows and retold sentences at the same time | `corpus.service.ts`, `lsh-index.service.ts`, `vector-search.service.ts`, `chunk-shingles.ts`, `plagiarism.service.ts`, `paraphrase.service.ts` |
| `Borrowing` | shingles, self-plagiarism and originality of documents of one author | `plagiarism.service.ts`, `paraphrase.service.ts`, `analysis-result.service.ts` |
| `Measures` | what the other stages and the upload compute from a text: disguised letters, citations, languages, style, spam, the scores of the AI features, the sample for the external search | `tampering.service.ts`, `basic-metrics.service.ts`, `style.service.ts`, `spam.service.ts`, `language-detection.service.ts`, `ai-detector/features/`, `external-search.service.ts` |
| `Configuration` | the start of the api, the edits of settings and dictionaries, a document that is analysed meanwhile, the weighted mean of the AI detector | `queue-topology.service.ts`, `settings.service.ts`, `dictionary-seed.service.ts`, `junk-words.service.ts`, `detector-weights.service.ts`, `ai-detector.service.ts` |
| `MC...` | instances for TLC; `MCProcessing` also states a sentence of the sources that the code does not keep | - |
| `ProcessingProofs`, `WorkerProofs` (with the refinement), `UploadsProofs`, `CorpusProofs`, `BorrowingProofs`, `ConfigurationProofs`, `MeasuresProofs` | the theorems | - |
| `SumProofs` | induction over numbers and finite sets; sums over finite sets, quotients and means | - |

Definitions named `A_B` are broken forms of `A` ("in the way B says"). No
specification uses them: with one of them in the place of `A`, TLC violates the
property it belongs to, which shows that the property depends on that code.

### Processing

`pc[h]` says before which call a handler is. The labels in the order of the
code: `find` (findUnique), `begin` (PROCESSING), for every section `read` and
`write` (the two halves of `mergeDetails`), `recompute` where a stage ends with
`recomputeOriginality`, `finish` (DONE), `ack`; in the catch block of a stage
`mark` (failedStage); in `handleFailure` `fail` (the increment), then `giveUp`
(FAILED) and `deadLetter`, or `requeue`. A handler whose promise has rejected
outside the try block is `stuck`: its message stays unacknowledged. The
plagiarism stage writes two sections, so the pipeline is a sequence of eight
sections for seven stages (`FullPipeline`); only the order matters to the
invariants and the passing runs use two or three.

`held[h]` says whether the handler still has its message. A crash of the worker
takes all of them back; a closing channel too, but its handlers run on, and
their `ack` and `nack` throw: that is what makes two handlers overlap on one
document. Database calls may throw at every call (`Throws`); a call that throws
is taken as not applied. An update of a deleted row always throws. Nothing in
the code deletes a document; `Delete` is there because the handler has a branch
for it.

What a stage computes is left out: `StageFails` lets it fail, `MergeWrite` lets
it write its section.

### Uploads

A request is `lookup`, `prepare`, `insert`, `emit`, `over`. The row and the
message are written by `Processing!Create` and `Publish`, so that the worker
sees nothing new. The emitted message leaves the api in a later step, `Send`,
or never. `Prepare` stands for everything between the lookup and the insert and
keeps its outcome only. On the stream, `switchMap` drops the answer of an older
tick when a new one begins (`Tick`), `takeWhile(..., true)` sends the verdict
before it closes (`Show`). A request answered with an error gets one of the
codes of the exception filter.

### Corpus

A text is the sequence of its shingles, and `Starts`, `Window` and `Windows`
are `chunkShingles`. MinHash and the bands of the LSH index come down to one
constant relation between windows, `Similar`: equal windows are similar because
equal sets have equal signatures, and any other pair may be. A refused Redis
command leaves a whole window out of the index, the worst of what one band
less can do. A check looks up its windows (`Search`), compares with the rows of
the candidates (`Matches`, `Verify`), and then asks for the nearest stored
sentence of each of its own (`Compare`). Which sentences are close enough is a
constant, `Alike`; if several are, `Nearest` leaves open which one comes first.
`owed` is an observation of what the check has to find and has no counterpart in
the code. A stage of the check that throws writes nothing and is repeated as a
whole (`Processing`), so checks do not fail here.

### Borrowing

One handler per document (which `SoleHandler` of `Processing` shows), an attempt
that may fail after every step, and percentages in tenths, as the code rounds
them. `Tenths` is `Math.round(m / n * 1000)`, `Rest` the formula of
`recomputeOriginality`. The search in the corpus and in the embeddings returns
any percentage in `Pct`.

### Measures

Pure functions, written as operators over a text at the grain each of them
needs: characters by kind for the tampering scan and the citations, paragraphs
with a language and a number of words, sentences of words by kind. `subject` is
chosen once and `input` grows by one piece per step, so that TLC meets every
text up to a length. Regular expressions are modelled by what they find:
`WordAround` is a run of letters, `Pending` the left-to-right search of
`/"([^"]+)"/`, which starts anew at the second quote of an empty pair. Shares
are integers in tenths of a percent rounded as `Math.round` does, scores are in
thousandths, the variation of sentence lengths is kept as a fraction before its
root. `Picks` allows for the floating point step of `sampleEvenly`: where the
exact product is whole, the computed one may fall just below it. Sentences have
at least one word, as `splitSentences` filters the others. A scanned file has a
format, may not open, and its markup comes down to the marks and font sizes that
`scanDocx` searches for, wherever they stand. The
actions that build `input` are no code of the program: they stand for whatever
text is uploaded.

### Configuration

`api.at` says before which call of its start the api is: `starting` between two
hooks (`todo` holds those to come, in any order, as the framework fixes it),
`connect` (`connectWithRetry`), `declareDeadLetters` and `declareTasks`
(`QueueTopologyService`), `findNorm` and `createNorm` (`SettingsService`),
`count` and `fill` for each of four dictionaries (`DictionarySeedService`), and
`listening`. A call that throws, and a death at any label, leave `Down` and
whatever has been stored. The tables are functions from their key (phrase, word,
feature) to the rest of the row, because the key is unique in each; `Under` is
`createMany` with `skipDuplicates` and the empty `update` of an upsert. A junk
word has a number in the place of its generated id, so that a word added again
is a new row. `request[r]` keeps the items of `PUT /weights` still to be written
and the row that `DELETE` has found. Words are trimmed and put in lower case by
`Normal`. `emptied` is an observation and has no counterpart in the code.

The document is read in the order of the stages (`Read`), and the row set that
the detector got is kept in `read`, as the promises of the features run after
it. Which features have a score is open; `PerplexityScore` is the arithmetic of
`PerplexityFeature`, with `NaN` for every way in which nlp-service is not
available.

## 3. Runs

| Run | Bounds | What it shows |
|---|---|---|
| `ProcessingSafe` | 2 documents, 2 handlers, 3 sections, 2 attempts, 2 crashes, 2 database faults, lost publishes, deleted rows, open channels | every safety invariant of the worker, its action properties, and that it implements `Lifecycle` |
| `ProcessingLive` | the same with one crash, no database faults, fairness | every accepted document gets a verdict that stays |
| `ProcessingClosing` | 1 document, 3 handlers, 1 closed connection or broker restart, 1 crash, 1 database fault, fairness | a queued task is answered although handlers overlap or get stuck |
| `Uploads` | 2 requests over 4 kinds of content (readable, readable if declared as text, unsupported, too large), 1 stream, a crash of the api and one of the worker | no second task for one content; the stream never goes back and ends with the verdict |
| `Corpus` | 2 sources of 4 and 2 shingles and 2 and 1 sentences, windows of 2 with stride 1, 2 requests, 1 check of 4 shingles and 2 sentences, 1 fault, 1 refused command, a collision, a shingle and a sentence of both sources | added sources are found by both searches, also after a refused command, nothing is stored twice, the share counts a common shingle once and a collision never |
| `Borrowing` | 2 documents of one author with a common shingle (one of them analysed up to twice), 1 without author and shingles, 2 handlers | shingles once, one of the two copies found, originality current |
| `Measures` | texts of 5 characters of 6 kinds, 7 of 5 kinds for quotes, 4 paragraphs of 1, 999 or 1000 words in 3 languages, 5 words of 4 kinds in any sentences, DOCX files with hidden, white and tiny text and files that do not open, texts of 9 shingles and samples of up to 8 | what is measured agrees with an independent description: the disguised letters, what stands between quotes, the largest language, invariance under doubling of the text, an even spread |
| `Configuration` | 2 phrases, 2 junk words, 2 features, 2 requests, 2 attempts to connect, 1 death of the api, 1 outage of the broker, 1 edit by hand, scores 0, 500, 1000 and none, fairness | nothing is analysed or dead-lettered before everything for it is there, edits survive starts, one row is removed once, the probability is a mean, the api listens in the end |

Why the bounds are enough: the properties of the worker speak of two handlers,
of two documents (to mix up tasks) and of one more redelivery than the fault
under question needs; two attempts separate the first failure from the last
one; three sections make a stage of two sections, a recomputation and a stage
after it. In the measures five letters make a native and a foreign word, seven
characters two citations with text between them, and paragraphs of 999 and 1000
words two languages whose rounded shares are equal. In the corpus two requests
make every race between a lookup and an insert; the longer source has two
windows in common with the text, so that one refused command leaves another one
to find it by, and two sentences, so that a second request could delete the first
while the other is stored. In the configuration one death leaves any prefix of
a start behind for the next one, the outage meets every attempt to connect, and two requests make every race
of two deletions or of two updates. The theorems below remove these bounds for
every safety property that a run checks: of the worker, of uploads and streams, of
the corpus, of self-plagiarism, of the configuration and of the measures, whose
texts may have any length there.

`CHECK_DEADLOCK FALSE` everywhere: with every document settled and all bounded
faults used up the system rightly stops.

### Where the sources say more than the code does

| Run | Sentence | Counterexample |
|---|---|---|
| `ClaimErasesNothing` | a stage "must not erase what the others have written" (`analysis-result.service.ts:7`) | the channel closes, two handlers overlap, the older one writes back the report it read before |
| `ClaimUploadProcessed` | "from here on the document is processed asynchronously by the worker" (`documents.service.ts:85`) | api dies between insert and publish; the next upload is answered from the cache and publishes nothing |
| `ClaimCorpusSearchable` | 201 "document added to the corpus" (`corpus.controller.ts:19`) | the first upload breaks off after the insert, the second one is answered from the row |
| `ClaimPreviousOnly` | "previous documents of the same author" (`plagiarism.service.ts:139`) | the second document stores its shingles before the first one is compared |

The properties of `Measures` and `Configuration` show where they end, too; the
sources make no claim there that the code breaks in every reading, so no run
refutes one. Citations in both styles inside one another are counted twice. A
hidden character that cuts a word can hide a disguised letter next to it. A junk word of more than one word,
which the api accepts, is looked for among single words and never found.
Negative weights, which the api accepts, take the probability out of 0..1, and
in the middle of an update the weights may add up to 0, which gives probability
0. A dictionary that an editor has emptied is filled again at the next start:
"once, at the first start" (`src/README.md:289-291`) is true of one that keeps a
row. Two handlers on one document after a closed channel can leave it
`PROCESSING` without a task, because the failing one's `nack` goes nowhere.

## 4. Fairness

* A handler goes on when its await is over: weak fairness of `HandlerStep(h)`.
  The code has no timeouts of its own, so every call is taken to answer or to
  throw at some time.
* The broker pushes queued tasks to a live consumer, and the api flushes its
  socket: weak fairness of `Deliver` for each document and of
  `Publish \/ LosePublish` (`Send`). A worker that crashes is restarted by
  `restart: unless-stopped` in `docker-compose.yml`.
* RabbitMQ closes a channel with a delivery that was never acknowledged: weak
  fairness of `AckTimeout`. Without it a task whose `handleFailure` threw would
  wait until the next crash, so `ProcessingLive`, where channels stay open, has
  no database faults, and `ProcessingClosing` has them.
* The timer of a stream and its query: weak fairness of `Tick` and `Fetch`. The
  answer may be late for some ticks but not for all: strong fairness of `Show`,
  which a tick disables again and again.
* Compose restarts the api and the broker (`restart: unless-stopped`) and starts
  the worker when the api is healthy (`depends_on`): weak fairness of `ApiStep`,
  `BrokerRises` and `WorkerStarts` in `Configuration`. Deaths and outages are
  bounded there, since nothing listens while they never end.
* Nothing forces an upload, a crash, a lost message or a closed channel.

`EventuallySettled` excludes lost messages: the api never publishes again.

## 5. Proofs

All proofs are for any set of documents, handlers, requests, streams, sources,
checks and dictionary entries, any pipeline, any text, and any bound on the
faults. Their assumptions are the named `ASSUME`s of the modules; TLC evaluates
them in every run. They say of the constants what the code guarantees: the
features of the detector, for instance, are finitely many, and a page has a
positive number of characters.

* `TypeCorrect`: `TypeOK` is inductive.
* `TaskNeverDuplicated`: `TaskInv` adds to `TypeOK` and `OneCopy` that the tasks
  still to come do not exist yet (a `NEW` document has no task and no handler),
  without which an upload could add a second copy.
* `FailureIsEarned`: `FailedInv` says that a handler at `giveUp` has already seen
  an exhausted counter; the counter never goes down, so overlapping handlers
  cannot undo it.
* `WorkerIsSafe` and, for each of its parts, `OneHandlerPerDocument`,
  `DoneIsComplete`, `DoneIsClean`, `DeadLettersAreFailed`, `NoTaskForgotten`: for
  open channels, `WorkerInv` gives each document a `Verdict`
  condition (what a row in each status says about the report, failure data and
  its task) and each handler a condition per label: what it has established by
  the time it stands there (at `write` its snapshot is the current report, at
  `finish` the report is complete). It rests on `SoleHandler`: no other handler
  changes the row in between.
* `WorkerImplementsLifecycle`: every step of `Processing` is a step or a stutter
  of `Lifecycle` under `phase <- status`, `report <- sections`, `attempts <-
  retryCount`, `reason <- failureReason`, `redeliveries <- crashes`. It needs
  `FinalInv`: before the first crash no handler is at work on a settled
  document, except those about to settle its message.
* `StagesEraseNothing`, `VerdictsAreFinal`: action properties from the same
  invariants.
* `UploadTypeCorrect`, `UploadsDuplicateNothing`: for the worker every step of
  the api is one of its own steps, a stutter, or a crash that loses the outbox
  (`ApiSteps`), so its invariants hold behind any number of uploads.
* `StreamsGoForward`, `StreamsEndWithVerdict`: `SeenInv` says that every status
  a client was shown, or that is on its way to it, is not ahead of the row and
  is the status of the row if it is a verdict; an answer on its way is not
  behind what was shown. `StreamInv` adds that a stream has at most one answer
  on its way, which is what a tick cancels for, and `RequestInv` that a request
  answers with a status only of a row that exists.
* `CorpusTypeCorrect`, `AddedCanBeFound`, `SentencesStoredOnce`: `AdderInv` says,
  for each label of a request, what it has stored so far (all windows before
  `next`, exactly `next - 1` sentences), and that only the request that inserted
  the row is past `create` for this source.
* Refused Redis commands need a count in `AdderInv` (`Covered`): every window that
  a request has passed over, or left behind when it is done, cost one of them.
* `CopiesAreFound`, `SharesAreOfTheCorpus`, `ParaphrasesAreFound`: `CheckerInv`
  says that a source owed to a check was answered as added, that a window which
  is no longer to do has brought in every owed source that has it in the index,
  and what the check has reported and compared so far. A source with more
  windows in common than Redis refused then has one left (`CommonIsShared`), and
  all of its shingles are in the rows, which bounds the share from below; the
  rows bound it from above, whatever is only a candidate (`MatchedBetween`).
  Nothing is deleted under a check because the one request that inserted an
  owed source is over (`NobodyDisturbs`).
* `PassagesStayTogether`, `WindowsHoldTheText`, `LongCopiesShareAWindow`: what
  `chunkShingles` guarantees for every text, window size and stride. A passage of
  up to `ChunkSize - ChunkStride + 1` shingles lies in the last window that starts
  before it, or in the last of all, which reaches the end of the text
  (`WindowsToTheEnd`, a least counterexample): with 20 and 10 these are 11 shingles,
  where the comment in `chunk-shingles.ts` says "almost certainly". Two texts that
  repeat `ChunkSize + ChunkStride - 1` shingles share a window if the passage is
  as far from a multiple of the stride in both, and then `CopyIsFound` speaks of
  them. A passage that is shifted by a part of the stride is found only through
  windows that are similar, which the model leaves to `Similar`.
* `BorrowingTypeCorrect`, `ShinglesStoredOnce`, `OriginalityFollows`: `RowInv`
  says, for each label of a handler, what the row of its document holds by then
  (the shingles before and after `store`, the percentages behind the
  originality), and that no other handler has this document.
* `OneReportShowsIt`: `PairInv` relates two documents with a common shingle. Of
  two that have both looked, one tells of the other; one that is about to look
  has the other on its list or is told of by it; and of two about to look at
  least one has the other on its list, because the later one to list came after
  the other's shingles were stored. Only all three together are kept by a step.
* `ConfigurationTypeCorrect`: `TypeInv` types the tables, the start and the
  requests.
* `EditsSurviveStarts`: `FillsEmpty` says that the table which a start is about
  to fill is still empty, because nobody else listens between count and fill.
* `OneRemovalPerRow`: `RemoveInv` says that the row of a finished removal is not
  there and cannot return, its number being below `serial`.
* `DeadLettersReachTheirQueue`, `TasksFindTheirDictionaries`: `QueueInv`,
  `NormInv` and `DictInv` say, for each label of a start, what exists by then
  whatever earlier starts have left, and that nothing but an editor undoes it.

* `ProbabilitiesAreMeans`: the probability is a quotient of two sums over the
  features that are in use. `SumProofs` shows what such a sum is worth for every
  finite set (`SumFromAny`, `SumOfLarger`, `SumOfMultiples`), and `MeanIsBetween`
  that the rounded quotient lies between any bounds of the scores.

The measures are proved of a text of any length, from `Shape`, which says what
kind of text `input` is for each `subject`. There is no invariant to find here;
the arguments are about what the definitions compute.

* `TwinsAreReported`: replacing letters by their twins moves no border of a word
  (`WordsStay`), and a letter of a word that was left as it is is the witness that
  the word is native; in an honest text no word has such a witness beside a twin
  of the other alphabet (`HomoglyphsAreTheDisguise`). That the majority stays is
  a hypothesis of the property.
* `CitedIsCounted`: in a tidy text `Pending` is 0 exactly where the number of
  quotes so far is even (`PendingIsOdd`, by induction over the positions); for
  angle quotes the difference of the two counts is 1 exactly between a pair.
* `DominantHasMostWords`: of two shares of one total the larger one has at least
  as many words but for the rounding; that the largest share exists, with the
  first block to break ties, is `LeastNumber` twice.
* `DoublingKeepsShares`: `Words` of two copies are two copies of `Words`
  (`WordsTwice`), every count over two copies is twice the count over one
  (`TwiceAsOften`, by a bijection), and so is every sum (`TwiceTheSum`). Shares
  then cancel (`ShareOfTwice`), first uses stay where they are (`FirstUseIs`),
  and only the rounding of pages and the joint of the copies are left.
* `SampleIsEven`: two neighbouring places, computed exactly, are the whole step or
  one more apart (`PlacesStep`). A product falls short only at a place that is a
  whole number, where the step before was one more and the step behind was not,
  so that the gaps stay the same two numbers (`PicksAreSpread`); the shingle at a
  place has as many rare ones before it as the place says (`RarePlaces`).

Induction. The induction theorems of the library take an operator as a parameter
and cannot be used by the installed provers. Here each induction is a statement
about a set of numbers or of subsets (`EveryNumber`, `EverySubset`), proved from a
least counterexample, which well-foundedness of `<` on the natural numbers gives.
That a function defined by recursion exists at all is proved the same way
(`RecursionExists`, `SumsExist`): without it nothing follows from its definition.

Only model-checked: the liveness properties `EventuallySettled`,
`QueuedIsAnswered`, `StreamEnds` and `ApiListens`, whose fairness is out of the
prover's reach.

## 6. Not modelled, and why

* Of the pure computations: what LanguageTool finds (`GrammarService` counts its
  answer) and the other counts of the basic metrics, which are single
  expressions. Extraction of text, with its fall-back to OCR, keeps its outcome
  only; a text that OCR failed on is stored and answered from the cache for ever,
  and no source says what should become of it.
* The dates of a file (`document-metadata/`): two comparisons of two numbers and
  a threshold, without state. `parsePdfDate` drops the time zone before that, so a
  PDF created and edited in different zones may be called contradictory; no
  property of the comparison shows it, because the zones are gone by then.
* The values of MinHash, FNV-1a and of embeddings: numbers of a fixed
  arithmetic or of a learned model; the model keeps what is certain of them.
* The requests to the search engines: their failures are caught one by one.
* A resend by the client library of a message whose confirmation was lost.
* The texts of the exceptions, the validation of input and the wiring of the
  framework: no state and no order of steps.
* `removeCorpusDocument`: no caller.
* The nlp-service: stateless; a call of it answers or throws.

## 7. Plan

Done, in the order of importance: `Processing` and `Lifecycle` with their
proofs; `Uploads` with its proofs; `Corpus` with its proofs; `Borrowing` with its proofs;
`Measures` with its proofs; `Configuration` with its proofs.

Next:

* Overlapping handlers in `Borrowing` (closed channels), a duplicated publish
  in `Processing`.

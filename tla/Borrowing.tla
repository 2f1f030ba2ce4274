----------------------------- MODULE Borrowing ------------------------------
(***************************************************************************)
(* What the plagiarism and paraphrase stages store about borrowing: the    *)
(* shingles of a document, its self-plagiarism against the other documents *)
(* of its author (computeSelfPlagiarism), and the originality that         *)
(* recomputeOriginality derives from three percentages.                    *)
(*                                                                         *)
(* Documents of one author are analysed at the same time, and an attempt   *)
(* may fail anywhere and be repeated; two attempts at one document never   *)
(* overlap here (SoleHandler of Processing).  Percentages are integers in  *)
(* tenths of a percent, as the code rounds them.                           *)
(***************************************************************************)
EXTENDS Naturals, Integers, Sequences, FiniteSets

CONSTANTS
    Doc,            \* documents
    Handler,        \* handlers of the worker
    NoDoc,          \* the job of an idle handler
    Author,         \* the author of each document
    NoAuthor,       \* of a document uploaded without authorEmail
    Shingles,       \* the shingles of each document
    Pct,            \* percentages the searches in the corpus may return
    MaxAttempts     \* bound: attempts at each document

ASSUME BorrowingAssumption ==
    /\ NoDoc \notin Doc
    /\ DOMAIN Author = Doc /\ DOMAIN Shingles = Doc
    /\ \A d \in Doc : Len(Shingles[d]) \in Nat /\ DOMAIN Shingles[d] = 1..Len(Shingles[d])
    /\ Pct \subseteq 0..1000 /\ Pct # {}
    /\ MaxAttempts \in [Doc -> Nat]

VARIABLES
    uploaded,       \* the documents in the order of their upload
    attempts, done, \* attempts so far; was the last one completed?
    copies,         \* how often the shingles of a document are stored
    plagiarism, paraphrase, self, originality,  \* AnalysisResult
    matched,        \* detailsJson.selfPlagiarism: the documents found
    pc, job, others, found, read, recomputed    \* the handlers

resultVars  == <<plagiarism, paraphrase, self, originality, matched>>
handlerVars == <<pc, job, others, found, read, recomputed>>
vars == <<uploaded, attempts, done, copies, resultVars, handlerVars>>

Hashes(d) == {Shingles[d][i] : i \in DOMAIN Shingles[d]}
Uploaded  == {uploaded[i] : i \in DOMAIN uploaded}

\* Math.round(m / n * 1000), in tenths of a percent.
Tenths(m, n) == IF n = 0 THEN 0 ELSE (2000 * m + n) \div (2 * n)

\* 100 minus the three percentages, between 0 and 100.
Rest_NoFloor(p, q, s) == 1000 - p - q - s
Rest(p, q, s) == IF p + q + s > 1000 THEN 0 ELSE 1000 - p - q - s

Init ==
    /\ uploaded = <<>>
    /\ attempts = [d \in Doc |-> 0]
    /\ done = [d \in Doc |-> FALSE]
    /\ copies = [d \in Doc |-> 0]
    /\ plagiarism = [d \in Doc |-> 0] /\ paraphrase = [d \in Doc |-> 0]
    /\ self = [d \in Doc |-> 0] /\ originality = [d \in Doc |-> 0]
    /\ matched = [d \in Doc |-> {}]
    /\ pc = [h \in Handler |-> "idle"]
    /\ job = [h \in Handler |-> NoDoc]
    /\ others = [h \in Handler |-> {}]
    /\ found = [h \in Handler |-> {}]
    /\ read = [h \in Handler |-> 0]
    /\ recomputed = [h \in Handler |-> 0]

-----------------------------------------------------------------------------
Goto(h, label) ==
    /\ pc' = [pc EXCEPT ![h] = label]
    /\ UNCHANGED <<job, others, found, read, recomputed>>

Leave(h) ==
    /\ pc' = [pc EXCEPT ![h] = "idle"]
    /\ job' = [job EXCEPT ![h] = NoDoc]
    /\ others' = [others EXCEPT ![h] = {}]
    /\ found' = [found EXCEPT ![h] = {}]
    /\ read' = [read EXCEPT ![h] = 0]
    /\ recomputed' = [recomputed EXCEPT ![h] = 0]

\* The row exists, with its author, before any stage runs.
Upload(d) ==
    /\ d \notin Uploaded
    /\ uploaded' = Append(uploaded, d)
    /\ UNCHANGED <<attempts, done, copies, resultVars, handlerVars>>

\* An attempt: the first one, the retry of a failed one, or a redelivery.
Begin(h, d) ==
    /\ pc[h] = "idle" /\ d \in Uploaded
    /\ attempts[d] < MaxAttempts[d]
    /\ \A k \in Handler : job[k] # d
    /\ attempts' = [attempts EXCEPT ![d] = @ + 1]
    /\ done' = [done EXCEPT ![d] = FALSE]
    /\ pc' = [pc EXCEPT ![h] = "clear"]
    /\ job' = [job EXCEPT ![h] = d]
    /\ UNCHANGED <<uploaded, copies, resultVars, others, found, read, recomputed>>

\* The attempt fails in any stage, or the worker dies: all it stored stays.
Fails(h) ==
    /\ pc[h] # "idle"
    /\ Leave(h)
    /\ UNCHANGED <<uploaded, attempts, done, copies, resultVars>>

-----------------------------------------------------------------------------
(* PlagiarismService.analyze                                               *)

\* shingle.deleteMany, and a later createMany of all shingles.
Clear_KeepsOld(h) ==
    /\ pc[h] = "clear"
    /\ Goto(h, IF Shingles[job[h]] = <<>> THEN "plagiarism" ELSE "store")
    /\ UNCHANGED <<uploaded, attempts, done, copies, resultVars>>

Clear(h) ==
    /\ pc[h] = "clear"
    /\ copies' = [copies EXCEPT ![job[h]] = 0]
    /\ Goto(h, IF Shingles[job[h]] = <<>> THEN "plagiarism" ELSE "store")
    /\ UNCHANGED <<uploaded, attempts, done, resultVars>>

Store(h) ==
    /\ pc[h] = "store"
    /\ copies' = [copies EXCEPT ![job[h]] = @ + 1]
    /\ Goto(h, IF Author[job[h]] = NoAuthor THEN "plagiarism" ELSE "list")
    /\ UNCHANGED <<uploaded, attempts, done, resultVars>>

\* computeSelfPlagiarism: the other documents of the author, and later which
\* of them have a stored shingle in common with this one.
Others_AnalysedOnly(d) == {e \in Uploaded \ {d} : Author[e] = Author[d] /\ done[e]}
Others(d) == {e \in Uploaded \ {d} : Author[e] = Author[d]}

List(h) ==
    /\ pc[h] = "list"
    /\ others' = [others EXCEPT ![h] = Others(job[h])]
    /\ pc' = [pc EXCEPT ![h] = IF Others(job[h]) = {} THEN "plagiarism" ELSE "match"]
    /\ UNCHANGED <<job, found, read, recomputed, uploaded, attempts, done,
                   copies, resultVars>>

Match(h) ==
    /\ pc[h] = "match"
    /\ found' = [found EXCEPT ![h] =
         {p \in others[h] \X Hashes(job[h]) : copies[p[1]] > 0 /\ p[2] \in Hashes(p[1])}]
    /\ pc' = [pc EXCEPT ![h] = "plagiarism"]
    /\ UNCHANGED <<job, others, read, recomputed, uploaded, attempts, done,
                   copies, resultVars>>

\* The result of the search in the corpus, whatever it was.
WritePlagiarism(h) ==
    /\ pc[h] = "plagiarism"
    /\ \E p \in IF Shingles[job[h]] = <<>> THEN {0} ELSE Pct :
        plagiarism' = [plagiarism EXCEPT ![job[h]] = p]
    /\ Goto(h, "self")
    /\ UNCHANGED <<uploaded, attempts, done, copies, paraphrase, self,
                   originality, matched>>

WriteSelf(h) ==
    LET d == job[h] IN
    /\ pc[h] = "self"
    /\ self' = [self EXCEPT ![d] =
         Tenths(Cardinality({p[2] : p \in found[h]}), Len(Shingles[d]))]
    /\ matched' = [matched EXCEPT ![d] = {p[1] : p \in found[h]}]
    /\ Goto(h, "sum")
    /\ UNCHANGED <<uploaded, attempts, done, copies, plagiarism, paraphrase, originality>>

-----------------------------------------------------------------------------
(* recomputeOriginality, after the plagiarism and after the paraphrase     *)
(* stage, and ParaphraseService.analyze between the two                    *)

SumRead(h) ==
    LET d == job[h] IN
    /\ pc[h] = "sum"
    /\ read' = [read EXCEPT ![h] = Rest(plagiarism[d], paraphrase[d], self[d])]
    /\ pc' = [pc EXCEPT ![h] = "write"]
    /\ UNCHANGED <<job, others, found, recomputed, uploaded, attempts, done,
                   copies, resultVars>>

SumWrite(h) ==
    /\ pc[h] = "write"
    /\ originality' = [originality EXCEPT ![job[h]] = read[h]]
    /\ recomputed' = [recomputed EXCEPT ![h] = @ + 1]
    /\ pc' = [pc EXCEPT ![h] = IF recomputed[h] = 0 THEN "paraphrase" ELSE "finish"]
    /\ UNCHANGED <<job, others, found, read, uploaded, attempts, done, copies,
                   plagiarism, paraphrase, self, matched>>

WriteParaphrase_NoRecompute(h) ==
    /\ pc[h] = "paraphrase"
    /\ \E p \in Pct : paraphrase' = [paraphrase EXCEPT ![job[h]] = p]
    /\ Goto(h, "finish")
    /\ UNCHANGED <<uploaded, attempts, done, copies, plagiarism, self,
                   originality, matched>>

WriteParaphrase(h) ==
    /\ pc[h] = "paraphrase"
    /\ \E p \in Pct : paraphrase' = [paraphrase EXCEPT ![job[h]] = p]
    /\ Goto(h, "sum")
    /\ UNCHANGED <<uploaded, attempts, done, copies, plagiarism, self,
                   originality, matched>>

Finish(h) ==
    /\ pc[h] = "finish"
    /\ done' = [done EXCEPT ![job[h]] = TRUE]
    /\ Leave(h)
    /\ UNCHANGED <<uploaded, attempts, copies, resultVars>>

-----------------------------------------------------------------------------
HandlerStep(h) ==
    \/ Clear(h) \/ Store(h) \/ List(h) \/ Match(h)
    \/ WritePlagiarism(h) \/ WriteSelf(h) \/ SumRead(h) \/ SumWrite(h)
    \/ WriteParaphrase(h) \/ Finish(h) \/ Fails(h)

Next ==
    \/ \E d \in Doc : Upload(d)
    \/ \E h \in Handler, d \in Doc : Begin(h, d)
    \/ \E h \in Handler : HandlerStep(h)

Spec == Init /\ [][Next]_vars

-----------------------------------------------------------------------------
(* What the numbers promise                                                *)

Label == {"idle", "clear", "store", "list", "match", "plagiarism", "self",
          "sum", "write", "paraphrase", "finish"}

\* Every percentage is one, between 0 and 100.
TypeOK ==
    /\ Uploaded \subseteq Doc
    /\ attempts \in [Doc -> Nat] /\ done \in [Doc -> BOOLEAN]
    /\ copies \in [Doc -> Nat]
    /\ \A d \in Doc :
        {plagiarism[d], paraphrase[d], self[d], originality[d]} \subseteq 0..1000
    /\ matched \in [Doc -> SUBSET Doc]
    /\ pc \in [Handler -> Label] /\ job \in [Handler -> Doc \union {NoDoc}]
    /\ \A h \in Handler : job[h] = NoDoc <=> pc[h] = "idle"

\* "A repeated analysis must not leave doubled shingles"
\* (plagiarism.service.ts): however often attempts fail between the DELETE
\* and the INSERT, a finished document has its shingles stored once.
ShinglesOnce ==
    \A d \in Doc :
        /\ copies[d] <= 1
        /\ done[d] /\ Shingles[d] # <<>> => copies[d] = 1

\* Two finished documents of one author with a common shingle: at least one
\* of the two reports shows it, however their analyses, and the repetitions
\* of them, were interleaved.
OneOfTwoIsFound ==
    \A d, e \in Doc :
        /\ d # e /\ done[d] /\ done[e]
        /\ Author[d] = Author[e] /\ Author[d] # NoAuthor
        /\ Hashes(d) \intersect Hashes(e) # {}
        => e \in matched[d] \/ d \in matched[e]

\* A finished document shows the originality that follows from the
\* percentages next to it, not from those of an earlier attempt or stage.
OriginalityIsCurrent ==
    \A d \in Doc : done[d] =>
        originality[d] = Rest(plagiarism[d], paraphrase[d], self[d])

\* "... with the shingles of the previous documents of the same author"
\* (plagiarism.service.ts, README.md): a document is not charged with a later
\* one.
PreviousOnly ==
    \A i, j \in DOMAIN uploaded :
        uploaded[j] \in matched[uploaded[i]] => j < i
=============================================================================

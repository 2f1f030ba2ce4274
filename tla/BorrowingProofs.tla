--------------------------- MODULE BorrowingProofs ---------------------------
(***************************************************************************)
(* Proofs about Borrowing, for any documents, authors and shingles, any    *)
(* number of handlers and attempts, and a failure after any step.          *)
(***************************************************************************)
EXTENDS Borrowing, FiniteSetTheorems, TLAPS

Percent == 0..1000
AnyHash == UNION {Hashes(d) : d \in Doc}

\* TypeOK with what it leaves out: the variables of a handler, which has found
\* shingles of its own document only.
HandlerTypeOK ==
    /\ pc \in [Handler -> Label] /\ job \in [Handler -> Doc \union {NoDoc}]
    /\ \A h \in Handler : job[h] = NoDoc <=> pc[h] = "idle"

ReadTypeOK ==
    /\ others \in [Handler -> SUBSET Doc]
    /\ read \in [Handler -> Percent] /\ recomputed \in [Handler -> Nat]

FoundTypeOK ==
    /\ found \in [Handler -> SUBSET (Doc \X AnyHash)]
    /\ \A h \in Handler :
           found[h] \subseteq IF job[h] = NoDoc THEN {} ELSE Doc \X Hashes(job[h])

RowTypeOK ==
    /\ attempts \in [Doc -> Nat] /\ done \in [Doc -> BOOLEAN] /\ copies \in [Doc -> Nat]
    /\ matched \in [Doc -> SUBSET Doc]

ResultTypeOK ==
    /\ plagiarism \in [Doc -> Percent] /\ paraphrase \in [Doc -> Percent]
    /\ self \in [Doc -> Percent] /\ originality \in [Doc -> Percent]

TypeInv ==
    /\ uploaded \in Seq(Doc)
    /\ HandlerTypeOK /\ ReadTypeOK /\ FoundTypeOK /\ RowTypeOK /\ ResultTypeOK

-----------------------------------------------------------------------------
(* Percentages                                                             *)

\* A share of at most the whole is at most 100 percent.
LEMMA TenthsIsPct ==
    ASSUME NEW m \in Nat, NEW n \in Nat, m <= n
    PROVE  Tenths(m, n) \in 0..1000
<1>1. CASE n = 0
  BY <1>1 DEF Tenths
<1>2. CASE n # 0
  <2> DEFINE x == 2000 * m + n
             q == x \div (2 * n)
  <2>1. x \in Nat /\ 2 * n \in Nat \ {0} /\ x <= 2001 * n
    BY <1>2
  <2> HIDE DEF x
  <2>2. q \in Int /\ (2 * n) * q <= x /\ x < (2 * n) * (q + 1)
    BY <2>1
  <2>3. q >= 0
    <3> SUFFICES ASSUME q <= -1 PROVE FALSE
      BY <2>2
    <3>1. (2 * n) * (q + 1) <= 0
      BY <2>1, <2>2
    <3> QED
      BY <2>1, <2>2, <3>1
  <2>4. q <= 1000
    <3> SUFFICES ASSUME q >= 1001 PROVE FALSE
      BY <2>2
    <3>1. (2 * n) * 1001 <= (2 * n) * q
      BY <2>1, <2>2
    <3> QED
      BY <1>2, <2>1, <2>2, <3>1
  <2> QED
    BY <1>2, <2>2, <2>3, <2>4 DEF Tenths, x
<1> QED
  BY <1>1, <1>2

\* The originality lies between 0 and 100 percent whatever the shares are.
LEMMA RestIsPct ==
    ASSUME NEW p \in Percent, NEW q \in Percent, NEW s \in Percent
    PROVE  Rest(p, q, s) \in Percent
BY DEF Rest, Percent

\* What the searches return are percentages.
LEMMA PercentFacts == 0 \in Percent /\ Pct \subseteq Percent
BY BorrowingAssumption DEF Percent

\* A document has no more different shingles than shingles, so the shingles
\* found elsewhere are at most all of them.
LEMMA FoundIsPct ==
    ASSUME NEW d \in Doc, NEW F \in SUBSET (Doc \X Hashes(d))
    PROVE  Tenths(Cardinality({p[2] : p \in F}), Len(Shingles[d])) \in Percent
<1> DEFINE n == Len(Shingles[d])
           f == [i \in 1..n |-> Shingles[d][i]]
<1>1. n \in Nat /\ DOMAIN Shingles[d] = 1..n
  BY BorrowingAssumption
<1>2. IsFiniteSet(1..n) /\ Cardinality(1..n) = n
  BY <1>1, FS_Interval
<1>3. f \in Surjection(1..n, Hashes(d))
  BY <1>1 DEF Surjection, Hashes
<1>4. IsFiniteSet(Hashes(d)) /\ Cardinality(Hashes(d)) <= n
  BY <1>2, <1>3, FS_Surjection
<1>5. {p[2] : p \in F} \in SUBSET Hashes(d)
  OBVIOUS
<1>6. /\ Cardinality({p[2] : p \in F}) \in Nat
      /\ Cardinality({p[2] : p \in F}) <= Cardinality(Hashes(d))
      /\ Cardinality(Hashes(d)) \in Nat
  BY <1>4, <1>5, FS_Subset, FS_CardinalityType
<1>7. Cardinality({p[2] : p \in F}) <= n
  BY <1>1, <1>4, <1>6
<1>8. PICK m : m = Cardinality({p[2] : p \in F})
  OBVIOUS
<1>9. m \in Nat /\ m <= n
  BY <1>6, <1>7, <1>8
<1>10. Tenths(m, n) \in 0..1000
  BY <1>1, <1>9, TenthsIsPct
<1> QED
  BY <1>8, <1>10 DEF Percent

-----------------------------------------------------------------------------
(* Types                                                                   *)

\* Nothing is uploaded, stored or found at first.
LEMMA TypeInit == Init => TypeInv
<1> SUFFICES ASSUME Init PROVE TypeInv
  OBVIOUS
<1>1. HandlerTypeOK /\ ReadTypeOK /\ FoundTypeOK /\ RowTypeOK /\ ResultTypeOK
  BY PercentFacts DEF Init, HandlerTypeOK, Label, ReadTypeOK, FoundTypeOK, RowTypeOK, ResultTypeOK
<1> QED
  BY <1>1 DEF Init, TypeInv

\* A handler that takes a step has a document, and changes nobody else.
LEMMA StepFrame ==
    ASSUME TypeInv, NEW h \in Handler, HandlerStep(h)
    PROVE  /\ pc[h] # "idle" /\ job[h] \in Doc
           /\ UNCHANGED <<uploaded, attempts>>
<1>1. pc[h] # "idle"
  BY DEF HandlerStep, Clear, Store, List, Match, WritePlagiarism, WriteSelf, SumRead, SumWrite,
         WriteParaphrase, Finish, Fails
<1>2. job[h] \in Doc
  BY <1>1 DEF TypeInv, HandlerTypeOK
<1>3. UNCHANGED <<uploaded, attempts>>
  BY DEF HandlerStep, Clear, Store, List, Match, WritePlagiarism, WriteSelf, SumRead, SumWrite,
         WriteParaphrase, Finish, Fails
<1> QED
  BY <1>1, <1>2, <1>3

\* Where a handler goes, and that it keeps its document until it leaves.
LEMMA HandlerMovesTyped ==
    ASSUME TypeInv, NEW h \in Handler, HandlerStep(h)
    PROVE  /\ HandlerTypeOK'
           /\ job' = [job EXCEPT ![h] = IF pc'[h] = "idle" THEN NoDoc ELSE job[h]]
           /\ \A k \in Handler \ {h} : pc'[k] = pc[k]
<1>1. job[h] \in Doc /\ NoDoc \notin Doc
  BY StepFrame, BorrowingAssumption
<1> USE <1>1 DEF TypeInv, HandlerTypeOK, Label
<1>2. CASE Clear(h) \/ Store(h) \/ WritePlagiarism(h) \/ WriteSelf(h) \/ WriteParaphrase(h)
  BY <1>2 DEF Clear, Store, WritePlagiarism, WriteSelf, WriteParaphrase, Goto
<1>3. CASE List(h) \/ Match(h) \/ SumRead(h) \/ SumWrite(h)
  BY <1>3 DEF List, Match, SumRead, SumWrite
<1>4. CASE Finish(h) \/ Fails(h)
  BY <1>4 DEF Finish, Fails, Leave
<1> QED
  BY <1>2, <1>3, <1>4 DEF HandlerStep

\* What a handler has read is what rows may hold.
LEMMA ReadsTyped ==
    ASSUME TypeInv, NEW h \in Handler, HandlerStep(h)
    PROVE  ReadTypeOK'
<1>1. job[h] \in Doc
  BY StepFrame
<1>2. CASE List(h)
  <2>1. Others(job[h]) \subseteq Doc
    BY DEF TypeInv, Others, Uploaded
  <2> QED
    BY <1>2, <2>1 DEF List, TypeInv, ReadTypeOK
<1>3. CASE SumRead(h)
  <2>1. Rest(plagiarism[job[h]], paraphrase[job[h]], self[job[h]]) \in Percent
    <3>1. plagiarism[job[h]] \in Percent /\ paraphrase[job[h]] \in Percent /\ self[job[h]] \in Percent
      BY <1>1 DEF TypeInv, ResultTypeOK
    <3> QED
      BY <3>1, RestIsPct
  <2> QED
    BY <1>3, <2>1 DEF SumRead, TypeInv, ReadTypeOK
<1>4. CASE SumWrite(h)
  <2>1. recomputed' \in [Handler -> Nat]
    BY <1>4 DEF SumWrite, TypeInv, ReadTypeOK
  <2>2. others' = others /\ read' = read
    BY <1>4 DEF SumWrite
  <2> QED
    BY <2>1, <2>2 DEF TypeInv, ReadTypeOK
<1>5. CASE Finish(h) \/ Fails(h)
  <2>1. /\ others' = [others EXCEPT ![h] = {}] /\ read' = [read EXCEPT ![h] = 0]
        /\ recomputed' = [recomputed EXCEPT ![h] = 0]
    BY <1>5 DEF Finish, Fails, Leave
  <2>2. others' \in [Handler -> SUBSET Doc] /\ read' \in [Handler -> Percent]
    BY <2>1, PercentFacts DEF TypeInv, ReadTypeOK
  <2>3. recomputed' \in [Handler -> Nat]
    BY <2>1 DEF TypeInv, ReadTypeOK
  <2> QED
    BY <2>2, <2>3 DEF ReadTypeOK
<1>6. CASE \/ Clear(h) \/ Store(h) \/ Match(h)
           \/ WritePlagiarism(h) \/ WriteSelf(h) \/ WriteParaphrase(h)
  BY <1>6
  DEF Clear, Store, Match, WritePlagiarism, WriteSelf, WriteParaphrase, Goto, TypeInv, ReadTypeOK
<1> QED
  BY <1>2, <1>3, <1>4, <1>5, <1>6 DEF HandlerStep

\* What a handler has found about its document is well typed.
LEMMA FindingsTyped ==
    ASSUME TypeInv, NEW h \in Handler, HandlerStep(h)
    PROVE  FoundTypeOK'
<1>1. job[h] \in Doc /\ NoDoc \notin Doc
  BY StepFrame, BorrowingAssumption
<1>2. \A k \in Handler \ {h} : job'[k] = job[k]
  BY HandlerMovesTyped DEF TypeInv, HandlerTypeOK
<1>3. CASE Match(h)
  <2>1. job'[h] = job[h] /\ found'[h] \subseteq Doc \X Hashes(job[h])
    BY <1>1, <1>3 DEF Match, TypeInv, ReadTypeOK, FoundTypeOK
  <2>2. Hashes(job[h]) \subseteq AnyHash
    BY <1>1 DEF AnyHash
  <2>3. \A k \in Handler \ {h} : found'[k] = found[k]
    BY <1>3 DEF Match, TypeInv, FoundTypeOK
  <2>4. found' \in [Handler -> SUBSET (Doc \X AnyHash)]
    <3>1. found'[h] \in SUBSET (Doc \X AnyHash)
      BY <2>1, <2>2
    <3> QED
      BY <1>3, <2>3, <3>1 DEF Match, TypeInv, FoundTypeOK
  <2> QED
    BY <1>1, <1>2, <2>1, <2>3, <2>4 DEF TypeInv, FoundTypeOK
<1>4. CASE Finish(h) \/ Fails(h)
  <2>1. found' = [found EXCEPT ![h] = {}]
    BY <1>4 DEF Finish, Fails, Leave
  <2> QED
    BY <1>2, <2>1 DEF TypeInv, FoundTypeOK
<1>5. CASE \/ Clear(h) \/ Store(h) \/ List(h) \/ SumRead(h) \/ SumWrite(h)
           \/ WritePlagiarism(h) \/ WriteSelf(h) \/ WriteParaphrase(h)
  <2>1. found' = found /\ job' = job
    BY <1>5 DEF Clear, Store, List, SumRead, SumWrite, WritePlagiarism, WriteSelf,
                WriteParaphrase, Goto
  <2> QED
    BY <2>1 DEF TypeInv, FoundTypeOK
<1> QED
  BY <1>3, <1>4, <1>5 DEF HandlerStep

\* What a handler writes to the row of its document is well typed.
LEMMA RowsTyped ==
    ASSUME TypeInv, NEW h \in Handler, HandlerStep(h)
    PROVE  RowTypeOK' /\ ResultTypeOK'
<1>1. job[h] \in Doc /\ Pct \subseteq Percent /\ 0 \in Percent /\ attempts' = attempts
  BY StepFrame, PercentFacts
<1> USE <1>1 DEF TypeInv, RowTypeOK, ResultTypeOK
<1>2. CASE Clear(h) \/ Store(h) \/ Finish(h)
  <2>1. ResultTypeOK' /\ matched' = matched
    BY <1>2 DEF Clear, Store, Finish, resultVars
  <2>2. copies' \in [Doc -> Nat]
    BY <1>2 DEF Clear, Store, Finish
  <2>3. done' \in [Doc -> BOOLEAN]
    BY <1>2 DEF Clear, Store, Finish
  <2> QED
    BY <2>1, <2>2, <2>3
<1>3. CASE List(h) \/ Match(h) \/ SumRead(h) \/ Fails(h)
  BY <1>3 DEF List, Match, SumRead, Fails, resultVars
<1>4. CASE WritePlagiarism(h)
  BY <1>4 DEF WritePlagiarism
<1>5. CASE WriteParaphrase(h)
  BY <1>5 DEF WriteParaphrase
<1>6. CASE WriteSelf(h)
  <2>1. found[h] \subseteq Doc \X Hashes(job[h])
    BY BorrowingAssumption DEF FoundTypeOK
  <2>2. Tenths(Cardinality({p[2] : p \in found[h]}), Len(Shingles[job[h]])) \in Percent
    BY <2>1, FoundIsPct
  <2>3. {p[1] : p \in found[h]} \in SUBSET Doc
    BY <2>1
  <2> QED
    BY <1>6, <2>2, <2>3 DEF WriteSelf
<1>7. CASE SumWrite(h)
  BY <1>7 DEF SumWrite, ReadTypeOK
<1> QED
  BY <1>2, <1>3, <1>4, <1>5, <1>6, <1>7 DEF HandlerStep

\* The type invariant is inductive.
LEMMA TypeStep == TypeInv /\ [Next]_vars => TypeInv'
<1> SUFFICES ASSUME TypeInv, [Next]_vars PROVE TypeInv'
  OBVIOUS
<1>1. CASE UNCHANGED vars
  BY <1>1 DEF vars, resultVars, handlerVars, TypeInv, HandlerTypeOK, ReadTypeOK, FoundTypeOK,
              RowTypeOK, ResultTypeOK
<1>2. ASSUME NEW d \in Doc, Upload(d) PROVE TypeInv'
  BY <1>2 DEF Upload, resultVars, handlerVars, TypeInv, HandlerTypeOK, ReadTypeOK, FoundTypeOK,
              RowTypeOK, ResultTypeOK
<1>3. ASSUME NEW h \in Handler, NEW d \in Doc, Begin(h, d) PROVE TypeInv'
  <2>1. HandlerTypeOK'
    BY <1>3, BorrowingAssumption DEF Begin, TypeInv, HandlerTypeOK, Label
  <2>2. ReadTypeOK' /\ RowTypeOK' /\ ResultTypeOK' /\ uploaded' = uploaded
    BY <1>3 DEF Begin, resultVars, TypeInv, ReadTypeOK, RowTypeOK, ResultTypeOK
  <2>3. FoundTypeOK'
    <3>1. found[h] = {} /\ found' = found
      BY <1>3 DEF Begin, TypeInv, HandlerTypeOK, FoundTypeOK
    <3> QED
      BY <1>3, <3>1 DEF Begin, TypeInv, HandlerTypeOK, FoundTypeOK
  <2> QED
    BY <2>1, <2>2, <2>3 DEF TypeInv
<1>4. ASSUME NEW h \in Handler, HandlerStep(h) PROVE TypeInv'
  <2>1. uploaded' = uploaded
    BY <1>4, StepFrame
  <2> QED
    BY <1>4, <2>1, HandlerMovesTyped, ReadsTyped, FindingsTyped, RowsTyped DEF TypeInv
<1> QED
  BY <1>1, <1>2, <1>3, <1>4 DEF Next

\* Every number is a percentage, whatever is analysed together with what.
THEOREM BorrowingTypeCorrect == Spec => []TypeOK
<1>1. TypeInv => TypeOK
  BY DEF TypeInv, TypeOK, HandlerTypeOK, RowTypeOK, ResultTypeOK, Uploaded, Percent
<1> QED
  BY <1>1, TypeInit, TypeStep, PTL DEF Spec
-----------------------------------------------------------------------------
(* What holds between the steps of the handlers                            *)

AfterStore == {"list", "match", "plagiarism", "self", "sum", "write", "paraphrase", "finish"}
AfterMatch == {"plagiarism", "self", "sum", "write", "paraphrase", "finish"}

Current(d) == Rest(plagiarism[d], paraphrase[d], self[d])

\* A handler has its document for itself.
Alone ==
    /\ \A h \in Handler : job[h] # NoDoc => job[h] \in Uploaded /\ ~done[job[h]]
    /\ \A h, k \in Handler : job[h] = job[k] /\ job[h] # NoDoc => h = k
    /\ \A d \in Doc : done[d] => d \in Uploaded

\* The shingles of a document that has any, and the originality, by the point
\* its handler has reached.
Attempt(h) ==
    LET d == job[h] IN
    /\ pc[h] = "store" => copies[d] = 0 /\ Shingles[d] # <<>>
    /\ pc[h] \in AfterStore /\ Shingles[d] # <<>> => copies[d] = 1
    /\ pc[h] = "write" => read[h] = Current(d)
    /\ pc[h] = "finish" => originality[d] = Current(d)

Row(d) ==
    /\ copies[d] <= 1
    /\ done[d] => originality[d] = Current(d)
    /\ done[d] /\ Shingles[d] # <<>> => copies[d] = 1

RowInv == Alone /\ (\A h \in Handler : Attempt(h)) /\ (\A d \in Doc : Row(d))

\* Two documents of one author with a common shingle.
Siblings(d, e) ==
    /\ d # e /\ Author[d] = Author[e] /\ Author[d] # NoAuthor
    /\ Hashes(d) \intersect Hashes(e) # {}

\* The last attempt at d has looked for the shingles of others, or is over; it
\* tells of e.
Looked(d) == done[d] \/ \E h \in Handler : job[h] = d /\ pc[h] \in AfterMatch
Tells(d, e) ==
    \/ e \in matched[d] /\ done[d]
    \/ \E h \in Handler :
          /\ job[h] = d
          /\ IF pc[h] \in {"plagiarism", "self"} THEN \E p \in found[h] : p[1] = e
                                                 ELSE pc[h] \in AfterMatch /\ e \in matched[d]

\* Of two siblings the one that looked last has seen the other, and one that is
\* about to look knows of the other or is known by it.
PairInv ==
    /\ \A d, e \in Doc : Siblings(d, e) /\ Looked(d) /\ Looked(e) => Tells(d, e) \/ Tells(e, d)
    /\ \A h \in Handler, d, e \in Doc :
           pc[h] = "match" /\ job[h] = d /\ Siblings(d, e) /\ Looked(e) =>
               e \in others[h] \/ Tells(e, d)
    /\ \A h, k \in Handler, d, e \in Doc :
           /\ pc[h] = "match" /\ job[h] = d /\ pc[k] = "match" /\ job[k] = e
           /\ Siblings(d, e)
           => e \in others[h] \/ d \in others[k]

-----------------------------------------------------------------------------
(* The rows                                                                *)

\* A step of a handler leaves the other handlers, and the rows of all documents
\* but its own, as they are.
LEMMA StepsApart ==
    ASSUME TypeInv, NEW h \in Handler, HandlerStep(h)
    PROVE  /\ \A k \in Handler \ {h} :
                  /\ job'[k] = job[k] /\ pc'[k] = pc[k] /\ others'[k] = others[k]
                  /\ found'[k] = found[k] /\ read'[k] = read[k]
           /\ \A e \in Doc \ {job[h]} :
                  /\ copies'[e] = copies[e] /\ done'[e] = done[e] /\ matched'[e] = matched[e]
                  /\ plagiarism'[e] = plagiarism[e] /\ paraphrase'[e] = paraphrase[e]
                  /\ self'[e] = self[e] /\ originality'[e] = originality[e]
<1> USE DEF TypeInv, HandlerTypeOK, ReadTypeOK, FoundTypeOK, RowTypeOK, ResultTypeOK, resultVars
<1>1. CASE Clear(h) \/ Store(h) \/ Finish(h) \/ Fails(h)
  BY <1>1 DEF Clear, Store, Finish, Fails, Goto, Leave
<1>2. CASE List(h) \/ Match(h) \/ SumRead(h) \/ SumWrite(h)
  BY <1>2 DEF List, Match, SumRead, SumWrite
<1>3. CASE WritePlagiarism(h) \/ WriteParaphrase(h)
  BY <1>3 DEF WritePlagiarism, WriteParaphrase, Goto
<1>4. CASE WriteSelf(h)
  BY <1>4 DEF WriteSelf, Goto
<1> QED
  BY <1>1, <1>2, <1>3, <1>4 DEF HandlerStep

\* What a step does to the row of the handler's own document.
LEMMA OwnRow ==
    ASSUME TypeInv, RowInv, NEW h \in Handler, HandlerStep(h), NEW d, d = job[h]
    PROVE  Row(d)' /\ (job'[h] = d => Attempt(h)' /\ ~done'[d])
<1>1. d \in Doc /\ pc[h] # "idle" /\ job[h] # NoDoc /\ ~done[d] /\ Attempt(h) /\ Row(d)
  BY StepFrame, BorrowingAssumption DEF RowInv, Alone
<1>2. copies[d] \in Nat /\ job'[h] = IF pc'[h] = "idle" THEN NoDoc ELSE d
  BY <1>1, HandlerMovesTyped DEF TypeInv, HandlerTypeOK, RowTypeOK
<1> USE <1>1 DEF TypeInv, HandlerTypeOK, RowTypeOK, ResultTypeOK, ReadTypeOK, resultVars
<1>3. CASE Clear(h)
  <2>1. /\ pc'[h] = IF Shingles[d] = <<>> THEN "plagiarism" ELSE "store"
        /\ copies'[d] = 0 /\ job'[h] = d /\ done' = done /\ UNCHANGED resultVars
    BY <1>3 DEF Clear, Goto
  <2> QED
    BY <2>1 DEF Attempt, Row, Current, AfterStore
<1>4. CASE Store(h)
  <2>1. /\ pc'[h] \in {"plagiarism", "list"}
        /\ copies'[d] = 1 /\ job'[h] = d /\ done' = done /\ UNCHANGED resultVars
    BY <1>4 DEF Store, Goto, Attempt
  <2> QED
    BY <2>1 DEF Attempt, Row, Current, AfterStore
<1>5. CASE List(h) \/ Match(h)
  <2>1. /\ pc[h] \in AfterStore /\ pc'[h] \in {"plagiarism", "match"}
        /\ copies' = copies /\ job'[h] = d /\ done' = done /\ UNCHANGED resultVars
    BY <1>5 DEF List, Match, AfterStore
  <2> QED
    BY <2>1 DEF Attempt, Row, Current, AfterStore
<1>6. CASE WritePlagiarism(h) \/ WriteSelf(h) \/ WriteParaphrase(h)
  <2>1. /\ pc[h] \in AfterStore /\ pc'[h] \in {"self", "sum"}
        /\ copies' = copies /\ job'[h] = d /\ done' = done
    BY <1>6 DEF WritePlagiarism, WriteSelf, WriteParaphrase, Goto, AfterStore
  <2> QED
    BY <2>1 DEF Attempt, Row, AfterStore
<1>7. CASE SumRead(h)
  <2>1. /\ pc[h] \in AfterStore /\ pc'[h] = "write"
        /\ copies' = copies /\ job'[h] = d /\ done' = done /\ UNCHANGED resultVars
        /\ read'[h] = Current(d)
    BY <1>7 DEF SumRead, AfterStore, Current
  <2> QED
    BY <2>1 DEF Attempt, Row, Current, AfterStore
<1>8. CASE SumWrite(h)
  <2>1. /\ pc[h] = "write" /\ pc'[h] \in {"paraphrase", "finish"}
        /\ copies' = copies /\ job'[h] = d /\ done' = done
        /\ UNCHANGED <<plagiarism, paraphrase, self>> /\ originality'[d] = Current(d)
    BY <1>8 DEF SumWrite, Attempt
  <2> QED
    BY <2>1 DEF Attempt, Row, Current, AfterStore
<1>9. CASE Finish(h) \/ Fails(h)
  <2>1. /\ pc'[h] = "idle" /\ copies' = copies /\ UNCHANGED resultVars
        /\ done'[d] => pc[h] = "finish"
    BY <1>9 DEF Finish, Fails, Leave
  <2> QED
    BY <1>2, <2>1, BorrowingAssumption DEF Attempt, Row, Current, AfterStore
<1> QED
  BY <1>3, <1>4, <1>5, <1>6, <1>7, <1>8, <1>9 DEF HandlerStep

\* The empty system has no rows to be wrong about.
LEMMA RowInit == Init => RowInv
BY BorrowingAssumption DEF Init, RowInv, Alone, Attempt, Row, Current, AfterStore

\* The row of a document says what its own handler has got to.
LEMMA RowStep == TypeInv /\ RowInv /\ [Next]_vars => RowInv'
<1> SUFFICES ASSUME TypeInv, RowInv, [Next]_vars PROVE RowInv'
  OBVIOUS
<1> USE BorrowingAssumption
<1>1. CASE UNCHANGED vars
  BY <1>1 DEF vars, resultVars, handlerVars, RowInv, Alone, Attempt, Row, Current, Uploaded
<1>2. ASSUME NEW d \in Doc, Upload(d) PROVE RowInv'
  <2>1. Uploaded \subseteq Uploaded'
    <3>1. \A i \in DOMAIN uploaded : i \in DOMAIN uploaded' /\ uploaded'[i] = uploaded[i]
      BY <1>2 DEF Upload, TypeInv
    <3> QED
      BY <3>1 DEF Uploaded
  <2> QED
    BY <1>2, <2>1 DEF Upload, resultVars, handlerVars, RowInv, Alone, Attempt, Row, Current
<1>3. ASSUME NEW h \in Handler, NEW d \in Doc, Begin(h, d) PROVE RowInv'
  <2> USE DEF TypeInv, HandlerTypeOK, RowTypeOK
  <2>1. /\ job' = [job EXCEPT ![h] = d] /\ pc' = [pc EXCEPT ![h] = "clear"]
        /\ done' = [done EXCEPT ![d] = FALSE]
        /\ d \in Uploaded /\ \A k \in Handler : job[k] # d
        /\ UNCHANGED <<uploaded, copies, resultVars, read>>
    BY <1>3 DEF Begin
  <2>2. Alone'
    <3>1. Uploaded' = Uploaded
      BY <2>1 DEF Uploaded
    <3>2. \A k \in Handler : job'[k] # NoDoc => job'[k] \in Uploaded /\ ~done'[job'[k]]
      BY <2>1 DEF RowInv, Alone
    <3>3. \A k, l \in Handler : job'[k] = job'[l] /\ job'[k] # NoDoc => k = l
      BY <2>1 DEF RowInv, Alone
    <3>4. \A e \in Doc : done'[e] => e \in Uploaded
      BY <2>1 DEF RowInv, Alone
    <3> QED
      BY <3>1, <3>2, <3>3, <3>4 DEF Alone
  <2>3. ASSUME NEW k \in Handler PROVE Attempt(k)'
    BY <2>1 DEF RowInv, Attempt, Current, AfterStore, resultVars
  <2>4. ASSUME NEW e \in Doc PROVE Row(e)'
    BY <2>1 DEF RowInv, Row, Current, resultVars
  <2> QED
    BY <2>2, <2>3, <2>4 DEF RowInv
<1>4. ASSUME NEW h \in Handler, HandlerStep(h) PROVE RowInv'
  <2>0. PICK d : d = job[h]
    OBVIOUS
  <2>1. d \in Doc /\ d # NoDoc /\ UNCHANGED uploaded
    BY <1>4, <2>0, StepFrame
  <2>2. \/ job'[h] = d
        \/ job'[h] = NoDoc /\ pc'[h] = "idle"
    BY <1>4, <2>0, HandlerMovesTyped DEF TypeInv, HandlerTypeOK
  <2>3. /\ \A k \in Handler \ {h} : job[k] # NoDoc => job[k] # d
        /\ \A k \in Handler \ {h} : job[k] # NoDoc => job[k] \in Doc
    BY <2>0, <2>1 DEF RowInv, Alone, TypeInv, HandlerTypeOK
  <2>4. Row(d)' /\ (job'[h] = d => Attempt(h)' /\ ~done'[d])
    BY <1>4, <2>0, OwnRow
  <2>5. Alone'
    <3>1. \A k \in Handler : job'[k] # NoDoc => job'[k] \in Uploaded' /\ ~done'[job'[k]]
      BY <1>4, <2>0, <2>1, <2>2, <2>3, <2>4, StepsApart DEF RowInv, Alone, Uploaded
    <3>2. \A k, l \in Handler : job'[k] = job'[l] /\ job'[k] # NoDoc => k = l
      BY <1>4, <2>0, <2>1, <2>2, <2>3, StepsApart DEF RowInv, Alone
    <3>3. d \in Uploaded /\ Uploaded' = Uploaded
      BY <2>0, <2>1 DEF RowInv, Alone, Uploaded
    <3>4. \A e \in Doc : done'[e] => e \in Uploaded'
      BY <1>4, <2>0, <2>4, <3>3, StepsApart DEF RowInv, Alone
    <3> QED
      BY <3>1, <3>2, <3>4 DEF Alone
  <2>6. ASSUME NEW k \in Handler PROVE Attempt(k)'
    <3>1. CASE k = h
      BY <2>2, <2>4, <3>1 DEF Attempt, AfterStore
    <3>2. CASE k # h /\ job[k] = NoDoc
      <4>1. pc'[k] = "idle"
        BY <1>4, <3>2, StepsApart DEF TypeInv, HandlerTypeOK
      <4> QED
        BY <4>1 DEF Attempt, AfterStore
    <3>3. CASE k # h /\ job[k] # NoDoc
      <4>1. PICK e \in Doc \ {d} : e = job[k]
        BY <2>3, <3>3
      <4>2. job'[k] = e /\ pc'[k] = pc[k] /\ read'[k] = read[k]
        BY <1>4, <3>3, <4>1, StepsApart
      <4>3. copies'[e] = copies[e] /\ originality'[e] = originality[e] /\ Current(e)' = Current(e)
        BY <1>4, <2>0, <4>1, StepsApart DEF Current
      <4> QED
        BY <4>1, <4>2, <4>3 DEF RowInv, Attempt
    <3> QED
      BY <3>1, <3>2, <3>3
  <2>7. ASSUME NEW e \in Doc PROVE Row(e)'
    <3>1. CASE e = d
      BY <2>4, <3>1
    <3>2. CASE e # d
      BY <1>4, <2>0, <3>2, StepsApart DEF RowInv, Row, Current
    <3> QED
      BY <3>1, <3>2
  <2> QED
    BY <2>5, <2>6, <2>7 DEF RowInv
<1> QED
  BY <1>1, <1>2, <1>3, <1>4 DEF Next

\* However often the attempts at a document failed between the deletion of its
\* shingles and their insertion, a finished document has them stored once.
THEOREM ShinglesStoredOnce == Spec => []ShinglesOnce
<1>1. RowInv => ShinglesOnce
  BY DEF RowInv, Row, ShinglesOnce
<1> QED
  BY <1>1, TypeInit, TypeStep, RowInit, RowStep, PTL DEF Spec

\* The originality of a finished document follows from the percentages next to
\* it, although every stage writes one of them and another stage the sum.
THEOREM OriginalityFollows == Spec => []OriginalityIsCurrent
<1>1. RowInv => OriginalityIsCurrent
  BY DEF RowInv, Row, Current, OriginalityIsCurrent
<1> QED
  BY <1>1, TypeInit, TypeStep, RowInit, RowStep, PTL DEF Spec

-----------------------------------------------------------------------------
(* Pairs of documents                                                      *)

\* A document that was looked up against the others is one they can find.
LEMMA LookedIsStored ==
    ASSUME TypeInv, RowInv, NEW e \in Doc, Looked(e)
    PROVE  e \in Uploaded /\ (Shingles[e] # <<>> => copies[e] = 1)
BY BorrowingAssumption DEF Looked, RowInv, Alone, Attempt, Row, AfterStore, AfterMatch

\* Documents with a common shingle have one each, and are siblings both ways.
LEMMA SiblingsHaveShingles ==
    ASSUME NEW d \in Doc, NEW e \in Doc, Siblings(d, e)
    PROVE  Siblings(e, d) /\ Shingles[d] # <<>> /\ Shingles[e] # <<>>
<1>1. \A c \in Doc : Shingles[c] = <<>> => Hashes(c) = {}
  BY DEF Hashes
<1> QED
  BY <1>1 DEF Siblings

\* What one document tells of others is not changed by the handler of another.
LEMMA OthersTell ==
    ASSUME TypeInv, RowInv, NEW h \in Handler, HandlerStep(h), NEW e \in Doc, e # job[h]
    PROVE  /\ Looked(e)' <=> Looked(e)
           /\ \A c : Tells(e, c)' <=> Tells(e, c)
<1>1. job[h] # e /\ job'[h] # e
  BY HandlerMovesTyped, BorrowingAssumption DEF TypeInv, HandlerTypeOK
<1>2. done'[e] = done[e] /\ matched'[e] = matched[e]
  BY StepsApart
<1>3. \A k \in Handler : job[k] = e => k # h
  BY <1>1
<1>4. \A k \in Handler : job'[k] = e => k # h
  BY <1>1
<1>5. Looked(e)' <=> Looked(e)
  BY <1>2, <1>3, <1>4, StepsApart DEF Looked
<1>6. ASSUME NEW c PROVE Tells(e, c)' <=> Tells(e, c)
  BY <1>2, <1>3, <1>4, StepsApart DEF Tells
<1> QED
  BY <1>5, <1>6

\* A search finds every listed document with a stored common shingle.
LEMMA MatchTells ==
    ASSUME TypeInv, NEW h \in Handler, Match(h), NEW d, d = job[h],
           NEW e \in others[h], Siblings(d, e), copies[e] = 1
    PROVE  Tells(d, e)'
<1>1. PICK x : x \in Hashes(d) /\ x \in Hashes(e)
  BY DEF Siblings
<1>2. pc'[h] = "plagiarism" /\ job'[h] = d
  BY DEF Match, TypeInv, HandlerTypeOK
<1>3. <<e, x>> \in found'[h]
  BY <1>1 DEF Match, TypeInv, FoundTypeOK
<1>4. \E p \in found'[h] : p[1] = e
  BY <1>3
<1> QED
  BY <1>2, <1>4 DEF Tells

\* How a document comes to have looked: it had, and still tells what it told;
\* or it looks now; or nobody has anything in common with it.
LEMMA OwnTells ==
    ASSUME TypeInv, RowInv, NEW h \in Handler, HandlerStep(h), NEW d, d = job[h], Looked(d)'
    PROVE  \/ Looked(d) /\ \A e \in Doc : Tells(d, e) => Tells(d, e)'
           \/ Match(h)
           \/ \A e \in Doc : Siblings(d, e) => e \notin Uploaded
<1>1. d \in Doc /\ ~done[d] /\ pc[h] # "idle" /\ \A k \in Handler : job[k] = d => k = h
  BY StepFrame, BorrowingAssumption DEF RowInv, Alone
<1> USE <1>1 DEF TypeInv, HandlerTypeOK, RowTypeOK, FoundTypeOK
<1>2. CASE Clear(h)
  <2>1. CASE Shingles[d] = <<>>
    BY <2>1, SiblingsHaveShingles
  <2>2. CASE Shingles[d] # <<>>
    <3>1. pc'[h] = "store" /\ job' = job /\ done' = done
      BY <1>2, <2>2 DEF Clear, Goto
    <3> QED
      BY <3>1 DEF Looked, AfterMatch
  <2> QED
    BY <2>1, <2>2
<1>3. CASE Store(h)
  <2>1. CASE Author[d] = NoAuthor
    BY <2>1 DEF Siblings
  <2>2. CASE Author[d] # NoAuthor
    <3>1. pc'[h] = "list" /\ job' = job /\ done' = done
      BY <1>3, <2>2 DEF Store, Goto
    <3> QED
      BY <3>1 DEF Looked, AfterMatch
  <2> QED
    BY <2>1, <2>2
<1>4. CASE List(h)
  <2>1. CASE Others(d) = {}
    BY <2>1 DEF Others, Siblings
  <2>2. CASE Others(d) # {}
    <3>1. pc'[h] = "match" /\ job' = job /\ done' = done
      BY <1>4, <2>2 DEF List
    <3> QED
      BY <3>1 DEF Looked, AfterMatch
  <2> QED
    BY <2>1, <2>2
<1>5. CASE WritePlagiarism(h)
  <2>1. /\ pc[h] = "plagiarism" /\ pc'[h] = "self"
        /\ job' = job /\ found' = found /\ done' = done
    BY <1>5 DEF WritePlagiarism, Goto
  <2> QED
    BY <2>1 DEF Looked, Tells, AfterMatch
<1>6. CASE WriteSelf(h)
  <2>1. /\ pc[h] = "self" /\ pc'[h] = "sum" /\ job' = job /\ done' = done
        /\ matched'[d] = {p[1] : p \in found[h]}
    BY <1>6 DEF WriteSelf, Goto
  <2> QED
    BY <2>1 DEF Looked, Tells, AfterMatch
<1>7. CASE SumRead(h) \/ SumWrite(h) \/ WriteParaphrase(h)
  <2>1. pc[h] \in {"sum", "write", "paraphrase"}
    BY ONLY <1>7 DEF SumRead, SumWrite, WriteParaphrase
  <2>2. UNCHANGED <<job, matched, done>>
    BY ONLY <1>7 DEF SumRead, SumWrite, WriteParaphrase, Goto, resultVars
  <2>3. pc'[h] \in {"sum", "write", "paraphrase", "finish"}
    BY <1>7 DEF SumRead, SumWrite, WriteParaphrase, Goto
  <2> QED
    BY <2>1, <2>2, <2>3 DEF Looked, Tells, AfterMatch
<1>8. CASE Finish(h)
  <2>1. pc[h] = "finish" /\ done'[d] /\ matched' = matched
    BY <1>8 DEF Finish, Leave, resultVars
  <2> QED
    BY <2>1 DEF Looked, Tells, AfterMatch
<1>9. CASE Fails(h)
  <2>1. done' = done /\ job'[h] # d
    BY <1>9, BorrowingAssumption DEF Fails, Leave
  <2>2. \A k \in Handler \ {h} : job'[k] # d
    BY StepsApart
  <2> QED
    BY <2>1, <2>2 DEF Looked
<1> QED
  BY <1>2, <1>3, <1>4, <1>5, <1>6, <1>7, <1>8, <1>9 DEF HandlerStep

\* Nobody has looked yet.
LEMMA PairInit == Init => PairInv
BY DEF Init, PairInv, Looked, AfterMatch

\* The pairs the handler's own document is part of.
LEMMA OwnPairs ==
    ASSUME TypeInv, RowInv, PairInv, NEW h \in Handler, HandlerStep(h), NEW d, d = job[h],
           Looked(d)', NEW e \in Doc, Siblings(d, e), Looked(e)
    PROVE  Tells(d, e)' \/ Tells(e, d)'
<1>1. d \in Doc /\ e # d /\ Siblings(e, d)
  BY StepFrame, SiblingsHaveShingles DEF Siblings
<1>2. e \in Uploaded /\ copies[e] = 1
  BY <1>1, LookedIsStored, SiblingsHaveShingles
<1>3. Tells(e, d)' <=> Tells(e, d)
  BY <1>1, OthersTell
<1>4. CASE Match(h)
  <2>1. CASE e \in others[h]
    BY <1>2, <1>4, <2>1, MatchTells
  <2>2. CASE e \notin others[h]
    BY <1>1, <1>3, <1>4, <2>2 DEF Match, PairInv
  <2> QED
    BY <2>1, <2>2
<1>5. CASE Looked(d) /\ \A c \in Doc : Tells(d, c) => Tells(d, c)'
  BY <1>1, <1>3, <1>5 DEF PairInv
<1> QED
  BY <1>2, <1>4, <1>5, OwnTells

\* The documents that are about to look while the handler steps: only a list
\* made now leads there.
LEMMA EntersMatch ==
    ASSUME TypeInv, NEW h \in Handler, HandlerStep(h), pc'[h] = "match"
    PROVE  /\ job'[h] = job[h] /\ others'[h] = Others(job[h])
           /\ \A e \in Uploaded : Siblings(job[h], e) => e \in others'[h]
<1> USE DEF TypeInv, HandlerTypeOK, ReadTypeOK
<1>1. List(h)
  BY DEF HandlerStep, Clear, Store, List, Match, WritePlagiarism, WriteSelf, SumRead, SumWrite,
         WriteParaphrase, Finish, Fails, Goto, Leave
<1>2. job'[h] = job[h] /\ others'[h] = Others(job[h])
  BY <1>1 DEF List
<1> QED
  BY <1>2 DEF Others, Siblings

\* Of two siblings that have both looked, one knows of the other.
LEMMA PairStep == TypeInv /\ RowInv /\ PairInv /\ [Next]_vars => PairInv'
<1> SUFFICES ASSUME TypeInv, RowInv, PairInv, [Next]_vars PROVE PairInv'
  OBVIOUS
<1>1. CASE UNCHANGED vars \/ \E d \in Doc : Upload(d)
  BY <1>1 DEF vars, Upload, resultVars, handlerVars, PairInv, Looked, Tells
<1>2. ASSUME NEW h \in Handler, NEW d \in Doc, Begin(h, d) PROVE PairInv'
  <2> USE DEF TypeInv, HandlerTypeOK, RowTypeOK
  <2>1. /\ job' = [job EXCEPT ![h] = d] /\ pc' = [pc EXCEPT ![h] = "clear"]
        /\ done' = [done EXCEPT ![d] = FALSE] /\ job[h] = NoDoc
        /\ \A k \in Handler : job[k] # d
        /\ UNCHANGED <<found, others, matched>>
    BY <1>2 DEF Begin, resultVars
  <2>2. ~Looked(d)'
    BY <2>1 DEF Looked, AfterMatch
  <2>3. ASSUME NEW e \in Doc, e # d
        PROVE  (Looked(e)' <=> Looked(e)) /\ \A c : Tells(e, c)' <=> Tells(e, c)
    BY <2>1, <2>3, BorrowingAssumption DEF Looked, Tells
  <2>4. \A k \in Handler : pc'[k] = "match" =>
            pc[k] = "match" /\ job'[k] = job[k] /\ others'[k] = others[k]
    BY <2>1
  <2> QED
    BY <2>2, <2>3, <2>4 DEF PairInv
<1>3. ASSUME NEW h \in Handler, HandlerStep(h) PROVE PairInv'
  <2>1. PICK d : d = job[h]
    OBVIOUS
  <2>2. d \in Doc
    BY <1>3, <2>1, StepFrame
  <2>3. \A e \in Doc \ {d} : (Looked(e)' <=> Looked(e)) /\ \A c : Tells(e, c)' <=> Tells(e, c)
    BY <1>3, <2>1, OthersTell
  <2>4. ASSUME NEW c \in Doc, NEW e \in Doc, Siblings(c, e), Looked(c)', Looked(e)'
        PROVE  Tells(c, e)' \/ Tells(e, c)'
    <3>1. Siblings(e, c) /\ c # e
      BY <2>4, SiblingsHaveShingles DEF Siblings
    <3>2. CASE c = d
      BY <1>3, <2>1, <2>3, <2>4, <3>1, <3>2, OwnPairs
    <3>3. CASE e = d
      BY <1>3, <2>1, <2>3, <2>4, <3>1, <3>3, OwnPairs
    <3>4. CASE c # d /\ e # d
      BY <2>3, <2>4, <3>4 DEF PairInv
    <3> QED
      BY <3>2, <3>3, <3>4
  <2>5. \A k \in Handler \ {h} :
            job'[k] = job[k] /\ pc'[k] = pc[k] /\ others'[k] = others[k]
    BY <1>3, StepsApart
  <2>6. \A k \in Handler : pc[k] = "match" =>
            job[k] \in Doc /\ job[k] \in Uploaded /\ (k # h => job[k] # d)
    BY <2>1, BorrowingAssumption DEF RowInv, Alone, TypeInv, HandlerTypeOK
  <2>7. ASSUME NEW k \in Handler, NEW c \in Doc, NEW e \in Doc,
               pc'[k] = "match", job'[k] = c, Siblings(c, e), Looked(e)'
        PROVE  e \in others'[k] \/ Tells(e, c)'
    <3>1. Siblings(e, c) /\ Shingles[c] # <<>> /\ e # c
      BY <2>7, SiblingsHaveShingles DEF Siblings
    <3>2. CASE k = h
      <4>1. c = d
        BY <1>3, <2>1, <2>7, <3>2, EntersMatch
      <4>2. e \in Uploaded
        BY <2>3, <2>7, <3>1, <4>1, LookedIsStored
      <4> QED
        BY <1>3, <2>1, <2>7, <3>2, <4>1, <4>2, EntersMatch
    <3>3. CASE k # h
      <4>1. pc[k] = "match" /\ job[k] = c /\ c \in Uploaded /\ c # d
        BY <2>5, <2>6, <2>7, <3>3
      <4>2. CASE e # d
        BY <2>3, <2>5, <2>7, <3>3, <4>1, <4>2 DEF PairInv
      <4>3. CASE e = d
        <5>1. CASE Looked(d) /\ \A x \in Doc : Tells(d, x) => Tells(d, x)'
          <6>1. d \in others[k] \/ Tells(d, c)
            BY <2>7, <4>1, <4>3, <5>1 DEF PairInv
          <6> QED
            BY <2>5, <3>3, <4>3, <5>1, <6>1
        <5>2. CASE Match(h)
          <6>1. copies[c] = 1
            BY <3>1, <4>1 DEF RowInv, Attempt, AfterStore
          <6>2. c \in others[h] \/ d \in others[k]
            BY <2>1, <2>2, <2>7, <3>1, <4>1, <4>3, <5>2 DEF PairInv, Match
          <6> QED
            BY <2>1, <2>5, <3>1, <3>3, <4>3, <5>2, <6>1, <6>2, MatchTells
        <5>3. CASE \A x \in Doc : Siblings(d, x) => x \notin Uploaded
          BY <3>1, <4>1, <4>3, <5>3
        <5> QED
          BY <1>3, <2>1, <2>7, <4>3, <5>1, <5>2, <5>3, OwnTells
      <4> QED
        BY <4>2, <4>3
    <3> QED
      BY <3>2, <3>3
  <2>8. ASSUME NEW k \in Handler, NEW l \in Handler, NEW c \in Doc, NEW e \in Doc,
               pc'[k] = "match", job'[k] = c, pc'[l] = "match", job'[l] = e, Siblings(c, e)
        PROVE  e \in others'[k] \/ c \in others'[l]
    <3>1. k # l /\ Siblings(e, c)
      BY <2>8, SiblingsHaveShingles DEF Siblings
    <3>2. CASE k = h
      BY <1>3, <2>1, <2>5, <2>6, <2>8, <3>1, <3>2, EntersMatch
    <3>3. CASE l = h
      BY <1>3, <2>1, <2>5, <2>6, <2>8, <3>1, <3>3, EntersMatch
    <3>4. CASE k # h /\ l # h
      BY <2>5, <2>8, <3>4 DEF PairInv
    <3> QED
      BY <3>2, <3>3, <3>4
  <2> QED
    BY <2>4, <2>7, <2>8 DEF PairInv
<1> QED
  BY <1>1, <1>2, <1>3 DEF Next

\* Two finished documents of one author with a common shingle: one of the two
\* reports shows it, in whatever order the two were uploaded, analysed and
\* analysed again.
THEOREM OneReportShowsIt == Spec => []OneOfTwoIsFound
<1>1. TypeInv /\ RowInv /\ PairInv => OneOfTwoIsFound
  <2> SUFFICES ASSUME TypeInv, RowInv, PairInv, NEW d \in Doc, NEW e \in Doc,
                      done[d], done[e], Siblings(d, e)
               PROVE  e \in matched[d] \/ d \in matched[e]
    BY DEF OneOfTwoIsFound, Siblings
  <2>1. Tells(d, e) \/ Tells(e, d)
    BY DEF PairInv, Looked
  <2>2. \A k \in Handler : job[k] # d /\ job[k] # e
    BY BorrowingAssumption DEF RowInv, Alone
  <2> QED
    BY <2>1, <2>2 DEF Tells
<1> QED
  BY <1>1, TypeInit, TypeStep, RowInit, RowStep, PairInit, PairStep, PTL DEF Spec
=============================================================================

---------------------------- MODULE CorpusProofs ----------------------------
(***************************************************************************)
(* Proofs about Corpus, for any corpus, any text, any number of concurrent *)
(* requests and checks, and any faults.                                    *)
(***************************************************************************)
EXTENDS Corpus, SumProofs

\* The adders past the insert of their row.
Creating(a) == apc[a] \in {"index", "embed", "clear", "store"}
Creator(a)  == Creating(a) \/ reply[a] = "added"

\* A reply is given once, at the end.
RepliesAtTheEnd == \A a \in Adder : reply[a] = "added" => apc[a] = "over"

\* The unique hash makes at most one request the creator of a source.
OneCreator ==
    /\ \A a \in Adder : Creator(a) => adding[a] \in rows
    /\ \A a, b \in Adder : Creator(a) /\ Creator(b) /\ adding[a] = adding[b] => a = b

\* The creator alone writes the sentences, from the first to the last.
Stored(a) ==
    LET c == adding[a] IN
    /\ apc[a] = "store" => next[a] \in 1..Sentences[c] /\ embedded[c] = next[a] - 1
    /\ reply[a] = "added" => embedded[c] = Sentences[c]

\* The windows of a source before the n-th shingle that are not in the index.
Skipped(c, n) ==
    {w \in Missing(c) : \E i \in Starts(Shingles[c]) : i < n /\ w = Window(Shingles[c], i)}

\* Every window that the creator has passed over cost a Redis command.
Covered(a) ==
    LET c == adding[a] IN
    /\ apc[a] = "index" =>
          /\ next[a] \in Starts(Shingles[c])
          /\ Cardinality(Skipped(c, next[a])) <= redisFaults
    /\ apc[a] \in {"embed", "clear", "store"} \/ reply[a] = "added" =>
          Cardinality(Missing(c)) <= redisFaults

AdderInv ==
    /\ RepliesAtTheEnd /\ OneCreator /\ SentencesOnce
    /\ \A a \in Adder : Creator(a) => Stored(a) /\ Covered(a)

-----------------------------------------------------------------------------
(* The windows of a text                                                   *)

\* The first window starts at the first shingle, the next one ChunkStride
\* later, as long as any window starts later.
LEMMA StartsFacts ==
    ASSUME NEW s \in Seq(Nat)
    PROVE  /\ Starts(s) \subseteq Nat
           /\ s # <<>> => 0 \in Starts(s)
           /\ \A i, j \in Starts(s) : i < j => i + ChunkStride \in Starts(s) /\ i + ChunkStride <= j
<1> USE SourceAssumption
<1> DEFINE n == Len(s)
<1>0. n \in Nat
  OBVIOUS
<1>1. Starts(s) \subseteq Nat
  BY <1>0 DEF Starts
<1>2. s # <<>> => 0 \in Starts(s)
  BY <1>0 DEF Starts
<1>3. ASSUME NEW i \in Starts(s), NEW j \in Starts(s), i < j
      PROVE  i + ChunkStride \in Starts(s) /\ i + ChunkStride <= j
  <2>1. PICK k \in 0..n : i = k * ChunkStride
    BY DEF Starts
  <2>2. PICK m \in 0..n : j = m * ChunkStride
    BY DEF Starts
  <2>3. k < m
    <3> SUFFICES ASSUME m <= k PROVE FALSE
      BY <1>0
    <3>1. PICK q \in Nat : k = m + q
      BY <1>0
    <3>2. k * ChunkStride = m * ChunkStride + q * ChunkStride
      BY <3>1, <1>0
    <3>3. q * ChunkStride >= 0
      BY <3>1
    <3> QED
      BY <1>3, <2>1, <2>2, <3>1, <3>2, <3>3, <1>0, <1>1
  <2>4. PICK q \in Nat : m = k + 1 + q
    BY <2>3, <1>0
  <2>5. m * ChunkStride = k * ChunkStride + ChunkStride + q * ChunkStride
    BY <2>4, <1>0
  <2>6. q * ChunkStride >= 0
    BY <2>4
  <2>7. i + ChunkStride <= j
    BY <2>1, <2>2, <2>4, <2>5, <2>6, <1>0, <1>1
  <2>8. k + 1 \in 0..n /\ i + ChunkStride = (k + 1) * ChunkStride
    <3>1. k + 1 \in 0..n
      BY <2>1, <2>2, <2>3, <1>0
    <3>2. (k + 1) * ChunkStride = k * ChunkStride + ChunkStride
      BY <1>0
    <3> QED
      BY <2>1, <3>1, <3>2
  <2>9. j < n /\ (j > 0 => j - ChunkStride + ChunkSize < n)
    BY DEF Starts
  <2> DEFINE l == i + ChunkStride
  <2>10. /\ l < n
         /\ l > 0 => l - ChunkStride + ChunkSize < n
    BY <2>7, <2>9, <1>0, <1>1
  <2>11. \E x \in 0..n : l = x * ChunkStride
    BY <2>8, Zenon
  <2> HIDE DEF l
  <2>12. l \in Starts(s)
    BY ONLY <2>10, <2>11, Zenon DEF Starts, n
  <2> QED
    BY <2>7, <2>12, Zenon DEF l
<1> QED
  BY <1>1, <1>2, <1>3

\* A window holds a shingle of its text, and nothing else.
LEMMA WindowFacts ==
    ASSUME NEW s \in Seq(Nat), NEW w \in Windows(s)
    PROVE  w # {} /\ w \subseteq Hashes(s)
<1> USE SourceAssumption
<1>1. PICK i \in Starts(s) : w = Window(s, i)
  BY DEF Windows
<1>2. i \in Nat /\ i < Len(s)
  BY DEF Starts
<1>3. i + 1 \in DOMAIN s /\ i < i + 1 /\ i + 1 <= i + ChunkSize
  BY <1>2
<1>4. s[i + 1] \in w
  BY ONLY <1>1, <1>3, Zenon DEF Window
<1>5. w \subseteq Hashes(s)
  BY ONLY <1>1, Zenon DEF Window, Hashes
<1> QED
  BY ONLY <1>4, <1>5

\* A window that is full starts where a multiple of the stride leaves it room.
LEMMA FullWindowStarts ==
    ASSUME NEW s \in Seq(Nat), NEW h \in Nat, NEW i, i = h * ChunkStride,
           i + ChunkSize <= Len(s)
    PROVE  i \in Starts(s)
<1>0. ChunkSize \in Nat /\ ChunkStride \in Nat \ {0} /\ ChunkStride <= ChunkSize
  BY SourceAssumption
<1> DEFINE n == Len(s)
<1>1. n \in Nat
  OBVIOUS
<1>2. i \in Nat /\ h <= i
  BY <1>0, Product
<1> HIDE DEF n
<1>3. h \in 0..n /\ i < n /\ i - ChunkStride + ChunkSize < n
  BY <1>0, <1>1, <1>2 DEF n
<1> QED
  BY <1>3 DEF Starts, n

\* The first window that reaches the end of a text starts at a multiple of the
\* stride, and so do all windows before it.
LEMMA WindowsToTheEnd ==
    ASSUME NEW s \in Seq(Nat)
    PROVE  \E m \in 0..Len(s) :
               /\ Len(s) <= m * ChunkStride + ChunkSize
               /\ \A k \in 0..m : k * ChunkStride < Len(s) => k * ChunkStride \in Starts(s)
<1>0. ChunkSize \in Nat /\ ChunkStride \in Nat \ {0} /\ ChunkStride <= ChunkSize
  BY SourceAssumption
<1> DEFINE n == Len(s)
           Reaches(k) == n <= k * ChunkStride + ChunkSize
           T == {k \in Nat : Reaches(k)}
<1>1. n \in Nat
  OBVIOUS
<1>2. n \in T
  <2>1. n <= n * ChunkStride /\ n * ChunkStride \in Nat
    BY <1>0, <1>1, Product
  <2> QED
    BY <1>0, <1>1, <2>1
<1>3. PICK m \in T : \A k \in T : m <= k
  <2> HIDE DEF T
  <2>1. T \subseteq Nat
    BY DEF T
  <2> QED
    BY <1>2, <2>1, LeastNumber
<1>4. m \in 0..n /\ Reaches(m)
  BY <1>1, <1>2, <1>3
<1>5. ASSUME NEW k \in 0..m, k * ChunkStride < n PROVE k * ChunkStride \in Starts(s)
  <2> DEFINE i == k * ChunkStride
  <2>1. i \in Nat /\ k \in 0..n /\ k \in Nat
    <3>1. k \in 0..n /\ k \in Nat
      BY <1>1, <1>4
    <3> QED
      BY <1>0, <3>1, Product
  <2>2. i > 0 => i - ChunkStride + ChunkSize < n
    <3> SUFFICES ASSUME i > 0 PROVE i - ChunkStride + ChunkSize < n
      OBVIOUS
    <3>1. k # 0
      <4>1. 0 * ChunkStride = 0
        BY <1>0
      <4> QED
        BY ONLY <4>1, i > 0
    <3> DEFINE l == k - 1
    <3>2. l \in Nat /\ ~(m <= l) /\ l * ChunkStride = i - ChunkStride
      BY <1>0, <1>4, <2>1, <3>1
    <3> HIDE DEF l, i
    <3>3. ~Reaches(l)
      BY <1>3, <3>2
    <3> QED
      BY <1>0, <1>1, <2>1, <3>2, <3>3
  <2> HIDE DEF i
  <2>3. i < n
    BY <1>5 DEF i
  <2>4. \E j \in 0..n : i = j * ChunkStride
    BY <2>1 DEF i
  <2> QED
    BY <2>1, <2>2, <2>3, <2>4 DEF Starts, i
<1> QED
  BY <1>4, <1>5

\* No passage is torn apart: any n shingles in a row, n being at most what two
\* neighbouring windows have in common and one more, lie in one window
\* (chunkShingles).
THEOREM PassagesStayTogether ==
    ASSUME NEW s \in Seq(Nat), NEW p \in Nat, NEW n \in Nat \ {0}, p + n <= Len(s),
           n + ChunkStride <= ChunkSize + 1
    PROVE  \E w \in Windows(s) : \A j \in p+1..p+n : s[j] \in w
<1>0. ChunkSize \in Nat /\ ChunkStride \in Nat \ {0} /\ ChunkStride <= ChunkSize
  BY SourceAssumption
<1> DEFINE h == p \div ChunkStride
           b == ChunkStride * h
<1>1. PICK m \in 0..Len(s) :
          /\ Len(s) <= m * ChunkStride + ChunkSize
          /\ \A k \in 0..m : k * ChunkStride < Len(s) => k * ChunkStride \in Starts(s)
  BY WindowsToTheEnd
<1>2. Len(s) \in Nat /\ m \in Nat
  BY <1>1
<1>3. h \in Nat /\ b \in Nat /\ b = h * ChunkStride /\ b <= p /\ p < b + ChunkStride
  <2>1. h \in Int /\ ChunkStride * h <= p /\ p < ChunkStride * h + ChunkStride
    BY <1>0, Quotient
  <2> HIDE DEF h
  <2>2. h \in Nat
    <3> SUFFICES ASSUME h < 0 PROVE FALSE
      BY <2>1
    <3>1. (h + 1) * ChunkStride <= 0 * ChunkStride
      BY <1>0, <2>1, Product
    <3> QED
      BY <1>0, <2>1, <3>1
  <2> QED
    BY <1>0, <2>1, <2>2
<1> HIDE DEF h, b
<1>4. \E i \in Starts(s) : i <= p /\ (p + n <= i + ChunkSize \/ Len(s) <= i + ChunkSize)
  <2>1. CASE h <= m
    <3>1. b \in Starts(s)
      <4>1. h \in 0..m /\ h * ChunkStride < Len(s)
        BY ONLY <1>2, <1>3, <2>1, p + n <= Len(s), p \in Nat, n \in Nat \ {0}
      <4> QED
        BY <1>1, <1>3, <4>1
    <3>2. p + n <= b + ChunkSize
      BY ONLY <1>0, <1>3, n + ChunkStride <= ChunkSize + 1, p \in Nat, n \in Nat \ {0}
    <3> QED
      BY <1>3, <3>1, <3>2, Zenon
  <2>2. CASE m < h
    <3> DEFINE c == m * ChunkStride
    <3>1. c \in Nat /\ c <= b
      BY <1>0, <1>2, <1>3, <2>2, Product
    <3>2. c \in Starts(s) /\ Len(s) <= c + ChunkSize
      <4>1. m \in 0..m /\ c < Len(s)
        BY ONLY <1>2, <1>3, <3>1, p + n <= Len(s), p \in Nat, n \in Nat \ {0}
      <4> QED
        BY <1>1, <4>1
    <3>3. c <= p
      BY <1>3, <3>1
    <3> HIDE DEF c
    <3> QED
      BY <3>2, <3>3, Zenon
  <2> QED
    BY <1>2, <1>3, <2>1, <2>2
<1>5. PICK i \in Starts(s) : i <= p /\ (p + n <= i + ChunkSize \/ Len(s) <= i + ChunkSize)
  BY <1>4, Zenon
<1>6. i \in Nat
  BY StartsFacts
<1>7. \A j \in p+1..p+n : j \in 1..Len(s) /\ i < j /\ j <= i + ChunkSize
  BY ONLY <1>0, <1>2, <1>5, <1>6, p + n <= Len(s), p \in Nat, n \in Nat \ {0}
<1>8. \A j \in p+1..p+n : s[j] \in Window(s, i)
  <2>1. DOMAIN s = 1..Len(s)
    OBVIOUS
  <2> QED
    BY <1>7, <2>1, Zenon DEF Window
<1> QED
  BY <1>8 DEF Windows

\* Nothing of a text is left out of its windows, and nothing else is in them.
THEOREM WindowsHoldTheText ==
    ASSUME NEW s \in Seq(Nat)
    PROVE  UNION Windows(s) = Hashes(s)
<1>1. ASSUME NEW k \in DOMAIN s PROVE \E w \in Windows(s) : s[k] \in w
  <2> DEFINE p == k - 1
  <2>1. p \in Nat /\ 1 \in Nat \ {0} /\ p + 1 <= Len(s) /\ 1 + ChunkStride <= ChunkSize + 1
    BY SourceAssumption
  <2>2. k \in p+1..p+1
    OBVIOUS
  <2> HIDE DEF p
  <2>3. \E w \in Windows(s) : \A j \in p+1..p+1 : s[j] \in w
    BY ONLY <2>1, s \in Seq(Nat), PassagesStayTogether
  <2> QED
    BY <2>2, <2>3
<1>2. \A w \in Windows(s) : w \subseteq Hashes(s)
  BY WindowFacts
<1> QED
  BY <1>1, <1>2, Zenon DEF Hashes

\* Two texts that repeat a passage long enough to hold a window wherever it
\* begins share a window, if it stands at the same distance from a multiple of
\* the stride in both.  The search by equal windows promises no more: a passage
\* that is shifted by half a stride is found only if the windows that overlap
\* most fall into one bucket.
THEOREM LongCopiesShareAWindow ==
    ASSUME NEW s \in Seq(Nat), NEW t \in Seq(Nat), NEW p \in Nat, NEW q \in Nat, NEW n \in Nat,
           p % ChunkStride = q % ChunkStride, ChunkSize + ChunkStride <= n + 1,
           p + n <= Len(s), q + n <= Len(t),
           \A j \in 1..n : s[p + j] = t[q + j]
    PROVE  Windows(s) \intersect Windows(t) # {}
<1>0. ChunkSize \in Nat /\ ChunkStride \in Nat \ {0} /\ ChunkStride <= ChunkSize
  BY SourceAssumption
<1> DEFINE a == p \div ChunkStride
           b == q \div ChunkStride
           r == p % ChunkStride
           e == p + ChunkStride - 1
           h == e \div ChunkStride
           g == h - a + b
           i == h * ChunkStride
           k == g * ChunkStride
<1>1. /\ p \in Int /\ a = p \div ChunkStride /\ r = p % ChunkStride
       /\ q \in Int /\ b = q \div ChunkStride /\ r = q % ChunkStride
  OBVIOUS
<1> HIDE DEF a, b, r
<1>2. a \in Int /\ r \in Int /\ 0 <= r /\ ChunkStride * a = p - r
  BY ONLY <1>0, <1>1, Division
<1>3. b \in Int /\ ChunkStride * b = q - r
  BY ONLY <1>0, <1>1, Division
<1>4. e \in Int /\ h \in Int /\ ChunkStride * h <= e /\ e < ChunkStride * h + ChunkStride
  <2>1. e \in Int
    BY <1>0
  <2> HIDE DEF e
  <2> QED
    BY <1>0, <2>1, Quotient
<1> HIDE DEF h
<1>5. i \in Int /\ p <= i /\ i <= p + ChunkStride - 1
  BY <1>0, <1>4
<1>6. k = i - p + q
  <2>1. k = ChunkStride * h - ChunkStride * a + ChunkStride * b
    BY <1>0, <1>2, <1>3, <1>4
  <2> QED
    BY <1>0, <1>2, <1>3, <1>4, <2>1
<1>7. h \in Nat /\ g \in Nat
  <2>1. g \in Int /\ i >= 0 /\ k >= 0
    <3>1. i \in Int /\ g \in Int
      BY <1>2, <1>3, <1>4, <1>5
    <3> HIDE DEF i, g, k
    <3> QED
      BY <1>5, <1>6, <3>1
  <2>2. \A x \in Int : x * ChunkStride >= 0 => x \in Nat
    BY <1>0
  <2> HIDE DEF g
  <2> QED
    BY <1>4, <2>1, <2>2
<1> HIDE DEF e, g, i, k
<1>8. i + ChunkSize <= Len(s) /\ k + ChunkSize <= Len(t) /\ Len(s) \in Nat /\ Len(t) \in Nat
  BY <1>0, <1>5, <1>6
<1>9. i \in Starts(s) /\ k \in Starts(t)
  BY <1>7, <1>8, FullWindowStarts DEF i, k
<1>10. ASSUME NEW x \in i+1..i+ChunkSize, NEW y, y = x - i + k
      PROVE  x \in DOMAIN s /\ y \in DOMAIN t /\ s[x] = t[y]
  <2> DEFINE j == x - p
  <2>1. j \in 1..n /\ p + j = x /\ q + j = y /\ x \in 1..Len(s) /\ y \in 1..Len(t)
    BY <1>0, <1>5, <1>6, <1>8, <1>10
  <2> HIDE DEF j
  <2>2. s[p + j] = t[q + j]
    BY <2>1
  <2>3. DOMAIN s = 1..Len(s) /\ DOMAIN t = 1..Len(t)
    OBVIOUS
  <2> QED
    BY <2>1, <2>2, <2>3, Zenon
<1>11. k \in Int
  BY <1>5, <1>6
<1>12. Window(s, i) \subseteq Window(t, k)
  <2> SUFFICES ASSUME NEW x \in DOMAIN s, i < x, x <= i + ChunkSize
               PROVE  s[x] \in Window(t, k)
    BY DEF Window
  <2> DEFINE y == x - i + k
  <2>1. x \in i+1..i+ChunkSize /\ k < y /\ y <= k + ChunkSize
    BY <1>0, <1>5, <1>11
  <2> HIDE DEF y
  <2>2. y \in DOMAIN t /\ s[x] = t[y]
    BY <1>10, <2>1 DEF y
  <2> QED
    BY <2>1, <2>2 DEF Window
<1>13. Window(t, k) \subseteq Window(s, i)
  <2> SUFFICES ASSUME NEW y \in DOMAIN t, k < y, y <= k + ChunkSize
               PROVE  t[y] \in Window(s, i)
    BY DEF Window
  <2> DEFINE x == y - k + i
  <2>1. x \in i+1..i+ChunkSize /\ y = x - i + k /\ i < x /\ x <= i + ChunkSize
    BY <1>0, <1>5, <1>11
  <2> HIDE DEF x
  <2>2. x \in DOMAIN s /\ s[x] = t[y]
    BY <1>10, <2>1
  <2> QED
    BY <2>1, <2>2 DEF Window
<1>14. Window(s, i) = Window(t, k)
  BY <1>12, <1>13
<1> QED
  BY <1>9, <1>14 DEF Windows

-----------------------------------------------------------------------------
(* Type correctness                                                        *)

\* An adder that moves on or answers stays well-typed.
LEMMA AdderMovesTyped ==
    ASSUME AdderTypeOK, NEW a \in Adder, apc[a] # "off",
           \/ \E l \in {"create", "index", "embed", "clear", "store"}, n \in Nat : Goto(a, l, n)
           \/ \E r \in {"added", "existing", "error"} : Respond(a, r)
    PROVE  AdderTypeOK'
<1>1. CASE \E l \in {"create", "index", "embed", "clear", "store"}, n \in Nat : Goto(a, l, n)
  <2>1. PICK l \in {"create", "index", "embed", "clear", "store"}, n \in Nat : Goto(a, l, n)
    BY <1>1
  <2> QED
    BY <2>1 DEF Goto, AdderTypeOK
<1>2. CASE \E r \in {"added", "existing", "error"} : Respond(a, r)
  <2>1. PICK r \in {"added", "existing", "error"} : Respond(a, r)
    BY <1>2
  <2> QED
    BY <2>1 DEF Respond, AdderTypeOK
<1> QED
  BY <1>1, <1>2

\* A finite set has a finite image, which is not larger.
LEMMA ImageIsFinite ==
    ASSUME NEW S, IsFiniteSet(S), NEW f
    PROVE  IsFiniteSet({f[x] : x \in S}) /\ Cardinality({f[x] : x \in S}) <= Cardinality(S)
<1> DEFINE T == {f[x] : x \in S}
           g == [x \in S |-> f[x]]
<1>1. g \in Surjection(S, T)
  BY DEF Surjection
<1> QED
  BY <1>1, FS_Surjection

\* A text of n shingles has at most n different ones.
LEMMA HashesAreFinite ==
    ASSUME NEW s \in Seq(Nat)
    PROVE  /\ IsFiniteSet(Hashes(s)) /\ Cardinality(Hashes(s)) \in Nat
           /\ Cardinality(Hashes(s)) <= Len(s)
<1>1. DOMAIN s = 1..Len(s) /\ Len(s) \in Nat
  OBVIOUS
<1>2. IsFiniteSet(1..Len(s)) /\ Cardinality(1..Len(s)) = Len(s)
  BY <1>1, FS_Interval
<1>3. Hashes(s) = {s[i] : i \in 1..Len(s)}
  BY <1>1, Zenon DEF Hashes
<1>4. /\ IsFiniteSet({s[i] : i \in 1..Len(s)})
      /\ Cardinality({s[i] : i \in 1..Len(s)}) <= Cardinality(1..Len(s))
  BY ONLY <1>2, ImageIsFinite
<1>5. IsFiniteSet(Hashes(s)) /\ Cardinality(Hashes(s)) <= Len(s)
  BY ONLY <1>2, <1>3, <1>4
<1> QED
  BY ONLY <1>5, FS_CardinalityType

\* A text has finitely many windows.
LEMMA WindowsAreFinite ==
    ASSUME NEW s \in Seq(Nat)
    PROVE  IsFiniteSet(Windows(s))
<1>1. Len(s) \in Nat
  OBVIOUS
<1>2. Starts(s) \subseteq 0..Len(s)
  BY <1>1, StartsFacts DEF Starts
<1>3. IsFiniteSet(Starts(s))
  <2>1. IsFiniteSet(0..Len(s))
    BY ONLY <1>1, FS_Interval
  <2> QED
    BY ONLY <1>2, <2>1, FS_Subset
<1> DEFINE f == [i \in Starts(s) |-> Window(s, i)]
<1>4. Windows(s) = {f[i] : i \in Starts(s)}
  BY Zenon DEF Windows
<1> HIDE DEF f
<1> QED
  BY ONLY <1>3, <1>4, ImageIsFinite

\* The copied shingles are shingles of the text: finitely many, and as many as
\* the text has at most.
LEMMA CopiedAreFinite ==
    ASSUME NEW S
    PROVE  /\ IsFiniteSet(Copied(S)) /\ Cardinality(Copied(S)) \in Nat
           /\ \A T \in SUBSET Copied(S) :
                 /\ IsFiniteSet(T) /\ Cardinality(T) \in Nat
                 /\ Cardinality(T) <= Cardinality(Copied(S)) /\ Cardinality(T) <= Len(Text)
<1> DEFINE H == Hashes(Text)
<1>1. IsFiniteSet(H) /\ Cardinality(H) \in Nat /\ Cardinality(H) <= Len(Text) /\ Len(Text) \in Nat
  BY SourceAssumption, HashesAreFinite
<1>2. Copied(S) \subseteq H
  BY DEF Copied
<1> HIDE DEF H
<1>3. \A T \in SUBSET H : IsFiniteSet(T) /\ Cardinality(T) <= Cardinality(H)
  BY ONLY <1>1, FS_Subset
<1>4. \A T \in SUBSET H : Cardinality(T) \in Nat
  BY ONLY <1>3, FS_CardinalityType
<1>5. IsFiniteSet(Copied(S)) /\ Cardinality(Copied(S)) \in Nat
  BY ONLY <1>2, <1>3, <1>4
<1>6. \A T \in SUBSET Copied(S) : Cardinality(T) <= Cardinality(Copied(S)) /\ T \in SUBSET H
  BY ONLY <1>2, <1>5, FS_Subset
<1>7. \A T \in SUBSET H : Cardinality(T) <= Len(Text)
  BY ONLY <1>1, <1>3, <1>4
<1> QED
  BY ONLY <1>3, <1>4, <1>5, <1>6, <1>7

\* What a check counts are shingles of the text that a row has as well, and all
\* of them that a stored candidate has.
LEMMA MatchedBetween ==
    ASSUME NEW k, CheckerTypeOK, k \in Checker
    PROVE  /\ MatchedShingles(k) \in Nat
           /\ MatchedShingles(k) <= Cardinality(Copied(rows))
           /\ MatchedShingles(k) <= Len(Text)
           /\ \A S \in SUBSET (candidates[k] \intersect rows) :
                 Cardinality(Copied(S)) <= MatchedShingles(k)
<1> DEFINE M == {Shingles[m[1]][m[2]] : m \in Matches(k)}
<1>1. M \subseteq Copied(rows)
  <2> SUFFICES ASSUME NEW m \in Matches(k) PROVE Shingles[m[1]][m[2]] \in Copied(rows)
    OBVIOUS
  <2>1. /\ Shingles[m[1]][m[2]] \in Hashes(Text)
        /\ \E c \in candidates[k] \intersect rows : m \in {c} \X DOMAIN Shingles[c]
    BY DEF Matches
  <2>2. m[1] \in rows /\ m[2] \in DOMAIN Shingles[m[1]]
    BY <2>1
  <2>3. Shingles[m[1]][m[2]] \in Hashes(Shingles[m[1]])
    BY ONLY <2>2, Zenon DEF Hashes
  <2> QED
    BY ONLY <2>1, <2>2, <2>3 DEF Copied
<1>2. ASSUME NEW S \in SUBSET (candidates[k] \intersect rows) PROVE Copied(S) \subseteq M
  <2> SUFFICES ASSUME NEW h \in Copied(S) PROVE h \in M
    OBVIOUS
  <2>1. h \in Hashes(Text) /\ \E c \in S : \E j \in DOMAIN Shingles[c] : h = Shingles[c][j]
    BY DEF Copied, Hashes
  <2>2. PICK c \in S : \E j \in DOMAIN Shingles[c] : h = Shingles[c][j]
    BY <2>1
  <2>3. PICK j \in DOMAIN Shingles[c] : h = Shingles[c][j]
    BY <2>2
  <2> DEFINE m == <<c, j>>
  <2>4. m \in {c} \X DOMAIN Shingles[c] /\ m[1] = c /\ m[2] = j
    OBVIOUS
  <2>5. m \in Matches(k) /\ Shingles[m[1]][m[2]] = h
    BY <2>1, <2>3, <2>4 DEF Matches
  <2> HIDE DEF m
  <2> QED
    BY <2>5
<1>3. MatchedShingles(k) = Cardinality(M)
  BY DEF MatchedShingles
<1> HIDE DEF M
<1>4. /\ IsFiniteSet(M) /\ Cardinality(M) \in Nat
      /\ Cardinality(M) <= Cardinality(Copied(rows)) /\ Cardinality(M) <= Len(Text)
  BY ONLY <1>1, CopiedAreFinite
<1>5. \A S \in SUBSET (candidates[k] \intersect rows) : Cardinality(Copied(S)) <= Cardinality(M)
  BY ONLY <1>2, <1>4, FS_Subset
<1> QED
  BY ONLY <1>3, <1>4, <1>5

\* An adder that indexes has a row, and a window to index.
HasWindow(a) ==
    apc[a] = "index" => adding[a] \in rows /\ next[a] \in Starts(Shingles[adding[a]])

TypeInv == TypeOK /\ \A a \in Adder : HasWindow(a)

\* At first nothing is stored and nobody is at work.
LEMMA TypeInit == Init => TypeInv
BY SourceAssumption
DEF Init, TypeInv, HasWindow, TypeOK, StoreTypeOK, AdderTypeOK, CheckerTypeOK

\* A request starts to index at its first window and goes on window by window.
LEMMA WindowStep == TypeInv /\ [Next]_vars => \A a \in Adder : HasWindow(a)'
<1> SUFFICES ASSUME TypeInv, [Next]_vars, NEW b \in Adder PROVE HasWindow(b)'
  OBVIOUS
<1> USE DEF TypeInv, TypeOK
<1>1. ASSUME NEW a \in Adder, AdderStep(a) PROVE HasWindow(b)'
  <2>1. adding[a] \in Source /\ apc[a] # "off"
    BY <1>1 DEF AdderStep, Lookup, Create, Index, Embed, Clear, Store, AdderTypeOK
  <2>2. Shingles[adding[a]] \in Seq(Nat)
    BY <2>1, SourceAssumption
  <2>3. rows \subseteq rows' /\ adding' = adding
    BY <1>1
    DEF AdderStep, Lookup, Create, Index, Embed, Clear, Store, Throws, Goto, Respond
  <2>4. CASE b # a
    <3>1. apc'[b] = apc[b] /\ next'[b] = next[b]
      BY <1>1, <2>4
      DEF AdderStep, Lookup, Create, Index, Embed, Clear, Store, Throws, Goto, Respond,
          AdderTypeOK
    <3> QED
      BY <2>3, <3>1 DEF HasWindow
  <2>5. CASE b = a /\ Create(a)
    <3> HIDE DEF TypeInv
    <3>1. CASE Throws(a) \/ Respond(a, "error")
      BY <2>1, <2>5, <3>1 DEF Throws, Respond, HasWindow, TypeInv, AdderTypeOK
    <3>2. CASE rows' = rows \union {adding[a]} /\ Goto(a, IF Shingles[adding[a]] = <<>> THEN "embed" ELSE "index", 0)
      <4>1. apc'[a] = "index" => Shingles[adding[a]] # <<>> /\ next'[a] = 0
        BY <3>2 DEF Goto, TypeInv, AdderTypeOK
      <4> QED
        BY <2>2, <2>3, <2>5, <3>2, <4>1, StartsFacts DEF HasWindow
    <3> QED
      BY <2>5, <3>1, <3>2 DEF Create
  <2>6. CASE b = a /\ Index(a)
    <3>1. CASE next[a] + ChunkStride \in Starts(Shingles[adding[a]])
      BY <2>3, <2>6, <3>1 DEF Index, Goto, HasWindow, AdderTypeOK
    <3>2. CASE next[a] + ChunkStride \notin Starts(Shingles[adding[a]])
      BY <2>3, <2>6, <3>2 DEF Index, Goto, HasWindow, AdderTypeOK
    <3> QED
      BY <3>1, <3>2
  <2>7. CASE b = a /\ (Lookup(a) \/ Embed(a) \/ Clear(a) \/ Store(a))
    <3>1. apc'[a] # "index"
      BY <2>7 DEF Lookup, Embed, Clear, Store, Throws, Goto, Respond, AdderTypeOK
    <3> QED
      BY <2>7, <3>1 DEF HasWindow
  <2> QED
    BY <1>1, <2>4, <2>5, <2>6, <2>7 DEF AdderStep
<1>2. ASSUME NEW a \in Adder, NEW c \in Source, Receive(a, c) PROVE HasWindow(b)'
  BY <1>2 DEF Receive, HasWindow, AdderTypeOK
<1>3. CASE Crash
  BY <1>3 DEF Crash, HasWindow, AdderTypeOK
<1>4. CASE (\E k \in Checker :
              Begin(k) \/ Verify(k) \/ Compare(k) \/ \E w \in AllWindows : Search(k, w))
           \/ UNCHANGED vars
  BY <1>4 DEF Begin, Verify, Compare, Search, vars, adderVars, HasWindow
<1> QED
  BY <1>1, <1>2, <1>3, <1>4 DEF Next

\* No step of a request, of a check or of a crash leaves the types.
LEMMA TypeStep == TypeInv /\ [Next]_vars => TypeOK'
<1> SUFFICES ASSUME TypeInv, [Next]_vars PROVE TypeOK'
  OBVIOUS
<1> USE SourceAssumption DEF TypeInv, TypeOK
<1>1. ASSUME NEW a \in Adder, NEW c \in Source, Receive(a, c) PROVE TypeOK'
  BY <1>1 DEF Receive, checkerVars, reportVars, StoreTypeOK, AdderTypeOK, CheckerTypeOK
<1>2. ASSUME NEW a \in Adder, AdderStep(a) PROVE TypeOK'
  <2>1. adding[a] \in Source /\ apc[a] # "off"
    BY <1>2 DEF AdderStep, Lookup, Create, Index, Embed, Clear, Store, AdderTypeOK
  <2>2. AdderTypeOK'
    <3>1. \/ \E l \in {"create", "index", "embed", "clear", "store"}, n \in Nat : Goto(a, l, n)
          \/ \E r \in {"added", "existing", "error"} : Respond(a, r)
      <4>1. next[a] \in Nat
        BY DEF AdderTypeOK
      <4>2. CASE Lookup(a) \/ Embed(a)
        BY <4>2 DEF Lookup, Embed, Throws
      <4>3. CASE Create(a)
        BY <4>3 DEF Create, Throws
      <4>4. CASE Index(a)
        BY <4>1, <4>4 DEF Index
      <4>5. CASE Clear(a)
        BY <4>5 DEF Clear, Throws
      <4>6. CASE Store(a)
        BY <4>1, <4>6 DEF Store, Throws
      <4> QED
        BY <1>2, <4>2, <4>3, <4>4, <4>5, <4>6 DEF AdderStep
    <3> QED
      BY <2>1, <3>1, AdderMovesTyped
  <2>3. StoreTypeOK'
    <3>1. CASE Index(a)
      <4>1. adding[a] \in rows /\ Window(Shingles[adding[a]], next[a]) \in Windows(Shingles[adding[a]])
        BY <3>1 DEF Index, HasWindow, Windows
      <4>2. Window(Shingles[adding[a]], next[a]) \in AllWindows
        BY <2>1, <4>1 DEF AllWindows
      <4> QED
        BY <3>1, <4>1, <4>2 DEF Index, StoreTypeOK
    <3>2. CASE Create(a)
      <4>1. rows' \in {rows, rows \union {adding[a]}} /\ UNCHANGED <<bands, embedded>>
        BY <3>2 DEF Create
      <4> QED
        BY <2>1, <4>1 DEF StoreTypeOK
    <3>3. CASE Clear(a) \/ Store(a)
      <4>1. /\ UNCHANGED <<rows, bands>>
            /\ \/ embedded' = embedded
               \/ embedded' = [embedded EXCEPT ![adding[a]] = 0]
               \/ embedded' = [embedded EXCEPT ![adding[a]] = embedded[adding[a]] + 1]
        BY <3>3 DEF Clear, Store
      <4>2. embedded \in [Source -> Nat] /\ embedded[adding[a]] + 1 \in Nat
        BY <2>1 DEF StoreTypeOK
      <4>3. embedded' \in [Source -> Nat]
        BY <4>1, <4>2
      <4> QED
        BY <4>1, <4>3 DEF StoreTypeOK
    <3>4. CASE Lookup(a) \/ Embed(a)
      BY <3>4 DEF Lookup, Embed, StoreTypeOK
    <3> QED
      BY <1>2, <3>1, <3>2, <3>3, <3>4 DEF AdderStep
  <2>4. CheckerTypeOK' /\ faults' \in Nat /\ redisFaults' \in Nat
    BY <1>2
    DEF AdderStep, Lookup, Create, Index, Embed, Clear, Store, Throws, checkerVars, reportVars,
        CheckerTypeOK
  <2> QED
    BY <2>2, <2>3, <2>4
<1>3. ASSUME NEW k \in Checker, Begin(k) PROVE TypeOK'
  BY <1>3 DEF Begin, adderVars, reportVars, StoreTypeOK, AdderTypeOK, CheckerTypeOK
<1>4. ASSUME NEW k \in Checker, NEW w \in AllWindows, Search(k, w) PROVE TypeOK'
  BY <1>4 DEF Search, adderVars, reportVars, StoreTypeOK, AdderTypeOK, CheckerTypeOK
<1>5. ASSUME NEW k \in Checker, Verify(k) PROVE TypeOK'
  <2>1. {m[1] : m \in Matches(k)} \in SUBSET Source
    BY DEF Matches, CheckerTypeOK
  <2>2. MatchedShingles(k) \in Nat
    BY MatchedBetween
  <2>3. \A e : e \in {"over", "compare"} => e \in {"off", "search", "compare", "over"}
    OBVIOUS
  <2>4. cpc'[k] \in {"over", "compare"} /\ CheckerTypeOK'
    BY <1>5, <2>1, <2>2, <2>3 DEF Verify, CheckerTypeOK
  <2> QED
    BY <1>5, <2>4 DEF Verify, adderVars, StoreTypeOK, AdderTypeOK
<1>8. ASSUME NEW k \in Checker, Compare(k) PROVE TypeOK'
  <2>1. sentence[k] \in Nat
    BY DEF CheckerTypeOK
  <2>2. retold' \in [Checker -> SUBSET (Nat \X Source)]
    <3>1. CASE retold' = retold
      BY <3>1 DEF CheckerTypeOK
    <3>2. ASSUME NEW c \in Nearest(sentence[k]),
                 retold' = [retold EXCEPT ![k] = @ \union {<<sentence[k], c>>}]
          PROVE  retold' \in [Checker -> SUBSET (Nat \X Source)]
      <4>1. c \in Source
        BY DEF Nearest, StoreTypeOK
      <4> QED
        BY <2>1, <3>2, <4>1 DEF CheckerTypeOK
    <3> QED
      BY <1>8, <3>1, <3>2 DEF Compare
  <2>3. sentence' \in [Checker -> Nat]
    BY <1>8, <2>1 DEF Compare, CheckerTypeOK
  <2>4. cpc' \in [Checker -> {"off", "search", "compare", "over"}]
    BY <1>8 DEF Compare, CheckerTypeOK
  <2> QED
    BY <1>8, <2>2, <2>3, <2>4
    DEF Compare, adderVars, StoreTypeOK, AdderTypeOK, CheckerTypeOK
<1>6. CASE Crash
  BY <1>6 DEF Crash, checkerVars, reportVars, StoreTypeOK, AdderTypeOK, CheckerTypeOK
<1>7. CASE UNCHANGED vars
  BY <1>7
  DEF vars, adderVars, checkerVars, reportVars, StoreTypeOK, AdderTypeOK, CheckerTypeOK
<1> QED
  BY <1>1, <1>2, <1>3, <1>4, <1>5, <1>6, <1>7, <1>8 DEF Next

\* Every variable of the corpus keeps its type, and no entry of the index
\* points to a source that has no row.
THEOREM CorpusTypeCorrect == Spec => []TypeOK
<1>1. TypeInv /\ [Next]_vars => TypeInv'
  BY TypeStep, WindowStep DEF TypeInv
<1>2. TypeInv => TypeOK
  BY DEF TypeInv
<1> QED
  BY <1>1, <1>2, TypeInit, PTL DEF Spec

-----------------------------------------------------------------------------
(* What a request stores                                                   *)

\* A step of a request changes no other request, forgets no row and no index
\* entry, and repairs no fault.
LEMMA AdderFrame ==
    ASSUME TypeInv, NEW a \in Adder, AdderStep(a)
    PROVE  /\ adding[a] \in Source /\ adding' = adding
           /\ rows \subseteq rows' /\ bands \subseteq bands'
           /\ redisFaults <= redisFaults'
           /\ \A b \in Adder \ {a} : apc'[b] = apc[b] /\ next'[b] = next[b] /\ reply'[b] = reply[b]
           /\ UNCHANGED checkerVars
<1> USE DEF TypeInv, TypeOK, AdderTypeOK
<1>1. adding[a] \in Source
  BY DEF AdderStep, Lookup, Create, Index, Embed, Clear, Store
<1>2. /\ adding' = adding
      /\ \A b \in Adder \ {a} : apc'[b] = apc[b] /\ next'[b] = next[b] /\ reply'[b] = reply[b]
  BY DEF AdderStep, Lookup, Create, Index, Embed, Clear, Store, Throws, Goto, Respond
<1>3. rows \subseteq rows' /\ bands \subseteq bands' /\ UNCHANGED checkerVars
  BY DEF AdderStep, Lookup, Create, Index, Embed, Clear, Store
<1>4. redisFaults <= redisFaults'
  BY DEF AdderStep, Lookup, Create, Index, Embed, Clear, Store
<1> QED
  BY <1>1, <1>2, <1>3, <1>4

\* What a step of a request makes of the request itself.
LEMMA AdderMove ==
    ASSUME TypeInv, AdderInv, NEW a \in Adder, AdderStep(a)
    PROVE  /\ reply[a] # "added"
           /\ reply'[a] = "added" => apc'[a] = "over"
           /\ Creator(a)' => \/ Creator(a)
                             \/ adding[a] \notin rows /\ adding[a] \in rows'
<1> USE DEF TypeInv, TypeOK, AdderTypeOK
<1>1. reply[a] # "added"
  BY DEF AdderStep, Lookup, Create, Index, Embed, Clear, Store, AdderInv, RepliesAtTheEnd
<1>2. CASE Lookup(a)
  BY <1>1, <1>2 DEF Lookup, Throws, Goto, Respond, Creator, Creating
<1>3. CASE Create(a)
  BY <1>1, <1>3 DEF Create, Throws, Goto, Respond, Creator, Creating
<1>4. CASE Index(a)
  BY <1>1, <1>4 DEF Index, Goto, Creator, Creating
<1>5. CASE Embed(a) \/ Clear(a) \/ Store(a)
  BY <1>1, <1>5 DEF Embed, Clear, Store, Throws, Goto, Respond, Creator, Creating
<1> QED
  BY <1>1, <1>2, <1>3, <1>4, <1>5 DEF AdderStep

\* The sentences after a step of the creator, and after a step of anybody
\* else: only the creator of a source touches them.
LEMMA StoredStep ==
    ASSUME TypeInv, AdderInv, NEW a \in Adder, AdderStep(a)
    PROVE  SentencesOnce' /\ \A b \in Adder : Creator(b)' => Stored(b)'
<1> DEFINE c == adding[a]
<1> USE SourceAssumption
<1>1. c \in Source /\ adding' = adding /\ reply[a] # "added"
  BY AdderFrame, AdderMove
<1>2. embedded[c] \in Nat /\ Sentences[c] \in Nat /\ next[a] \in Nat
  BY <1>1 DEF TypeInv, TypeOK, StoreTypeOK, AdderTypeOK
<1>3. \A d \in Source \ {c} : embedded'[d] = embedded[d]
  BY <1>1
  DEF AdderStep, Lookup, Create, Index, Embed, Clear, Store, TypeInv, TypeOK, StoreTypeOK
<1>4. ~Creator(a) => embedded' = embedded
  BY DEF AdderStep, Lookup, Create, Index, Embed, Clear, Store, Creator, Creating
<1>5. embedded'[c] <= Sentences[c] /\ (Creator(a)' => Stored(a)')
  <2>1. CASE Clear(a)
    <3>1. CASE embedded' = [embedded EXCEPT ![c] = 0]
      <4>1. embedded'[c] = 0
        BY <1>1, <3>1 DEF TypeInv, TypeOK, StoreTypeOK
      <4>2. CASE Sentences[c] = 0 /\ Respond(a, "added")
        BY <1>1, <1>2, <4>1, <4>2 DEF Respond, Stored, TypeInv, TypeOK, AdderTypeOK
      <4>3. CASE Sentences[c] # 0 /\ Goto(a, "store", 1)
        BY <1>1, <1>2, <4>1, <4>3 DEF Goto, Stored, TypeInv, TypeOK, AdderTypeOK
      <4>4. CASE Throws(a)
        BY <1>1, <1>2, <4>1, <4>4
        DEF Throws, Respond, Creator, Creating, TypeInv, TypeOK, AdderTypeOK
      <4> QED
        BY <2>1, <4>2, <4>3, <4>4 DEF Clear
    <3>2. CASE Throws(a) /\ UNCHANGED embedded
      BY <1>1, <1>2, <3>2
      DEF Throws, Respond, Creator, Creating, TypeInv, TypeOK, AdderTypeOK, AdderInv, SentencesOnce
    <3> QED
      BY <2>1, <3>1, <3>2 DEF Clear
  <2>2. CASE Store(a)
    <3>1. next[a] \in 1..Sentences[c] /\ embedded[c] = next[a] - 1
      BY <2>2 DEF AdderInv, Creator, Creating, Stored, Store
    <3>2. CASE Throws(a) /\ UNCHANGED embedded
      BY <1>1, <1>2, <3>1, <3>2
      DEF Throws, Respond, Creator, Creating, TypeInv, TypeOK, AdderTypeOK
    <3>3. CASE embedded' = [embedded EXCEPT ![c] = embedded[c] + 1]
      <4>1. embedded'[c] = next[a]
        BY <1>1, <1>2, <3>1, <3>3 DEF TypeInv, TypeOK, StoreTypeOK
      <4>2. CASE next[a] = Sentences[c] /\ Respond(a, "added")
        BY <1>1, <1>2, <4>1, <4>2 DEF Respond, Stored, TypeInv, TypeOK, AdderTypeOK
      <4>3. CASE next[a] # Sentences[c] /\ Goto(a, "store", next[a] + 1)
        BY <1>1, <1>2, <3>1, <4>1, <4>3 DEF Goto, Stored, TypeInv, TypeOK, AdderTypeOK
      <4>4. CASE Throws(a)
        BY <1>1, <1>2, <3>1, <4>1, <4>4
        DEF Throws, Respond, Creator, Creating, TypeInv, TypeOK, AdderTypeOK
      <4> QED
        BY <2>2, <4>2, <4>3, <4>4 DEF Store
    <3> QED
      BY <2>2, <3>2, <3>3 DEF Store
  <2>3. CASE Lookup(a) \/ Create(a) \/ Index(a) \/ Embed(a)
    <3>1. embedded' = embedded
      BY <2>3 DEF Lookup, Create, Index, Embed
    <3>2. apc'[a] # "store" /\ reply'[a] # "added"
      BY <1>1, <2>3
      DEF Lookup, Create, Index, Embed, Throws, Goto, Respond, TypeInv, TypeOK, AdderTypeOK
    <3> QED
      BY <1>1, <3>1, <3>2 DEF Stored, AdderInv, SentencesOnce
  <2> QED
    BY <2>1, <2>2, <2>3 DEF AdderStep
<1>6. SentencesOnce'
  BY <1>3, <1>5 DEF SentencesOnce, AdderInv
<1>7. ASSUME NEW b \in Adder \ {a}, Creator(b)' PROVE Stored(b)'
  <2>1. apc'[b] = apc[b] /\ next'[b] = next[b] /\ reply'[b] = reply[b]
    BY AdderFrame
  <2>2. Creator(b) /\ Stored(b)
    BY <1>7, <2>1 DEF Creator, Creating, AdderInv
  <2>3. adding[b] \in Source
    BY <2>2 DEF AdderInv, OneCreator, TypeInv, TypeOK, StoreTypeOK
  <2>4. embedded'[adding[b]] = embedded[adding[b]]
    BY <1>3, <1>4, <1>7, <2>2, <2>3 DEF AdderInv, OneCreator
  <2> QED
    BY <1>1, <2>1, <2>2, <2>4 DEF Stored
<1> QED
  BY <1>5, <1>6, <1>7

\* The missing windows of a source are finitely many, and fewer of them, or one
\* more for one more refused command, stay within what Redis refused.
LEMMA MissingFacts ==
    ASSUME NEW c \in Source
    PROVE  IsFiniteSet(Missing(c)) /\ Cardinality(Missing(c)) \in Nat
<1>1. Shingles[c] \in Seq(Nat)
  BY SourceAssumption
<1>2. IsFiniteSet(Windows(Shingles[c]))
  BY ONLY <1>1, WindowsAreFinite
<1>3. Missing(c) \subseteq Windows(Shingles[c])
  BY DEF Missing
<1> QED
  BY ONLY <1>2, <1>3, FS_Subset, FS_CardinalityType

\* One element more makes a set larger by one at most.
LEMMA OneMore ==
    ASSUME NEW S, NEW T, NEW x, NEW m \in Nat, NEW n \in Nat,
           IsFiniteSet(S), Cardinality(S) <= m,
           \/ T \subseteq S /\ m <= n
           \/ T \subseteq S \union {x} /\ m + 1 <= n
    PROVE  Cardinality(T) <= n
<1>1. Cardinality(S) \in Nat
  BY FS_CardinalityType
<1> DEFINE U == S \union {x}
<1>2. IsFiniteSet(U) /\ (Cardinality(U) = Cardinality(S) \/ Cardinality(U) = Cardinality(S) + 1)
  BY ONLY IsFiniteSet(S), FS_AddElement
<1>3. T \subseteq U => Cardinality(T) <= Cardinality(U) /\ Cardinality(T) \in Nat
  BY ONLY <1>2, FS_Subset, FS_CardinalityType
<1>4. T \subseteq S => Cardinality(T) <= Cardinality(S) /\ Cardinality(T) \in Nat
  BY ONLY IsFiniteSet(S), FS_Subset, FS_CardinalityType
<1> HIDE DEF U
<1>5. CASE T \subseteq S /\ m <= n
  BY <1>1, <1>4, <1>5
<1>6. CASE T \subseteq U /\ m + 1 <= n
  BY <1>1, <1>2, <1>3, <1>6
<1> QED
  BY <1>5, <1>6 DEF U

\* The index after a step of a request: one more window for the request that
\* indexes, or one more refused command, and nothing less for anybody.
LEMMA CoveredStep ==
    ASSUME TypeInv, AdderInv, NEW a \in Adder, AdderStep(a), redisFaults' \in Nat,
           NEW b \in Adder, Creator(b)'
    PROVE  Covered(b)'
<1>1. /\ bands \subseteq bands' /\ adding' = adding /\ redisFaults \in Nat
      /\ redisFaults <= redisFaults'
  BY AdderFrame DEF TypeInv, TypeOK
<1>0. \A d : Missing(d)' \subseteq Missing(d)
  BY <1>1 DEF Missing
<1>2. CASE b # a
  <2>1. apc'[b] = apc[b] /\ next'[b] = next[b] /\ reply'[b] = reply[b]
    BY <1>2, AdderFrame
  <2>2. Covered(b) /\ adding[b] \in Source
    BY <2>1 DEF Creator, Creating, AdderInv, OneCreator, TypeInv, TypeOK, StoreTypeOK
  <2>0. PICK c \in Source, n \in Nat : c = adding[b] /\ n = next[b]
    BY <2>2 DEF TypeInv, TypeOK, AdderTypeOK
  <2>3. IsFiniteSet(Missing(c)) /\ Missing(c)' \subseteq Missing(c)
    BY <1>0, MissingFacts
  <2>4. Skipped(c, n) \subseteq Missing(c) /\ Skipped(c, n)' \subseteq Skipped(c, n)
    BY <1>0 DEF Skipped
  <2>5. IsFiniteSet(Skipped(c, n))
    BY <2>3, <2>4, FS_Subset
  <2>6. Cardinality(Missing(c)) <= redisFaults => Cardinality(Missing(c)') <= redisFaults'
    BY <1>1, <2>3, OneMore
  <2>7. Cardinality(Skipped(c, n)) <= redisFaults => Cardinality(Skipped(c, n)') <= redisFaults'
    BY <1>1, <2>4, <2>5, OneMore
  <2>8. adding'[b] = c /\ next'[b] = n
    BY <1>1, <2>0, <2>1
  <2>9. Skipped(adding[b], next[b])' = Skipped(c, n)' /\ Missing(adding[b])' = Missing(c)'
    BY <2>8 DEF Skipped, Missing
  <2> QED
    BY <2>0, <2>1, <2>2, <2>6, <2>7, <2>8, <2>9 DEF Covered
<1>3. CASE b = a
  <2>0. PICK c \in Source, s \in Seq(Nat) : c = adding[a] /\ s = Shingles[c]
    BY AdderFrame, SourceAssumption
  <2>1. reply[a] # "added" /\ adding'[a] = c
    BY <1>1, <2>0, AdderMove
  <2>2. /\ IsFiniteSet(Missing(c)) /\ Missing(c)' \subseteq Missing(c)
        /\ Cardinality(Missing(c)) \in Nat
    BY <1>0, MissingFacts
  <2>3. Missing(adding[a])' = Missing(c)' /\ \A n : Skipped(adding[a], n)' = Skipped(c, n)'
    BY <2>0, <2>1 DEF Missing, Skipped
  <2>4. CASE Create(a)
    <3>1. CASE Throws(a) \/ Respond(a, "error")
      BY <1>3, <2>0, <2>1, <3>1
      DEF Throws, Respond, Creator, Creating, TypeInv, TypeOK, AdderTypeOK
    <3>2. CASE Goto(a, IF s = <<>> THEN "embed" ELSE "index", 0)
      <4>1. CASE s = <<>>
        <5>1. Windows(s) = {}
          <6>1. Starts(s) \subseteq Nat /\ \A i \in Starts(s) : i < Len(s)
            BY StartsFacts DEF Starts
          <6>2. Starts(s) = {}
            BY <4>1, <6>1
          <6> QED
            BY <6>2 DEF Windows
        <5>2. apc'[a] = "embed"
          BY <2>0, <3>2, <4>1 DEF Goto, TypeInv, TypeOK, AdderTypeOK
        <5>3. Missing(c)' = {} /\ Cardinality({}) = 0
          BY <2>0, <2>1, <5>1, FS_EmptySet DEF Missing
        <5> QED
          BY <1>3, <2>0, <2>1, <2>3, <5>2, <5>3 DEF Covered
      <4>2. CASE s # <<>>
        <5>1. apc'[a] = "index" /\ next'[a] = 0 /\ reply'[a] = reply[a]
          BY <2>0, <3>2, <4>2 DEF Goto, TypeInv, TypeOK, AdderTypeOK
        <5>2. 0 \in Starts(s) /\ \A i \in Starts(s) : ~(i < 0)
          BY <2>0, <2>1, <4>2, StartsFacts
        <5>3. Skipped(c, 0)' = {} /\ Cardinality({}) = 0
          BY <2>0, <2>1, <5>2, FS_EmptySet DEF Skipped
        <5>4. Skipped(adding[a], next[a])' = Skipped(c, 0)'
          BY <2>0, <2>1, <5>1 DEF Skipped, Missing
        <5>5. Cardinality(Skipped(adding[a], next[a])') <= redisFaults'
          <6>1. Cardinality(Skipped(adding[a], next[a])') = 0
            BY ONLY <5>3, <5>4
          <6> QED
            BY ONLY <6>1, redisFaults' \in Nat
        <5> QED
          BY <1>3, <2>0, <2>1, <5>1, <5>2, <5>5 DEF Covered
      <4> QED
        BY <4>1, <4>2
    <3> QED
      BY <2>0, <2>4, <3>1, <3>2 DEF Create
  <2>5. CASE Index(a)
    <3>0. PICK n \in Nat, w \in {Window(s, next[a])} : n = next[a] /\ w = Window(s, n)
      BY <2>0 DEF TypeInv, TypeOK, AdderTypeOK
    <3>1. n \in Starts(s) /\ Cardinality(Skipped(c, n)) <= redisFaults
      BY <2>0, <2>5, <3>0 DEF Index, AdderInv, Creator, Creating, Covered
    <3>2. Starts(s) \subseteq Nat /\ ChunkStride \in Nat
          /\ \A i, j \in Starts(s) : i < j => i + ChunkStride \in Starts(s) /\ i + ChunkStride <= j
      BY <2>0, <2>1, <3>0, StartsFacts, SourceAssumption
    <3>3. Skipped(c, n) \subseteq Missing(c)
      BY DEF Skipped
    <3>4. IsFiniteSet(Skipped(c, n))
      BY <2>0, <2>2, <3>0, <3>3, FS_Subset
    <3>5. \/ <<c, w>> \in bands' /\ redisFaults' = redisFaults
          \/ redisFaults' = redisFaults + 1
      BY <1>1, <2>0, <2>5, <3>0 DEF Index
    <3>6. ASSUME NEW T, \A v \in T : v \in Missing(c)' /\ v \in Missing(c)
                                     /\ \E i \in Starts(s) : i <= n /\ v = Window(s, i)
          PROVE  Cardinality(T) <= redisFaults'
      <4>1. ASSUME NEW v \in T, v # w PROVE v \in Skipped(c, n)
        <5>1. PICK i \in Starts(s) : i <= n /\ v = Window(s, i)
          BY <2>0, <3>0, <3>6
        <5>2. i < n
          BY <2>0, <3>0, <3>1, <3>2, <4>1, <5>1
        <5> QED
          BY <2>0, <2>1, <3>0, <3>6, <5>1, <5>2 DEF Skipped
      <4>2. <<c, w>> \in bands' => w \notin T
        BY <2>0, <3>0, <3>6 DEF Missing
      <4>3. \/ T \subseteq Skipped(c, n) /\ redisFaults <= redisFaults'
            \/ T \subseteq Skipped(c, n) \union {w} /\ redisFaults + 1 <= redisFaults'
        BY <1>1, <2>0, <3>0, <3>5, <4>1, <4>2
      <4> QED
        BY ONLY <1>1, <3>1, <3>4, <4>3, redisFaults' \in Nat, OneMore
    <3>7. CASE n + ChunkStride \in Starts(s)
      <4>1. apc'[a] = "index" /\ next'[a] = n + ChunkStride /\ reply'[a] = reply[a]
        BY <2>0, <2>5, <3>0, <3>7 DEF Index, Goto, TypeInv, TypeOK, AdderTypeOK
      <4>2. \A i \in Starts(s) : i < next'[a] => i <= n
        <5> SUFFICES ASSUME NEW i \in Starts(s), i < n + ChunkStride
                     PROVE  i <= n
          BY <2>0, <3>0, <4>1
        <5>1. ~(n < i)
          BY <2>0, <3>0, <3>1, <3>2
        <5> QED
          BY <2>0, <3>0, <3>1, <3>2, <5>1
      <4>3. \A v \in Skipped(c, next[a])' :
               /\ v \in Missing(c)' /\ v \in Missing(c)
               /\ \E i \in Starts(s) : i <= n /\ v = Window(s, i)
        BY <1>0, <2>0, <2>1, <3>0, <4>2 DEF Skipped
      <4>4. Cardinality(Skipped(c, next[a])') <= redisFaults'
        BY <2>0, <3>0, <3>6, <4>3
      <4> QED
        BY <1>3, <2>0, <2>1, <2>3, <3>0, <3>7, <4>1, <4>4 DEF Covered
    <3>8. CASE n + ChunkStride \notin Starts(s)
      <4>1. apc'[a] = "embed"
        BY <2>0, <2>5, <3>0, <3>8 DEF Index, Goto, TypeInv, TypeOK, AdderTypeOK
      <4>2. \A i \in Starts(s) : i <= n
        <5> SUFFICES ASSUME NEW i \in Starts(s) PROVE i <= n
          OBVIOUS
        <5> QED
          BY <2>0, <3>0, <3>1, <3>2, <3>8
      <4>3. \A v \in Missing(c)' :
               /\ v \in Missing(c)' /\ v \in Missing(c)
               /\ \E i \in Starts(s) : i <= n /\ v = Window(s, i)
        BY <1>0, <2>0, <2>1, <3>0, <4>2 DEF Missing, Windows
      <4>4. Cardinality(Missing(c)') <= redisFaults'
        BY <2>0, <3>0, <3>6, <4>3
      <4> QED
        BY <1>3, <2>0, <2>3, <3>0, <4>1, <4>4 DEF Covered
    <3> QED
      BY <3>7, <3>8
  <2>6. CASE Embed(a) \/ Clear(a) \/ Store(a)
    <3>1. Cardinality(Missing(c)) <= redisFaults
      BY <2>0, <2>6 DEF Embed, Clear, Store, AdderInv, Creator, Creating, Covered
    <3>2. apc'[a] # "index"
      BY <2>0, <2>6 DEF Embed, Clear, Store, Throws, Goto, Respond, TypeInv, TypeOK, AdderTypeOK
    <3>3. Cardinality(Missing(c)') <= redisFaults'
      BY <1>1, <2>0, <2>2, <3>1, OneMore
    <3> QED
      BY <1>3, <2>0, <2>3, <3>2, <3>3 DEF Covered
  <2>7. CASE Lookup(a)
    BY <1>3, <2>0, <2>1, <2>7
    DEF Lookup, Throws, Goto, Respond, Creator, Creating, TypeInv, TypeOK, AdderTypeOK
  <2> QED
    BY <2>4, <2>5, <2>6, <2>7 DEF AdderStep
<1> QED
  BY <1>2, <1>3

\* At first there is no creator.
LEMMA AdderInvInit == Init => AdderInv
BY SourceAssumption
DEF Init, AdderInv, RepliesAtTheEnd, OneCreator, SentencesOnce, Creator, Creating

\* Requests that race for one source, fail or die keep to what each of them
\* has stored.
LEMMA AdderInvStep == TypeInv /\ AdderInv /\ [Next]_vars => AdderInv'
<1> SUFFICES ASSUME TypeInv, AdderInv, [Next]_vars PROVE AdderInv'
  OBVIOUS
<1>0. redisFaults' \in Nat
  BY TypeStep DEF TypeOK
<1>1. ASSUME NEW a \in Adder, AdderStep(a) PROVE AdderInv'
  <2>1. RepliesAtTheEnd'
    <3>1. \A b \in Adder \ {a} : apc'[b] = apc[b] /\ reply'[b] = reply[b]
      BY <1>1, AdderFrame
    <3>2. reply'[a] = "added" => apc'[a] = "over"
      BY <1>1, AdderMove
    <3> QED
      BY <3>1, <3>2 DEF RepliesAtTheEnd, AdderInv
  <2>2. OneCreator'
    <3>1. \A b \in Adder \ {a} : Creator(b)' <=> Creator(b)
      BY <1>1, AdderFrame DEF Creator, Creating
    <3>2. Creator(a)' => Creator(a) \/ (adding[a] \notin rows /\ adding[a] \in rows')
      BY <1>1, AdderMove
    <3>3. adding' = adding /\ rows \subseteq rows'
      BY <1>1, AdderFrame
    <3> QED
      BY <3>1, <3>2, <3>3 DEF OneCreator, AdderInv
  <2> QED
    BY <1>0, <1>1, <2>1, <2>2, StoredStep, CoveredStep DEF AdderInv
<1>2. ASSUME NEW a \in Adder, NEW c \in Source, Receive(a, c) PROVE AdderInv'
  <2>1. reply[a] # "added" /\ ~Creating(a)
    BY <1>2 DEF Receive, AdderInv, RepliesAtTheEnd, Creating
  <2>2. /\ ~Creator(a)' /\ reply' = reply
        /\ \A b \in Adder \ {a} : apc'[b] = apc[b] /\ adding'[b] = adding[b]
        /\ UNCHANGED <<next, rows, bands, embedded, redisFaults>>
    BY <1>2, <2>1 DEF Receive, Creator, Creating, TypeInv, TypeOK, AdderTypeOK
  <2> QED
    BY <2>1, <2>2
    DEF AdderInv, RepliesAtTheEnd, OneCreator, SentencesOnce, Creator, Creating, Stored,
        Covered, Skipped, Missing
<1>3. CASE Crash
  <2>1. /\ UNCHANGED <<adding, next, reply, rows, bands, embedded, redisFaults>>
        /\ \A b \in Adder : ~Creating(b)' /\ (apc[b] = "over" => apc'[b] = "over")
    BY <1>3 DEF Crash, Creating, TypeInv, TypeOK, AdderTypeOK
  <2> QED
    BY <2>1
    DEF AdderInv, RepliesAtTheEnd, OneCreator, SentencesOnce, Creator, Creating, Stored,
        Covered, Skipped, Missing
<1>4. CASE (\E k \in Checker :
              Begin(k) \/ Verify(k) \/ Compare(k) \/ \E w \in AllWindows : Search(k, w))
           \/ UNCHANGED vars
  <2>1. UNCHANGED <<rows, bands, embedded, adderVars, redisFaults>>
    BY <1>4 DEF Begin, Verify, Compare, Search, vars
  <2> QED
    BY <2>1
    DEF adderVars, AdderInv, RepliesAtTheEnd, OneCreator, SentencesOnce, Creator, Creating,
        Stored, Covered, Skipped, Missing
<1> QED
  BY <1>1, <1>2, <1>3, <1>4 DEF Next

\* An upload answered as added can be found by both searches.
THEOREM AddedCanBeFound == Spec => []AddedIsSearchable
<1>1. TypeInv /\ AdderInv /\ [Next]_vars => TypeInv' /\ AdderInv'
  BY TypeStep, WindowStep, AdderInvStep DEF TypeInv
<1>2. AdderInv => AddedIsSearchable
  BY DEF AdderInv, AddedIsSearchable, OneCreator, Creator, Stored, Covered
<1> QED
  BY <1>1, <1>2, TypeInit, AdderInvInit, PTL DEF Spec

\* No race and no failure stores a sentence of the corpus twice.
THEOREM SentencesStoredOnce == Spec => []SentencesOnce
<1>1. TypeInv /\ AdderInv /\ [Next]_vars => TypeInv' /\ AdderInv'
  BY TypeStep, WindowStep, AdderInvStep DEF TypeInv
<1>2. AdderInv => SentencesOnce
  BY DEF AdderInv
<1> QED
  BY <1>1, <1>2, TypeInit, AdderInvInit, PTL DEF Spec

-----------------------------------------------------------------------------
(* What a check finds                                                      *)

Common(c)   == Windows(Shingles[c]) \intersect Windows(Text)
Answered(c) == \E a \in Adder : adding[a] = c /\ reply[a] = "added"

\* Every indexed window that an owed source has in common with the text is
\* still to be looked up, or has made it a candidate.
LooksUp(k) ==
    cpc[k] = "search" =>
        \A c \in owed[k] : \A w \in Common(c) :
            <<c, w>> \in bands => w \in todo[k] \/ c \in candidates[k]

Reports(k) ==
    cpc[k] \in {"compare", "over"} =>
        /\ Findable(k) \subseteq reported[k]
        /\ Cardinality(Copied(Findable(k))) <= matched[k]
        /\ matched[k] <= Cardinality(Copied(rows)) /\ matched[k] <= Len(Text)

\* The owed sentences before the i-th one of the text have been found.
FoundBefore(k, i) ==
    \A h \in 1..TextSentences :
        h < i /\ (\E c \in owed[k] : \E j \in 1..Sentences[c] : <<h, c, j>> \in Alike)
        => \E c \in Source : <<h, c>> \in retold[k]

Compares(k) ==
    /\ cpc[k] \in {"off", "search"} => sentence[k] = 1
    /\ cpc[k] = "compare" => sentence[k] \in 1..TextSentences /\ FoundBefore(k, sentence[k])
    /\ cpc[k] = "over" => FoundBefore(k, TextSentences + 1)

Owes(k) ==
    /\ \A c \in owed[k] : Answered(c)
    /\ LooksUp(k) /\ Reports(k) /\ Compares(k)

CheckerInv == \A k \in Checker : Owes(k)

\* At first nothing is owed and nothing is reported.
LEMMA CheckerInvInit == Init => CheckerInv
BY DEF Init, CheckerInv, Owes, LooksUp, Reports, Compares

\* A source that was answered as added keeps its row, all its sentences and
\* its windows, but for one for each command that Redis refused.
LEMMA AnsweredIsStored ==
    ASSUME TypeInv, AdderInv, NEW c, Answered(c)
    PROVE  /\ c \in Source /\ c \in rows /\ embedded[c] = Sentences[c]
           /\ Cardinality(Missing(c)) <= redisFaults
<1>1. PICK a \in Adder : adding[a] = c /\ reply[a] = "added"
  BY DEF Answered
<1>2. Creator(a)
  BY <1>1 DEF Creator
<1>3. c \in rows /\ Stored(a) /\ Covered(a)
  BY <1>1, <1>2 DEF AdderInv, OneCreator
<1> QED
  BY <1>1, <1>3 DEF Stored, Covered, TypeInv, TypeOK, StoreTypeOK

\* What the rest of the system may do to a check: rows are added and Redis
\* refuses commands, and nobody touches the index entries of a source that was
\* answered as added.
Undisturbed ==
    /\ rows \subseteq rows' /\ redisFaults <= redisFaults'
    /\ \A c : Answered(c) =>
          Answered(c)' /\ \A w : <<c, w>> \in bands' => <<c, w>> \in bands

\* No step disturbs a check.
LEMMA NobodyDisturbs == TypeInv /\ AdderInv /\ [Next]_vars => Undisturbed
<1> SUFFICES ASSUME TypeInv, AdderInv, [Next]_vars PROVE Undisturbed
  OBVIOUS
<1>0. redisFaults \in Nat
  BY DEF TypeInv, TypeOK
<1>1. ASSUME NEW a \in Adder, AdderStep(a) PROVE Undisturbed
  <2>1. /\ adding[a] \in Source /\ adding' = adding /\ rows \subseteq rows'
        /\ redisFaults <= redisFaults' /\ reply[a] # "added"
        /\ \A b \in Adder \ {a} : reply'[b] = reply[b]
    BY <1>1, AdderFrame, AdderMove
  <2>2. \A c : Answered(c) => Answered(c)'
    BY <2>1 DEF Answered
  <2>3. ASSUME NEW c, Answered(c), NEW w, <<c, w>> \in bands' PROVE <<c, w>> \in bands
    <3>1. PICK b \in Adder : adding[b] = c /\ reply[b] = "added"
      BY <2>3 DEF Answered
    <3>2. CASE Index(a)
      <4>1. Creator(a) /\ Creator(b) /\ a # b
        BY <2>1, <3>1, <3>2 DEF Index, Creator, Creating
      <4>2. adding[a] # c
        BY <3>1, <4>1 DEF AdderInv, OneCreator
      <4> QED
        BY <2>3, <3>2, <4>2 DEF Index
    <3>3. CASE bands' = bands
      BY <2>3, <3>3
    <3> QED
      BY <1>1, <3>2, <3>3 DEF AdderStep, Lookup, Create, Embed, Clear, Store
  <2> QED
    BY <2>1, <2>2, <2>3 DEF Undisturbed
<1>2. ASSUME NEW a \in Adder, NEW c \in Source, Receive(a, c) PROVE Undisturbed
  <2>1. reply[a] # "added"
    BY <1>2 DEF Receive, AdderInv, RepliesAtTheEnd
  <2>2. reply' = reply /\ \A b \in Adder \ {a} : adding'[b] = adding[b]
    BY <1>2 DEF Receive, TypeInv, TypeOK, AdderTypeOK
  <2>3. \A d : Answered(d) => Answered(d)'
    BY <2>1, <2>2 DEF Answered
  <2> QED
    BY <1>0, <1>2, <2>3 DEF Receive, Undisturbed
<1>3. CASE \/ \E k \in Checker :
                 Begin(k) \/ Verify(k) \/ Compare(k) \/ \E w \in AllWindows : Search(k, w)
           \/ Crash \/ UNCHANGED vars
  <2>1. UNCHANGED <<adding, reply, rows, bands, redisFaults>>
    BY <1>3 DEF Begin, Verify, Compare, Search, Crash, vars, adderVars
  <2> QED
    BY <1>0, <2>1 DEF Undisturbed, Answered
<1> QED
  BY <1>1, <1>2, <1>3 DEF Next

\* The sources a check must find become fewer as Redis refuses commands.
LEMMA FewerFindable ==
    ASSUME TypeInv, TypeOK', NEW k \in Checker, owed'[k] \subseteq owed[k],
           redisFaults <= redisFaults'
    PROVE  Findable(k)' \subseteq Findable(k)
<1> SUFFICES ASSUME NEW c \in owed'[k],
                    Cardinality(Windows(Shingles[c]) \intersect Windows(Text)) > redisFaults'
             PROVE  Cardinality(Windows(Shingles[c]) \intersect Windows(Text)) > redisFaults
  BY DEF Findable
<1> DEFINE n == Cardinality(Windows(Shingles[c]) \intersect Windows(Text))
<1>1. redisFaults \in Nat /\ redisFaults' \in Nat
  BY DEF TypeInv, TypeOK
<1>2. n \in Nat
  <2>1. c \in Source
    BY DEF TypeInv, TypeOK, CheckerTypeOK
  <2>2. Shingles[c] \in Seq(Nat)
    BY <2>1, SourceAssumption
  <2>3. IsFiniteSet(Windows(Shingles[c]))
    BY ONLY <2>2, WindowsAreFinite
  <2> QED
    BY ONLY <2>3, FS_Intersection, FS_CardinalityType
<1> HIDE DEF n
<1>3. n > redisFaults'
  BY DEF n
<1>4. n > redisFaults
  BY ONLY <1>1, <1>2, <1>3, redisFaults <= redisFaults'
<1> QED
  BY <1>4 DEF n

\* What is copied from fewer sources is not more.
LEMMA CopiedGrows ==
    ASSUME NEW S, NEW T \in SUBSET S
    PROVE  Cardinality(Copied(T)) <= Cardinality(Copied(S)) /\ Cardinality(Copied(T)) \in Nat
<1>1. Copied(T) \subseteq Copied(S)
  BY DEF Copied
<1> QED
  BY ONLY <1>1, CopiedAreFinite

\* What a check owes and has reported stays true while others work.
LEMMA OwesKept ==
    ASSUME TypeInv, TypeOK', Undisturbed, NEW k \in Checker, Owes(k),
           cpc'[k] = cpc[k], todo'[k] = todo[k], candidates'[k] = candidates[k],
           owed'[k] = owed[k], reported'[k] = reported[k], matched'[k] = matched[k],
           sentence'[k] = sentence[k], retold'[k] = retold[k]
    PROVE  Owes(k)'
<1>1. \A c \in owed'[k] : Answered(c)'
  BY DEF Undisturbed, Owes
<1>2. LooksUp(k)'
  BY DEF Undisturbed, Owes, LooksUp, Common
<1>3. Reports(k)'
  <2> SUFFICES ASSUME cpc[k] \in {"compare", "over"} PROVE Reports(k)'
    BY DEF Reports
  <2>1. Findable(k)' \in SUBSET Findable(k) /\ rows \in SUBSET rows'
    BY FewerFindable DEF Undisturbed
  <2>2. /\ Findable(k) \subseteq reported[k]
        /\ Cardinality(Copied(Findable(k))) <= matched[k]
        /\ matched[k] <= Cardinality(Copied(rows)) /\ matched[k] <= Len(Text)
    BY DEF Owes, Reports
  <2>3. matched[k] \in Nat
    BY DEF TypeInv, TypeOK, CheckerTypeOK
  <2> DEFINE F == Copied(Findable(k))
             G == Copied(Findable(k)')
             R == Copied(rows)
             Q == Copied(rows')
  <2>4. /\ Cardinality(G) <= Cardinality(F) /\ Cardinality(G) \in Nat /\ Cardinality(F) \in Nat
        /\ Cardinality(R) <= Cardinality(Q) /\ Cardinality(R) \in Nat /\ Cardinality(Q) \in Nat
    BY ONLY <2>1, CopiedGrows, CopiedAreFinite
  <2>5. Copied(Findable(k))' = G /\ Copied(rows)' = Q
    BY DEF Copied
  <2> HIDE DEF F, G, R, Q
  <2>6. Cardinality(F) <= matched[k] /\ matched[k] <= Cardinality(R)
    BY <2>2 DEF F, R
  <2>7. Cardinality(G) <= matched[k] /\ matched[k] <= Cardinality(Q)
    BY ONLY <2>3, <2>4, <2>6
  <2> QED
    BY <2>1, <2>2, <2>5, <2>7 DEF Reports
<1>4. Compares(k)'
  BY DEF Owes, Compares, FoundBefore
<1> QED
  BY <1>1, <1>2, <1>3, <1>4 DEF Owes

\* A source with a window in common with the text shares a shingle with it.
LEMMA CommonIsShared ==
    ASSUME NEW c \in Source, Common(c) # {}
    PROVE  \E j \in DOMAIN Shingles[c] : Shingles[c][j] \in Hashes(Text)
<1>1. PICK w \in Windows(Shingles[c]) : w \in Windows(Text)
  BY DEF Common
<1>2. Shingles[c] \in Seq(Nat) /\ Text \in Seq(Nat)
  BY SourceAssumption
<1>3. w # {} /\ w \subseteq Hashes(Shingles[c]) /\ w \subseteq Hashes(Text)
  BY <1>1, <1>2, WindowFacts
<1> QED
  BY <1>3, Zenon DEF Hashes

\* When every window has been looked up, a findable source is a stored
\* candidate: Redis refused too few commands to hide all its common windows.
LEMMA FindableIsCandidate ==
    ASSUME TypeInv, AdderInv, NEW k \in Checker, Owes(k), cpc[k] = "search", todo[k] = {},
           NEW c \in Findable(k)
    PROVE  c \in candidates[k] /\ c \in rows /\ c \in Source /\ Common(c) # {}
<1>1. c \in owed[k] /\ Cardinality(Common(c)) > redisFaults
  BY DEF Findable, Common
<1>2. /\ c \in Source /\ c \in rows /\ Cardinality(Missing(c)) <= redisFaults
      /\ redisFaults \in Nat
  BY <1>1, AnsweredIsStored DEF Owes, TypeInv, TypeOK
<1>3. IsFiniteSet(Missing(c)) /\ Cardinality(Missing(c)) \in Nat
  BY <1>2, MissingFacts
<1>4. ~(Common(c) \subseteq Missing(c))
  <2> SUFFICES ASSUME Common(c) \subseteq Missing(c) PROVE FALSE
    OBVIOUS
  <2>1. Cardinality(Common(c)) <= Cardinality(Missing(c)) /\ Cardinality(Common(c)) \in Nat
    BY ONLY <1>3, Common(c) \subseteq Missing(c), FS_Subset, FS_CardinalityType
  <2> QED
    BY ONLY <1>1, <1>2, <1>3, <2>1
<1>5. PICK w \in Common(c) : <<c, w>> \in bands
  BY <1>4 DEF Missing, Common
<1>6. c \in candidates[k]
  BY <1>1, <1>5 DEF Owes, LooksUp
<1> QED
  BY <1>2, <1>5, <1>6

\* Requests only add to what a check can find; a check looks every window of
\* its text up before it reports, and asks about every sentence.
LEMMA CheckerInvStep == TypeInv /\ AdderInv /\ CheckerInv /\ [Next]_vars => CheckerInv'
<1> SUFFICES ASSUME TypeInv, AdderInv, CheckerInv, [Next]_vars PROVE CheckerInv'
  OBVIOUS
<1>1. TypeOK' /\ Undisturbed
  BY TypeStep, NobodyDisturbs
<1>2. CASE (\E a \in Adder : AdderStep(a) \/ \E c \in Source : Receive(a, c))
           \/ Crash \/ UNCHANGED vars
  <2>1. UNCHANGED checkerVars
    BY <1>2, AdderFrame DEF Receive, Crash, vars
  <2> QED
    BY <1>1, <2>1, OwesKept DEF checkerVars, reportVars, CheckerInv
<1>3. ASSUME NEW k \in Checker, Begin(k) PROVE CheckerInv'
  <2>1. /\ UNCHANGED <<candidates, reportVars, adding, reply>>
        /\ cpc[k] = "off" /\ cpc'[k] = "search" /\ todo'[k] = Windows(Text)
        /\ owed'[k] = {c \in Source : Answered(c)}
        /\ \A j \in Checker \ {k} : UNCHANGED <<cpc[j], todo[j], owed[j]>>
    BY <1>3 DEF Begin, Answered, adderVars, TypeInv, TypeOK, CheckerTypeOK
  <2>2. \A c \in owed'[k] : Answered(c)'
    BY <2>1 DEF Answered
  <2>3. LooksUp(k)' /\ Reports(k)' /\ Compares(k)'
    BY <2>1 DEF LooksUp, Common, Reports, Compares, reportVars, CheckerInv, Owes
  <2>4. \A j \in Checker \ {k} : Owes(j)'
    BY <1>1, <2>1, OwesKept DEF CheckerInv, reportVars
  <2> QED
    BY <2>2, <2>3, <2>4 DEF CheckerInv, Owes
<1>4. ASSUME NEW k \in Checker, NEW w \in AllWindows, Search(k, w) PROVE CheckerInv'
  <2>1. /\ UNCHANGED <<bands, owed, cpc, reportVars>>
        /\ cpc[k] = "search" /\ todo'[k] = todo[k] \ {w}
        /\ candidates'[k] = candidates[k] \union
              {c \in Source : \E v \in AllWindows : <<c, v>> \in bands /\ <<v, w>> \in Similar}
        /\ \A j \in Checker \ {k} : UNCHANGED <<todo[j], candidates[j]>>
    BY <1>4 DEF Search, TypeInv, TypeOK, CheckerTypeOK
  <2>2. ASSUME NEW c \in owed[k], NEW v \in Common(c), <<c, v>> \in bands
        PROVE  v \in todo'[k] \/ c \in candidates'[k]
    <3>1. v \in todo[k] \/ c \in candidates[k]
      BY <2>1, <2>2 DEF CheckerInv, Owes, LooksUp
    <3>2. c \in Source /\ <<w, w>> \in Similar
      BY SimilarAssumption DEF TypeInv, TypeOK, CheckerTypeOK
    <3> QED
      BY <2>1, <2>2, <3>1, <3>2
  <2>3. LooksUp(k)'
    BY <2>1, <2>2 DEF LooksUp, Common
  <2>4. Reports(k)' /\ Compares(k)'
    BY <2>1 DEF Reports, Compares, reportVars, CheckerInv, Owes
  <2>5. \A c \in owed'[k] : Answered(c)'
    BY <1>1, <2>1 DEF Undisturbed, CheckerInv, Owes
  <2>6. \A j \in Checker \ {k} : Owes(j)'
    BY <1>1, <2>1, OwesKept DEF CheckerInv, reportVars
  <2> QED
    BY <2>3, <2>4, <2>5, <2>6 DEF CheckerInv, Owes
<1>5. ASSUME NEW k \in Checker, Verify(k) PROVE CheckerInv'
  <2>1. /\ UNCHANGED <<rows, redisFaults, owed, todo, candidates, sentence, retold>>
        /\ cpc[k] = "search" /\ todo[k] = {}
        /\ cpc'[k] = IF TextSentences = 0 THEN "over" ELSE "compare"
        /\ reported'[k] = {m[1] : m \in Matches(k)} /\ matched'[k] = MatchedShingles(k)
        /\ \A j \in Checker \ {k} : UNCHANGED <<cpc[j], reported[j], matched[j]>>
    BY <1>5 DEF Verify, TypeInv, TypeOK, CheckerTypeOK
  <2>2. Findable(k)' = Findable(k)
    BY <2>1 DEF Findable
  <2>3. ASSUME NEW c \in Findable(k) PROVE c \in reported'[k] /\ c \in candidates[k] \intersect rows
    <3>1. c \in candidates[k] /\ c \in rows /\ c \in Source /\ Common(c) # {}
      BY <2>1, <2>3, FindableIsCandidate DEF CheckerInv
    <3>2. PICK j \in DOMAIN Shingles[c] : Shingles[c][j] \in Hashes(Text)
      BY <3>1, CommonIsShared
    <3> DEFINE m == <<c, j>>
    <3>3. m[1] = c /\ m[2] = j /\ m \in {c} \X DOMAIN Shingles[c]
      OBVIOUS
    <3>4. m \in Matches(k)
      BY <3>1, <3>2, <3>3 DEF Matches
    <3> HIDE DEF m
    <3> QED
      BY <2>1, <3>1, <3>3, <3>4
  <2>4. /\ Cardinality(Copied(Findable(k))) <= matched'[k]
        /\ matched'[k] <= Cardinality(Copied(rows)) /\ matched'[k] <= Len(Text)
    <3>1. Findable(k) \in SUBSET (candidates[k] \intersect rows)
      BY <2>3
    <3> QED
      BY <2>1, <3>1, MatchedBetween DEF TypeInv, TypeOK
  <2>5. Copied(Findable(k))' = Copied(Findable(k)) /\ Copied(rows)' = Copied(rows)
    BY <2>1, <2>2 DEF Copied
  <2>6. Reports(k)'
    BY <2>2, <2>3, <2>4, <2>5 DEF Reports
  <2>7. LooksUp(k)'
    BY <2>1 DEF LooksUp
  <2>8. Compares(k)'
    <3>1. sentence'[k] = 1 /\ TextSentences \in Nat
      BY <2>1, SourceAssumption DEF CheckerInv, Owes, Compares
    <3>2. cpc'[k] = "compare" => 1 \in 1..TextSentences
      BY <2>1, <3>1
    <3>3. \A h \in 1..TextSentences : ~(h < 1)
      BY <3>1
    <3>4. cpc'[k] = "over" => ~\E h \in 1..TextSentences : TRUE
      BY <2>1
    <3>5. cpc'[k] \notin {"off", "search"}
      BY <2>1
    <3> QED
      BY <3>1, <3>2, <3>3, <3>4, <3>5 DEF Compares, FoundBefore
  <2>9. \A c \in owed'[k] : Answered(c)'
    BY <1>1, <2>1 DEF Undisturbed, CheckerInv, Owes
  <2>10. \A j \in Checker \ {k} : Owes(j)'
    BY <1>1, <2>1, OwesKept DEF CheckerInv
  <2> QED
    BY <2>6, <2>7, <2>8, <2>9, <2>10 DEF CheckerInv, Owes
<1>6. ASSUME NEW k \in Checker, Compare(k) PROVE CheckerInv'
  <2>0. PICK i \in Nat : i = sentence[k]
    BY DEF TypeInv, TypeOK, CheckerTypeOK
  <2>1. /\ UNCHANGED <<rows, redisFaults, owed, todo, candidates, reported, matched>>
        /\ cpc[k] = "compare" /\ sentence'[k] = i + 1
        /\ cpc'[k] = IF i = TextSentences THEN "over" ELSE "compare"
        /\ \A j \in Checker \ {k} : UNCHANGED <<cpc[j], sentence[j]>>
    BY <1>6, <2>0 DEF Compare, TypeInv, TypeOK, CheckerTypeOK
  <2>2. /\ retold[k] \subseteq retold'[k]
        /\ \A j \in Checker \ {k} : retold'[j] = retold[j]
        /\ Nearest(i) # {} => \E c \in Source : <<i, c>> \in retold'[k]
    <3>1. retold \in [Checker -> SUBSET (Nat \X Source)] /\ Nearest(i) \subseteq Source
      BY DEF Nearest, TypeInv, TypeOK, StoreTypeOK, CheckerTypeOK
    <3>2. CASE Nearest(i) = {}
      BY <1>6, <2>0, <3>2 DEF Compare
    <3>3. ASSUME NEW c \in Nearest(i), retold' = [retold EXCEPT ![k] = @ \union {<<i, c>>}]
          PROVE  /\ retold[k] \subseteq retold'[k] /\ \E d \in Source : <<i, d>> \in retold'[k]
                 /\ \A j \in Checker \ {k} : retold'[j] = retold[j]
      <4>1. retold'[k] = retold[k] \union {<<i, c>>}
        BY <3>1, <3>3
      <4>2. <<i, c>> \in retold'[k] /\ c \in Source
        BY <3>1, <4>1
      <4> QED
        BY <3>1, <3>3, <4>1, <4>2
    <3> QED
      BY <1>6, <2>0, <3>2, <3>3 DEF Compare
  <2>3. i \in 1..TextSentences /\ FoundBefore(k, i) /\ TextSentences \in Nat
    BY <2>0, <2>1, SourceAssumption DEF CheckerInv, Owes, Compares
  <2>4. ASSUME NEW c \in owed[k], NEW j \in 1..Sentences[c], <<i, c, j>> \in Alike
        PROVE  \E d \in Source : <<i, d>> \in retold'[k]
    <3>1. c \in rows /\ embedded[c] = Sentences[c]
      BY <2>4, AnsweredIsStored DEF CheckerInv, Owes
    <3>2. c \in Nearest(i)
      BY <2>4, <3>1 DEF Nearest
    <3> QED
      BY <2>2, <3>2
  <2>5. FoundBefore(k, i + 1)'
    <3> SUFFICES ASSUME NEW h \in 1..TextSentences, h < i + 1,
                        NEW c \in owed[k], NEW j \in 1..Sentences[c], <<h, c, j>> \in Alike
                 PROVE  \E d \in Source : <<h, d>> \in retold'[k]
      BY <2>1 DEF FoundBefore
    <3>1. h < i \/ h = i
      BY <2>3
    <3>2. h < i => \E d \in Source : <<h, d>> \in retold[k]
      BY <2>3 DEF FoundBefore
    <3> QED
      BY <2>2, <2>4, <3>1, <3>2
  <2>6. Compares(k)'
    <3>1. i # TextSentences => i + 1 \in 1..TextSentences
      BY <2>3
    <3>2. i = TextSentences => FoundBefore(k, TextSentences + 1)'
      BY <2>5
    <3> QED
      BY <2>1, <2>5, <3>1, <3>2 DEF Compares, FoundBefore
  <2>7. Findable(k)' = Findable(k)
    BY <2>1 DEF Findable
  <2>8. Reports(k)'
    BY <2>1, <2>7 DEF Reports, Copied, CheckerInv, Owes
  <2>9. LooksUp(k)' /\ \A c \in owed'[k] : Answered(c)'
    BY <1>1, <2>1 DEF LooksUp, Undisturbed, CheckerInv, Owes
  <2>10. \A j \in Checker \ {k} : Owes(j)'
    BY <1>1, <2>1, <2>2, OwesKept DEF CheckerInv
  <2> QED
    BY <2>6, <2>8, <2>9, <2>10 DEF CheckerInv, Owes
<1> QED
  BY <1>2, <1>3, <1>4, <1>5, <1>6 DEF Next

\* The three invariants of the corpus hold together in every state.
LEMMA CorpusInv == Spec => [](TypeInv /\ AdderInv /\ CheckerInv)
<1>1. TypeInv /\ AdderInv /\ CheckerInv /\ [Next]_vars => (TypeInv /\ AdderInv /\ CheckerInv)'
  BY TypeStep, WindowStep, AdderInvStep, CheckerInvStep DEF TypeInv
<1> QED
  BY <1>1, TypeInit, AdderInvInit, CheckerInvInit, PTL DEF Spec

\* A check reports every source that was added before it began and of which
\* the text repeats more windows than Redis refused to index.
THEOREM CopiesAreFound == Spec => []CopyIsFound
<1>1. CheckerInv => CopyIsFound
  BY DEF CheckerInv, Owes, Reports, CopyIsFound
<1> QED
  BY <1>1, CorpusInv, PTL

\* The reported share is that of a corpus between the one the check began with
\* and the one it ended with, and never more than the whole text.
THEOREM SharesAreOfTheCorpus == Spec => []ShareIsOfTheCorpus
<1>1. CheckerInv => ShareIsOfTheCorpus
  BY DEF CheckerInv, Owes, Reports, ShareIsOfTheCorpus
<1> QED
  BY <1>1, CorpusInv, PTL

\* A retold sentence of a source that was added before the check began is
\* counted, whatever other requests do to the stored sentences meanwhile.
THEOREM ParaphrasesAreFound == Spec => []ParaphraseIsFound
<1>1. ASSUME CheckerInv PROVE ParaphraseIsFound
  <2>1. \A h \in 1..TextSentences : h < TextSentences + 1
    BY SourceAssumption
  <2> QED
    BY <1>1, <2>1 DEF CheckerInv, Owes, Compares, FoundBefore, ParaphraseIsFound
<1> QED
  BY <1>1, CorpusInv, PTL
=============================================================================

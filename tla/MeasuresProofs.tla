--------------------------- MODULE MeasuresProofs ---------------------------
(***************************************************************************)
(* Every property of the measures, for texts of any length over any        *)
(* alphabet and for every value of the other constants.                    *)
(***************************************************************************)
EXTENDS Measures, SumProofs, SequenceTheorems

Kind == {"rare", "found"}

\* What the subject is at every moment.
Shape ==
    /\ subject \in {"letters", "quotes", "blocks", "sentences", "sample"}
    /\ subject = "letters" => input \in Seq(Letters)
    /\ subject = "quotes" => input \in Seq(Quotes)
    /\ subject = "blocks" => input \in Seq([language : Language, words : BlockSize])
    /\ subject = "sentences" => input \in Seq(Seq(Word))
    /\ subject = "sample" => input \in [shingles : Seq(Kind), count : 0..MaxSample]

\* A text keeps its shape as it grows.
LEMMA ShapeStep == Shape /\ [Next]_vars => Shape'
<1> SUFFICES ASSUME Shape, [Next]_vars PROVE Shape'
  OBVIOUS
<1>1. ASSUME NEW c \in Letters \union Quotes, Type(c) PROVE Shape'
  BY <1>1 DEF Type, Shape
<1>2. ASSUME NEW l \in Language, NEW n \in BlockSize, AddBlock(l, n) PROVE Shape'
  BY <1>2 DEF AddBlock, Shape
<1>3. ASSUME NEW w \in Word, NewSentence(w) PROVE Shape'
  <2>1. <<w>> \in Seq(Word)
    OBVIOUS
  <2> QED
    BY <1>3, <2>1 DEF NewSentence, Shape
<1>4. ASSUME NEW w \in Word, AddWord(w) PROVE Shape'
  <2>1. /\ input \in Seq(Seq(Word)) /\ Len(input) \in 1..Len(input)
    BY <1>4, EmptySeq DEF AddWord, Shape
  <2>2. Append(input[Len(input)], w) \in Seq(Word)
    BY <2>1, ElementOfSeq
  <2>3. [input EXCEPT ![Len(input)] = Append(@, w)] \in Seq(Seq(Word))
    BY <2>1, <2>2, ExceptSeq
  <2> QED
    BY <1>4, <2>3 DEF AddWord, Shape
<1>5. ASSUME NEW kind \in {"rare", "found"}, AddShingle(kind) PROVE Shape'
  <2>1. Append(input.shingles, kind) \in Seq(Kind)
    BY <1>5 DEF AddShingle, Shape, Kind
  <2> QED
    BY <1>5, <2>1 DEF AddShingle, Shape
<1>6. ASSUME NEW count \in 0..MaxSample, Configure(count) PROVE Shape'
  BY <1>6 DEF Configure, Shape
<1>7. CASE UNCHANGED vars
  BY <1>7 DEF vars, Shape
<1> QED
  BY <1>1, <1>2, <1>3, <1>4, <1>5, <1>6, <1>7 DEF Next

\* Whatever grows has the shape of its kind (the inputs of the measures).
THEOREM ShapeHolds == Spec => []Shape
<1>1. Init => Shape
  <2> SUFFICES ASSUME Init PROVE Shape
    OBVIOUS
  <2>1. subject \in {"letters", "quotes", "blocks", "sentences", "sample"}
    BY DEF Init, Empty
  <2>2. subject \in {"letters", "quotes", "blocks", "sentences"} => input = <<>>
    BY DEF Init, Empty
  <2>3. subject = "sample" => input = [shingles |-> <<>>, count |-> 0]
    BY DEF Init, Empty
  <2>4. [shingles |-> <<>>, count |-> 0] \in [shingles : Seq(Kind), count : 0..MaxSample]
    BY MeasureAssumption
  <2>5. /\ <<>> \in Seq(Letters) /\ <<>> \in Seq(Quotes) /\ <<>> \in Seq(Seq(Word))
        /\ <<>> \in Seq([language : Language, words : BlockSize])
    OBVIOUS
  <2> QED
    BY <2>1, <2>2, <2>3, <2>4, <2>5 DEF Shape
<1> QED
  BY <1>1, ShapeStep, PTL DEF Spec

-----------------------------------------------------------------------------
(* Disguised letters                                                        *)

\* What disguising the letters at S does to the characters of a text: a letter
\* of the own alphabet becomes the twin of the other, all else stays.
LEMMA DisguisedCharacters ==
    ASSUME NEW t, NEW S \in SUBSET Where(t, Twins \intersect Native(t))
    PROVE  /\ DOMAIN Disguised(t, S) = DOMAIN t
           /\ \A i \in DOMAIN t \ S : Disguised(t, S)[i] = t[i]
           /\ \A i \in S : /\ i \in DOMAIN t /\ t[i] \in Native(t)
                           /\ Disguised(t, S)[i] \in Twins \ Native(t)
<1>1. DOMAIN Disguised(t, S) = DOMAIN t /\ \A i \in DOMAIN t \ S : Disguised(t, S)[i] = t[i]
  BY DEF Disguised
<1>2. ASSUME NEW i \in S
      PROVE  /\ i \in DOMAIN t /\ t[i] \in Native(t)
             /\ Disguised(t, S)[i] \in Twins \ Native(t)
  <2>1. i \in DOMAIN t /\ t[i] \in Twins /\ t[i] \in Native(t)
    BY DEF Where
  <2>2. \E c \in Twins : c # t[i]
    BY <2>1 DEF Twins
  <2>3. Disguised(t, S)[i] \in Twins /\ Disguised(t, S)[i] # t[i]
    BY <2>1, <2>2 DEF Disguised
  <2> QED
    BY <2>1, <2>3 DEF Twins, Native, Cyrillic, Latin
<1> QED
  BY <1>1, <1>2

\* The two alphabets of a text: its own, and the other.
LEMMA Alphabets ==
    ASSUME NEW t
    PROVE  \E Other \in {Cyrillic, Latin} :
               /\ Native(t) \in {Cyrillic, Latin}
               /\ Native(t) \intersect Other = {}
               /\ Native(t) \union Other = Cyrillic \union Latin
               /\ Twins \ Native(t) \subseteq Other
               /\ Twins \subseteq Cyrillic \union Latin
               /\ "hidden" \notin Cyrillic \union Latin
BY DEF Native, Twins, Cyrillic, Latin

\* A disguise moves no border of a word.
LEMMA WordsStay ==
    ASSUME NEW t, NEW S \in SUBSET Where(t, Twins \intersect Native(t)), NEW i
    PROVE  WordAround(Disguised(t, S), i) = WordAround(t, i)
<1>1. \A k \in DOMAIN t : t[k] \in Cyrillic \union Latin
                            <=> Disguised(t, S)[k] \in Cyrillic \union Latin
  BY DisguisedCharacters, Alphabets
<1>2. DOMAIN Disguised(t, S) = DOMAIN t
  BY DisguisedCharacters
<1> QED
  BY <1>1, <1>2 DEF WordAround

\* What is reported as a substitution is what was disguised, and nothing else.
LEMMA HomoglyphsAreTheDisguise ==
    ASSUME NEW t, Honest(t), NEW S \in SUBSET Where(t, Twins \intersect Native(t)),
           Native(Disguised(t, S)) = Native(t),
           \A i \in S : ~(WordAround(t, i) \subseteq S)
    PROVE  Homoglyphs(Disguised(t, S)) = S
<1> DEFINE d == Disguised(t, S)
<1>1. PICK Other \in {Cyrillic, Latin} :
          /\ Native(t) \in {Cyrillic, Latin}
          /\ Native(t) \intersect Other = {}
          /\ Native(t) \union Other = Cyrillic \union Latin
          /\ Twins \ Native(t) \subseteq Other
  BY Alphabets
<1>2. /\ DOMAIN d = DOMAIN t
      /\ \A i \in DOMAIN t \ S : d[i] = t[i]
      /\ \A i \in S : i \in DOMAIN t /\ t[i] \in Native(t) /\ d[i] \in Twins \ Native(t)
  BY DisguisedCharacters
<1>3. \A i : WordAround(d, i) = WordAround(t, i) /\ WordAround(t, i) \subseteq DOMAIN t
  BY WordsStay DEF WordAround
<1>4. \A i \in DOMAIN t, A \in {Cyrillic, Latin} :
          t[i] \in A => \A j \in WordAround(t, i) : t[j] \in A
  BY DEF Honest, Where
<1> HIDE DEF d
<1>5. ASSUME NEW i \in S
      PROVE  i \in Homoglyphs(d)
  <2>1. PICK j \in WordAround(t, i) : j \notin S
    OBVIOUS
  <2>2. t[j] \in Native(t) /\ j \in DOMAIN t
    BY <1>1, <1>2, <1>3, <1>4
  <2> QED
    BY <1>2, <1>3, <2>1, <2>2 DEF Homoglyphs, Where, d
<1>6. ASSUME NEW i \in Homoglyphs(d), i \notin S
      PROVE  FALSE
  <2>1. i \in DOMAIN t /\ t[i] \in Other
    BY <1>1, <1>2, <1>6 DEF Homoglyphs, Where, d
  <2>2. PICK j \in WordAround(t, i) : d[j] \in Native(t)
    BY <1>3 DEF Homoglyphs, d
  <2>3. t[j] \in Native(t)
    BY <1>2, <1>3, <2>2
  <2> QED
    BY <1>1, <1>4, <2>1, <2>2, <2>3
<1> QED
  BY <1>5, <1>6 DEF d

\* Exactly the disguised letters and the hidden characters are reported, in
\* texts of any length (TamperingService.scan).
THEOREM TwinsAreReported == Spec => []TwinsAreFound
<1>1. ASSUME Shape PROVE TwinsAreFound
  <2> SUFFICES ASSUME subject = "letters", Honest(input),
                      NEW S \in SUBSET Where(input, Twins \intersect Native(input)),
                      NEW file \in File, Native(Disguised(input, S)) = Native(input),
                      \A i \in S : ~(WordAround(input, i) \subseteq S)
               PROVE  {f \in Scan(Disguised(input, S), file) : f[2] # 0} =
                          ({"HOMOGLYPH"} \X S)
                            \union ({"ZERO_WIDTH"} \X Where(input, {"hidden"}))
    BY Zenon DEF TwinsAreFound
  <2> DEFINE d == Disguised(input, S)
             H == Where(input, {"hidden"})
             markup == IF file.format = "docx" /\ file.opens THEN ScanDocx(file.markup) ELSE {}
  <2>1. Homoglyphs(d) = S
    BY HomoglyphsAreTheDisguise
  <2>2. InvisibleChars(d) = H
    <3>1. DOMAIN d = DOMAIN input /\ \A i \in DOMAIN input \ S : d[i] = input[i]
      BY DisguisedCharacters
    <3>2. \A i \in S : i \in DOMAIN input /\ input[i] \in Twins /\ d[i] \in Twins
      BY DisguisedCharacters DEF Where
    <3>3. "hidden" \notin Twins
      BY DEF Twins
    <3> HIDE DEF d
    <3> QED
      BY <3>1, <3>2, <3>3 DEF InvisibleChars, Where
  <2>3. DOMAIN input = 1..Len(input)
    BY <1>1 DEF Shape
  <2>4. 0 \notin S /\ 0 \notin H
    BY <2>3 DEF Where
  <2>5. \A f \in markup : f[2] = 0
    BY DEF ScanDocx
  <2>6. Scan(d, file) = ({"HOMOGLYPH"} \X S) \union ({"ZERO_WIDTH"} \X H) \union markup
    BY <2>1, <2>2 DEF Scan
  <2> HIDE DEF d, H, markup
  <2>7. \A f \in ({"HOMOGLYPH"} \X S) \union ({"ZERO_WIDTH"} \X H) : f[2] # 0
    BY <2>4
  <2> QED
    BY <2>5, <2>6, <2>7 DEF d, H
<1> QED
  BY <1>1, ShapeHolds, PTL

-----------------------------------------------------------------------------
(* Languages                                                                *)

Block == [language : Language, words : BlockSize]

\* A block has a language and words.
LEMMA BlockOfText ==
    ASSUME NEW bs \in Seq(Block)
    PROVE  /\ DOMAIN bs = 1..Len(bs) /\ Len(bs) \in Nat /\ IsFiniteSet(DOMAIN bs)
           /\ \A i \in DOMAIN bs : bs[i].words \in Nat \ {0}
<1>1. DOMAIN bs = 1..Len(bs) /\ Len(bs) \in Nat
  OBVIOUS
<1>2. BlockSize \subseteq Nat \ {0}
  BY MeasureAssumption
<1>3. \A i \in DOMAIN bs : bs[i] \in Block
  BY <1>1
<1>4. \A i \in DOMAIN bs : bs[i].words \in Nat \ {0}
  BY <1>2, <1>3 DEF Block
<1> QED
  BY <1>1, <1>4, FS_Interval

\* The language of a block has a first block, and only that language.
LEMMA FirstBlockIsFirst ==
    ASSUME NEW bs \in Seq(Block), NEW l \in LanguagesOf(bs)
    PROVE  FirstBlock(bs, l) \in 1..Len(bs) /\ bs[FirstBlock(bs, l)].language = l
<1> DEFINE T == {i \in 1..Len(bs) : bs[i].language = l}
<1>1. DOMAIN bs = 1..Len(bs) /\ T \subseteq Nat /\ T # {}
  BY DEF LanguagesOf
<1>2. PICK i \in T : \A j \in T : i <= j
  <2> HIDE DEF T
  <2> QED
    BY <1>1, LeastNumber
<1>3. \A j \in 1..i-1 : bs[j].language # l
  BY <1>2
<1> QED
  BY <1>1, <1>2, <1>3 DEF FirstBlock

\* The words of a language are those of its blocks, at most all words.
LEMMA WordsOfLanguage ==
    ASSUME NEW bs \in Seq(Block), NEW l
    PROVE  /\ WordsIn(bs, l) \in Nat /\ AllWords(bs) \in Nat
           /\ WordsIn(bs, l) <= AllWords(bs)
           /\ WordsIn(bs, l) =
                Total([i \in DOMAIN bs |-> IF bs[i].language = l THEN bs[i].words ELSE 0],
                      DOMAIN bs)
<1> DEFINE D == DOMAIN bs
           A == {i \in D : bs[i].language = l}
           B == {i \in D : bs[i].language # l}
           f == [i \in D |-> bs[i].words]
           g == [i \in D |-> IF bs[i].language = l THEN bs[i].words ELSE 0]
<1>1. /\ IsFiniteSet(D) /\ A \in SUBSET D /\ B \in SUBSET D
      /\ A \union B = D /\ A \intersect B = {}
  BY BlockOfText
<1>2. IsFiniteSet(A) /\ IsFiniteSet(B)
  BY <1>1, FS_Subset
<1>3. \A i \in D : f[i] \in Nat
  BY BlockOfText
<1>4. /\ \A i \in A : g[i] = f[i] /\ g[i] \in Nat
      /\ \A i \in B : g[i] = 0
  BY <1>3
<1> HIDE DEF D, A, B, f, g
<1>5. \A i \in D : g[i] \in Nat
  BY <1>1, <1>4
<1>6. SumFunctionOnSet(f, A) \in Nat /\ SumFunctionOnSet(f, B) \in Nat
  BY <1>1, <1>2, <1>3, SumIsNat
<1>7. SumFunctionOnSet(f, D) = SumFunctionOnSet(f, A) + SumFunctionOnSet(f, B)
  <2>1. \A i \in A \union B : f[i] \in Int
    BY <1>1, <1>3
  <2>2. SumFunctionOnSet(f, A \union B) = SumFunctionOnSet(f, A) + SumFunctionOnSet(f, B)
    BY <1>1, <1>2, <2>1, SumOfParts
  <2> QED
    BY <1>1, <2>2
<1>8. SumFunctionOnSet(g, D) = SumFunctionOnSet(g, A) + SumFunctionOnSet(g, B)
  <2>1. \A i \in A \union B : g[i] \in Int
    BY <1>1, <1>5
  <2>2. SumFunctionOnSet(g, A \union B) = SumFunctionOnSet(g, A) + SumFunctionOnSet(g, B)
    BY <1>1, <1>2, <2>1, SumOfParts
  <2> QED
    BY <1>1, <2>2
<1>9. SumFunctionOnSet(g, A) = SumFunctionOnSet(f, A)
  <2>1. \A i \in A : f[i] \in Int /\ g[i] = f[i]
    BY <1>1, <1>3, <1>4
  <2> QED
    BY ONLY <1>2, <2>1, SumOfSame
<1>10. SumFunctionOnSet(g, B) = 0
  <2>1. \A i \in B : f[i] \in Int /\ g[i] = 0 * f[i]
    BY <1>1, <1>3, <1>4
  <2>2. SumFunctionOnSet(g, B) = 0 * SumFunctionOnSet(f, B)
    BY ONLY <1>2, <2>1, SumOfMultiples
  <2> QED
    BY <1>6, <2>2
<1>11. WordsIn(bs, l) = SumFunctionOnSet(f, A) /\ AllWords(bs) = SumFunctionOnSet(f, D)
  BY DEF WordsIn, AllWords, Total, f, A, D
<1>12. Total([i \in DOMAIN bs |-> IF bs[i].language = l THEN bs[i].words ELSE 0], DOMAIN bs)
           = SumFunctionOnSet(g, D)
  BY DEF Total, g, D
<1> QED
  BY <1>6, <1>7, <1>8, <1>9, <1>10, <1>11, <1>12

\* A text with a block has words.
LEMMA TextHasWords ==
    ASSUME NEW bs \in Seq(Block), bs # <<>>
    PROVE  AllWords(bs) \in Nat \ {0}
<1> DEFINE D == 1..Len(bs)
           f == [i \in D |-> bs[i].words]
<1>1. IsFiniteSet(D) /\ DOMAIN bs = D
  BY BlockOfText
<1>2. 1 \in D
  BY EmptySeq
<1>3. \A i \in D : f[i] \in Nat /\ f[i] > 0
  BY BlockOfText
<1>4. AllWords(bs) = SumFunctionOnSet(f, D)
  BY <1>1 DEF AllWords, Total
<1> HIDE DEF D, f
<1>5. SumFunctionOnSet(f, D) \in Nat /\ f[1] <= SumFunctionOnSet(f, D)
  BY <1>1, <1>2, <1>3, SumIsNat
<1> QED
  BY <1>2, <1>3, <1>4, <1>5

\* A share of at most the whole is at most the whole, and says how large the
\* part is up to its rounding.
LEMMA ShareIsBounded ==
    ASSUME NEW m \in Nat, NEW n \in Nat \ {0}, m <= n
    PROVE  /\ Share(m, n) \in Nat /\ Share(m, n) <= 1000
           /\ 2 * n * Share(m, n) <= 2000 * m + n
           /\ 2000 * m + n < 2 * n * Share(m, n) + 2 * n
<1> DEFINE a == 2000 * m + n
           b == 2 * n
           q == a \div b
<1>1. a \in Int /\ b \in Nat \ {0}
  OBVIOUS
<1>2. 0 * b <= a /\ a < (1000 + 1) * b
  OBVIOUS
<1>3. Share(m, n) = q
  BY DEF Share
<1> HIDE DEF a, b
<1>4. q \in Int /\ b * q <= a /\ a < b * q + b
  BY ONLY <1>1, Quotient
<1>5. 0 <= q /\ q <= 1000
  BY ONLY <1>1, <1>2, QuotientBetween
<1> HIDE DEF q
<1> QED
  BY <1>3, <1>4, <1>5 DEF a, b

\* A share of at most the whole is at most the whole.
LEMMA ShareIsSmall ==
    ASSUME NEW m \in Nat, NEW n \in Nat \ {0}, m <= n
    PROVE  Share(m, n) \in Nat /\ Share(m, n) <= 1000
BY ShareIsBounded

\* There is a dominant language: no other has a larger share.
LEMMA DominantIsLargest ==
    ASSUME NEW bs \in Seq(Block), bs # <<>>
    PROVE  /\ Dominant(bs) \in LanguagesOf(bs)
           /\ \A m \in LanguagesOf(bs) : Breakdown(bs)[m] <= Breakdown(bs)[Dominant(bs)]
<1> DEFINE L == LanguagesOf(bs)
           share == Breakdown(bs)
           Ahead(l, m) == \/ share[m] < share[l]
                          \/ share[m] = share[l] /\ FirstBlock(bs, l) < FirstBlock(bs, m)
           T == {1000 - share[l] : l \in L}
<1>1. \A l \in L : share[l] \in Nat /\ share[l] <= 1000
  <2> TAKE l \in L
  <2> DEFINE m == WordsIn(bs, l)
             n == AllWords(bs)
  <2>1. share[l] = Share(m, n)
    BY DEF Breakdown
  <2>2. m \in Nat /\ m <= n /\ n \in Nat \ {0}
    BY WordsOfLanguage, TextHasWords
  <2> HIDE DEF share, m, n
  <2>3. Share(m, n) \in Nat /\ Share(m, n) <= 1000
    BY ONLY <2>2, ShareIsSmall
  <2> QED
    BY <2>1, <2>3
<1>2. L # {}
  <2>1. 1 \in DOMAIN bs
    BY EmptySeq, BlockOfText
  <2> QED
    BY <2>1 DEF LanguagesOf
<1>3. \A l \in L : FirstBlock(bs, l) \in Nat /\ bs[FirstBlock(bs, l)].language = l
  BY FirstBlockIsFirst
<1> HIDE DEF L, share
<1>4. PICK a \in L : \A m \in L : share[m] <= share[a]
  <2>0. \A l \in L : 1000 - share[l] \in Nat
    BY <1>1
  <2>1. T \subseteq Nat /\ T # {}
    BY <2>0, <1>2
  <2>2. PICK n \in T : \A m \in T : n <= m
    <3> HIDE DEF T
    <3> QED
      BY <2>1, LeastNumber
  <2>3. PICK a \in L : n = 1000 - share[a]
    BY <2>2
  <2>4. \A m \in L : 1000 - share[a] <= 1000 - share[m]
    BY <2>2, <2>3
  <2>5. \A m \in L : share[m] <= share[a]
    BY <1>1, <2>4
  <2> QED
    BY <2>5
<1>5. \E l \in L : share[l] = share[a]
                   /\ \A m \in L : share[m] = share[a] => FirstBlock(bs, l) <= FirstBlock(bs, m)
  <2> DEFINE F == {FirstBlock(bs, l) : l \in {m \in L : share[m] = share[a]}}
  <2>1. F \subseteq Nat /\ F # {}
    BY <1>3
  <2>2. PICK n \in F : \A m \in F : n <= m
    <3> HIDE DEF F
    <3> QED
      BY <2>1, LeastNumber
  <2> QED
    BY <2>2
<1>6. PICK b \in L : share[b] = share[a]
                   /\ \A m \in L : share[m] = share[a] => FirstBlock(bs, b) <= FirstBlock(bs, m)
  BY <1>5
<1>7. \A m \in L \ {b} : Ahead(b, m)
  <2> TAKE m \in L \ {b}
  <2>1. share[m] = share[a] => FirstBlock(bs, b) # FirstBlock(bs, m)
    BY <1>3
  <2> QED
    BY <1>1, <1>3, <1>4, <1>6, <2>1
<1>8. Dominant(bs) = CHOOSE l \in L : \A m \in L \ {l} : Ahead(l, m)
  BY DEF Dominant, L, share
<1> HIDE DEF Ahead
<1>9. Dominant(bs) \in L /\ \A m \in L \ {Dominant(bs)} : Ahead(Dominant(bs), m)
  BY <1>7, <1>8
<1>10. \A m \in L : share[m] <= share[Dominant(bs)]
  BY <1>1, <1>9 DEF Ahead
<1> QED
  BY <1>9, <1>10 DEF L, share

\* No language has more words than the dominant one, up to rounding, however
\* many paragraphs and words there are (LanguageDetectionService.detect).
THEOREM DominantHasMostWords == Spec => []LanguageIsTheLargest
<1>1. ASSUME Shape PROVE LanguageIsTheLargest
  <2> SUFFICES ASSUME subject = "blocks", input # <<>> PROVE LanguageIsTheLargest
    BY DEF LanguageIsTheLargest
  <2> DEFINE Size(l) == Total([i \in DOMAIN input |->
                 IF input[i].language = l THEN input[i].words ELSE 0], DOMAIN input)
             d == Dominant(input)
             n == AllWords(input)
  <2>1. input \in Seq(Block)
    BY <1>1 DEF Shape, Block
  <2>2. n \in Nat \ {0}
    BY <2>1, TextHasWords
  <2>3. d \in LanguagesOf(input)
        /\ \A m \in LanguagesOf(input) : Breakdown(input)[m] <= Breakdown(input)[d]
    BY <2>1, DominantIsLargest
  <2>4. \A l : Size(l) = WordsIn(input, l) /\ WordsIn(input, l) \in Nat /\ WordsIn(input, l) <= n
    BY <2>1, WordsOfLanguage
  <2> SUFFICES ASSUME NEW l \in Language PROVE 1000 * (Size(l) - Size(d)) < n
    BY DEF LanguageIsTheLargest
  <2> HIDE DEF Size, d, n
  <2>5. CASE l \in LanguagesOf(input)
    <3> DEFINE a == WordsIn(input, l)
               b == WordsIn(input, d)
    <3>1. Breakdown(input)[l] = Share(a, n) /\ Breakdown(input)[d] = Share(b, n)
      BY <2>3, <2>5 DEF Breakdown, n
    <3>2. a \in Nat /\ b \in Nat /\ a <= n /\ b <= n /\ Size(l) = a /\ Size(d) = b
      BY <2>4
    <3> HIDE DEF a, b
    <3> DEFINE p == Share(a, n)
               q == Share(b, n)
    <3>3. p \in Int /\ q \in Int /\ p <= q
      <4>1. p \in Nat /\ q \in Nat
        BY <2>2, <3>2, ShareIsBounded
      <4>2. p <= q
        BY <2>3, <2>5, <3>1
      <4> QED
        BY <4>1, <4>2
    <3>4. 2000 * a + n < 2 * n * p + 2 * n
      BY <2>2, <3>2, ShareIsBounded
    <3>5. 2 * n * q <= 2000 * b + n
      BY <2>2, <3>2, ShareIsBounded
    <3> HIDE DEF p, q
    <3>6. 2 * n * p <= 2 * n * q
      BY <2>2, <3>3
    <3> QED
      BY <2>2, <3>2, <3>3, <3>4, <3>5, <3>6
  <2>6. CASE l \notin LanguagesOf(input)
    <3>1. Size(l) = 0
      <4> DEFINE f == [i \in DOMAIN input |->
                          IF input[i].language = l THEN input[i].words ELSE 0]
      <4>1. \A i \in DOMAIN input : f[i] = 0
        BY <2>6 DEF LanguagesOf
      <4>2. IsFiniteSet(DOMAIN input)
        BY <2>1, FS_Interval
      <4> HIDE DEF f
      <4>3. \A i \in DOMAIN input : f[i] \in Int /\ f[i] = 0 * f[i]
        BY <4>1
      <4>4. SumFunctionOnSet(f, DOMAIN input) = 0 * SumFunctionOnSet(f, DOMAIN input)
        BY ONLY <4>2, <4>3, SumOfMultiples
      <4>5. SumFunctionOnSet(f, DOMAIN input) \in Int
        BY ONLY <4>2, <4>3, SumIsInt
      <4> QED
        BY <4>4, <4>5 DEF Size, Total, f
    <3> QED
      BY <2>2, <2>4, <3>1
  <2> QED
    BY <2>5, <2>6
<1> QED
  BY <1>1, ShapeHolds, PTL

-----------------------------------------------------------------------------
(* Recursion over the positions of a text, and counting in it               *)

\* For each position, what is to be made of the value at the one before.
StepsOn(n, V) == [1..n -> [V -> V]]

\* A function that is given at 0, and at i by its value at i - 1.
Runs(n, V, first, next) ==
    {g \in [0..n -> V] : g[0] = first /\ \A i \in 1..n : g[i] = next[i][g[i - 1]]}

\* Such a function exists.
LEMMA RecursionExists ==
    ASSUME NEW n \in Nat, NEW V, NEW first \in V, NEW next \in StepsOn(n, V)
    PROVE  Runs(n, V, first, next) # {}
<1> DEFINE Upto(m, g) == g[0] = first /\ \A i \in 1..m : g[i] = next[i][g[i - 1]]
           Exists(m) == \E g \in [0..m -> V] : Upto(m, g)
           N == {m \in Nat : m <= n => Exists(m)}
<1> USE DEF StepsOn
<1>1. 0 \in N
  <2>1. [i \in 0..0 |-> first] \in [0..0 -> V] /\ Upto(0, [i \in 0..0 |-> first])
    OBVIOUS
  <2> QED
    BY <2>1
<1>2. ASSUME NEW m \in Nat, m \in N, m + 1 <= n PROVE Exists(m + 1)
  <2>1. PICK g \in [0..m -> V] : Upto(m, g)
    BY <1>2
  <2> DEFINE h == [i \in 0..m+1 |-> IF i = m + 1 THEN next[m + 1][g[m]] ELSE g[i]]
  <2>2. g[m] \in V /\ next[m + 1][g[m]] \in V
    BY <1>2
  <2>3. h \in [0..m+1 -> V]
    BY <2>2
  <2>4. h[m + 1] = next[m + 1][g[m]] /\ \A i \in 0..m : h[i] = g[i]
    OBVIOUS
  <2> HIDE DEF h
  <2>5. h[0] = first
    BY <2>1, <2>4
  <2>6. ASSUME NEW i \in 1..m+1 PROVE h[i] = next[i][h[i - 1]]
    <3>1. CASE i = m + 1
      BY <2>4, <3>1
    <3>2. CASE i \in 1..m
      <4>1. i \in 0..m /\ i - 1 \in 0..m
        BY <3>2
      <4> QED
        BY <2>1, <2>4, <3>2, <4>1
    <3> QED
      BY <3>1, <3>2
  <2> QED
    BY <2>3, <2>5, <2>6
<1>3. \A m \in Nat : m \in N => m + 1 \in N
  <2> TAKE m \in Nat
  <2> HAVE m \in N
  <2>1. CASE m + 1 <= n
    <3>1. Exists(m + 1)
      BY <1>2, <2>1
    <3> HIDE DEF Exists
    <3> QED
      BY <3>1
  <2> HIDE DEF Exists
  <2>2. CASE ~(m + 1 <= n)
    BY <2>2
  <2> QED
    BY <2>1, <2>2
<1>4. n \in N
  <2> HIDE DEF N
  <2> QED
    BY <1>1, <1>3, EveryNumber
<1> QED
  BY <1>4 DEF Runs

\* How many of a kind come before a position: one more behind one of the kind.
LEMMA CountStep ==
    ASSUME NEW t, NEW c, NEW i \in Nat \ {0}
    PROVE  /\ CountBefore(t, 1, c) = 0
           /\ CountBefore(t, i, c) \in Nat
           /\ CountBefore(t, i + 1, c) = CountBefore(t, i, c) + (IF t[i] = c THEN 1 ELSE 0)
<1> DEFINE A == {k \in 1..i-1 : t[k] = c}
           B == {k \in 1..i : t[k] = c}
<1>1. IsFiniteSet(1..i-1) /\ A \in SUBSET (1..i-1)
  BY FS_Interval
<1>2. IsFiniteSet(A) /\ Cardinality(A) \in Nat
  BY <1>1, FS_Subset, FS_CardinalityType
<1>3. Cardinality(B) = Cardinality(A) + (IF t[i] = c THEN 1 ELSE 0)
  <2>1. CASE t[i] = c
    <3>1. B = A \union {i} /\ i \notin A
      BY <2>1
    <3> HIDE DEF A, B
    <3> QED
      BY <1>2, <2>1, <3>1, FS_AddElement
  <2>2. CASE t[i] # c
    <3>1. B = A
      BY <2>2
    <3> HIDE DEF A, B
    <3> QED
      BY <1>2, <2>2, <3>1
  <2> QED
    BY <2>1, <2>2
<1>4. {k \in 1..1-1 : t[k] = c} = {}
  OBVIOUS
<1>5. CountBefore(t, 1, c) = 0
  BY <1>4, FS_EmptySet DEF CountBefore
<1>6. CountBefore(t, i, c) = Cardinality(A)
  BY DEF CountBefore
<1>7. CountBefore(t, i + 1, c) = Cardinality(B)
  <2>1. i + 1 - 1 = i
    OBVIOUS
  <2> QED
    BY <2>1 DEF CountBefore
<1> QED
  BY <1>2, <1>3, <1>5, <1>6, <1>7

-----------------------------------------------------------------------------
(* The sample for the external search                                       *)

\* The places of the rare shingles: the k-th has k - 1 of them before it.
LEMMA RarePlaces ==
    ASSUME NEW t \in Seq(Kind)
    PROVE  /\ RareAt(t) \in Seq(Nat)
           /\ Len(RareAt(t)) = CountBefore(t, Len(t) + 1, "rare")
           /\ \A k \in 1..Len(RareAt(t)) :
                  /\ RareAt(t)[k] \in 1..Len(t) /\ t[RareAt(t)[k]] = "rare"
                  /\ CountBefore(t, RareAt(t)[k], "rare") = k - 1
<1> DEFINE n == Len(t)
           V == Seq(Nat)
           next == [i \in 1..n |-> [s \in V |-> IF t[i] = "rare" THEN Append(s, i) ELSE s]]
           Is(g) == g = [i \in 0..n |->
                            IF i = 0 THEN <<>>
                            ELSE IF t[i] = "rare" THEN Append(g[i - 1], i) ELSE g[i - 1]]
           found == CHOOSE g : Is(g)
           Good(s, i) == /\ s \in Seq(Nat) /\ Len(s) = CountBefore(t, i + 1, "rare")
                         /\ \A k \in 1..Len(s) :
                                /\ s[k] \in 1..i /\ t[s[k]] = "rare"
                                /\ CountBefore(t, s[k], "rare") = k - 1
<1>1. n \in Nat
  OBVIOUS
<1>2. \E g : Is(g)
  <2>1. <<>> \in V /\ next \in [1..n -> [V -> V]]
    OBVIOUS
  <2>2. \A i \in 1..n, s \in V :
            next[i][s] = IF t[i] = "rare" THEN Append(s, i) ELSE s
    OBVIOUS
  <2> HIDE DEF next, n, V
  <2>6. next \in StepsOn(n, V)
    BY <2>1 DEF StepsOn
  <2>7. Runs(n, V, <<>>, next) # {}
    BY ONLY <1>1, <2>1, <2>6, RecursionExists
  <2>3. PICK g \in [0..n -> V] : g[0] = <<>> /\ \A i \in 1..n : g[i] = next[i][g[i - 1]]
    BY <2>7 DEF Runs
  <2>4. \A i \in 1..n : g[i] = IF t[i] = "rare" THEN Append(g[i - 1], i) ELSE g[i - 1]
    <3> TAKE i \in 1..n
    <3>1. g[i - 1] \in V
      BY <1>1
    <3> QED
      BY <2>2, <2>3, <3>1
  <2>5. Is(g)
    <3> DEFINE h == [i \in 0..n |->
                        IF i = 0 THEN <<>>
                        ELSE IF t[i] = "rare" THEN Append(g[i - 1], i) ELSE g[i - 1]]
    <3>1. \A i \in 0..n : g[i] = h[i]
      <4> TAKE i \in 0..n
      <4>1. CASE i = 0
        BY <2>3, <4>1
      <4>2. CASE i # 0
        <5>1. i \in 1..n
          BY <4>2, <1>1
        <5>2. h[i] = IF t[i] = "rare" THEN Append(g[i - 1], i) ELSE g[i - 1]
          BY <4>2
        <5> HIDE DEF h
        <5> QED
          BY <2>4, <5>1, <5>2
      <4> QED
        BY <4>1, <4>2
    <3>2. g = h
      <4> HIDE DEF h
      <4>1. DOMAIN h = 0..n /\ h = [i \in 0..n |-> h[i]]
        BY DEF h
      <4>2. g = [i \in 0..n |-> g[i]]
        OBVIOUS
      <4> QED
        BY <3>1, <4>1, <4>2
    <3> QED
      BY <3>2
  <2> QED
    BY <2>5
<1>3. Is(found)
  <2> HIDE DEF Is
  <2> QED
    BY <1>2
<1>4. RareAt(t) = found[n]
  BY DEF RareAt
<1> HIDE DEF found, next, V, n
<1>5. /\ found[0] = <<>>
      /\ \A i \in 1..n : found[i] = IF t[i] = "rare" THEN Append(found[i - 1], i)
                                    ELSE found[i - 1]
  <2>1. found = [i \in 0..n |->
                    IF i = 0 THEN <<>>
                    ELSE IF t[i] = "rare" THEN Append(found[i - 1], i) ELSE found[i - 1]]
    BY <1>3
  <2>2. 0 \in 0..n /\ \A i \in 1..n : i \in 0..n /\ i # 0
    BY <1>1
  <2> QED
    BY <2>1, <2>2, Zenon
<1> HIDE DEF Is
<1>6. Good(found[0], 0)
  BY <1>5, CountStep
<1>7. ASSUME NEW i \in Nat, i + 1 \in 1..n, Good(found[i], i)
      PROVE  Good(found[i + 1], i + 1)
  <2> DEFINE s == found[i]
             Earlier(j) == CountBefore(t, j, "rare")
  <2>1. /\ Earlier(i + 1 + 1) = Earlier(i + 1) + (IF t[i + 1] = "rare" THEN 1 ELSE 0)
        /\ Earlier(i + 1) \in Nat
    <3>1. i + 1 \in Nat \ {0}
      OBVIOUS
    <3> QED
      BY ONLY <3>1, CountStep
  <2>2. i + 1 - 1 = i
    OBVIOUS
  <2>3. /\ s \in Seq(Nat) /\ Len(s) = Earlier(i + 1)
        /\ \A k \in 1..Len(s) : s[k] \in 1..i /\ t[s[k]] = "rare" /\ Earlier(s[k]) = k - 1
    BY <1>7
  <2>4. found[i + 1] = IF t[i + 1] = "rare" THEN Append(s, i + 1) ELSE s
    BY <1>5, <1>7, <2>2
  <2> HIDE DEF s
  <2>5. CASE t[i + 1] = "rare"
    <3> DEFINE u == Append(s, i + 1)
    <3>1. /\ u \in Seq(Nat) /\ Len(u) = Len(s) + 1 /\ u[Len(s) + 1] = i + 1
          /\ \A k \in 1..Len(s) : u[k] = s[k]
      BY <2>3
    <3> HIDE DEF u
    <3>2. Len(u) = Earlier(i + 1 + 1)
      BY <2>1, <2>3, <2>5, <3>1
    <3>3. ASSUME NEW k \in 1..Len(u)
          PROVE  u[k] \in 1..i+1 /\ t[u[k]] = "rare" /\ Earlier(u[k]) = k - 1
      <4>1. CASE k = Len(s) + 1
        BY <2>1, <2>3, <2>5, <3>1, <4>1
      <4>2. CASE k \in 1..Len(s)
        BY <2>3, <3>1, <4>2
      <4> QED
        BY <2>3, <3>1, <4>1, <4>2
    <3>4. found[i + 1] = u
      BY <2>4, <2>5 DEF u
    <3> QED
      BY <3>1, <3>2, <3>3, <3>4
  <2>6. CASE t[i + 1] # "rare"
    <3>1. found[i + 1] = s /\ Len(s) = Earlier(i + 1 + 1)
      BY <2>1, <2>3, <2>4, <2>6
    <3>2. \A k \in 1..Len(s) : s[k] \in 1..i+1 /\ t[s[k]] = "rare" /\ Earlier(s[k]) = k - 1
      BY <2>3
    <3> QED
      BY <2>3, <3>1, <3>2
  <2> QED
    BY <2>5, <2>6
<1>8. Good(found[n], n)
  <2> DEFINE N == {i \in Nat : i <= n => Good(found[i], i)}
  <2> HIDE DEF Good
  <2>1. 0 \in N
    BY <1>6
  <2>2. \A i \in Nat : i \in N => i + 1 \in N
    BY <1>1, <1>7
  <2>3. n \in N
    <3> HIDE DEF N
    <3> QED
      BY <1>1, <2>1, <2>2, EveryNumber
  <2> QED
    BY <1>1, <2>3
<1> QED
  BY <1>4, <1>8 DEF n

\* A difference that is a multiple of c is 0 or c, and which of the two.
LEMMA NextMultiple ==
    ASSUME NEW c \in Nat \ {0}, NEW d \in Int, NEW e \in Int, NEW r \in Int, NEW f \in Int,
           0 <= e, e < c, 0 <= r, r < c, 0 <= f, f < c, c * d = e + r - f
    PROVE  /\ d \in 0..1
           /\ f = 0 /\ r > 0 => d = 1
           /\ e = 0 => d = 0
<1>1. d <= 1
  <2>1. d >= 2 => c * d >= 2 * c
    OBVIOUS
  <2> QED
    BY <2>1
<1>2. d >= 0
  <2>1. d <= -1 => c * d <= -c
    OBVIOUS
  <2> QED
    BY <2>1
<1>3. d = 0 => c * d = 0
  OBVIOUS
<1>4. d = 1 => c * d = c
  OBVIOUS
<1> QED
  BY <1>1, <1>2, <1>3, <1>4

\* From one exact place to the next it is the whole step or one more; one more
\* if the next is exact and the step is not, not one more if this is exact.
LEMMA PlacesStep ==
    ASSUME NEW n \in Nat, NEW c \in Nat \ {0}, NEW i \in Nat,
           NEW d, d = ((i + 1) * n) \div c - (i * n) \div c - n \div c
    PROVE  /\ d \in 0..1
           /\ ((i + 1) * n) % c = 0 /\ n % c # 0 => d = 1
           /\ (i * n) % c = 0 => d = 0
<1> DEFINE q == (i * n) \div c
           e == (i * n) % c
           p == ((i + 1) * n) \div c
           f == ((i + 1) * n) % c
           g == n \div c
           r == n % c
<1>1. q \in Int /\ e \in Int /\ 0 <= e /\ e < c /\ c * q = i * n - e
  <2>1. i * n \in Int
    OBVIOUS
  <2> QED
    BY <2>1, Division
<1>2. p \in Int /\ f \in Int /\ 0 <= f /\ f < c /\ c * p = (i + 1) * n - f
  <2>1. (i + 1) * n \in Int
    OBVIOUS
  <2> QED
    BY <2>1, Division
<1>3. g \in Int /\ r \in Int /\ 0 <= r /\ r < c /\ c * g = n - r
  BY Division
<1>4. d = p - q - g
  OBVIOUS
<1>5. (i + 1) * n = i * n + n /\ i * n \in Int /\ (i + 1) * n \in Int
  OBVIOUS
<1> HIDE DEF q, e, p, f, g, r
<1>6. c * (p - q - g) = c * p - c * q - c * g
  BY <1>1, <1>2, <1>3
<1>7. d \in Int /\ c * d = e + r - f
  BY <1>1, <1>2, <1>3, <1>4, <1>5, <1>6
<1>8. d \in 0..1 /\ (f = 0 /\ r > 0 => d = 1) /\ (e = 0 => d = 0)
  BY ONLY <1>1, <1>2, <1>3, <1>7, c \in Nat \ {0}, NextMultiple
<1> QED
  BY <1>3, <1>8 DEF e, f, r

\* How far the places of a sample are apart, when there are n to choose from.
Gap(n, count) == IF n <= count THEN 1 ELSE n \div count

\* The place after the i-th of a sample, the end after the last.
Following(s, i, n) == IF i + 1 \in DOMAIN s THEN s[i + 1] ELSE n

\* The picks lie evenly among the n, whichever products fall short.
LEMMA PicksAreSpread ==
    ASSUME NEW n \in Nat \ {0}, NEW c \in Nat \ {0}, NEW s \in Picks(n, c)
    PROVE  /\ DOMAIN s = 0..c-1
           /\ \A i \in 0..c-1 : /\ s[i] \in 0..n-1
                                /\ Following(s, i, n) - s[i] \in n \div c .. n \div c + 1
<1> DEFINE Exact(i) == (i * n) \div c
           Less(low, i) == IF i \in low THEN 1 ELSE 0
<1>1. PICK low \in SUBSET {i \in 1..c-1 : (i * n) % c = 0 /\ n % c # 0} :
          s = [i \in 0..c-1 |-> Exact(i) - Less(low, i)]
  BY DEF Picks
<1>2. \A i \in low : i \in 1..c-1 /\ (i * n) % c = 0 /\ n % c # 0
  OBVIOUS
<1>3. /\ DOMAIN s = 0..c-1
      /\ \A i \in 0..c-1 : s[i] = Exact(i) - Less(low, i)
  BY <1>1
<1>4. \A i \in Nat : Exact(i) \in Int /\ Less(low, i) \in 0..1
  <2> TAKE i \in Nat
  <2>1. i * n \in Int
    OBVIOUS
  <2> QED
    BY <2>1, Division
<1>5. Exact(c) = n
  <2> DEFINE q == Exact(c)
             r == (c * n) % c
  <2>1. c * n \in Int
    OBVIOUS
  <2>2. q \in Int /\ r \in Int /\ 0 <= r /\ r < c /\ c * q = c * n - r
    BY <2>1, Division
  <2> HIDE DEF q, r
  <2>3. c * (n - q) = r
    BY <2>2
  <2>4. n - q >= 1 => c * (n - q) >= c
    BY <2>2
  <2>5. n - q <= -1 => c * (n - q) <= -c
    BY <2>2
  <2>6. q = n
    BY <2>2, <2>3, <2>4, <2>5
  <2> QED
    BY <2>6 DEF q
<1> HIDE DEF Exact, Less
<1>6. \A i \in 0..c-1 : Following(s, i, n) = Exact(i + 1) - Less(low, i + 1)
  <2> TAKE i \in 0..c-1
  <2>1. CASE i + 1 \in 0..c-1
    BY <1>3, <2>1 DEF Following
  <2>2. CASE i = c - 1
    <3>1. i + 1 = c /\ c \notin 0..c-1 /\ c \notin low
      BY <1>2, <2>2
    <3>2. Less(low, i + 1) = 0
      BY <3>1 DEF Less
    <3> QED
      BY <1>3, <1>5, <3>1, <3>2 DEF Following
  <2> QED
    BY <2>1, <2>2
<1>7. ASSUME NEW i \in 0..c-1
      PROVE  Following(s, i, n) - s[i] \in n \div c .. n \div c + 1
  <2> DEFINE d == Exact(i + 1) - Exact(i) - n \div c
  <2>1. /\ d \in 0..1
        /\ ((i + 1) * n) % c = 0 /\ n % c # 0 => d = 1
        /\ (i * n) % c = 0 => d = 0
    <3>1. i \in Nat /\ n \in Nat
      OBVIOUS
    <3>2. d = ((i + 1) * n) \div c - (i * n) \div c - n \div c
      BY DEF Exact
    <3> HIDE DEF d
    <3> QED
      BY ONLY <3>1, <3>2, c \in Nat \ {0}, PlacesStep
  <2>2. Less(low, i + 1) = 1 => d = 1
    BY <1>2, <2>1 DEF Less
  <2>3. Less(low, i) = 1 => d = 0
    BY <1>2, <2>1 DEF Less
  <2> DEFINE g == n \div c
             x == Exact(i)
             y == Exact(i + 1)
             a == Less(low, i)
             b == Less(low, i + 1)
  <2>4. g \in Int
    BY Division
  <2>5. i \in Nat /\ i + 1 \in Nat
    OBVIOUS
  <2>6. x \in Int /\ y \in Int /\ a \in 0..1 /\ b \in 0..1
    BY <1>4, <2>5
  <2>7. Following(s, i, n) = y - b /\ s[i] = x - a /\ d = y - x - g
    BY <1>3, <1>6
  <2> HIDE DEF d, g, x, y, a, b
  <2>8. Following(s, i, n) - s[i] \in g..g+1
    BY <2>1, <2>2, <2>3, <2>4, <2>6, <2>7 DEF a, b
  <2> QED
    BY <2>8 DEF g
<1>8. ASSUME NEW i \in 0..c-1
      PROVE  s[i] \in 0..n-1
  <2> DEFINE a == i * n
             hi == n - 1
  <2>1. i * n < c * n /\ c * n = n * c
    OBVIOUS
  <2>2. Less(low, i) = 1 => i * n = c * Exact(i) /\ i * n > 0
    <3>1. ASSUME Less(low, i) = 1 PROVE i * n = c * Exact(i)
      <4>1. (i * n) % c = 0 /\ i * n \in Int
        BY <1>2, <3>1 DEF Less
      <4>2. c * Exact(i) = i * n - 0
        BY <4>1, Division DEF Exact
      <4> QED
        BY <4>1, <4>2
    <3>2. Less(low, i) = 1 => i > 0
      BY <1>2 DEF Less
    <3>3. i > 0 => i * n > 0
      OBVIOUS
    <3> QED
      BY <3>1, <3>2, <3>3
  <2>3. Exact(i) <= n - 1 /\ 0 <= Exact(i)
    <3>1. a \in Int /\ 0 * c <= a /\ a < (hi + 1) * c /\ hi \in Int
      BY <2>1
    <3> HIDE DEF a, hi
    <3>2. 0 <= a \div c /\ a \div c <= hi
      BY ONLY <3>1, c \in Nat \ {0}, QuotientBetween
    <3> QED
      BY <3>2 DEF a, hi, Exact
  <2>4. Less(low, i) = 1 => Exact(i) # 0
    <3>1. Exact(i) = 0 => c * Exact(i) = 0
      OBVIOUS
    <3> QED
      BY <2>2, <3>1
  <2> QED
    BY <1>3, <1>4, <2>3, <2>4
<1> QED
  BY <1>3, <1>7, <1>8

\* A sample is as large as asked for, and spread evenly.
LEMMA SamplesAreSpread ==
    ASSUME NEW n \in Nat, NEW count \in Nat, NEW s \in Samples(n, count)
    PROVE  /\ Cardinality(DOMAIN s) = IF n <= count THEN n ELSE count
           /\ \A i \in DOMAIN s :
                  /\ i \in Int /\ s[i] \in 0..n-1
                  /\ Following(s, i, n) - s[i] \in Gap(n, count)..Gap(n, count)+1
<1>1. CASE count = 0 \/ n = 0
  <2>1. DOMAIN s = {}
    BY <1>1 DEF Samples
  <2> QED
    BY <1>1, <2>1, FS_EmptySet
<1>2. CASE count > 0 /\ n > 0 /\ n <= count
  <2>1. s = [i \in 0..n-1 |-> i]
    BY <1>2 DEF Samples
  <2>2. Cardinality(0..n-1) = n
    BY FS_Interval, <1>2
  <2> QED
    BY <1>2, <2>1, <2>2 DEF Following, Gap
<1>3. CASE count > 0 /\ n > count
  <2>1. s \in Picks(n, count)
    BY <1>3 DEF Samples
  <2>2. Cardinality(0..count-1) = count
    BY FS_Interval, <1>3
  <2>3. n \in Nat \ {0} /\ count \in Nat \ {0} /\ Gap(n, count) = n \div count
    BY <1>3 DEF Gap
  <2>4. /\ DOMAIN s = 0..count-1
        /\ \A i \in 0..count-1 :
              /\ s[i] \in 0..n-1
              /\ Following(s, i, n) - s[i] \in n \div count .. n \div count + 1
    BY <2>1, <2>3, PicksAreSpread
  <2> QED
    BY <1>3, <2>2, <2>3, <2>4
<1> QED
  BY <1>1, <1>2, <1>3

\* The sample is as large as asked for, and even among the rare phrases, for
\* texts and sample sizes of any length (ExternalSearchService.analyze).
THEOREM SampleIsEven == Spec => []SampleIsSpread
<1>1. ASSUME Shape PROVE SampleIsSpread
  <2> SUFFICES ASSUME subject = "sample" PROVE SampleIsSpread
    BY DEF SampleIsSpread
  <2> DEFINE t == input.shingles
             count == input.count
             r == RareAt(t)
             n == Len(r)
  <2>1. t \in Seq(Kind) /\ count \in Nat
    BY <1>1, MeasureAssumption DEF Shape
  <2>2. /\ n \in Nat /\ n = CountBefore(t, Len(t) + 1, "rare")
        /\ \A k \in 1..n : t[r[k]] = "rare" /\ CountBefore(t, r[k], "rare") = k - 1
    BY <2>1, RarePlaces
  <2> HIDE DEF t, count, r, n
  <2>3. ASSUME NEW s \in Samples(n, count), NEW q, q = [i \in DOMAIN s |-> r[s[i] + 1]]
        PROVE  /\ Cardinality(DOMAIN q) = IF n <= count THEN n ELSE count
               /\ \A i \in DOMAIN q :
                     LET end == IF i + 1 \in DOMAIN q THEN q[i + 1] ELSE Len(t) + 1
                     IN /\ t[q[i]] = "rare"
                        /\ CountBefore(t, end, "rare") - CountBefore(t, q[i], "rare")
                              \in Gap(n, count)..Gap(n, count)+1
    <3>1. DOMAIN q = DOMAIN s /\ \A i \in DOMAIN s : q[i] = r[s[i] + 1]
      BY <2>3
    <3>2. /\ Cardinality(DOMAIN s) = IF n <= count THEN n ELSE count
          /\ \A i \in DOMAIN s :
                 /\ i \in Int /\ s[i] \in 0..n-1
                 /\ Following(s, i, n) - s[i] \in Gap(n, count)..Gap(n, count)+1
      BY <2>1, <2>2, SamplesAreSpread
    <3>3. \A i \in DOMAIN s : t[q[i]] = "rare" /\ CountBefore(t, q[i], "rare") = s[i]
      <4> TAKE i \in DOMAIN s
      <4> DEFINE k == s[i] + 1
      <4>1. k \in 1..n /\ k - 1 = s[i]
        BY <2>2, <3>2
      <4>2. q[i] = r[k]
        BY <3>1
      <4> HIDE DEF k
      <4> QED
        BY <2>2, <4>1, <4>2
    <3>4. ASSUME NEW i \in DOMAIN s
          PROVE  CountBefore(t, IF i + 1 \in DOMAIN q THEN q[i + 1] ELSE Len(t) + 1, "rare")
                     = Following(s, i, n)
      BY <2>2, <3>1, <3>3 DEF Following
    <3> QED
      BY <3>1, <3>2, <3>3, <3>4
  <2>4. \A q \in Phrases(t, count) :
            \E s \in Samples(n, count) : q = [i \in DOMAIN s |-> r[s[i] + 1]]
    BY DEF Phrases, r, n
  <2> QED
    BY <2>3, <2>4 DEF SampleIsSpread, CountBefore, Gap, t, count, r, n
<1> QED
  BY <1>1, ShapeHolds, PTL

-----------------------------------------------------------------------------
(* Citations                                                                *)

\* Where no c is, none is counted.
LEMMA CountStays ==
    ASSUME NEW t, NEW c, NEW i \in Nat \ {0}, NEW j \in Nat, i <= j,
           \A k \in i..j-1 : t[k] # c
    PROVE  CountBefore(t, j, c) = CountBefore(t, i, c)
<1>1. {k \in 1..j-1 : t[k] = c} = {k \in 1..i-1 : t[k] = c}
  OBVIOUS
<1> QED
  BY <1>1 DEF CountBefore

\* In a text without c none is ever counted.
LEMMA CountOfNone ==
    ASSUME NEW t \in Seq(Quotes), NEW c, Where(t, {c}) = {}, NEW i \in 1..Len(t)+1
    PROVE  CountBefore(t, i, c) = 0
<1>1. \A k \in 1..i-1 : t[k] # c
  BY DEF Where
<1>2. i \in Nat /\ 1 <= i
  OBVIOUS
<1>3. CountBefore(t, i, c) = CountBefore(t, 1, c)
  BY ONLY <1>1, <1>2, CountStays
<1> QED
  BY <1>3, CountStep

\* The recursion of the straight quotes.
LEMMA PendingIsRecursion ==
    ASSUME NEW t \in Seq(Quotes)
    PROVE  /\ Pending(t)[0] = 0
           /\ \A i \in 1..Len(t) :
                  Pending(t)[i] = IF t[i] # "quote" THEN Pending(t)[i - 1]
                                  ELSE IF Pending(t)[i - 1] \in {0, i - 1} THEN i ELSE 0
<1> DEFINE n == Len(t)
           V == 0..n
           next == [i \in 1..n |-> [p \in V |->
                       IF t[i] # "quote" THEN p ELSE IF p \in {0, i - 1} THEN i ELSE 0]]
           Then(i, p) == IF t[i] # "quote" THEN p ELSE IF p \in {0, i - 1} THEN i ELSE 0
           Is(g) == g = [i \in 0..n |->
                            IF i = 0 THEN 0
                            ELSE IF t[i] # "quote" THEN g[i - 1]
                            ELSE IF g[i - 1] \in {0, i - 1} THEN i ELSE 0]
           open == CHOOSE g : Is(g)
<1>1. n \in Nat
  OBVIOUS
<1>2. \E g : Is(g)
  <2>1. 0 \in V
    OBVIOUS
  <2>2. next \in StepsOn(n, V)
    BY DEF StepsOn
  <2>3. \A i \in 1..n, p \in V : next[i][p] = Then(i, p)
    OBVIOUS
  <2> HIDE DEF next, n, V
  <2>4. Runs(n, V, 0, next) # {}
    BY ONLY <1>1, <2>1, <2>2, RecursionExists
  <2>5. PICK g \in [0..n -> V] : g[0] = 0 /\ \A i \in 1..n : g[i] = next[i][g[i - 1]]
    BY <2>4 DEF Runs
  <2> HIDE DEF Then
  <2>6. \A i \in 1..n : g[i] = Then(i, g[i - 1])
    <3> TAKE i \in 1..n
    <3>1. g[i - 1] \in V
      BY <1>1
    <3> QED
      BY <2>3, <2>5, <3>1
  <2> DEFINE h == [i \in 0..n |-> IF i = 0 THEN 0 ELSE Then(i, g[i - 1])]
  <2>7. g = h
    <3>1. \A i \in 0..n : g[i] = h[i]
      BY <1>1, <2>5, <2>6
    <3>2. DOMAIN h = 0..n /\ h = [i \in 0..n |-> h[i]]
      OBVIOUS
    <3>3. g = [i \in 0..n |-> g[i]]
      OBVIOUS
    <3> HIDE DEF h
    <3> QED
      BY <3>1, <3>2, <3>3
  <2>8. Is(g)
    BY <2>7 DEF Then
  <2> QED
    BY <2>8
<1>3. Is(open)
  <2> HIDE DEF Is
  <2> QED
    BY <1>2
<1>4. Pending(t) = open
  BY DEF Pending
<1> HIDE DEF open, n
<1>5. open = [i \in 0..n |-> IF i = 0 THEN 0
                             ELSE IF t[i] # "quote" THEN open[i - 1]
                             ELSE IF open[i - 1] \in {0, i - 1} THEN i ELSE 0]
  BY <1>3
<1>6. 0 \in 0..n /\ \A i \in 1..n : i \in 0..n /\ i # 0
  BY <1>1
<1>7. /\ open[0] = 0
      /\ \A i \in 1..n : open[i] = IF t[i] # "quote" THEN open[i - 1]
                                   ELSE IF open[i - 1] \in {0, i - 1} THEN i ELSE 0
  BY <1>5, <1>6, Zenon
<1> QED
  BY <1>4, <1>7 DEF n

\* In a tidy text a straight quote is open after every other one.
LEMMA PendingIsOdd ==
    ASSUME NEW t \in Seq(Quotes), TidyStraight(t), NEW i \in 0..Len(t)
    PROVE  Pending(t)[i] # 0 <=> CountBefore(t, i + 1, "quote") % 2 = 1
<1> DEFINE n == Len(t)
           p == Pending(t)
           Count(j) == CountBefore(t, j, "quote")
           Good(j) == /\ p[j] \in 0..j
                      /\ p[j] # 0 <=> Count(j + 1) % 2 = 1
                      /\ p[j] # 0 => t[p[j]] = "quote"
           N == {j \in Nat : j <= n => Good(j)}
<1>1. /\ p[0] = 0
      /\ \A j \in 1..n : p[j] = IF t[j] # "quote" THEN p[j - 1]
                                ELSE IF p[j - 1] \in {0, j - 1} THEN j ELSE 0
  BY PendingIsRecursion
<1>2. n \in Nat /\ \A j \in 1..n-1 : ~(t[j] = "quote" /\ t[j + 1] = "quote")
  BY DEF TidyStraight
<1> HIDE DEF n, p
<1>3. 0 \in N
  <2>1. Count(0 + 1) = 0
    BY CountStep
  <2> QED
    BY <1>1, <2>1
<1>4. ASSUME NEW j \in Nat, j + 1 <= n, Good(j) PROVE Good(j + 1)
  <2> DEFINE x == Count(j + 1)
             y == Count(j + 1 + 1)
  <2>1. x \in Nat /\ y = x + (IF t[j + 1] = "quote" THEN 1 ELSE 0)
    <3>1. j + 1 \in Nat \ {0}
      OBVIOUS
    <3> QED
      BY ONLY <3>1, CountStep
  <2>2. p[j + 1] = IF t[j + 1] # "quote" THEN p[j]
                   ELSE IF p[j] \in {0, j} THEN j + 1 ELSE 0
    <3>1. j + 1 \in 1..n /\ j + 1 - 1 = j
      BY <1>2, <1>4
    <3> QED
      BY <1>1, <3>1
  <2>3. p[j] = j /\ j # 0 => t[j + 1] # "quote"
    BY <1>2, <1>4
  <2>4. /\ p[j] \in 0..j
        /\ p[j] # 0 <=> x % 2 = 1
        /\ p[j] # 0 => t[p[j]] = "quote"
    BY <1>4
  <2> HIDE DEF x, y
  <2>5. CASE t[j + 1] # "quote"
    <3>1. p[j + 1] = p[j] /\ y = x
      BY <2>1, <2>2, <2>5
    <3>2. p[j + 1] \in 0..j+1
      BY <2>4, <3>1
    <3> QED
      BY <2>4, <3>1, <3>2 DEF y
  <2>6. CASE t[j + 1] = "quote"
    <3>1. y = x + 1 /\ (y % 2 = 1 <=> ~(x % 2 = 1))
      BY <2>1, <2>6
    <3>2. p[j + 1] = IF p[j] = 0 THEN j + 1 ELSE 0
      BY <2>2, <2>3, <2>4, <2>6
    <3> QED
      BY <2>4, <2>6, <3>1, <3>2 DEF y
  <2> QED
    BY <2>5, <2>6
<1>5. \A j \in Nat : j \in N => j + 1 \in N
  <2> HIDE DEF Good
  <2> TAKE j \in Nat
  <2> HAVE j \in N
  <2>1. CASE j + 1 <= n
    BY <1>2, <1>4, <2>1
  <2>2. CASE ~(j + 1 <= n)
    BY <2>2
  <2> QED
    BY <2>1, <2>2
<1>6. i \in N
  <2>1. i \in Nat
    OBVIOUS
  <2> HIDE DEF N
  <2> QED
    BY <1>3, <1>5, <2>1, EveryNumber
<1>7. i <= n
  BY DEF n
<1> QED
  BY <1>6, <1>7 DEF p

\* In a tidy text of straight quotes, what is between two that belong together
\* is what an odd number of them comes before.
LEMMA StraightIsBetween ==
    ASSUME NEW t \in Seq(Quotes), TidyStraight(t), NEW i \in 1..Len(t), t[i] # "quote"
    PROVE  i \in StraightQuoted(t) <=> CountBefore(t, i, "quote") % 2 = 1
<1> DEFINE n == Len(t)
           x == CountBefore(t, i, "quote")
           y == CountBefore(t, i + 1, "quote")
           z == CountBefore(t, n + 1, "quote")
<1>1. i \in DOMAIN t \ Where(t, {"quote"}) /\ DOMAIN t = 1..n /\ n \in Nat
  BY DEF Where
<1>2. x = y /\ y \in Nat
  <2>1. i \in Nat \ {0}
    OBVIOUS
  <2>2. x \in Nat /\ y = x + (IF t[i] = "quote" THEN 1 ELSE 0)
    BY ONLY <2>1, CountStep
  <2> HIDE DEF x, y
  <2> QED
    BY <2>2
<1>3. z % 2 = 0
  <2> DEFINE B == {k \in 1..n : t[k] = "quote"}
  <2>1. z = Cardinality(B)
    <3>1. n + 1 - 1 = n
      BY <1>1
    <3> QED
      BY <3>1 DEF CountBefore
  <2>2. Where(t, {"quote"}) = B
    BY <1>1 DEF Where
  <2>3. Cardinality(Where(t, {"quote"})) % 2 = 0
    BY DEF TidyStraight
  <2> HIDE DEF z, B
  <2> QED
    BY <2>1, <2>2, <2>3
<1>4. Pending(t)[i] # 0 <=> y % 2 = 1
  BY PendingIsOdd, <1>1
<1>5. y % 2 = 1 => \E k \in DOMAIN t : i < k /\ t[k] = "quote"
  <2> SUFFICES ASSUME y % 2 = 1, \A k \in i+1..n : t[k] # "quote" PROVE FALSE
    BY <1>1
  <2> DEFINE a == i + 1
             b == n + 1
  <2>1. a \in Nat \ {0} /\ b \in Nat /\ a <= b /\ \A k \in a..b-1 : t[k] # "quote"
    BY <1>1
  <2> HIDE DEF a, b
  <2>2. CountBefore(t, b, "quote") = CountBefore(t, a, "quote")
    BY ONLY <2>1, CountStays
  <2>3. z = y
    BY <2>2 DEF a, b
  <2> QED
    BY <1>3, <2>3
<1>6. i \in StraightQuoted(t)
          <=> Pending(t)[i] # 0 /\ \E k \in DOMAIN t : i < k /\ t[k] = "quote"
  BY <1>1 DEF StraightQuoted
<1> HIDE DEF x, y, z
<1> QED
  BY <1>2, <1>4, <1>5, <1>6 DEF x

Mark == {"open", "close"}

\* In a tidy text of angle quotes, what is between two that belong together is
\* what more opening than closing ones come before.
LEMMA AngleIsBetween ==
    ASSUME NEW t \in Seq(Quotes), TidyAngle(t), NEW i \in 1..Len(t)
    PROVE  i \in AngleQuoted(t)
               <=> t[i] \notin Mark /\ CountBefore(t, i, "open") > CountBefore(t, i, "close")
<1> DEFINE n == Len(t)
           Depth(j) == CountBefore(t, j, "open") - CountBefore(t, j, "close")
<1>1. n \in Nat /\ DOMAIN t = 1..n
  OBVIOUS
<1>2. /\ \A j \in 1..n+1 : Depth(j) \in 0..1
      /\ Depth(n + 1) = 0
  <2>1. n + 1 \in Nat \ {0}
    BY <1>1
  <2>2. CountBefore(t, n + 1, "open") \in Nat /\ CountBefore(t, n + 1, "close") \in Nat
    BY ONLY <2>1, CountStep
  <2> QED
    BY <2>2 DEF TidyAngle
<1>3. \A j \in 1..n : Depth(j + 1) = Depth(j) + (IF t[j] = "open" THEN 1
                                               ELSE IF t[j] = "close" THEN -1 ELSE 0)
  <2> TAKE j \in 1..n
  <2>1. j \in Nat \ {0}
    OBVIOUS
  <2> DEFINE a == CountBefore(t, j, "open")
             b == CountBefore(t, j, "close")
             c == CountBefore(t, j + 1, "open")
             d == CountBefore(t, j + 1, "close")
  <2>2. /\ a \in Nat /\ b \in Nat
        /\ c = a + (IF t[j] = "open" THEN 1 ELSE 0)
        /\ d = b + (IF t[j] = "close" THEN 1 ELSE 0)
    BY ONLY <2>1, CountStep
  <2> HIDE DEF a, b, c, d
  <2>3. c - d = a - b + (IF t[j] = "open" THEN 1 ELSE IF t[j] = "close" THEN -1 ELSE 0)
    BY <2>2
  <2> QED
    BY <2>3 DEF a, b, c, d
<1>4. ASSUME NEW j \in Nat \ {0}, NEW k \in Nat, j <= k, \A m \in j..k-1 : t[m] \notin Mark
      PROVE  Depth(k) = Depth(j)
  <2>1. \A m \in j..k-1 : t[m] # "open" /\ t[m] # "close"
    BY <1>4 DEF Mark
  <2>2. CountBefore(t, k, "open") = CountBefore(t, j, "open")
    BY ONLY <1>4, <2>1, CountStays
  <2>3. CountBefore(t, k, "close") = CountBefore(t, j, "close")
    BY ONLY <1>4, <2>1, CountStays
  <2> QED
    BY <2>2, <2>3
<1>5. Depth(1) = 0
  BY CountStep
<1>6. CountBefore(t, i, "open") > CountBefore(t, i, "close") <=> Depth(i) = 1
  <2>1. i \in Nat \ {0} /\ i \in 1..n+1
    OBVIOUS
  <2>2. CountBefore(t, i, "open") \in Nat /\ CountBefore(t, i, "close") \in Nat
    BY ONLY <2>1, CountStep
  <2>3. Depth(i) \in 0..1
    BY <1>2, <2>1
  <2> QED
    BY <2>2, <2>3
<1> HIDE DEF Depth, n
<1>7. ASSUME i \in AngleQuoted(t) PROVE t[i] \notin Mark /\ Depth(i) = 1
  <2>1. PICK p \in 1..n, q \in 1..n :
            /\ p < i /\ i < q /\ t[p] = "open"
            /\ \A k \in p+1..q-1 : t[k] \notin Mark
    BY <1>1, <1>7 DEF AngleQuoted, Mark
  <2>2. Depth(p + 1) = 1
    BY <1>1, <1>2, <1>3, <2>1
  <2>3. Depth(i) = Depth(p + 1)
    <3> DEFINE a == p + 1
    <3>1. a \in Nat \ {0} /\ i \in Nat /\ a <= i /\ \A k \in a..i-1 : t[k] \notin Mark
      BY <1>1, <2>1
    <3> HIDE DEF a
    <3>2. Depth(i) = Depth(a)
      BY <1>4, <3>1
    <3> QED
      BY <3>2 DEF a
  <2> QED
    BY <2>1, <2>2, <2>3
<1>8. ASSUME t[i] \notin Mark, Depth(i) = 1 PROVE i \in AngleQuoted(t)
  <2>1. \E p \in 1..i-1 : t[p] = "open" /\ \A k \in p+1..i-1 : t[k] \notin Mark
    <3> DEFINE T == {m \in Nat : m >= 1 /\ m < i /\ t[i - m] \in Mark}
    <3>1. T # {}
      <4> SUFFICES ASSUME T = {} PROVE FALSE
        OBVIOUS
      <4>1. \A k \in 1..i-1 : t[k] \notin Mark
        <5> TAKE k \in 1..i-1
        <5>1. i - k \in Nat /\ i - k >= 1 /\ i - k < i /\ i - (i - k) = k
          OBVIOUS
        <5> QED
          BY <5>1
      <4>2. 1 \in Nat \ {0} /\ i \in Nat /\ 1 <= i
        OBVIOUS
      <4>3. Depth(i) = Depth(1)
        BY <1>4, <4>1, <4>2
      <4> QED
        BY <1>5, <1>8, <4>3
    <3>2. PICK m \in T : \A k \in T : m <= k
      <4>1. T \subseteq Nat
        OBVIOUS
      <4> HIDE DEF T
      <4> QED
        BY <3>1, <4>1, LeastNumber
    <3> DEFINE p == i - m
    <3>3. p \in 1..i-1 /\ p \in 1..n /\ p \in 1..n+1 /\ t[p] \in Mark
      BY <1>1, <3>2 DEF n
    <3>4. \A k \in p+1..i-1 : t[k] \notin Mark
      <4> SUFFICES ASSUME NEW k \in p+1..i-1, t[k] \in Mark PROVE FALSE
        OBVIOUS
      <4>1. i - k \in Nat /\ i - k >= 1 /\ i - k < i /\ i - (i - k) = k /\ i - k < m
        BY <3>2
      <4>2. i - k \in T
        BY <4>1
      <4> QED
        BY <3>2, <4>1, <4>2
    <3> HIDE DEF p, T
    <3>5. Depth(p + 1) = 1
      <4> DEFINE a == p + 1
      <4>1. a \in Nat \ {0} /\ i \in Nat /\ a <= i /\ \A k \in a..i-1 : t[k] \notin Mark
        BY <3>3, <3>4
      <4> HIDE DEF a
      <4>2. Depth(i) = Depth(a)
        BY <1>4, <4>1
      <4> QED
        BY <1>8, <4>2 DEF a
    <3>6. t[p] = "open"
      <4> SUFFICES ASSUME t[p] # "open" PROVE FALSE
        OBVIOUS
      <4>1. t[p] = "close"
        BY <3>3 DEF Mark
      <4>2. Depth(p + 1) = Depth(p) + -1 /\ Depth(p) \in 0..1
        BY <1>2, <1>3, <3>3, <4>1
      <4> QED
        BY <3>5, <4>2
    <3> QED
      BY <3>3, <3>4, <3>6
  <2>2. \E q \in i+1..n : t[q] = "close" /\ \A k \in i+1..q-1 : t[k] \notin Mark
    <3> DEFINE T == {m \in Nat : i <= m /\ m <= n /\ t[m] \in Mark}
    <3>1. T # {}
      <4> SUFFICES ASSUME T = {} PROVE FALSE
        OBVIOUS
      <4> DEFINE b == n + 1
      <4>1. i \in Nat \ {0} /\ b \in Nat /\ i <= b /\ \A k \in i..b-1 : t[k] \notin Mark
        BY <1>1 DEF n
      <4> HIDE DEF b
      <4>2. Depth(b) = Depth(i)
        BY <1>4, <4>1
      <4> QED
        BY <1>2, <1>8, <4>2 DEF b
    <3>2. PICK q \in T : \A k \in T : q <= k
      <4>1. T \subseteq Nat
        OBVIOUS
      <4> HIDE DEF T
      <4> QED
        BY <3>1, <4>1, LeastNumber
    <3>3. q \in i+1..n /\ t[q] \in Mark
      BY <1>1, <1>8, <3>2
    <3>4. \A k \in i..q-1 : t[k] \notin Mark
      BY <1>1, <3>2
    <3>5. Depth(q) = 1
      <4>1. i \in Nat \ {0} /\ q \in Nat /\ i <= q
        BY <3>3
      <4> QED
        BY <1>4, <1>8, <3>4, <4>1
    <3>6. t[q] = "close"
      <4> SUFFICES ASSUME t[q] # "close" PROVE FALSE
        OBVIOUS
      <4>1. t[q] = "open"
        BY <3>3 DEF Mark
      <4>2. q \in 1..n /\ q + 1 \in 1..n+1
        BY <1>1, <3>3
      <4>3. Depth(q + 1) = Depth(q) + 1 /\ Depth(q + 1) \in 0..1
        BY <1>2, <1>3, <4>1, <4>2
      <4> QED
        BY <3>5, <4>3
    <3> QED
      BY <3>3, <3>4, <3>6
  <2>3. PICK p \in 1..i-1 : t[p] = "open" /\ \A k \in p+1..i-1 : t[k] \notin Mark
    BY <2>1
  <2>4. PICK q \in i+1..n : t[q] = "close" /\ \A k \in i+1..q-1 : t[k] \notin Mark
    BY <2>2
  <2>5. \A k \in p+1..q-1 : t[k] \notin {"open", "close"}
    <3> TAKE k \in p+1..q-1
    <3>1. k \in p+1..i-1 \/ k = i \/ k \in i+1..q-1
      BY <1>1, <2>3, <2>4
    <3> QED
      BY <1>8, <2>3, <2>4, <3>1 DEF Mark
  <2>6. p \in DOMAIN t /\ q \in DOMAIN t /\ i \in DOMAIN t /\ p < i /\ i < q
    BY <1>1, <2>3, <2>4 DEF n
  <2> QED
    BY <2>3, <2>4, <2>5, <2>6 DEF AngleQuoted
<1> QED
  BY <1>6, <1>7, <1>8

\* In a text that keeps to one style of quotes the cited share is that of the
\* letters between the marks of a citation, whatever the length of the text
\* (StyleService.computeCitedPct).
THEOREM CitedIsCounted == Spec => []CitedIsBetweenTheMarks
<1>1. ASSUME Shape PROVE CitedIsBetweenTheMarks
  <2> SUFFICES ASSUME subject = "quotes", TidyStraight(input) \/ TidyAngle(input)
               PROVE  CitedIsBetweenTheMarks
    BY DEF CitedIsBetweenTheMarks
  <2> DEFINE t == input
             A == AngleQuoted(t) \intersect NonBlank(t)
             S == StraightQuoted(t) \intersect NonBlank(t)
             C == {i \in NonBlank(t) \ Where(t, {"open", "close", "quote"}) :
                      \/ CountBefore(t, i, "quote") % 2 = 1
                      \/ CountBefore(t, i, "open") > CountBefore(t, i, "close")}
  <2>1. t \in Seq(Quotes) /\ DOMAIN t = 1..Len(t)
    BY <1>1 DEF Shape
  <2>2. IsFiniteSet(DOMAIN t)
    BY <2>1, FS_Interval
  <2>3. C \in SUBSET DOMAIN t
    BY DEF NonBlank
  <2>4. Cardinality(C) \in Nat /\ Cardinality({}) = 0
    BY <2>2, <2>3, FS_Subset, FS_CardinalityType, FS_EmptySet
  <2>5. \A i \in NonBlank(t) : i \in 1..Len(t)
    BY <2>1 DEF NonBlank
  <2>6. CASE TidyStraight(t)
    <3>1. \A i \in 1..Len(t) : t[i] # "open" /\ t[i] # "close"
      BY <2>1, <2>6 DEF TidyStraight, Where
    <3>2. A = {}
      BY <2>1, <3>1 DEF AngleQuoted
    <3>3. Where(t, {"open"}) = {} /\ Where(t, {"close"}) = {}
      BY <2>1, <3>1 DEF Where
    <3>4. \A i \in 1..Len(t) : ~(CountBefore(t, i, "open") > CountBefore(t, i, "close"))
      <4> TAKE i \in 1..Len(t)
      <4>1. i \in 1..Len(t)+1
        BY <2>1
      <4>2. CountBefore(t, i, "open") = 0 /\ CountBefore(t, i, "close") = 0
        BY <2>1, <3>3, <4>1, CountOfNone
      <4> QED
        BY <4>2
    <3>5. ASSUME NEW i \in NonBlank(t) PROVE i \in S <=> i \in C
      <4>1. CASE t[i] = "quote"
        <5>1. i \in Where(t, {"quote"}) /\ i \in Where(t, {"open", "close", "quote"})
          BY <2>1, <2>5, <4>1 DEF Where
        <5> QED
          BY <5>1 DEF StraightQuoted
      <4>2. CASE t[i] # "quote"
        <5>1. i \notin Where(t, {"open", "close", "quote"})
          BY <2>5, <3>1, <4>2 DEF Where
        <5>2. i \in StraightQuoted(t) <=> CountBefore(t, i, "quote") % 2 = 1
          BY <2>1, <2>5, <2>6, <4>2, StraightIsBetween
        <5> QED
          BY <2>5, <3>4, <5>1, <5>2
      <4> QED
        BY <4>1, <4>2
    <3>6. S = C
      BY <3>5
    <3> HIDE DEF A, S, C
    <3>7. Cardinality(A) + Cardinality(S) = Cardinality(C)
      BY <2>4, <3>2, <3>6
    <3> QED
      BY <3>7 DEF CitedIsBetweenTheMarks, CitedPct, A, S, C
  <2>7. CASE TidyAngle(t)
    <3>1. \A i \in 1..Len(t) : t[i] # "quote"
      BY <2>1, <2>7 DEF TidyAngle, Where
    <3>2. S = {}
      BY <2>1, <3>1 DEF StraightQuoted
    <3>3. Where(t, {"quote"}) = {}
      BY <2>7 DEF TidyAngle
    <3>4. \A i \in 1..Len(t) : ~(CountBefore(t, i, "quote") % 2 = 1)
      <4> TAKE i \in 1..Len(t)
      <4>1. i \in 1..Len(t)+1
        BY <2>1
      <4>2. CountBefore(t, i, "quote") = 0
        BY <2>1, <3>3, <4>1, CountOfNone
      <4> QED
        BY <4>2
    <3>5. ASSUME NEW i \in NonBlank(t) PROVE i \in A <=> i \in C
      <4>1. i \in AngleQuoted(t)
                <=> t[i] \notin Mark /\ CountBefore(t, i, "open") > CountBefore(t, i, "close")
        BY <2>1, <2>5, <2>7, AngleIsBetween
      <4>2. i \in Where(t, {"open", "close", "quote"}) <=> t[i] \in Mark
        BY <2>1, <2>5, <3>1 DEF Where, Mark
      <4> QED
        BY <2>5, <3>4, <4>1, <4>2
    <3>6. A = C
      BY <3>5
    <3> HIDE DEF A, S, C
    <3>7. Cardinality(A) + Cardinality(S) = Cardinality(C)
      BY <2>4, <3>2, <3>6
    <3> QED
      BY <3>7 DEF CitedIsBetweenTheMarks, CitedPct, A, S, C
  <2> QED
    BY <2>6, <2>7
<1> QED
  BY <1>1, ShapeHolds, PTL

-----------------------------------------------------------------------------
(* A text twice in a row: sets, sums and quotients                          *)

\* What holds at twice as many positions, in both copies alike, holds twice as
\* often.
LEMMA TwiceAsOften ==
    ASSUME NEW k \in Nat, NEW A \in SUBSET (1..k), NEW B \in SUBSET (1..2 * k),
           \A i \in 1..k : (i \in B <=> i \in A) /\ (i + k \in B <=> i \in A)
    PROVE  /\ IsFiniteSet(A) /\ Cardinality(A) \in Nat
           /\ IsFiniteSet(B) /\ Cardinality(B) = 2 * Cardinality(A)
<1> DEFINE C == {j \in B : j > k}
           f == [i \in A |-> i + k]
<1>1. IsFiniteSet(A) /\ Cardinality(A) \in Nat
  <2>1. IsFiniteSet(1..k)
    BY FS_Interval
  <2> QED
    BY <2>1, FS_Subset, FS_CardinalityType
<1>2. B = A \union C /\ A \intersect C = {}
  <2>1. \A i \in A : i \in 1..k /\ i \in B /\ ~(i > k)
    OBVIOUS
  <2>2. \A j \in B : j \in A \/ j > k
    <3> TAKE j \in B
    <3>1. CASE j > k
      BY <3>1
    <3>2. CASE j \in 1..k
      BY <3>2
    <3> QED
      BY <3>1, <3>2
  <2> QED
    BY <2>1, <2>2
<1>3. ExistsBijection(A, C)
  <2>1. \A i \in A : f[i] \in C
    OBVIOUS
  <2>2. \A i, j \in A : f[i] = f[j] => i = j
    OBVIOUS
  <2>3. \A j \in C : \E i \in A : f[i] = j
    <3> TAKE j \in C
    <3>1. j - k \in 1..k /\ (j - k) + k = j
      OBVIOUS
    <3>2. j - k \in A
      BY <3>1
    <3> QED
      BY <3>1, <3>2
  <2>4. f \in [A -> C]
    BY <2>1
  <2> HIDE DEF f, C
  <2>5. f \in Bijection(A, C)
    BY <2>2, <2>3, <2>4 DEF Bijection, Injection, Surjection, IsInjective
  <2> QED
    BY <2>5 DEF ExistsBijection
<1> HIDE DEF C
<1>4. IsFiniteSet(C) /\ Cardinality(C) = Cardinality(A)
  BY ONLY <1>1, <1>3, FS_Bijection
<1>5. /\ IsFiniteSet(A \union C)
      /\ Cardinality(A \union C) = Cardinality(A) + Cardinality(C) - Cardinality(A \intersect C)
  BY ONLY <1>1, <1>4, FS_Union
<1> QED
  BY <1>1, <1>2, <1>4, <1>5, FS_EmptySet

\* A sum over both copies is twice the sum over one.
LEMMA TwiceTheSum ==
    ASSUME NEW k \in Nat, NEW f, NEW g,
           \A i \in 1..k : f[i] \in Int /\ g[i] = f[i] /\ g[i + k] = f[i]
    PROVE  /\ SumFunctionOnSet(f, 1..k) \in Int
           /\ SumFunctionOnSet(g, 1..2 * k) = 2 * SumFunctionOnSet(f, 1..k)
<1> DEFINE A == 1..k
           C == k+1..2*k
           b == [i \in A |-> i + k]
<1>1. IsFiniteSet(A) /\ IsFiniteSet(C)
  BY FS_Interval
<1>2. A \union C = 1..2 * k /\ A \intersect C = {}
  OBVIOUS
<1>3. \A i \in A : f[i] \in Int /\ g[i] \in Int /\ g[i] = f[i]
  OBVIOUS
<1>4. /\ b \in [A -> C] /\ \A i, j \in A : b[i] = b[j] => i = j
      /\ \A j \in C : \E i \in A : b[i] = j
  <2>1. b \in [A -> C] /\ \A i, j \in A : b[i] = b[j] => i = j
    OBVIOUS
  <2>2. \A j \in C : j - k \in A /\ b[j - k] = j
    OBVIOUS
  <2> QED
    BY <2>1, <2>2
<1>5. \A i \in A : g[b[i]] \in Int /\ f[i] = g[b[i]]
  OBVIOUS
<1>6. \A j \in C : g[j] \in Int
  BY <1>4, <1>5
<1> HIDE DEF A, C, b
<1>7. SumFunctionOnSet(g, C) = SumFunctionOnSet(f, A)
  BY ONLY <1>1, <1>4, <1>5, SumReindexed
<1>8. SumFunctionOnSet(g, A) = SumFunctionOnSet(f, A)
  BY ONLY <1>1, <1>3, SumOfSame
<1>9. SumFunctionOnSet(f, A) \in Int
  BY ONLY <1>1, <1>3, SumIsInt
<1>10. SumFunctionOnSet(g, A \union C) = SumFunctionOnSet(g, A) + SumFunctionOnSet(g, C)
  <2>1. \A j \in A \union C : g[j] \in Int
    BY <1>3, <1>6
  <2> QED
    BY ONLY <1>1, <1>2, <2>1, SumOfParts
<1>11. SumFunctionOnSet(g, A \union C) = 2 * SumFunctionOnSet(f, A)
  BY <1>7, <1>8, <1>9, <1>10
<1> QED
  BY <1>2, <1>9, <1>11 DEF A

\* A larger dividend has no smaller quotient.
LEMMA QuotientGrows ==
    ASSUME NEW a \in Int, NEW b \in Int, a <= b, NEW c \in Nat \ {0}
    PROVE  a \div c <= b \div c /\ a \div c \in Int /\ b \div c \in Int
<1> DEFINE p == a \div c
           q == b \div c
<1>1. p \in Int /\ c * p <= a
  BY Quotient
<1>2. q \in Int /\ b < c * q + c
  BY Quotient
<1> HIDE DEF p, q
<1>3. p >= q + 1 => c * p >= c * q + c
  BY <1>1, <1>2
<1>4. c * p \in Int /\ c * q \in Int
  BY <1>1, <1>2
<1>5. p <= q
  BY <1>1, <1>2, <1>3, <1>4
<1> QED
  BY <1>1, <1>2, <1>5 DEF p, q

\* A quotient does not change when both its parts are multiplied.
LEMMA QuotientCancels ==
    ASSUME NEW a \in Int, NEW b \in Nat \ {0}, NEW m \in Nat \ {0},
           NEW c, c = m * a, NEW d, d = m * b
    PROVE  c \div d = a \div b
<1> DEFINE q == a \div b
<1>1. q \in Int /\ b * q <= a /\ a < b * q + b
  BY Quotient
<1> HIDE DEF q
<1>2. c \in Int /\ d \in Nat \ {0}
  OBVIOUS
<1>3. q * d <= c
  <2>1. b * q \in Int /\ q * d = m * (b * q)
    BY <1>1
  <2>2. m * (b * q) <= m * a
    BY <1>1, <2>1
  <2> QED
    BY <2>1, <2>2
<1>4. c < (q + 1) * d
  <2> DEFINE e == b * q + b
  <2>1. e \in Int /\ a < e /\ (q + 1) * d = m * e
    BY <1>1
  <2> HIDE DEF e
  <2>2. m * a < m * e
    BY <2>1
  <2> QED
    BY <2>1, <2>2
<1>5. c \div d \in Int /\ q <= c \div d /\ c \div d <= q
  BY ONLY <1>1, <1>2, <1>3, <1>4, QuotientBetween
<1> QED
  BY <1>1, <1>5 DEF q

\* Twice the part of twice the whole is the same share.
LEMMA ShareOfTwice ==
    ASSUME NEW m \in Int, NEW n \in Nat
    PROVE  Share(2 * m, 2 * n) = Share(m, n)
<1>1. CASE n = 0
  BY <1>1 DEF Share
<1>2. CASE n > 0
  <2> DEFINE a == 2000 * m + n
             b == 2 * n
             c == 2000 * (2 * m) + 2 * n
             d == 2 * (2 * n)
  <2>1. a \in Int /\ b \in Nat \ {0} /\ 2 \in Nat \ {0} /\ c = 2 * a /\ d = 2 * b
    BY <1>2
  <2> HIDE DEF a, b, c, d
  <2>2. c \div d = a \div b
    BY ONLY <2>1, QuotientCancels
  <2> QED
    BY <1>2, <2>2 DEF Share, a, b, c, d
<1> QED
  BY <1>1, <1>2

-----------------------------------------------------------------------------
(* A text twice in a row: its words                                         *)

Text == Seq(Seq(Word))

\* Words joins the sentences one by one.
Joins(ss, joined) ==
    /\ joined[0] = <<>>
    /\ \A i \in 0..Len(ss)-1 : joined[i + 1] = joined[i] \o ss[i + 1]
    /\ \A i \in 0..Len(ss) : joined[i] \in Seq(Word)
    /\ Words(ss) = joined[Len(ss)]

\* The recursion of Words.
LEMMA WordsAreJoined == ASSUME NEW ss \in Text PROVE \E joined : Joins(ss, joined)
<1> DEFINE n == Len(ss)
           V == Seq(Word)
           next == [i \in 1..n |-> [w \in V |-> w \o ss[i]]]
           Is(g) == g = [i \in 0..n |-> IF i = 0 THEN <<>> ELSE g[i - 1] \o ss[i]]
           joined == CHOOSE g : Is(g)
<1>1. n \in Nat /\ (\A i \in 1..n : ss[i] \in V) /\ <<>> \in V
  BY DEF Text
<1>2. \E g : Is(g)
  <2>1. <<>> \in V
    OBVIOUS
  <2>2. \A i \in 1..n, w \in V : w \o ss[i] \in V
    BY <1>1
  <2>3. next \in StepsOn(n, V) /\ \A i \in 1..n, w \in V : next[i][w] = w \o ss[i]
    BY <2>2 DEF StepsOn
  <2> HIDE DEF next, n, V
  <2>4. Runs(n, V, <<>>, next) # {}
    BY ONLY <1>1, <2>1, <2>3, RecursionExists
  <2>5. PICK g \in [0..n -> V] : g[0] = <<>> /\ \A i \in 1..n : g[i] = next[i][g[i - 1]]
    BY <2>4 DEF Runs
  <2>6. \A i \in 1..n : g[i] = g[i - 1] \o ss[i]
    <3> TAKE i \in 1..n
    <3>1. g[i - 1] \in V
      BY <1>1
    <3> QED
      BY <2>3, <2>5, <3>1
  <2> DEFINE h == [i \in 0..n |-> IF i = 0 THEN <<>> ELSE g[i - 1] \o ss[i]]
  <2>7. g = h
    <3>1. \A i \in 0..n : g[i] = h[i]
      <4> TAKE i \in 0..n
      <4>1. CASE i = 0
        BY <2>5, <4>1
      <4>2. CASE i # 0
        <5>1. i \in 1..n
          BY <1>1, <4>2
        <5>2. h[i] = g[i - 1] \o ss[i]
          BY <4>2
        <5> QED
          BY <2>6, <5>1, <5>2, Zenon
      <4> QED
        BY <4>1, <4>2
    <3>2. DOMAIN h = 0..n /\ h = [i \in 0..n |-> h[i]]
      OBVIOUS
    <3>3. g = [i \in 0..n |-> g[i]]
      OBVIOUS
    <3> HIDE DEF h
    <3> QED
      BY <3>1, <3>2, <3>3
  <2>8. Is(g)
    BY <2>7
  <2> QED
    BY <2>8
<1>3. Is(joined)
  <2> HIDE DEF Is
  <2> QED
    BY <1>2
<1>4. Words(ss) = joined[n]
  BY DEF Words
<1> HIDE DEF joined, n, V
<1>5. joined = [i \in 0..n |-> IF i = 0 THEN <<>> ELSE joined[i - 1] \o ss[i]]
  BY <1>3
<1>6. 0 \in 0..n /\ \A i \in 1..n : i \in 0..n /\ i # 0
  BY <1>1
<1>7. joined[0] = <<>> /\ \A i \in 0..n-1 : joined[i + 1] = joined[i] \o ss[i + 1]
  <2>1. joined[0] = <<>> /\ \A i \in 1..n : joined[i] = joined[i - 1] \o ss[i]
    BY <1>5, <1>6, Zenon
  <2>2. ASSUME NEW i \in 0..n-1 PROVE joined[i + 1] = joined[i] \o ss[i + 1]
    <3> DEFINE k == i + 1
    <3>1. k \in 1..n /\ k - 1 = i
      BY <1>1
    <3> HIDE DEF k
    <3>2. joined[k] = joined[i] \o ss[k]
      BY <2>1, <3>1
    <3> QED
      BY <3>2 DEF k
  <2> QED
    BY <2>1, <2>2
<1>8. \A i \in 0..n : joined[i] \in V
  <2> DEFINE N == {i \in Nat : i <= n => joined[i] \in V}
  <2>1. 0 \in N
    BY <1>1, <1>7
  <2>2. ASSUME NEW i \in Nat, i \in N PROVE i + 1 \in N
    <3> SUFFICES ASSUME i + 1 <= n PROVE joined[i + 1] \in V
      OBVIOUS
    <3>1. i + 1 \in 1..n /\ i \in 0..n-1 /\ joined[i] \in V
      BY <1>1, <2>2
    <3>2. joined[i + 1] = joined[i] \o ss[i + 1] /\ ss[i + 1] \in V
      BY <1>1, <1>7, <3>1, Zenon
    <3> QED
      BY <3>1, <3>2 DEF V
  <2> HIDE DEF N
  <2>3. Nat \subseteq N
    BY <2>1, <2>2, EveryNumber
  <2> QED
    BY <1>1, <2>3 DEF N
<1>9. Joins(ss, joined)
  BY <1>4, <1>7, <1>8 DEF Joins, n, V
<1> QED
  BY <1>9

\* A text twice in a row has its words twice in a row.
LEMMA WordsTwice ==
    ASSUME NEW ss \in Text
    PROVE  /\ Words(ss) \in Seq(Word)
           /\ Words(ss \o ss) = Words(ss) \o Words(ss)
<1> DEFINE n == Len(ss)
           tt == ss \o ss
           m == Len(tt)
<1>1. /\ n \in Nat /\ tt \in Text /\ m = n + n
      /\ \A i \in 1..n : tt[i] = ss[i] /\ tt[i + n] = ss[i] /\ ss[i] \in Seq(Word)
  BY DEF Text
<1>2. PICK a : Joins(ss, a)
  BY WordsAreJoined
<1> HIDE DEF m, tt
<1>3. PICK b : Joins(tt, b)
  BY <1>1, WordsAreJoined
<1>4. /\ a[0] = <<>> /\ Words(ss) = a[n] /\ b[0] = <<>> /\ Words(tt) = b[m]
      /\ \A i \in 0..n-1 : a[i + 1] = a[i] \o ss[i + 1]
      /\ \A i \in 0..m-1 : b[i + 1] = b[i] \o tt[i + 1]
      /\ \A i \in 0..n : a[i] \in Seq(Word)
  BY <1>2, <1>3, Zenon DEF Joins, m
<1> HIDE DEF n
<1>5. \A i \in 0..n : b[i] = a[i]
  <2> DEFINE N == {i \in Nat : i <= n => b[i] = a[i]}
  <2>1. 0 \in N
    BY <1>4
  <2>2. ASSUME NEW i \in Nat, i \in N PROVE i + 1 \in N
    <3> SUFFICES ASSUME i + 1 <= n PROVE b[i + 1] = a[i + 1]
      OBVIOUS
    <3>1. i + 1 \in 1..n /\ i \in 0..n-1 /\ i \in 0..m-1 /\ b[i] = a[i]
      BY <1>1, <2>2
    <3>2. a[i + 1] = a[i] \o ss[i + 1] /\ b[i + 1] = b[i] \o tt[i + 1]
      BY <1>4, <3>1, Zenon
    <3>3. tt[i + 1] = ss[i + 1]
      BY <1>1, <3>1, Zenon
    <3> QED
      BY <3>1, <3>2, <3>3
  <2> HIDE DEF N
  <2>3. Nat \subseteq N
    BY <2>1, <2>2, EveryNumber
  <2> QED
    BY <1>1, <2>3 DEF N
<1>6. \A i \in 0..n : b[n + i] = a[n] \o a[i]
  <2> DEFINE c == a[n]
             N == {i \in Nat : i <= n => b[n + i] = c \o a[i]}
  <2>1. 0 \in N
    <3>1. n + 0 = n /\ n \in 0..n /\ a[n] \in Seq(Word)
      BY <1>1, <1>4
    <3>2. a[n] \o <<>> = a[n]
      BY <3>1, ConcatEmptySeq
    <3> QED
      BY <1>4, <1>5, <3>1, <3>2
  <2>2. ASSUME NEW i \in Nat, i \in N PROVE i + 1 \in N
    <3> HIDE DEF c
    <3> SUFFICES ASSUME i + 1 <= n PROVE b[n + (i + 1)] = c \o a[i + 1]
      <4>1. i + 1 \in Nat
        OBVIOUS
      <4> QED
        BY <4>1, Zenon
    <3> USE DEF c
    <3> DEFINE j == n + i
    <3>1. i + 1 \in 1..n /\ i \in 0..n-1 /\ i \in 0..n /\ n \in 0..n
      BY <1>1
    <3>2. b[n + i] = c \o a[i]
      <4>1. i <= n
        BY <1>1
      <4> HIDE DEF c
      <4> QED
        BY <2>2, <4>1, Zenon
    <3>3. j \in 0..m-1 /\ j + 1 = (i + 1) + n /\ j + 1 = n + (i + 1)
      BY <1>1
    <3>4. tt[(i + 1) + n] = ss[i + 1] /\ ss[i + 1] \in Seq(Word)
      BY <1>1, <3>1, Zenon
    <3> HIDE DEF j
    <3>5. b[j + 1] = b[j] \o ss[i + 1]
      BY <1>4, <3>3, <3>4, Zenon
    <3>6. a[i + 1] = a[i] \o ss[i + 1]
      BY <1>4, <3>1, Zenon
    <3>7. c \in Seq(Word) /\ a[i] \in Seq(Word)
      BY <1>4, <3>1, Zenon
    <3> DEFINE d == a[i]
               e == ss[i + 1]
    <3>8. d \in Seq(Word) /\ e \in Seq(Word)
      BY <3>4, <3>7
    <3> HIDE DEF c, d, e
    <3>9. (c \o d) \o e = c \o (d \o e)
      BY ONLY <3>7, <3>8, ConcatAssociative
    <3>10. b[j + 1] = c \o a[i + 1]
      BY <3>2, <3>5, <3>6, <3>9, Zenon DEF d, e, j
    <3> QED
      BY <3>3, <3>10, Zenon
  <2> HIDE DEF N
  <2>3. Nat \subseteq N
    BY <2>1, <2>2, EveryNumber
  <2> TAKE i \in 0..n
  <2>4. i \in Nat /\ i <= n
    BY <1>1
  <2> QED
    BY <2>3, <2>4, Zenon DEF N
<1>7. n \in 0..n
  BY <1>1
<1>8. a[n] \in Seq(Word) /\ b[n + n] = a[n] \o a[n]
  BY <1>4, <1>6, <1>7, Zenon
<1> QED
  BY <1>1, <1>4, <1>8 DEF tt

\* What two copies of a sequence have at which position.
LEMMA CopiesOf ==
    ASSUME NEW S, NEW s \in Seq(S)
    PROVE  /\ Len(s) \in Nat /\ Len(s \o s) = 2 * Len(s)
           /\ DOMAIN s = 1..Len(s) /\ DOMAIN (s \o s) = 1..2 * Len(s)
           /\ \A i \in 1..Len(s) : (s \o s)[i] = s[i] /\ (s \o s)[i + Len(s)] = s[i]
OBVIOUS

\* Twice the sentences have what is counted in one copy twice as often: no
\* share of the sentences moves.
LEMMA ShareOfSentences ==
    ASSUME NEW ss \in Text, NEW P,
           NEW A, A = {i \in DOMAIN ss : ss[i] \in P},
           NEW B, B = {i \in DOMAIN (ss \o ss) : (ss \o ss)[i] \in P}
    PROVE  Share(Cardinality(B), Len(ss \o ss)) = Share(Cardinality(A), Len(ss))
<1> DEFINE n == Len(ss)
           tt == ss \o ss
<1>1. /\ n \in Nat /\ Len(tt) = 2 * n /\ DOMAIN ss = 1..n /\ DOMAIN tt = 1..2 * n
      /\ \A i \in 1..n : tt[i] = ss[i] /\ tt[i + n] = ss[i]
  BY CopiesOf DEF Text
<1> HIDE DEF n, tt
<1>2. /\ A \in SUBSET (1..n) /\ B \in SUBSET (1..2 * n)
      /\ \A i \in 1..n : (i \in B <=> i \in A) /\ (i + n \in B <=> i \in A)
  <2>1. A \in SUBSET (1..n) /\ B \in SUBSET (1..2 * n)
    BY <1>1 DEF tt
  <2>2. \A i \in 1..n : i \in 1..2 * n /\ i + n \in 1..2 * n
    BY <1>1
  <2> QED
    BY <1>1, <2>1, <2>2 DEF tt
<1>3. Cardinality(A) \in Nat /\ Cardinality(B) = 2 * Cardinality(A)
  BY ONLY <1>1, <1>2, TwiceAsOften
<1>4. Share(2 * Cardinality(A), 2 * n) = Share(Cardinality(A), n)
  BY ONLY <1>1, <1>3, ShareOfTwice
<1> QED
  BY <1>1, <1>3, <1>4 DEF n, tt

\* Each word occurs twice as often, and so do the words of a set.
LEMMA WordsTwiceAsOften ==
    ASSUME NEW ss \in Text, NEW S
    PROVE  /\ CountIn(ss, S) \in Nat /\ CountIn(ss \o ss, S) = 2 * CountIn(ss, S)
           /\ Len(Words(ss)) \in Nat /\ Len(Words(ss \o ss)) = 2 * Len(Words(ss))
<1> DEFINE w == Words(ss)
           ww == Words(ss \o ss)
           n == Len(w)
           A == {i \in DOMAIN w : w[i] \in S}
           B == {i \in DOMAIN ww : ww[i] \in S}
<1>1. w \in Seq(Word) /\ ww = w \o w
  BY WordsTwice
<1> HIDE DEF w, ww
<1>2. /\ n \in Nat /\ Len(ww) = 2 * n /\ DOMAIN w = 1..n /\ DOMAIN ww = 1..2 * n
      /\ \A i \in 1..n : ww[i] = w[i] /\ ww[i + n] = w[i]
  BY <1>1, CopiesOf
<1> HIDE DEF n
<1>3. /\ A \in SUBSET (1..n) /\ B \in SUBSET (1..2 * n)
      /\ \A i \in 1..n : (i \in B <=> i \in A) /\ (i + n \in B <=> i \in A)
  <2>1. \A i \in 1..n : i \in 1..2 * n /\ i + n \in 1..2 * n
    BY <1>2
  <2> QED
    BY <1>2, <2>1
<1> HIDE DEF A, B
<1>4. Cardinality(A) \in Nat /\ Cardinality(B) = 2 * Cardinality(A)
  BY ONLY <1>2, <1>3, TwiceAsOften
<1> QED
  BY <1>2, <1>4 DEF CountIn, A, B, n, w, ww

\* Shares of the sentences: long ones, passive ones, those with a phrase, those
\* with a chain of synonyms.
LEMMA SentenceSharesStay ==
    ASSUME NEW ss \in Text
    PROVE  /\ LongSentencesPct(ss \o ss) = LongSentencesPct(ss)
           /\ PassiveVoicePct(ss \o ss) = PassiveVoicePct(ss)
           /\ \A phrases : WithPhrasePct(ss \o ss, phrases) = WithPhrasePct(ss, phrases)
           /\ SynonymChainPct(ss \o ss) = SynonymChainPct(ss)
<1> DEFINE V == Seq(Word)
           tt == ss \o ss
<1>1. tt \in Text /\ (\A i \in DOMAIN ss : ss[i] \in V) /\ (\A i \in DOMAIN tt : tt[i] \in V)
  BY DEF Text
<1>2. LongSentencesPct(tt) = LongSentencesPct(ss)
  <2> DEFINE P == {s \in V : Len(s) > LongSentence}
             A == {i \in DOMAIN ss : Len(ss[i]) > LongSentence}
             B == {i \in DOMAIN tt : Len(tt[i]) > LongSentence}
  <2> HIDE DEF V, tt
  <2>1. A = {i \in DOMAIN ss : ss[i] \in P} /\ B = {i \in DOMAIN tt : tt[i] \in P}
    BY <1>1, Zenon
  <2> HIDE DEF A, B, P
  <2>2. Share(Cardinality(B), Len(tt)) = Share(Cardinality(A), Len(ss))
    BY ONLY <2>1, ss \in Text, ShareOfSentences DEF tt
  <2> QED
    BY <2>2, Zenon DEF LongSentencesPct, A, B
<1>3. PassiveVoicePct(tt) = PassiveVoicePct(ss)
  <2> DEFINE P == {s \in V : \E j \in DOMAIN s : s[j] \in Passive}
             A == {i \in DOMAIN ss : \E j \in DOMAIN ss[i] : ss[i][j] \in Passive}
             B == {i \in DOMAIN tt : \E j \in DOMAIN tt[i] : tt[i][j] \in Passive}
  <2> HIDE DEF V, tt
  <2>1. A = {i \in DOMAIN ss : ss[i] \in P} /\ B = {i \in DOMAIN tt : tt[i] \in P}
    BY <1>1, Zenon
  <2> HIDE DEF A, B, P
  <2>2. Share(Cardinality(B), Len(tt)) = Share(Cardinality(A), Len(ss))
    BY ONLY <2>1, ss \in Text, ShareOfSentences DEF tt
  <2> QED
    BY <2>2, Zenon DEF PassiveVoicePct, A, B
<1>4. ASSUME NEW phrases PROVE WithPhrasePct(tt, phrases) = WithPhrasePct(ss, phrases)
  <2> DEFINE P == {s \in V : \E c \in phrases : Contains(s, c)}
             A == {i \in DOMAIN ss : \E c \in phrases : Contains(ss[i], c)}
             B == {i \in DOMAIN tt : \E c \in phrases : Contains(tt[i], c)}
  <2> HIDE DEF V, tt
  <2>1. A = {i \in DOMAIN ss : ss[i] \in P} /\ B = {i \in DOMAIN tt : tt[i] \in P}
    BY <1>1, Zenon
  <2> HIDE DEF A, B, P
  <2>2. Share(Cardinality(B), Len(tt)) = Share(Cardinality(A), Len(ss))
    BY ONLY <2>1, ss \in Text, ShareOfSentences DEF tt
  <2> QED
    BY <2>2, Zenon DEF WithPhrasePct, A, B
<1>5. SynonymChainPct(tt) = SynonymChainPct(ss)
  <2> DEFINE P == {s \in V : \E j \in 1..Len(s) - 2 : s[j] \in Comma /\ s[j + 1] \in Comma}
             A == {i \in DOMAIN ss : \E j \in 1..Len(ss[i]) - 2 :
                      ss[i][j] \in Comma /\ ss[i][j + 1] \in Comma}
             B == {i \in DOMAIN tt : \E j \in 1..Len(tt[i]) - 2 :
                      tt[i][j] \in Comma /\ tt[i][j + 1] \in Comma}
  <2> HIDE DEF V, tt
  <2>1. A = {i \in DOMAIN ss : ss[i] \in P} /\ B = {i \in DOMAIN tt : tt[i] \in P}
    BY <1>1, Zenon
  <2> HIDE DEF A, B, P
  <2>2. Share(Cardinality(B), Len(tt)) = Share(Cardinality(A), Len(ss))
    BY ONLY <2>1, ss \in Text, ShareOfSentences DEF tt
  <2> QED
    BY <2>2, Zenon DEF SynonymChainPct, A, B
<1> QED
  BY <1>2, <1>3, <1>4, <1>5 DEF tt

\* Shares of the words: fillers, and the pronouns that are missing.
LEMMA WordSharesStay ==
    ASSUME NEW ss \in Text
    PROVE  /\ JunkWordsPct(ss \o ss) = JunkWordsPct(ss)
           /\ PersonalPronouns(ss \o ss) = PersonalPronouns(ss)
<1> DEFINE n == Len(Words(ss))
           nn == Len(Words(ss \o ss))
<1>1. n \in Nat /\ nn = 2 * n
  BY WordsTwiceAsOften
<1>2. JunkWordsPct(ss \o ss) = JunkWordsPct(ss)
  <2> DEFINE F == {w \in Word : <<w>> \in Fillers}
             c == CountIn(ss, F)
             cc == CountIn(ss \o ss, F)
  <2> HIDE DEF F
  <2>1. c \in Nat /\ cc = 2 * c
    BY WordsTwiceAsOften
  <2> HIDE DEF c, cc, n, nn
  <2>2. Share(cc, nn) = Share(c, n)
    BY ONLY <1>1, <2>1, ShareOfTwice
  <2> QED
    BY <2>2, Zenon DEF JunkWordsPct, F, c, cc, n, nn
<1>3. PersonalPronouns(ss \o ss) = PersonalPronouns(ss)
  <2> DEFINE c == CountIn(ss, Pronouns)
             cc == CountIn(ss \o ss, Pronouns)
             m == n - 20 * c
             mm == nn - 20 * cc
  <2>1. c \in Nat /\ cc = 2 * c
    BY WordsTwiceAsOften
  <2> HIDE DEF c, cc, n, nn
  <2>2. m \in Int /\ mm = 2 * m
    BY <1>1, <2>1
  <2>3. mm < 0 <=> m < 0
    BY <2>2
  <2> HIDE DEF m, mm
  <2>4. Share(mm, nn) = Share(m, n)
    BY ONLY <1>1, <2>2, ShareOfTwice
  <2>5. PersonalPronouns(ss) = IF m < 0 THEN 0 ELSE Share(m, n)
    BY DEF PersonalPronouns, m, c, n
  <2>6. PersonalPronouns(ss \o ss) = IF mm < 0 THEN 0 ELSE Share(mm, nn)
    BY DEF PersonalPronouns, mm, cc, nn
  <2> QED
    BY <2>3, <2>4, <2>5, <2>6
<1> QED
  BY <1>2, <1>3

\* Sentences are as long, on average.
LEMMA LengthsStay ==
    ASSUME NEW ss \in Text
    PROVE  AvgSentenceLength(ss \o ss) = AvgSentenceLength(ss)
<1> DEFINE n == Len(Words(ss))
           nn == Len(Words(ss \o ss))
           k == Len(ss)
           kk == Len(ss \o ss)
<1>1. n \in Nat /\ nn = 2 * n
  BY WordsTwiceAsOften
<1>2. k \in Nat /\ kk = 2 * k /\ (ss = <<>> <=> k = 0) /\ (ss \o ss = <<>> <=> k = 0)
  BY DEF Text
<1> HIDE DEF n, nn, k, kk
<1>3. CASE k = 0
  BY <1>2, <1>3 DEF AvgSentenceLength
<1>4. CASE k # 0
  <2> DEFINE a == 200 * n + k
             b == 2 * k
             c == 200 * nn + kk
             d == 2 * kk
  <2>1. a \in Int /\ b \in Nat \ {0} /\ 2 \in Nat \ {0} /\ c = 2 * a /\ d = 2 * b
    BY <1>1, <1>2, <1>4
  <2> HIDE DEF a, b, c, d
  <2>2. c \div d = a \div b
    BY ONLY <2>1, QuotientCancels
  <2> QED
    BY <1>2, <1>4, <2>2, Zenon DEF AvgSentenceLength, a, b, c, d, n, nn, k, kk
<1> QED
  BY <1>3, <1>4

\* Twice the words may fit on one page less than twice the pages.
LEMMA PagesAlmostDouble ==
    ASSUME NEW ss \in Text
    PROVE  2 * PageCount(ss) - PageCount(ss \o ss) \in {0, 1}
<1> DEFINE n == Len(Words(ss))
           nn == Len(Words(ss \o ss))
           a == n * WordLength
           q == (a - 1) \div PageNorm
           r == (nn * WordLength - 1) \div PageNorm
<1>1. /\ n \in Nat /\ nn = 2 * n
      /\ (Words(ss) = <<>> <=> n = 0) /\ (Words(ss \o ss) = <<>> <=> n = 0)
  <2>1. Words(ss) \in Seq(Word) /\ Words(ss \o ss) \in Seq(Word)
    <3> DEFINE w == Words(ss)
               ww == Words(ss \o ss)
    <3>1. w \in Seq(Word) /\ ww = w \o w
      BY WordsTwice
    <3> HIDE DEF w, ww
    <3>2. ww \in Seq(Word)
      BY ONLY <3>1, ConcatProperties
    <3> QED
      BY <3>1, <3>2 DEF w, ww
  <2>2. n \in Nat /\ nn = 2 * n
    BY WordsTwiceAsOften
  <2> QED
    BY <2>1, <2>2
<1> HIDE DEF n, nn
<1>2. CASE n = 0
  BY <1>1, <1>2 DEF PageCount
<1>3. CASE n # 0
  <2>1. a \in Nat /\ nn * WordLength = 2 * a /\ PageNorm \in Nat \ {0}
    BY <1>1, MeasureAssumption
  <2>2. q \in Int /\ PageNorm * q <= a - 1 /\ a - 1 < PageNorm * q + PageNorm
    <3> HIDE DEF a
    <3>1. a - 1 \in Int
      BY <2>1
    <3> QED
      BY ONLY <2>1, <3>1, Quotient
  <2> DEFINE b == 2 * a - 1
             lo == 2 * q
             hi == 2 * q + 1
  <2> HIDE DEF a, q
  <2>3. b \in Int /\ lo \in Int /\ hi \in Int
    BY <2>1, <2>2
  <2>4. lo * PageNorm <= b /\ b < (hi + 1) * PageNorm
    <3> DEFINE c == PageNorm * q
    <3>1. c \in Int /\ lo * PageNorm = 2 * c /\ (hi + 1) * PageNorm = 2 * c + 2 * PageNorm
      BY <2>1, <2>2
    <3>2. c <= a - 1 /\ a - 1 < c + PageNorm
      BY <2>2
    <3> HIDE DEF c, lo, hi
    <3> QED
      BY <2>1, <3>1, <3>2
  <2> HIDE DEF b, lo, hi
  <2>5. b \div PageNorm \in Int /\ lo <= b \div PageNorm /\ b \div PageNorm <= hi
    BY ONLY <2>1, <2>3, <2>4, QuotientBetween
  <2>6. r = b \div PageNorm
    BY <2>1 DEF b
  <2> HIDE DEF r
  <2>7. 2 * (q + 1) - (r + 1) \in {0, 1}
    BY <2>2, <2>5, <2>6 DEF lo, hi
  <2>8. PageCount(ss) = q + 1
    BY <1>1, <1>3, Zenon DEF PageCount, q, a, n
  <2>9. PageCount(ss \o ss) = r + 1
    BY <1>1, <1>3, Zenon DEF PageCount, r, nn
  <2> QED
    BY <2>7, <2>8, <2>9
<1> QED
  BY <1>2, <1>3

\* The words of both copies are the same.
LEMMA SameWords ==
    ASSUME NEW w, NEW ww, NEW n \in Nat,
           \A i \in 1..n : ww[i] = w[i] /\ ww[i + n] = w[i]
    PROVE  {ww[i] : i \in 1..2 * n} = {w[i] : i \in 1..n}
<1> DEFINE D == {w[i] : i \in 1..n}
           DD == {ww[i] : i \in 1..2 * n}
<1>1. D \subseteq DD
  OBVIOUS
<1>2. ASSUME NEW j \in 1..2 * n PROVE ww[j] \in D
  <2>1. CASE j <= n
    BY <2>1
  <2>2. CASE j > n
    <3> DEFINE i == j - n
    <3>1. i \in 1..n /\ i + n = j
      BY <2>2
    <3> HIDE DEF i
    <3> QED
      BY <3>1
  <2> QED
    BY <2>1, <2>2
<1> QED
  BY <1>1, <1>2

\* The words of both copies are the same ones: they are no more diverse.
LEMMA DiversityFalls ==
    ASSUME NEW ss \in Text
    PROVE  LexicalDiversity(ss \o ss) >= LexicalDiversity(ss)
<1> DEFINE w == Words(ss)
           ww == Words(ss \o ss)
           n == Len(w)
           nn == Len(ww)
           D == {w[i] : i \in 1..n}
           DD == {ww[i] : i \in 1..nn}
           d == Cardinality(D)
<1>1. w \in Seq(Word) /\ ww = w \o w
  BY WordsTwice
<1> HIDE DEF w, ww
<1>2. n \in Nat /\ nn = 2 * n /\ \A i \in 1..n : ww[i] = w[i] /\ ww[i + n] = w[i]
  BY <1>1, CopiesOf
<1> HIDE DEF n, nn
<1>3. DD = D
  <2>1. {ww[i] : i \in 1..2 * n} = D
    BY ONLY <1>2, SameWords
  <2> QED
    BY ONLY <1>2, <2>1
<1>4. d \in Nat
  <2>1. IsFiniteSet(1..n)
    BY <1>2, FS_Interval
  <2> DEFINE g == [i \in 1..n |-> w[i]]
  <2>2. g \in Surjection(1..n, D)
    BY DEF Surjection
  <2> HIDE DEF D, g
  <2>3. IsFiniteSet(D)
    BY ONLY <2>1, <2>2, FS_Surjection
  <2> QED
    BY <2>3, FS_CardinalityType
<1> HIDE DEF D, DD, d
<1>5. LexicalDiversity(ss) = Share(n - d, n) /\ LexicalDiversity(ss \o ss) = Share(nn - d, nn)
  BY <1>3, Zenon DEF LexicalDiversity, D, DD, d, n, nn, w, ww
<1>6. Share(nn - d, nn) >= Share(n - d, n)
  <2>1. CASE n = 0
    BY <1>2, <2>1 DEF Share
  <2>2. CASE n # 0
    <3> DEFINE a == 2000 * (2 * (n - d)) + 2 * n
               b == 2000 * (2 * n - d) + 2 * n
               c == 2 * (2 * n)
    <3>1. a \in Int /\ b \in Int /\ a <= b /\ c \in Nat \ {0}
      BY <1>2, <1>4, <2>2
    <3>2. Share(2 * (n - d), 2 * n) = a \div c /\ Share(nn - d, nn) = b \div c
      BY <1>2, <2>2 DEF Share
    <3> HIDE DEF a, b, c
    <3>3. a \div c <= b \div c /\ a \div c \in Int /\ b \div c \in Int
      BY ONLY <3>1, QuotientGrows
    <3> DEFINE m == n - d
    <3>4. m \in Int
      BY <1>2, <1>4
    <3>5. Share(2 * m, 2 * n) = Share(m, n)
      <4> HIDE DEF m
      <4> QED
        BY ONLY <1>2, <3>4, ShareOfTwice
    <3> QED
      BY <3>2, <3>3, <3>5
  <2> QED
    BY <2>1, <2>2
<1> QED
  BY <1>5, <1>6

\* Reading is as easy: every count in the formula doubles.
LEMMA ReadabilityStays ==
    ASSUME NEW ss \in Text
    PROVE  Readability(ss \o ss) = Readability(ss)
<1> DEFINE w == Words(ss)
           ww == Words(ss \o ss)
           n == Len(w)
           nn == Len(ww)
           k == Len(ss)
           kk == Len(ss \o ss)
           f == [i \in 1..n |-> IF Syllables[w[i]] = 0 THEN 1 ELSE Syllables[w[i]]]
           g == [i \in 1..nn |-> IF Syllables[ww[i]] = 0 THEN 1 ELSE Syllables[ww[i]]]
           s == Total(f, 1..n)
           t == Total(g, 1..nn)
<1>1. w \in Seq(Word) /\ ww = w \o w
  BY WordsTwice
<1>2. k \in Nat /\ kk = 2 * k
  BY DEF Text
<1> HIDE DEF w, ww
<1>3. /\ n \in Nat /\ nn = 2 * n
      /\ \A i \in 1..n : ww[i] = w[i] /\ ww[i + n] = w[i] /\ w[i] \in Word
  BY <1>1, CopiesOf
<1> HIDE DEF n, nn, k, kk
<1>4. n = 0 \/ k # 0
  <2>1. ASSUME k = 0 PROVE ss = <<>>
    BY <2>1 DEF k, Text
  <2>2. Words(<<>>) = <<>>
    <3>1. <<>> \in Text
      BY DEF Text
    <3>2. PICK joined : Joins(<<>>, joined)
      BY <3>1, WordsAreJoined
    <3> QED
      BY <3>2 DEF Joins
  <2>3. Len(<<>>) = 0
    OBVIOUS
  <2> QED
    BY <2>1, <2>2, <2>3 DEF n, w
<1>5. s \in Int /\ t = 2 * s
  <2>1. \A i \in 1..n : f[i] \in Int /\ g[i] = f[i] /\ g[i + n] = f[i]
    <3> TAKE i \in 1..n
    <3>1. i \in 1..nn /\ i + n \in 1..nn
      BY <1>3
    <3>2. Syllables[w[i]] \in Int
      BY <1>3, MeasureAssumption
    <3> QED
      BY <1>3, <3>1, <3>2
  <2> HIDE DEF f, g
  <2>2. /\ SumFunctionOnSet(f, 1..n) \in Int
        /\ SumFunctionOnSet(g, 1..2 * n) = 2 * SumFunctionOnSet(f, 1..n)
    BY ONLY <1>3, <2>1, TwiceTheSum
  <2> QED
    BY <1>3, <2>2 DEF Total
<1> HIDE DEF f, g, s, t
<1> DEFINE a == 206885 * n * k - 1300 * n * n - 60100 * s * k
           b == 100 * n * k
           c == 206885 * nn * kk - 1300 * nn * nn - 60100 * t * kk
           d == 100 * nn * kk
<1>6. Readability(ss) = IF n = 0 THEN 0 ELSE a \div b
  BY DEF Readability, a, b, s, f, n, k, w
<1>7. Readability(ss \o ss) = IF nn = 0 THEN 0 ELSE c \div d
  BY DEF Readability, c, d, t, g, nn, kk, ww
<1> HIDE DEF a, b, c, d
<1>8. CASE n # 0
  <2> DEFINE x == n * k
             y == n * n
             z == s * k
  <2>1. x \in Nat \ {0} /\ y \in Int /\ z \in Int
    <3>1. \A i, j \in Nat \ {0} : i * j \in Nat \ {0}
      OBVIOUS
    <3> QED
      BY <1>2, <1>3, <1>4, <1>5, <1>8, <3>1
  <2>2. nn * kk = 4 * x /\ nn * nn = 4 * y /\ t * kk = 4 * z
    BY <1>2, <1>3, <1>5
  <2>3. /\ a = 206885 * x - 1300 * y - 60100 * z /\ b = 100 * x
        /\ c = 206885 * (nn * kk) - 1300 * (nn * nn) - 60100 * (t * kk) /\ d = 100 * (nn * kk)
    BY <1>2, <1>3, <1>5 DEF a, b, c, d
  <2> HIDE DEF x, y, z
  <2>4. a \in Int /\ b \in Nat \ {0} /\ 4 \in Nat \ {0} /\ c = 4 * a /\ d = 4 * b
    BY <2>1, <2>2, <2>3
  <2>5. c \div d = a \div b
    BY ONLY <2>4, QuotientCancels
  <2>6. nn # 0
    BY <1>3, <1>8
  <2> QED
    BY <1>8, <1>6, <1>7, <2>5, <2>6, Zenon
<1>9. CASE n = 0
  <2>1. nn = 0
    BY <1>3, <1>9
  <2> QED
    BY <1>9, <1>6, <1>7, <2>1, Zenon
<1> QED
  BY <1>8, <1>9

\* The lengths of the sentences vary as much: the sums of the lengths and of
\* their squares double, and with them both terms of the spread.
LEMMA VariationStays ==
    ASSUME NEW ss \in Text, Len(ss) > 1
    PROVE  Variation(ss \o ss)[1] * Variation(ss)[2] = Variation(ss)[1] * Variation(ss \o ss)[2]
<1> DEFINE tt == ss \o ss
           n == Len(ss)
           nn == Len(tt)
           f == [i \in DOMAIN ss |-> Len(ss[i])]
           g == [i \in DOMAIN tt |-> Len(tt[i])]
           ff == [i \in DOMAIN ss |-> Len(ss[i]) * Len(ss[i])]
           gg == [i \in DOMAIN tt |-> Len(tt[i]) * Len(tt[i])]
           x == Total(f, DOMAIN ss)
           y == Total(g, DOMAIN tt)
           xx == Total(ff, DOMAIN ss)
           yy == Total(gg, DOMAIN tt)
<1>1. /\ n \in Nat /\ nn = 2 * n /\ DOMAIN ss = 1..n /\ DOMAIN tt = 1..2 * n
      /\ \A i \in 1..n : tt[i] = ss[i] /\ tt[i + n] = ss[i] /\ Len(ss[i]) \in Int
  <2>1. \A i \in 1..n : ss[i] \in Seq(Word)
    BY DEF Text
  <2>2. \A i \in 1..n : Len(ss[i]) \in Int
    <3> TAKE i \in 1..n
    <3> DEFINE s == ss[i]
    <3>1. s \in Seq(Word)
      BY <2>1
    <3> HIDE DEF s
    <3>2. Len(s) \in Nat
      BY <3>1
    <3> QED
      BY <3>2 DEF s
  <2> QED
    BY <2>2, CopiesOf DEF Text
<1>2. n > 1
  OBVIOUS
<1> HIDE DEF n, nn, tt
<1>3. \A i \in 1..n : i \in DOMAIN ss /\ i \in DOMAIN tt /\ i + n \in DOMAIN tt
  BY <1>1
<1>4. x \in Int /\ y = 2 * x
  <2>1. \A i \in 1..n : f[i] \in Int /\ g[i] = f[i] /\ g[i + n] = f[i]
    BY <1>1, <1>3
  <2> HIDE DEF f, g
  <2>2. /\ SumFunctionOnSet(f, 1..n) \in Int
        /\ SumFunctionOnSet(g, 1..2 * n) = 2 * SumFunctionOnSet(f, 1..n)
    BY ONLY <1>1, <2>1, TwiceTheSum
  <2> QED
    BY <1>1, <2>2 DEF Total
<1>5. xx \in Int /\ yy = 2 * xx
  <2>1. \A i \in 1..n : ff[i] \in Int /\ gg[i] = ff[i] /\ gg[i + n] = ff[i]
    <3>1. \A k \in Int : k * k \in Int
      OBVIOUS
    <3> QED
      BY <1>1, <1>3, <3>1
  <2> HIDE DEF ff, gg
  <2>2. /\ SumFunctionOnSet(ff, 1..n) \in Int
        /\ SumFunctionOnSet(gg, 1..2 * n) = 2 * SumFunctionOnSet(ff, 1..n)
    BY ONLY <1>1, <2>1, TwiceTheSum
  <2> QED
    BY <1>1, <2>2 DEF Total
<1> DEFINE a == n * xx - x * x
           b == x * x
           aa == nn * yy - y * y
           bb == y * y
<1>6. a \in Int /\ b \in Int /\ aa = 4 * a /\ bb = 4 * b
  <2>1. \A i, j \in Int : i * j \in Int /\ (2 * i) * (2 * j) = 4 * (i * j)
    OBVIOUS
  <2>2. n * xx \in Int /\ x * x \in Int /\ nn * yy = 4 * (n * xx) /\ y * y = 4 * (x * x)
    BY <1>1, <1>4, <1>5, <2>1
  <2> QED
    BY <2>2
<1>7. Variation(ss) = IF n < 2 \/ a >= b THEN <<1, 1>> ELSE <<a, b>>
  BY DEF Variation, a, b, x, xx, f, ff, n
<1>8. Variation(tt) = IF nn < 2 \/ aa >= bb THEN <<1, 1>> ELSE <<aa, bb>>
  BY DEF Variation, aa, bb, y, yy, g, gg, nn
<1> HIDE DEF a, b, aa, bb
<1>9. ~(n < 2) /\ ~(nn < 2)
  BY <1>1, <1>2
<1>10. CASE a >= b
  <2>1. aa >= bb
    BY <1>6, <1>10
  <2>2. Variation(ss) = <<1, 1>> /\ Variation(tt) = <<1, 1>>
    BY <1>7, <1>8, <1>10, <2>1, Zenon
  <2> QED
    BY <2>2 DEF tt
<1>11. CASE ~(a >= b)
  <2>1. ~(aa >= bb)
    BY <1>6, <1>11
  <2>2. Variation(ss) = <<a, b>> /\ Variation(tt) = <<aa, bb>>
    BY <1>7, <1>8, <1>9, <1>11, <2>1, Zenon
  <2>3. aa * b = a * bb
    BY <1>6
  <2> QED
    BY <2>2, <2>3 DEF tt
<1> QED
  BY <1>10, <1>11

\* Neighbours with a significant word in common: those in each copy, and perhaps
\* the last sentence and the first.
LEMMA RepetitionsAlmostDouble ==
    ASSUME NEW ss \in Text, ss # <<>>
    PROVE  Repetitions(ss \o ss) - 2 * Repetitions(ss) \in {0, 1}
<1> DEFINE tt == ss \o ss
           n == Len(ss)
           m == n - 1
           Meet(s, i) == Significant(s[i]) \intersect Significant(s[i + 1]) # {}
           A == {i \in 1..Len(ss) - 1 : Meet(ss, i)}
           B == {i \in 1..Len(tt) - 1 : Meet(tt, i)}
           b == [i \in A |-> i + n]
           C == {i \in B : i > n}
<1>1. /\ n \in Nat \ {0} /\ Len(tt) = 2 * n
      /\ \A i \in 1..n : tt[i] = ss[i] /\ tt[i + n] = ss[i]
  BY CopiesOf DEF Text
<1> HIDE DEF n, tt
<1>2. A \subseteq 1..m /\ B \subseteq 1..2 * n
  BY <1>1 DEF n
<1>3. \A i \in 1..m : (i \in B <=> i \in A) /\ (i + n \in B <=> i \in A)
  <2> TAKE i \in 1..m
  <2>1. /\ i \in 1..n /\ i + 1 \in 1..n /\ (i + 1) + n = (i + n) + 1
        /\ i \in 1..2*n-1 /\ i + n \in 1..2*n-1
    BY <1>1
  <2>2. /\ tt[i] = ss[i] /\ tt[i + 1] = ss[i + 1]
        /\ tt[i + n] = ss[i] /\ tt[(i + n) + 1] = ss[i + 1]
    BY <1>1, <2>1
  <2>3. Meet(tt, i) <=> Meet(ss, i)
    BY <2>2
  <2>4. Meet(tt, i + n) <=> Meet(ss, i)
    BY <2>2
  <2> HIDE DEF Meet
  <2> QED
    BY <1>1, <2>1, <2>3, <2>4 DEF n
<1> HIDE DEF A, B, Meet
<1>4. IsFiniteSet(A) /\ Cardinality(A) \in Nat /\ IsFiniteSet(B) /\ Cardinality(B) \in Nat
  <2>1. IsFiniteSet(1..m) /\ IsFiniteSet(1..2 * n)
    BY <1>1, FS_Interval
  <2> HIDE DEF m
  <2> QED
    BY <1>2, <2>1, FS_Subset, FS_CardinalityType
<1>5. C \subseteq B /\ IsFiniteSet(C)
  BY <1>4, FS_Subset
<1>6. Cardinality(C) = Cardinality(A)
  <2>1. b \in [A -> C] /\ \A i, j \in A : b[i] = b[j] => i = j
    BY <1>1, <1>2, <1>3
  <2>2. \A j \in C : \E i \in A : b[i] = j
    <3> TAKE j \in C
    <3> DEFINE i == j - n
    <3>1. i \in 1..m /\ i + n = j
      <4>1. j \in 1..2 * n - 1 /\ j > n
        BY <1>1 DEF B
      <4> QED
        BY <1>1, <4>1
    <3> HIDE DEF i, m
    <3>2. i \in A
      BY <1>3, <3>1
    <3> QED
      BY <3>1, <3>2
  <2> HIDE DEF b, C
  <2>3. b \in Bijection(A, C)
    BY <2>1, <2>2 DEF Bijection, Injection, Surjection, IsInjective
  <2>4. ExistsBijection(A, C)
    BY <2>3 DEF ExistsBijection
  <2> QED
    BY ONLY <1>4, <2>4, FS_Bijection
<1>7. A \intersect C = {} /\ B \ {n} = A \union C
  <2>1. \A i \in A : i \in B /\ i # n /\ ~(i > n)
    BY <1>1, <1>2, <1>3
  <2>2. \A j \in B : j = n \/ j > n \/ j \in 1..m
    BY <1>1, <1>2
  <2>3. \A j \in B : j > n => j # n
    BY <1>1
  <2> HIDE DEF m
  <2> QED
    BY <1>3, <2>1, <2>2, <2>3
<1> HIDE DEF C
<1>8. Cardinality(B \ {n}) = 2 * Cardinality(A)
  <2>1. Cardinality(A \union C)
            = Cardinality(A) + Cardinality(C) - Cardinality(A \intersect C)
    BY ONLY <1>4, <1>5, FS_Union
  <2>2. Cardinality(A \intersect C) = 0
    BY ONLY <1>7, FS_EmptySet
  <2>3. Cardinality(A \union C) = 2 * Cardinality(A)
    BY ONLY <1>4, <1>6, <2>1, <2>2
  <2> QED
    BY ONLY <1>7, <2>3
<1>9. Cardinality(B) - Cardinality(B \ {n}) \in {0, 1}
  <2>1. CASE n \in B
    <3>1. Cardinality(B \ {n}) = Cardinality(B) - 1
      BY ONLY <1>4, <2>1, FS_RemoveElement
    <3> QED
      BY ONLY <1>4, <3>1
  <2>2. CASE n \notin B
    <3>1. B \ {n} = B
      BY <2>2
    <3>2. Cardinality(B \ {n}) = Cardinality(B)
      BY <3>1, Zenon
    <3> QED
      BY ONLY <1>4, <3>2
  <2> QED
    BY <2>1, <2>2
<1>10. Repetitions(ss) = Cardinality(A) /\ Repetitions(tt) = Cardinality(B)
  BY DEF Repetitions, A, B, Meet
<1> QED
  BY <1>4, <1>8, <1>9, <1>10 DEF tt

\* Where a word is used first.
LEMMA FirstUseIs ==
    ASSUME NEW ss, NEW n \in Nat, DOMAIN Words(ss) = 1..n,
           NEW v, NEW i \in 1..n, Words(ss)[i] = v, \A j \in 1..i-1 : Words(ss)[j] # v
    PROVE  FirstUse(ss, v) = i
<1> DEFINE Is(k) == Words(ss)[k] = v /\ \A j \in 1..k-1 : Words(ss)[j] # v
<1>1. \A k \in 1..n : Is(k) => k = i
  <2> SUFFICES ASSUME NEW k \in 1..n, Is(k), k # i PROVE FALSE
    OBVIOUS
  <2>1. CASE k < i
    BY <2>1
  <2>2. CASE i < k
    BY <2>2
  <2> QED
    BY <2>1, <2>2
<1>2. FirstUse(ss, v) = CHOOSE k \in 1..n : Is(k)
  BY Zenon DEF FirstUse
<1>3. Is(i)
  OBVIOUS
<1> HIDE DEF Is
<1> QED
  BY <1>1, <1>2, <1>3

\* The words are used twice as often and first at the same place: the same are
\* the most frequent, and their share is the same.
LEMMA SpamStays ==
    ASSUME NEW ss \in Text
    PROVE  SpamPct(ss \o ss) = SpamPct(ss)
<1> DEFINE tt == ss \o ss
           w == Words(ss)
           ww == Words(tt)
           n == Len(w)
           nn == Len(ww)
           F == Frequent(ss)
<1>1. w \in Seq(Word) /\ ww = w \o w
  BY WordsTwice
<1> HIDE DEF w, ww
<1>2. /\ n \in Nat /\ nn = 2 * n /\ DOMAIN w = 1..n /\ DOMAIN ww = 1..2 * n
      /\ \A i \in 1..n : ww[i] = w[i] /\ ww[i + n] = w[i]
  BY <1>1, CopiesOf
<1> HIDE DEF n, nn, tt
<1>3. Frequent(tt) = F
  <2>1. {ww[i] : i \in 1..2 * n} = {w[i] : i \in 1..n}
    BY <1>2, SameWords
  <2> QED
    BY <1>2, <2>1, Zenon DEF Frequent, w, ww
<1>4. ASSUME NEW v PROVE Times(ss, v) \in Nat /\ Times(tt, v) = 2 * Times(ss, v)
  <2> DEFINE A == {i \in DOMAIN w : w[i] = v}
             B == {i \in DOMAIN ww : ww[i] = v}
  <2>1. /\ A \in SUBSET (1..n) /\ B \in SUBSET (1..2 * n)
        /\ \A i \in 1..n : (i \in B <=> i \in A) /\ (i + n \in B <=> i \in A)
    <3>1. \A i \in 1..n : i \in 1..2 * n /\ i + n \in 1..2 * n
      BY <1>2
    <3> QED
      BY <1>2, <3>1
  <2> HIDE DEF A, B
  <2>2. Cardinality(A) \in Nat /\ Cardinality(B) = 2 * Cardinality(A)
    BY ONLY <1>2, <2>1, TwiceAsOften
  <2> QED
    BY <2>2 DEF Times, A, B, w, ww
<1>5. ASSUME NEW v \in F PROVE FirstUse(ss, v) \in Int /\ FirstUse(tt, v) = FirstUse(ss, v)
  <2> DEFINE T == {i \in 1..n : w[i] = v}
  <2>1. T # {} /\ T \subseteq Nat
    BY <1>2 DEF Frequent, w
  <2>2. PICK i \in T : \A j \in T : i <= j
    BY <2>1, LeastNumber
  <2>3. i \in 1..n /\ w[i] = v /\ \A j \in 1..i-1 : w[j] # v
    <3>1. ASSUME NEW j \in 1..i-1 PROVE w[j] # v
      <4>1. j \in 1..n /\ ~(i <= j)
        BY <1>2
      <4> QED
        BY <2>2, <4>1
    <3> QED
      BY <3>1
  <2> HIDE DEF T
  <2>4. FirstUse(ss, v) = i
    BY <1>2, <2>3, FirstUseIs DEF w
  <2>5. /\ 2 * n \in Nat /\ i \in 1..2 * n /\ ww[i] = v
        /\ \A j \in 1..i-1 : ww[j] # v
    BY <1>2, <2>3
  <2>6. FirstUse(tt, v) = i
    BY <1>2, <2>5, FirstUseIs DEF ww
  <2> QED
    BY <2>3, <2>4, <2>6
<1>6. \A u, v \in F : Before(tt, u, v) <=> Before(ss, u, v)
  <2> TAKE u, v \in F
  <2>1. /\ Times(ss, u) \in Nat /\ Times(tt, u) = 2 * Times(ss, u)
        /\ Times(ss, v) \in Nat /\ Times(tt, v) = 2 * Times(ss, v)
    BY <1>4
  <2>2. /\ Times(tt, u) > Times(tt, v) <=> Times(ss, u) > Times(ss, v)
        /\ Times(tt, u) = Times(tt, v) <=> Times(ss, u) = Times(ss, v)
    BY <2>1
  <2>3. FirstUse(tt, u) = FirstUse(ss, u) /\ FirstUse(tt, v) = FirstUse(ss, v)
    BY <1>5
  <2> QED
    BY <2>2, <2>3, Zenon DEF Before
<1>7. TopWords(tt) = TopWords(ss)
  <2> HIDE DEF F
  <2>1. ASSUME NEW v \in F PROVE {u \in F : Before(tt, u, v)} = {u \in F : Before(ss, u, v)}
    BY <1>6
  <2>2. TopWords(ss) = {v \in F : Cardinality({u \in F : Before(ss, u, v)}) < TopN}
    BY DEF TopWords, F
  <2>3. TopWords(tt) = {v \in F : Cardinality({u \in F : Before(tt, u, v)}) < TopN}
    BY <1>3, Zenon DEF TopWords
  <2>4. ASSUME NEW v \in F
        PROVE  Cardinality({u \in F : Before(tt, u, v)})
                   = Cardinality({u \in F : Before(ss, u, v)})
    BY <2>1, Zenon
  <2> QED
    BY <2>2, <2>3, <2>4
<1> DEFINE T == TopWords(ss)
           c == CountIn(ss, T)
           cc == CountIn(tt, T)
<1>8. c \in Nat /\ cc = 2 * c
  <2> HIDE DEF T
  <2> QED
    BY WordsTwiceAsOften DEF tt
<1> HIDE DEF c, cc, T
<1>9. Share(cc, nn) = Share(c, n)
  BY ONLY <1>2, <1>8, ShareOfTwice
<1> QED
  BY <1>7, <1>9, Zenon DEF SpamPct, T, c, cc, n, nn, w, ww, tt

-----------------------------------------------------------------------------
(* A text twice in a document: the property                                 *)

\* However long a document is, and whatever the words, what is measured of it
\* is measured of two copies in a row: each count in a share doubles, and the
\* share stays.
THEOREM DoublingKeepsShares == Spec => []DoublingChangesNoShare
<1>1. Shape => DoublingChangesNoShare
  <2> SUFFICES ASSUME Shape, subject = "sentences", input # <<>>
               PROVE  DoublingChangesNoShare
    BY DEF DoublingChangesNoShare
  <2>1. input \in Text
    BY DEF Shape, Text
  <2> DEFINE ss == input
  <2> HIDE DEF ss
  <2>2. ss \in Text /\ ss # <<>>
    BY <2>1 DEF ss
  <2>3. /\ LongSentencesPct(ss \o ss) = LongSentencesPct(ss)
        /\ PassiveVoicePct(ss \o ss) = PassiveVoicePct(ss)
        /\ WithPhrasePct(ss \o ss, Cliches) = WithPhrasePct(ss, Cliches)
        /\ WithPhrasePct(ss \o ss, AiCliches) = WithPhrasePct(ss, AiCliches)
        /\ SynonymChainPct(ss \o ss) = SynonymChainPct(ss)
    BY <2>2, SentenceSharesStay
  <2>4. Readability(ss \o ss) = Readability(ss) /\ SpamPct(ss \o ss) = SpamPct(ss)
    BY <2>2, ReadabilityStays, SpamStays
  <2>5. /\ PersonalPronouns(ss \o ss) = PersonalPronouns(ss)
        /\ JunkWordsPct(ss \o ss) = JunkWordsPct(ss)
    BY <2>2, WordSharesStay
  <2>6. Len(ss) > 1 =>
            Variation(ss \o ss)[1] * Variation(ss)[2]
                = Variation(ss)[1] * Variation(ss \o ss)[2]
    BY <2>2, VariationStays
  <2>7. /\ AvgSentenceLength(ss \o ss) = AvgSentenceLength(ss)
        /\ 2 * PageCount(ss) - PageCount(ss \o ss) \in {0, 1}
        /\ LexicalDiversity(ss \o ss) >= LexicalDiversity(ss)
        /\ Repetitions(ss \o ss) - 2 * Repetitions(ss) \in {0, 1}
    BY <2>2, LengthsStay, PagesAlmostDouble, DiversityFalls, RepetitionsAlmostDouble
  <2> QED
    BY <2>3, <2>4, <2>5, <2>6, <2>7, Zenon
       DEF DoublingChangesNoShare, BureaucracyPct, AiClicheScore, ss
<1> QED
  BY <1>1, ShapeHolds, PTL
=============================================================================

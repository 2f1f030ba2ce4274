------------------------------ MODULE Measures ------------------------------
(***************************************************************************)
(* What the stages and the upload compute from a text, without the stores  *)
(* and queues around it: disguised letters                                 *)
(* (server/src/tampering/tampering.service.ts), languages, citations,      *)
(* style, spam, features of the AI detector, the sample for the external   *)
(* search.                                                                 *)
(*                                                                         *)
(* Every subject is a text seen at the grain one computation needs, and it *)
(* grows piece by piece: a property is checked at every length.  Shares    *)
(* are integers in tenths of a percent, scores in thousandths.             *)
(***************************************************************************)
EXTENDS Integers, Sequences, FiniteSets, Functions

CONSTANTS
    Letters, Quotes,        \* the characters of the two subjects made of them
    MaxLetters, MaxQuotes,  \* bounds: how many
    File, TinyFont,         \* files a text may come from; font sizes below
    Language, BlockSize,    \* languages, and word counts of a paragraph
    MaxBlocks,              \* bound: paragraphs
    Word,                   \* words of a sentence
    Stopwords,              \* words that spam and repetitions do not count
    Pronouns, Passive,      \* kinds of words
    Fillers,                \* rows of JunkWord, as sequences of words
    Comma,                  \* words that are followed by a comma
    Syllables,              \* the number of vowels of a word
    Cliches, AiCliches,     \* rows of ClicheWord, as sequences of words
    WordLength, PageNorm,   \* characters of a word and of a page
    LongSentence,           \* LONG_SENTENCE_WORD_THRESHOLD
    TopN,                   \* SPAM_TOP_N_WORDS
    MaxWords,               \* bound: words of a text
    MaxShingles, MaxSample  \* bounds: shingles of a text, sample size

ASSUME MeasureAssumption ==
    /\ BlockSize \subseteq Nat \ {0}
    /\ Stopwords \union Pronouns \union Passive \union Comma \subseteq Word
    /\ Syllables \in [Word -> Nat] /\ Cliches \union AiCliches \union Fillers \subseteq Seq(Word)
    /\ WordLength \in Nat \ {0} /\ PageNorm \in Nat \ {0}
    /\ LongSentence \in Nat /\ TopN \in Nat
    /\ MaxWords \in Nat /\ MaxShingles \in Nat /\ MaxSample \in Nat

\* Math.round(m / n * 1000); a sum of f over a set.
Share(m, n) == IF n = 0 THEN 0 ELSE (2000 * m + n) \div (2 * n)
Total(f, S) == SumFunctionOnSet(f, S)

-----------------------------------------------------------------------------
(* Disguised letters: detectHomoglyphs and detectInvisibleChars.  A twin    *)
(* looks like a letter of the other alphabet; "hidden" is not seen at all.  *)

Cyrillic == {"cyrillic", "cyrillicTwin"}
Latin    == {"latin", "latinTwin"}
Twins    == {"cyrillicTwin", "latinTwin"}

Where(t, S) == {i \in DOMAIN t : t[i] \in S}

\* The alphabet of the document: the one of at least half of its letters.
Native(t) ==
    IF 2 * Cardinality(Where(t, Cyrillic)) >= Cardinality(Where(t, Cyrillic \union Latin))
    THEN Cyrillic ELSE Latin

\* The word around position i: letters only, and nothing in between.
WordAround(t, i) ==
    {j \in DOMAIN t : \A k \in DOMAIN t :
        (i <= k /\ k <= j) \/ (j <= k /\ k <= i) => t[k] \in Cyrillic \union Latin}

\* A word of another alphabet is a foreign word and no substitution.
Homoglyphs_ForeignWordsToo(t) == Where(t, Twins \ Native(t))
Homoglyphs(t) ==
    {i \in Where(t, Twins \ Native(t)) :
        \E j \in WordAround(t, i) : t[j] \in Native(t)}

InvisibleChars(t) == Where(t, {"hidden"})

\* scanDocx: the markup is searched for marks and for font sizes in half
\* points.  Its findings have no position.
ScanDocx(markup) ==
    {<<"HIDDEN_TEXT", 0>> : m \in markup.marks \intersect {"vanish", "white"}}
      \union {<<"TINY_FONT", 0>> : n \in markup.sizes \intersect 1..TinyFont-1}

\* A DOCX that cannot be opened loses only the findings in its markup.
Scan(t, file) ==
    ({"HOMOGLYPH"} \X Homoglyphs(t)) \union ({"ZERO_WIDTH"} \X InvisibleChars(t))
      \union IF file.format = "docx" /\ file.opens THEN ScanDocx(file.markup) ELSE {}

-----------------------------------------------------------------------------
(* Citations: computeCitedPct.  Two patterns are searched one after the     *)
(* other, and what they find is added up.                                   *)

\* A pair of angle quotes with none of them in between.
AngleQuoted(t) ==
    {i \in DOMAIN t : \E p, q \in DOMAIN t :
        /\ p < i /\ i < q /\ t[p] = "open" /\ t[q] = "close"
        /\ \A k \in p+1..q-1 : t[k] \notin {"open", "close"}}

\* The straight quote that is open after position i, or 0.  A quote closes the
\* one before it unless nothing is between the two: then it opens anew.
Pending_Restarts(t) ==
    LET open[i \in 0..Len(t)] ==
        IF i = 0 THEN 0
        ELSE IF t[i] # "quote" THEN open[i - 1] ELSE i
    IN open

Pending(t) ==
    LET open[i \in 0..Len(t)] ==
        IF i = 0 THEN 0
        ELSE IF t[i] # "quote" THEN open[i - 1]
        ELSE IF open[i - 1] \in {0, i - 1} THEN i ELSE 0
    IN open

StraightQuoted(t) ==
    {i \in DOMAIN t \ Where(t, {"quote"}) :
        Pending(t)[i] # 0 /\ \E k \in DOMAIN t : i < k /\ t[k] = "quote"}

NonBlank(t) == DOMAIN t \ Where(t, {"blank"})

CitedPct(t) ==
    Share(Cardinality(AngleQuoted(t) \intersect NonBlank(t))
              + Cardinality(StraightQuoted(t) \intersect NonBlank(t)),
          Cardinality(NonBlank(t)))

-----------------------------------------------------------------------------
(* Languages: detect.  A block is a paragraph with the language that franc  *)
(* finds in it ("und" if it is too short) and the number of its words.      *)

LanguagesOf(bs) == {bs[i].language : i \in DOMAIN bs}
FirstBlock(bs, l) ==
    CHOOSE i \in DOMAIN bs : bs[i].language = l /\ \A j \in 1..i-1 : bs[j].language # l

WordsIn_LastBlockOnly(bs, l) ==
    LET i == CHOOSE i \in DOMAIN bs :
            bs[i].language = l /\ \A j \in i+1..Len(bs) : bs[j].language # l
    IN bs[i].words
WordsIn(bs, l) ==
    Total([i \in DOMAIN bs |-> bs[i].words], {i \in DOMAIN bs : bs[i].language = l})

AllWords(bs) == Total([i \in DOMAIN bs |-> bs[i].words], DOMAIN bs)
Breakdown(bs) == [l \in LanguagesOf(bs) |-> Share(WordsIn(bs, l), AllWords(bs))]

\* The largest rounded share; among equal ones the language that came first.
Dominant(bs) ==
    IF bs = <<>> THEN "und"
    ELSE CHOOSE l \in LanguagesOf(bs) : \A m \in LanguagesOf(bs) \ {l} :
            \/ Breakdown(bs)[m] < Breakdown(bs)[l]
            \/ Breakdown(bs)[m] = Breakdown(bs)[l] /\ FirstBlock(bs, l) < FirstBlock(bs, m)

-----------------------------------------------------------------------------
(* Style and spam: StyleService, SpamService and the features of the AI     *)
(* detector that look at words.  A text is a sequence of sentences.         *)

Words(ss) ==
    LET joined[n \in 0..Len(ss)] == IF n = 0 THEN <<>> ELSE joined[n - 1] \o ss[n]
    IN joined[Len(ss)]

Times(ss, w) == Cardinality({i \in DOMAIN Words(ss) : Words(ss)[i] = w})
CountIn(ss, S) == Cardinality({i \in DOMAIN Words(ss) : Words(ss)[i] \in S})

Contains(s, phrase) ==
    \E i \in 0..Len(s) - Len(phrase) : \A j \in DOMAIN phrase : s[i + j] = phrase[j]

LongSentencesPct(ss) ==
    Share(Cardinality({i \in DOMAIN ss : Len(ss[i]) > LongSentence}), Len(ss))
PassiveVoicePct(ss) ==
    Share(Cardinality({i \in DOMAIN ss : \E j \in DOMAIN ss[i] : ss[i][j] \in Passive}), Len(ss))
WithPhrasePct(ss, phrases) ==
    Share(Cardinality({i \in DOMAIN ss : \E c \in phrases : Contains(ss[i], c)}), Len(ss))
BureaucracyPct(ss) == WithPhrasePct(ss, Cliches)
AiClicheScore(ss)  == WithPhrasePct(ss, AiCliches)

\* Three words in a row, the first two followed by a comma.
SynonymChainPct(ss) ==
    Share(Cardinality({i \in DOMAIN ss : \E j \in 1..Len(ss[i]) - 2 :
              ss[i][j] \in Comma /\ ss[i][j + 1] \in Comma}), Len(ss))

\* A started page counts; words per sentence in hundredths.
PageCount(ss) ==
    IF Words(ss) = <<>> THEN 0 ELSE (Len(Words(ss)) * WordLength - 1) \div PageNorm + 1
AvgSentenceLength(ss) ==
    IF ss = <<>> THEN 0 ELSE (200 * Len(Words(ss)) + Len(ss)) \div (2 * Len(ss))

\* 206.835 - 1.3 * words / sentences - 60.1 * syllables / words, in tenths.
Readability(ss) ==
    LET n == Len(Words(ss))
        k == Len(ss)
        spoken == Total([i \in 1..n |-> IF Syllables[Words(ss)[i]] = 0 THEN 1
                                        ELSE Syllables[Words(ss)[i]]], 1..n)
    IN IF n = 0 THEN 0
       ELSE (206885 * n * k - 1300 * n * n - 60100 * spoken * k) \div (100 * n * k)

\* Neighbouring sentences with a significant word in common.
Significant(s) == {s[i] : i \in DOMAIN s} \ Stopwords
Repetitions(ss) ==
    Cardinality({i \in 1..Len(ss) - 1 : Significant(ss[i]) \intersect Significant(ss[i + 1]) # {}})

LexicalDiversity(ss) ==
    LET n == Len(Words(ss)) IN Share(n - Cardinality({Words(ss)[i] : i \in 1..n}), n)

\* An author is expected to use one personal pronoun in twenty words.
PersonalPronouns(ss) ==
    LET n == Len(Words(ss))
        missing == n - 20 * CountIn(ss, Pronouns)
    IN IF missing < 0 THEN 0 ELSE Share(missing, n)

\* The square of the coefficient of variation of the sentence lengths, as a
\* fraction, at most one; the score is one minus its root.
Variation_Sample(ss) ==
    LET n  == Len(ss)
        xs == Total([i \in DOMAIN ss |-> Len(ss[i])], DOMAIN ss)
        squares == Total([i \in DOMAIN ss |-> Len(ss[i]) * Len(ss[i])], DOMAIN ss)
        spread == n * (n * squares - xs * xs)
    IN IF n < 2 \/ spread >= (n - 1) * xs * xs THEN <<1, 1>> ELSE <<spread, (n - 1) * xs * xs>>
Variation(ss) ==
    LET n  == Len(ss)
        xs == Total([i \in DOMAIN ss |-> Len(ss[i])], DOMAIN ss)
        squares == Total([i \in DOMAIN ss |-> Len(ss[i]) * Len(ss[i])], DOMAIN ss)
        spread == n * squares - xs * xs
    IN IF n < 2 \/ spread >= xs * xs THEN <<1, 1>> ELSE <<spread, xs * xs>>

\* The significant words by falling frequency, and the first TopN of them.
Frequent(ss) == {Words(ss)[i] : i \in DOMAIN Words(ss)} \ Stopwords
FirstUse(ss, w) ==
    CHOOSE i \in DOMAIN Words(ss) : Words(ss)[i] = w /\ \A j \in 1..i-1 : Words(ss)[j] # w

Before(ss, v, w) ==
    \/ Times(ss, v) > Times(ss, w)
    \/ Times(ss, v) = Times(ss, w) /\ FirstUse(ss, v) < FirstUse(ss, w)

TopWords(ss) ==
    {w \in Frequent(ss) : Cardinality({v \in Frequent(ss) : Before(ss, v, w)}) < TopN}

SpamPct(ss) == Share(CountIn(ss, TopWords(ss)), Len(Words(ss)))

\* Each word is looked up alone: a filler of several words is never found.
JunkWordsPct(ss) == Share(CountIn(ss, {w \in Word : <<w>> \in Fillers}), Len(Words(ss)))

-----------------------------------------------------------------------------
(* The external search takes every (n / count)-th of the n rare shingles,   *)
(* those that the corpus does not have.  The step is a floating point       *)
(* number: where i * n / count is whole but n / count is not, the product   *)
(* may come out just below it.                                              *)

Picks(n, count) ==
    {[i \in 0..count-1 |-> (i * n) \div count - (IF i \in low THEN 1 ELSE 0)] :
        low \in SUBSET {i \in 1..count-1 : (i * n) % count = 0 /\ n % count # 0}}

Samples_NoShortcut(n, count) == IF count <= 0 \/ n = 0 THEN {<<>>} ELSE Picks(n, count)
Samples(n, count) ==
    IF count <= 0 \/ n = 0 THEN {<<>>}
    ELSE IF n <= count THEN {[i \in 0..n-1 |-> i]}
    ELSE Picks(n, count)

RareAt(t) ==
    LET found[i \in 0..Len(t)] ==
        IF i = 0 THEN <<>>
        ELSE IF t[i] = "rare" THEN Append(found[i - 1], i) ELSE found[i - 1]
    IN found[Len(t)]

\* The places of the phrases that may be asked for, as functions from 0, 1, ...
Phrases(t, count) ==
    {[i \in DOMAIN s |-> RareAt(t)[s[i] + 1]] : s \in Samples(Len(RareAt(t)), count)}

-----------------------------------------------------------------------------
(* The subjects, growing.  These steps are no code of the program: they     *)
(* make the texts and the settings that the measures are applied to.        *)

VARIABLES subject, input
vars == <<subject, input>>

Empty ==
    [letters |-> <<>>, quotes |-> <<>>, blocks |-> <<>>, sentences |-> <<>>,
     sample |-> [shingles |-> <<>>, count |-> 0]]

Init == subject \in DOMAIN Empty /\ input = Empty[subject]

Type(c) ==
    /\ \/ subject = "letters" /\ c \in Letters /\ Len(input) < MaxLetters
       \/ subject = "quotes" /\ c \in Quotes /\ Len(input) < MaxQuotes
    /\ input' = Append(input, c)
    /\ UNCHANGED subject

AddBlock(l, n) ==
    /\ subject = "blocks" /\ Len(input) < MaxBlocks
    /\ input' = Append(input, [language |-> l, words |-> n])
    /\ UNCHANGED subject

NewSentence(w) ==
    /\ subject = "sentences" /\ Len(Words(input)) < MaxWords
    /\ input' = Append(input, <<w>>)
    /\ UNCHANGED subject

AddWord(w) ==
    /\ subject = "sentences" /\ input # <<>> /\ Len(Words(input)) < MaxWords
    /\ input' = [input EXCEPT ![Len(input)] = Append(@, w)]
    /\ UNCHANGED subject

\* The next shingle of the text, with the corpus or without.
AddShingle(kind) ==
    /\ subject = "sample" /\ Len(input.shingles) < MaxShingles
    /\ input' = [input EXCEPT !.shingles = Append(@, kind)]
    /\ UNCHANGED subject

Configure(count) ==
    /\ subject = "sample"
    /\ input' = [input EXCEPT !.count = count]
    /\ UNCHANGED subject

Next ==
    \/ \E c \in Letters \union Quotes : Type(c)
    \/ \E l \in Language, n \in BlockSize : AddBlock(l, n)
    \/ \E w \in Word : NewSentence(w) \/ AddWord(w)
    \/ \E kind \in {"rare", "found"} : AddShingle(kind)
    \/ \E count \in 0..MaxSample : Configure(count)

Spec == Init /\ [][Next]_vars

-----------------------------------------------------------------------------
(* Properties.                                                              *)

\* A text without disguise: each of its words is in one alphabet.
Honest(t) ==
    \A i \in Where(t, Cyrillic \union Latin), A \in {Cyrillic, Latin} :
        t[i] \in A => \A j \in WordAround(t, i) : t[j] \in A

\* t with the letters at S replaced by their twins.
Disguised(t, S) ==
    [i \in DOMAIN t |-> IF i \notin S THEN t[i]
                       ELSE CHOOSE c \in Twins : c # t[i]]

\* Whichever letters of the document's own alphabet are replaced by their
\* twins, as long as each word keeps a letter and the alphabet its majority,
\* exactly these letters and the hidden characters are reported at their
\* positions; nothing is reported of an honest text but what is hidden.  What
\* the file is, and whether it opens, changes none of this
\* (TamperingService.scan).
TwinsAreFound ==
    subject = "letters" /\ Honest(input) =>
        \A S \in SUBSET Where(input, Twins \intersect Native(input)), file \in File :
            LET t == Disguised(input, S) IN
            /\ Native(t) = Native(input)
            /\ \A i \in S : ~(WordAround(input, i) \subseteq S)
            => {f \in Scan(t, file) : f[2] # 0} =
                   ({"HOMOGLYPH"} \X S) \union ({"ZERO_WIDTH"} \X Where(input, {"hidden"}))

\* How many characters c come before position i.
CountBefore(t, i, c) == Cardinality({k \in 1..i-1 : t[k] = c})

\* One style of quotes, every mark with its partner and something in between.
TidyStraight(t) ==
    /\ Where(t, {"open", "close"}) = {}
    /\ Cardinality(Where(t, {"quote"})) % 2 = 0
    /\ \A i \in 1..Len(t)-1 : ~(t[i] = "quote" /\ t[i + 1] = "quote")
TidyAngle(t) ==
    /\ Where(t, {"quote"}) = {}
    /\ \A i \in 1..Len(t)+1 : CountBefore(t, i, "open") - CountBefore(t, i, "close") \in 0..1
    /\ CountBefore(t, Len(t) + 1, "open") = CountBefore(t, Len(t) + 1, "close")

\* In a text that keeps to one style of quotes the cited share is that of the
\* letters after an opening and before its closing mark: the letters between
\* two citations, where a closing mark could be taken for an opening one, are
\* not counted (StyleService.computeCitedPct).
CitedIsBetweenTheMarks ==
    subject = "quotes" /\ (TidyStraight(input) \/ TidyAngle(input)) =>
        CitedPct(input) =
            Share(Cardinality({i \in NonBlank(input) \ Where(input, {"open", "close", "quote"}) :
                      \/ CountBefore(input, i, "quote") % 2 = 1
                      \/ CountBefore(input, i, "open") > CountBefore(input, i, "close")}),
                  Cardinality(NonBlank(input)))

\* However a document alternates between its languages, none has more words
\* than the dominant one, up to the rounding of the shares to a tenth of a
\* percent (LanguageDetectionService.detect).
LanguageIsTheLargest ==
    subject = "blocks" /\ input # <<>> =>
        LET Size(l) == Total([i \in DOMAIN input |->
                IF input[i].language = l THEN input[i].words ELSE 0], DOMAIN input)
        IN \A l \in Language :
               1000 * (Size(l) - Size(Dominant(input))) < AllWords(input)

\* A text repeated twice in a document measures as the text alone: no share
\* moves, only the words are less diverse and the pair where the copies meet
\* may be one more repetition, and two started pages may fit on one
\* (StyleService, SpamService, BasicMetricsService and the features).
DoublingChangesNoShare ==
    subject = "sentences" /\ input # <<>> =>
        LET twice == input \o input IN
        /\ LongSentencesPct(twice) = LongSentencesPct(input)
        /\ PassiveVoicePct(twice) = PassiveVoicePct(input)
        /\ BureaucracyPct(twice) = BureaucracyPct(input)
        /\ AiClicheScore(twice) = AiClicheScore(input)
        /\ SynonymChainPct(twice) = SynonymChainPct(input)
        /\ Readability(twice) = Readability(input)
        /\ PersonalPronouns(twice) = PersonalPronouns(input)
        /\ SpamPct(twice) = SpamPct(input)
        /\ JunkWordsPct(twice) = JunkWordsPct(input)
        /\ Len(input) > 1 => Variation(twice)[1] * Variation(input)[2]
                                = Variation(input)[1] * Variation(twice)[2]
        /\ AvgSentenceLength(twice) = AvgSentenceLength(input)
        /\ 2 * PageCount(input) - PageCount(twice) \in {0, 1}
        /\ LexicalDiversity(twice) >= LexicalDiversity(input)
        /\ Repetitions(twice) - 2 * Repetitions(input) \in {0, 1}

\* The sample for the external search has as many phrases as asked for, or all
\* that the corpus does not have; none twice, and with equally many rare ones
\* between them, even if the floating point product falls short
\* (ExternalSearchService.analyze).
SampleIsSpread ==
    subject = "sample" =>
        LET n == Len(RareAt(input.shingles))
            count == input.count
            RareBefore(p) == Cardinality({k \in 1..p-1 : input.shingles[k] = "rare"})
        IN \A q \in Phrases(input.shingles, count) :
               /\ Cardinality(DOMAIN q) = IF n <= count THEN n ELSE count
               /\ \A i \in DOMAIN q :
                      LET end == IF i + 1 \in DOMAIN q THEN q[i + 1] ELSE Len(input.shingles) + 1
                          gap == IF n <= count THEN 1 ELSE n \div count
                      IN /\ input.shingles[q[i]] = "rare"
                         /\ RareBefore(end) - RareBefore(q[i]) \in gap..gap+1
=============================================================================

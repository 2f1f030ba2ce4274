SPECIFICATION Spec
CONSTANTS
 Letters = {"cyrillic", "cyrillicTwin", "latin", "latinTwin", "blank", "hidden"}
 Quotes = {"letter", "blank", "open", "close", "quote"}
 MaxLetters = 5
 MaxQuotes = 7
 File <- MCFile
 TinyFont = 12
 Language = {"ru", "en", "und"}
 BlockSize <- MCBlockSize
 MaxBlocks = 4
 Word = {"pronoun", "passive", "listed", "plain"}
 Stopwords = {"pronoun"}
 Pronouns = {"pronoun"}
 Passive = {"passive"}
 Fillers <- MCFillers
 Comma = {"passive", "listed"}
 Syllables <- MCSyllables
 Cliches <- MCCliches
 AiCliches <- MCAiCliches
 WordLength = 5
 PageNorm = 12
 LongSentence = 2
 TopN = 2
 MaxWords = 5
 MaxShingles = 9
 MaxSample = 8
CHECK_DEADLOCK FALSE
INVARIANTS
 TwinsAreFound
 CitedIsBetweenTheMarks
 LanguageIsTheLargest
 DoublingChangesNoShare
 SampleIsSpread

----------------------------- MODULE MCMeasures -----------------------------
(* Small values for Measures: every kind of character and of word.            *)
EXTENDS Measures

MCBlockSize == {1, 999, 1000}
MCSyllables == [w \in Word |-> IF w \in Pronouns THEN 0 ELSE IF w \in Passive THEN 3 ELSE 2]

\* A cliche of two words; a filler of one word and one of two.
MCCliches == {<<"passive", "listed">>}
MCFillers == {<<"listed">>, <<"plain", "plain">>}

MCAiCliches == {<<"plain", "listed">>, <<"pronoun">>}
\* A text file, a DOCX with hidden and tiny text, and one that does not open.
MCFile ==
    [format : {"docx"}, opens : BOOLEAN,
     markup : {[marks |-> {"vanish", "white"}, sizes |-> {2, 24}]}]
    \union [format : {"txt"}, opens : {FALSE}, markup : {[marks |-> {}, sizes |-> {}]}]
=============================================================================

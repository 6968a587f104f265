----------------------------- MODULE TextExtractor -----------------------------
(***************************************************************************)
(* tts-text-extractor.c: from the text of a page to the segments that are  *)
(* spoken.  A behaviour is one call: tts_extract_text_segments on a page,  *)
(* or one of the functions in TextProcessing.                              *)
(*                                                                         *)
(* A character stands for a class of them:                                 *)
(*   "sp", "tab"  white space (a line break is like a tab)                 *)
(*   "a", "A"     a small letter and a capital                             *)
(*   "com"        a top-level domain, which makes a link after a "."       *)
(*   "."          what ends sentences: . ! ?                               *)
(*   "1", "|"     a digit, and the bar between columns                     *)
(*   "pi", "="    a mathematical symbol, and one of = + - *                *)
(* Texts are UTF-8, as the viewer gives them.                              *)
(***************************************************************************)
EXTENDS TextProcessing, SequencesExt

CONSTANTS
    Alphabets,      \* a page has characters of one of these sets ...
    MaxLength,      \* ... and at most so many
    MaxText         \* most bytes of a segment, 10000 in the code

ASSUME MaxLengthAssumption == MaxLength \in Nat
ASSUME MaxTextAssumption == MaxText \in Nat

VARIABLES raw,      \* what zathura_page_get_text returns
          segments  \* the list that is returned

pageVars == <<raw, segments>>
vars == <<processVars, pageVars>>

Space(c) == c \in {"sp", "tab"}
Letter(c) == c \in {"a", "A", "com"}

\* A symbol is two bytes of UTF-8, a domain three letters.
Width(c) == IF c = "pi" THEN 2 ELSE IF c = "com" THEN 3 ELSE 1

\* strlen.
Bytes(text) ==
    LET count[i \in 0..Len(text)] ==
            IF i = 0 THEN 0 ELSE count[i - 1] + Width(text[i])
    IN  count[Len(text)]

\* strstr.
Strstr(text, word) == word \in SubSeqs(text)
-------------------------------------------------------------------------------
(***************************************************************************)
(* Cleaning and sentences.                                                 *)
(***************************************************************************)

\* An iteration of the loop of clean_extracted_text: a run of white space
\* becomes one space.
Put(out, c) ==
    IF ~Space(c) THEN Append(out, c)
    ELSE IF out # <<>> /\ Last(out) = "sp" THEN out ELSE Append(out, "sp")

\* The space at the end, if there is one, is dropped.
Trim(out) == IF out # <<>> /\ Last(out) = "sp" THEN Front(out) ELSE out

\* The loop of clean_extracted_text.
Collapse(text) ==
    LET out[i \in 0..Len(text)] == IF i = 0 THEN <<>> ELSE Put(out[i - 1], text[i])
    IN  out[Len(text)]

\* clean_extracted_text; a space at the beginning stays.
Clean(text) == Trim(Collapse(text))

\* Where the text goes on after white space, from position i.
SkipSpaces(text, i) ==
    LET rest == {j \in i..Len(text) : ~Space(text[j])}
    IN  IF rest = {} THEN Len(text) + 1 ELSE Min(rest)

\* Mutant: the character after the full stop decides, space or not.
EndsSentenceNoSkip(text, i) ==
    /\ text[i] = "."
    /\ i = Len(text) \/ text[i + 1] = "A"

\* A full stop ends a sentence if a capital or nothing comes after it.
EndsSentence(text, i) ==
    /\ text[i] = "."
    /\ LET n == SkipSpaces(text, i + 1) IN n > Len(text) \/ text[n] = "A"

\* The cleaned text from first to last, as a list that is empty if it is.
Sentence(text, first, last) ==
    LET cleaned == Clean(SubSeq(text, first, last))
    IN  IF cleaned = <<>> THEN <<>> ELSE <<cleaned>>

\* An iteration of the loop of tts_segment_text_into_sentences, which keeps
\* where the sentence began and the sentences before it.
Visit(text, scan, i) ==
    IF EndsSentence(text, i)
    THEN [start |-> SkipSpaces(text, i + 1),
          list |-> scan.list \o Sentence(text, scan.start, i)]
    ELSE scan

\* The loop, by the number of iterations.
Scan(text) ==
    LET scan[i \in 0..Len(text)] ==
            IF i = 0 THEN [start |-> 1, list |-> <<>>] ELSE Visit(text, scan[i - 1], i)
    IN  scan

\* Mutant: what follows the last full stop is dropped.
SentencesNoRest(text) == Scan(text)[Len(text)].list

\* tts_segment_text_into_sentences.
Sentences(text) ==
    LET end == Scan(text)[Len(text)]
    IN  end.list \o Sentence(text, end.start, Len(text))
-------------------------------------------------------------------------------
(***************************************************************************)
(* The kind of a sentence.                                                 *)
(***************************************************************************)

\* A digit, or a small letter on its own.
Variable(text, i) ==
    \/ text[i] = "1"
    \/ /\ text[i] = "a"
       /\ i > 1 => ~Letter(text[i - 1])
       /\ i < Len(text) => ~Letter(text[i + 1])

ContainsMath(text) ==
    \/ Strstr(text, <<"pi">>)
    \/ /\ Strstr(text, <<"sp", "=", "sp">>)
       /\ \E i \in DOMAIN text : Variable(text, i)

Count(text, c) == Cardinality({i \in DOMAIN text : text[i] = c})

IsTableContent(text) ==
    /\ Count(text, "tab") >= 2 \/ Count(text, "|") >= 2
    /\ Count(text, "1") > 0
    /\ \E i \in DOMAIN text : Letter(text[i])

ContainsLinks(text) == Strstr(text, <<".", "com">>)

\* Mutant: tables are looked for before formulas.
ContentTypeTableFirst(text) ==
    IF IsTableContent(text) THEN "TABLE"
    ELSE IF ContainsMath(text) THEN "FORMULA"
    ELSE IF ContainsLinks(text) THEN "LINK"
    ELSE "NORMAL"

\* The type that tts_extract_text_segments gives to a segment.
ContentType(text) ==
    IF ContainsMath(text) THEN "FORMULA"
    ELSE IF IsTableContent(text) THEN "TABLE"
    ELSE IF ContainsLinks(text) THEN "LINK"
    ELSE "NORMAL"

\* tts_detect_content_type, which also knows headings.
DetectContentType(text) ==
    IF ContainsMath(text) THEN "FORMULA"
    ELSE IF IsTableContent(text) THEN "TABLE"
    ELSE IF ContainsLinks(text) THEN "LINK"
    ELSE IF Bytes(text) \in 6..99 /\ ~Strstr(text, <<".">>) THEN "HEADING"
    ELSE "NORMAL"
-------------------------------------------------------------------------------
(***************************************************************************)
(* The calls.                                                              *)
(***************************************************************************)

\* tts_text_segment_new refuses a text that is too long.
Segment(text, id) ==
    IF Bytes(text) \in 1..MaxText
    THEN <<[text |-> text, segment_id |-> id, type |-> ContentType(text)]>>
    ELSE <<>>

\* tts_extract_text_segments.
Extract(text) ==
    LET sentences == Sentences(Clean(text))
        list[i \in 0..Len(sentences)] ==
            IF i = 0 THEN <<>> ELSE list[i - 1] \o Segment(sentences[i], i - 1)
    IN  list[Len(sentences)]

ExtractSegments ==
    /\ call = "extract" /\ step = "start"
    /\ step' = "done"
    /\ segments' = Extract(raw)
    /\ UNCHANGED <<call, original_len, cursor, first_column, literal, added, raw>>

\* The page has no text, or it cannot be read: there is no list.
ExtractFails ==
    /\ call = "extract" /\ step = "start"
    /\ step' = "failed"
    /\ UNCHANGED <<call, original_len, cursor, first_column, literal, added, pageVars>>

InitExtract ==
    /\ call = "extract" /\ \E A \in Alphabets : raw \in SeqOf(A, MaxLength)
    /\ original_len = 0 /\ src = 0 /\ dst = 0 /\ remaining = 0
    /\ first_column = TRUE /\ literal = 0 /\ added = 0
    /\ step = "start"

Init == (InitExtract \/ (InitProcess /\ raw = <<>>)) /\ segments = <<>>

Next == ExtractSegments \/ ExtractFails \/ (ProcessNext /\ UNCHANGED pageVars)

Spec == Init /\ [][Next]_vars
-------------------------------------------------------------------------------
Extracted == call = "extract" /\ step = "done"

\* What is printed of a text.
Ink(text) ==
    LET ink[i \in 0..Len(text)] ==
            IF i = 0 THEN <<>>
            ELSE IF Space(text[i]) THEN ink[i - 1] ELSE Append(ink[i - 1], text[i])
    IN  ink[Len(text)]

\* What is printed of a list of texts, one after the other.
InkOfAll(texts) ==
    LET ink[i \in 0..Len(texts)] ==
            IF i = 0 THEN <<>> ELSE ink[i - 1] \o Ink(texts[i])
    IN  ink[Len(texts)]

\* The texts of a list of segments.
TextsOf(list) == [i \in 1..Len(list) |-> list[i].text]

\* Everything printed on a page that would fit into one segment is in its
\* segments, once and in order.
NothingLost == Extracted /\ Bytes(raw) <= MaxText => InkOfAll(TextsOf(segments)) = Ink(raw)

\* A sentence ends with the page, or at a full stop when the next thing printed
\* is a capital.
Boundary(text, i) ==
    \/ i = Len(text)
    \/ /\ text[i] = "."
       /\ \A j \in (i + 1)..Len(text) :
             Space(text[j]) \/ text[j] = "A" \/ \E k \in (i + 1)..(j - 1) : ~Space(text[k])

\* The text between the boundary e and the one before it, without the white
\* space that separates the two sentences.
StretchText(text, e) ==
    LET before == {d \in 1..(e - 1) : Boundary(text, d)}
        first == IF before = {} THEN 1 ELSE SkipSpaces(text, Max(before) + 1)
    IN  Clean(SubSeq(text, first, e))

\* The sentences of a page that are neither empty nor too long.
Stretches(text) ==
    LET list[e \in 0..Len(text)] ==
            IF e = 0 THEN <<>>
            ELSE IF Boundary(text, e) /\ Bytes(StretchText(text, e)) \in 1..MaxText
            THEN Append(list[e - 1], StretchText(text, e))
            ELSE list[e - 1]
    IN  list[Len(text)]

\* The segments are the sentences of the page as it was before it was cleaned:
\* one for each of them that is not too long, in their order.
SegmentsAreSentences == Extracted => TextsOf(segments) = Stretches(raw)

\* The type that a segment was given is the one that tts_detect_content_type
\* finds in it, except that headings are not told from normal text.
TypesAgree ==
    Extracted =>
        \A i \in DOMAIN segments :
            \/ segments[i].type = DetectContentType(segments[i].text)
            \/ /\ segments[i].type = "NORMAL"
               /\ DetectContentType(segments[i].text) = "HEADING"
===============================================================================

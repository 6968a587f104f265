---------------------------- MODULE TextProcessing ----------------------------
(***************************************************************************)
(* The functions of tts-text-extractor.c that rewrite a text for speech,   *)
(* tts_process_math_content, tts_process_table_content and                 *)
(* tts_process_link_content: each copies the text into a buffer of a fixed *)
(* size and puts in announcements as long as there is room for them.       *)
(*                                                                         *)
(* Only lengths matter here, in bytes.  What the text holds is decided as  *)
(* the loop comes to it, one iteration after the other.                    *)
(***************************************************************************)
EXTENDS Integers

CONSTANT MaxBytes   \* the longest text

ASSUME MaxBytesAssumption == MaxBytes \in Nat

VARIABLES
    call,           \* the kind of text that is processed
    original_len,   \* strlen(text)
    src, dst,       \* offsets into the text and into the buffer
    remaining,      \* what the function believes to be free in the buffer
    first_column,   \* no column separator was met in this row
    literal,        \* how many of the next bytes can begin no symbol or link
    added,          \* bytes put in that are not in the text
    step            \* "start", "loop", "done", or "failed"

cursor == <<src, dst, remaining>>
processVars == <<call, original_len, cursor, first_column, literal, added, step>>

Calls == {"math", "table", "link"}

\* The symbols of math_replacements and their spoken forms, by length.
MathReplacements ==
    {[symbol_len |-> 2, spoken_len |-> n] : n \in {4, 5, 6, 7, 8, 9, 12, 15}}
        \cup {[symbol_len |-> 3, spoken_len |-> n] :
                n \in {5, 9, 10, 14, 16, 23, 24, 26}}

\* link_patterns: http://, https://, www., ftp:// and mailto:.
LinkPatterns ==
    {[pattern_len |-> 7, announce_len |-> 6], [pattern_len |-> 8, announce_len |-> 13],
     [pattern_len |-> 4, announce_len |-> 10], [pattern_len |-> 6, announce_len |-> 10],
     [pattern_len |-> 7, announce_len |-> 12]}

TableStartLen == 15     \* "Table content: "
ColumnLen == 15         \* ", next column: "
RowLen == 12            \* ", next row: "
LinkEndLen == 10        \* ", end link"

\* Mutant: the size of the text itself.
BufferSizeTight == original_len

BufferSize == IF call = "math" THEN 3 * original_len ELSE 2 * original_len

ProcessTypeOK ==
    /\ original_len \in Nat /\ src \in 0..original_len
    /\ dst \in Nat /\ remaining \in Nat
    /\ first_column \in BOOLEAN /\ literal \in Nat /\ added \in Nat
    /\ step \in {"start", "loop", "done", "failed"}

InitProcess ==
    /\ call \in Calls
    /\ original_len \in 0..MaxBytes
    /\ src = 0 /\ dst = 0 /\ remaining = 0
    /\ first_column = TRUE
    /\ literal = 0
    /\ added = 0
    /\ step = "start"
-------------------------------------------------------------------------------
\* Mutant: no room is kept for the NUL.
AllocateNoNul ==
    /\ call \in Calls /\ step = "start" /\ original_len > 0
    /\ step' = "loop"
    /\ LET fits == call = "table" /\ TableStartLen < BufferSize
       IN  added' = IF fits THEN TableStartLen ELSE 0
    /\ dst' = added'
    /\ remaining' = BufferSize - dst'
    /\ UNCHANGED <<call, original_len, src, first_column, literal>>

\* The buffer, and the announcement that a table begins with.
Allocate ==
    /\ call \in Calls /\ step = "start" /\ original_len > 0
    /\ step' = "loop"
    /\ LET fits == call = "table" /\ TableStartLen < BufferSize - 1
       IN  added' = IF fits THEN TableStartLen ELSE 0
    /\ dst' = added'
    /\ remaining' = BufferSize - 1 - dst'
    /\ UNCHANGED <<call, original_len, src, first_column, literal>>

\* g_malloc(0) is NULL, which is taken for a lack of memory.
AllocateNothing ==
    /\ call \in Calls /\ step = "start" /\ original_len = 0
    /\ step' = "failed"
    /\ UNCHANGED <<call, original_len, cursor, first_column, literal, added>>

\* One iteration of the loop of the function c.
Iterates(c) ==
    /\ call = c /\ step = "loop" /\ src < original_len /\ remaining > 0
    /\ UNCHANGED <<call, original_len, step>>

\* The iteration reads r bytes and writes w, a of them its own.
Advances(r, w, a) ==
    src' = src + r /\ dst' = dst + w /\ remaining' = remaining - w /\ added' = added + a

\* A byte that begins nothing is copied.
CopyByte ==
    /\ \E c \in Calls : Iterates(c)
    /\ Advances(1, 1, 0)
    /\ literal' = IF literal > 0 THEN literal - 1 ELSE 0
    /\ UNCHANGED first_column

\* A symbol is replaced if its spoken form fits; if not, its first byte is
\* copied here and the others in the iterations that follow.
MathSymbol ==
    /\ Iterates("math") /\ literal = 0
    /\ \E r \in MathReplacements :
          /\ src + r.symbol_len <= original_len
          /\ IF r.spoken_len < remaining
             THEN Advances(r.symbol_len, r.spoken_len, r.spoken_len) /\ literal' = 0
             ELSE Advances(1, 1, 0) /\ literal' = r.symbol_len - 1
    /\ UNCHANGED first_column

\* A separator of len bytes, if it fits, which makes first_column b.  The
\* separator in the text is dropped in either case.
Separates(len, b) ==
    /\ IF len < remaining
       THEN Advances(1, len, len) /\ first_column' = b
       ELSE Advances(1, 0, 0) /\ UNCHANGED first_column
    /\ UNCHANGED literal

TableColumn ==
    Iterates("table") /\ Separates(IF first_column THEN 0 ELSE ColumnLen, FALSE)

TableRow == Iterates("table") /\ Separates(RowLen, TRUE)

\* A link is announced, copied up to the next space, and closed.
LinkFound ==
    /\ Iterates("link") /\ literal = 0
    /\ \E p \in LinkPatterns : \E n \in p.pattern_len..(original_len - src) :
          LET opening == IF p.announce_len < remaining THEN p.announce_len ELSE 0
              room == remaining - opening
              copied == IF n < room THEN n ELSE room
              closing == IF LinkEndLen < room - copied THEN LinkEndLen ELSE 0
          IN  Advances(copied, opening + copied + closing, opening + closing)
    /\ literal' = 1
    /\ UNCHANGED first_column

\* The text or the buffer has come to its end; the NUL is written at dst.
Finish ==
    /\ call \in Calls /\ step = "loop"
    /\ src = original_len \/ remaining = 0
    /\ step' = "done"
    /\ UNCHANGED <<call, original_len, cursor, first_column, literal, added>>

\* The caller has the result.
Returned == step \in {"done", "failed"} /\ UNCHANGED processVars

ProcessNext ==
    \/ Allocate \/ AllocateNothing \/ CopyByte \/ MathSymbol \/ TableColumn
    \/ TableRow \/ LinkFound \/ Finish \/ Returned

ProcessSpec == InitProcess /\ [][ProcessNext]_processVars
-------------------------------------------------------------------------------
\* Whatever the text holds, nothing is written past the end of the buffer: not
\* the bytes before dst, and not the NUL that strcpy and the end of the
\* function put at dst.
BufferSafe == call \in Calls /\ step \in {"loop", "done"} => dst < BufferSize

\* The text is copied to its end unless the announcements are as long as the
\* text itself.  (When they are, the buffer may be full before, and the rest of
\* the text is lost without an error.)
TextKept ==
    call \in Calls /\ step = "done" /\ added < original_len => src = original_len

\* What the loops maintain (proved in TextExtractorProofs).
ProcessInv ==
    /\ ProcessTypeOK /\ call \in Calls
    /\ step \in {"loop", "done"} =>
          /\ original_len > 0
          /\ dst + remaining = BufferSize - 1
          /\ dst <= src + added
    /\ step = "done" => src = original_len \/ remaining = 0
===============================================================================

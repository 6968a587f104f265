-------------------------- MODULE TextChannelProofs --------------------------
(***************************************************************************)
(* What the TTS process can read is in order and without holes, for any    *)
(* number and length of the segments and any size of buffer and pipe.      *)
(***************************************************************************)
EXTENDS TextChannel, SequenceTheorems, TLAPS
-------------------------------------------------------------------------------
(***************************************************************************)
(* Sequences of characters.                                                *)
(***************************************************************************)
Character == Nat \X Nat

\* The members of a sequence, by index.
LEMMA Members ==
  ASSUME NEW s \in Seq(Character)
  PROVE  /\ DOMAIN s = 1..Len(s)
         /\ \A c : c \in ToSet(s) <=> \E i \in 1..Len(s) : c = s[i]
         /\ \A i \in 1..Len(s) : s[i] \in Character
  BY DEF ToSet

\* The members of a concatenation.
LEMMA MembersOfConcat ==
  ASSUME NEW s \in Seq(Character), NEW t \in Seq(Character)
  PROVE  /\ s \o t \in Seq(Character)
         /\ ToSet(s \o t) = ToSet(s) \cup ToSet(t)
<1>1. /\ s \o t \in Seq(Character)
      /\ Len(s \o t) = Len(s) + Len(t)
      /\ \A i \in 1..(Len(s) + Len(t)) :
            (s \o t)[i] = IF i <= Len(s) THEN s[i] ELSE t[i - Len(s)]
  BY ConcatProperties
<1>. DEFINE st == s \o t
<1>l. Len(s) \in Nat /\ Len(t) \in Nat
  OBVIOUS
<1>s. st \in Seq(Character)
  BY <1>1
<1>. HIDE DEF st
<1>2. ASSUME NEW c \in ToSet(st) PROVE c \in ToSet(s) \cup ToSet(t)
  <2>1. PICK i \in 1..Len(st) : c = st[i]
    BY <1>s, Members
  <2>2. CASE i <= Len(s)
    BY <1>1, <1>l, <2>1, <2>2, Members DEF st
  <2>3. CASE i > Len(s)
    <3>1. i - Len(s) \in 1..Len(t) /\ c = t[i - Len(s)]
      BY <1>1, <1>l, <2>1, <2>3 DEF st
    <3>. QED  BY <3>1, Members
  <2>. QED  BY <1>l, <2>1, <2>2, <2>3
<1>3. ASSUME NEW c \in ToSet(s) PROVE c \in ToSet(st)
  <2>1. PICK i \in 1..Len(s) : c = s[i]
    BY Members
  <2>2. i \in 1..Len(st) /\ c = st[i]
    BY <1>1, <1>l, <2>1 DEF st
  <2>. QED  BY <1>s, <2>2, Members
<1>4. ASSUME NEW c \in ToSet(t) PROVE c \in ToSet(st)
  <2>1. PICK i \in 1..Len(t) : c = t[i]
    BY Members
  <2>2. Len(s) + i \in 1..Len(st) /\ c = st[Len(s) + i]
    BY <1>1, <1>l, <2>1 DEF st
  <2>. QED  BY <1>s, <2>2, Members
<1>. QED  BY <1>1, <1>2, <1>3, <1>4 DEF st

\* What comes after an ordered sequence, in order, keeps it ordered.
LEMMA OrderedConcat ==
  ASSUME NEW s \in Seq(Character), NEW t \in Seq(Character), Ordered(s), Ordered(t),
         \A c \in ToSet(s), d \in ToSet(t) : Before(c, d)
  PROVE  Ordered(s \o t)
<1>1. /\ s \o t \in Seq(Character)
      /\ Len(s \o t) = Len(s) + Len(t)
      /\ \A i \in 1..(Len(s) + Len(t)) :
            (s \o t)[i] = IF i <= Len(s) THEN s[i] ELSE t[i - Len(s)]
  BY ConcatProperties
<1>. DEFINE st == s \o t
<1>l. Len(s) \in Nat /\ Len(t) \in Nat
  OBVIOUS
<1>d. DOMAIN s = 1..Len(s) /\ DOMAIN t = 1..Len(t) /\ DOMAIN st = 1..(Len(s) + Len(t))
  BY <1>1
<1>. HIDE DEF st
<1>2. ASSUME NEW j \in DOMAIN st, NEW k \in DOMAIN st, j < k
      PROVE  Before(st[j], st[k])
  <2>1. CASE k <= Len(s)
    <3>1. j \in DOMAIN s /\ k \in DOMAIN s /\ st[j] = s[j] /\ st[k] = s[k]
      BY <1>1, <1>l, <1>d, <1>2, <2>1 DEF st
    <3>. QED  BY <1>2, <3>1 DEF Ordered
  <2>2. CASE j <= Len(s) /\ k > Len(s)
    <3>1. j \in 1..Len(s) /\ k - Len(s) \in 1..Len(t) /\ st[j] = s[j]
          /\ st[k] = t[k - Len(s)]
      BY <1>1, <1>l, <1>d, <1>2, <2>2 DEF st
    <3>2. s[j] \in ToSet(s) /\ t[k - Len(s)] \in ToSet(t)
      BY <3>1, Members
    <3>. QED  BY <3>1, <3>2
  <2>3. CASE j > Len(s)
    <3>. DEFINE a == j - Len(s)
    <3>. DEFINE b == k - Len(s)
    <3>1. a \in DOMAIN t /\ b \in DOMAIN t /\ a < b
          /\ st[j] = t[a] /\ st[k] = t[b]
      BY <1>1, <1>l, <1>d, <1>2, <2>3 DEF st
    <3>. HIDE DEF a, b
    <3>. QED  BY <3>1 DEF Ordered
  <2>. QED  BY <1>l, <1>d, <1>2, <2>1, <2>2, <2>3
<1>. QED  BY <1>2 DEF Ordered, st

\* Concatenation is associative.
LEMMA Associative ==
  ASSUME NEW s \in Seq(Character), NEW t \in Seq(Character), NEW u \in Seq(Character)
  PROVE  (s \o t) \o u = s \o (t \o u)
  BY ConcatAssociative

\* The parts of the line are sequences, and so is the line.
LEMMA LineParts ==
  ASSUME TypeOK
  PROVE  /\ write_buf \in Seq(Character) /\ pipe \in Seq(Character)
         /\ received \in Seq(Character)
         /\ received \o pipe \in Seq(Character) /\ line \in Seq(Character)
         /\ ToSet(line) = ToSet(received \o pipe) \cup ToSet(write_buf)
<1>1. /\ write_buf \in Seq(Character) /\ pipe \in Seq(Character)
      /\ received \in Seq(Character)
  BY DEF TypeOK, Character
<1>2. received \o pipe \in Seq(Character)
  BY <1>1, MembersOfConcat
<1>. QED  BY <1>1, <1>2, MembersOfConcat DEF line
-------------------------------------------------------------------------------
(***************************************************************************)
(* What the steps do to the line.                                          *)
(***************************************************************************)

\* The buffer goes into the pipe: the line stays as it is.
LEMMA BufferToPipe ==
  ASSUME TypeOK, pipe' = pipe \o write_buf, write_buf' = <<>>, received' = received
  PROVE  /\ line' = line
         /\ pipe' \in Seq(Character) /\ write_buf' \in Seq(Character)
         /\ received' \o pipe' = line
<1>1. /\ write_buf \in Seq(Character) /\ pipe \in Seq(Character)
      /\ received \in Seq(Character)
  BY LineParts
<1>2. pipe' \in Seq(Character) /\ write_buf' \in Seq(Character)
  BY <1>1, MembersOfConcat
<1>3. received' \o pipe' = line
  <2>1. (received \o pipe) \o write_buf = received \o (pipe \o write_buf)
    BY <1>1, Associative
  <2>. QED  BY <2>1 DEF line
<1>4. (received' \o pipe') \o <<>> = received' \o pipe'
  BY <1>1, <1>2, MembersOfConcat, ConcatEmptySeq
<1>. QED  BY <1>2, <1>3, <1>4 DEF line

\* The process takes some characters from the front of the pipe.
LEMMA PipeToProcess ==
  ASSUME TypeOK, ProcessReads
  PROVE  /\ line' = line
         /\ pipe' \in Seq(Character) /\ received' \in Seq(Character)
         /\ received' \o pipe' = received \o pipe
<1>1. write_buf \in Seq(Character) /\ pipe \in Seq(Character) /\ received \in Seq(Character)
  BY LineParts
<1>2. PICK n \in 1..Len(pipe) :
        /\ received' = received \o SubSeq(pipe, 1, n)
        /\ pipe' = SubSeq(pipe, n + 1, Len(pipe))
  BY DEF ProcessReads
<1>. DEFINE a == SubSeq(pipe, 1, n)
<1>. DEFINE b == SubSeq(pipe, n + 1, Len(pipe))
<1>3. a \in Seq(Character) /\ b \in Seq(Character)
  BY <1>1
<1>4. a \o b = pipe
  <2>1. Len(pipe) \in Nat
    BY <1>1
  <2>2. 1 \in 1..(Len(pipe) + 1) /\ n \in (1 - 1)..Len(pipe) /\ Len(pipe) \in n..Len(pipe)
    BY <1>2, <2>1
  <2>3. a \o b = SubSeq(pipe, 1, Len(pipe))
    BY <1>1, <2>2, ConcatAdjacentSubSeq
  <2>. QED  BY <1>1, <2>3, SubSeqFull
<1>. HIDE DEF a, b
<1>5. (received \o a) \o b = received \o pipe
  <2>1. (received \o a) \o b = received \o (a \o b)
    BY <1>1, <1>3, Associative
  <2>. QED  BY <1>4, <2>1
<1>6. received' = received \o a /\ pipe' = b
  BY <1>2 DEF a, b
<1>7. received' \in Seq(Character)
  BY <1>1, <1>3, <1>6, MembersOfConcat
<1>8. write_buf' = write_buf
  BY DEF ProcessReads
<1>. QED  BY <1>3, <1>5, <1>6, <1>7, <1>8 DEF line

\* How much of the text, or of text and newline, was put into the buffer before.
First == IF step = "text" THEN wrote_bytes ELSE length[segment]

\* One iteration of g_io_channel_write_chars adds the next characters to the
\* end of the line; of a newline it always adds all.
LEMMA WriteCharsAdds ==
  ASSUME TypeOK, FeederAt, WriteChars
  PROVE  \E added \in Seq(Character) :
            /\ \A j \in 1..Len(added) : added[j] = <<segment, First + j>>
            /\ line' = line \o added
            /\ pipe' \in Seq(Character) /\ write_buf' \in Seq(Character)
            /\ ToSet(received \o pipe) \subseteq ToSet(received' \o pipe')
            /\ ToSet(write_buf') \subseteq ToSet(write_buf) \cup ToSet(added)
            /\ step = "newline" => Len(added) = 1 /\ step' = "flush"
            /\ step = "text" =>
                  /\ wrote_bytes + Len(added) <= length[segment]
                  /\ step' = "text" => wrote_bytes' = wrote_bytes + Len(added)
                  /\ step' # "text" => step' = "newline" /\ wrote_bytes' = 0
<1>. DEFINE kept == IF Full THEN <<>> ELSE write_buf
<1>. DEFINE room == Space - Len(kept)
<1>. DEFINE left == SubSeq(Chars, wrote_bytes + 1, Len(Chars))
<1>. DEFINE n == IF room < Len(left) THEN room ELSE Len(left)
<1>. DEFINE added == SubSeq(left, 1, n)
<1>1. /\ pipe' = IF Full THEN pipe \o write_buf ELSE pipe
      /\ write_buf' = kept \o added
      /\ IF n = Len(left) THEN WriteReturns
                          ELSE wrote_bytes' = wrote_bytes + n /\ UNCHANGED step
      /\ step \in {"text", "newline"} /\ received' = received
  BY DEF WriteChars
<1>2. /\ write_buf \in Seq(Character) /\ pipe \in Seq(Character)
      /\ received \in Seq(Character) /\ received \o pipe \in Seq(Character)
      /\ line \in Seq(Character) /\ wrote_bytes \in Nat /\ segment \in Nat
  BY LineParts DEF TypeOK, segment
<1>3. kept \in Seq(Character) /\ room \in Nat \ {0}
  BY <1>2, SizeAssumption DEF Full
<1>4. length[segment] \in Nat
  <2>1. length \in Seq(Lengths) /\ segment > 0 /\ segment = Len(length)
    BY <1>1 DEF TypeOK, FeederAt, segment
  <2>2. length[segment] \in Lengths
    BY <2>1
  <2>. QED  BY <2>2, LengthsAssumption
<1>5. /\ left \in Seq(Character)
      /\ \A j \in 1..Len(left) : left[j] = <<segment, First + j>>
      /\ step = "text" => Len(left) = length[segment] - wrote_bytes
      /\ step = "newline" => Len(left) = 1
  <2>1. CASE step = "text"
    <3>1. wrote_bytes <= length[segment]
      BY <2>1 DEF FeederAt
    <3>2. Chars = [i \in 1..length[segment] |-> <<segment, i>>]
      BY <2>1 DEF Chars
    <3>3. Chars \in Seq(Character) /\ Len(Chars) = length[segment]
      <4>. DEFINE all == length[segment]
      <4>1. \A i \in 1..all : <<segment, i>> \in Character
        BY <1>2, <1>4 DEF Character
      <4>2. all \in Nat /\ Chars = [i \in 1..all |-> <<segment, i>>]
        BY <1>4, <3>2
      <4>. HIDE DEF all
      <4>3. Chars \in [1..all -> Character]
        BY <4>1, <4>2
      <4>4. Chars \in Seq(Character) /\ Len(Chars) = all
        BY <4>2, <4>3
      <4>. QED  BY <4>4 DEF all
    <3>4. \A i \in 1..length[segment] : Chars[i] = <<segment, i>>
      BY <3>2
    <3>5. /\ left \in Seq(Character)
          /\ Len(left) = length[segment] - wrote_bytes
          /\ \A j \in 1..Len(left) : left[j] = Chars[wrote_bytes + j]
      <4>. DEFINE all == length[segment]
      <4>1. all \in Nat /\ wrote_bytes <= all /\ Len(Chars) = all /\ Chars \in Seq(Character)
            /\ left = SubSeq(Chars, wrote_bytes + 1, all)
        BY <1>4, <3>1, <3>3
      <4>. HIDE DEF all, left
      <4>2. /\ left \in Seq(Character) /\ Len(left) = all - wrote_bytes
            /\ \A j \in 1..Len(left) : left[j] = Chars[wrote_bytes + j]
        BY <1>2, <4>1
      <4>. QED  BY <4>2 DEF all
    <3>6. ASSUME NEW j \in 1..Len(left) PROVE left[j] = <<segment, First + j>>
      <4>1. First = wrote_bytes
        BY <2>1 DEF First
      <4>2. wrote_bytes + j \in 1..length[segment]
        BY <1>2, <1>4, <3>1, <3>5
      <4>3. left[j] = Chars[wrote_bytes + j]
        BY <3>5
      <4>. HIDE DEF left
      <4>. QED  BY <3>4, <4>1, <4>2, <4>3
    <3>. HIDE DEF left
    <3>. QED  BY <2>1, <3>5, <3>6
  <2>2. CASE step = "newline"
    <3>1. wrote_bytes = 0
      BY <2>2 DEF FeederAt
    <3>2. Chars = <<<<segment, length[segment] + 1>>>>
      BY <2>2 DEF Chars
    <3>3. <<segment, length[segment] + 1>> \in Character
      BY <1>2, <1>4 DEF Character
    <3>4. Chars \in Seq(Character) /\ Len(Chars) = 1
          /\ Chars[1] = <<segment, length[segment] + 1>>
      BY <3>2, <3>3
    <3>5. left = Chars
      BY <3>1, <3>4, SubSeqFull
    <3>6. First = length[segment]
      BY <2>2 DEF First
    <3>7. left \in Seq(Character) /\ Len(left) = 1
          /\ left[1] = <<segment, length[segment] + 1>>
      BY <3>4, <3>5
    <3>. HIDE DEF left
    <3>. QED  BY <2>2, <3>6, <3>7
  <2>. QED  BY <1>1, <2>1, <2>2
<1>. HIDE DEF kept, room, left
<1>6. n \in 0..Len(left) /\ (Len(left) = 1 => n = 1)
  BY <1>3, <1>5
<1>. HIDE DEF n
<1>7. /\ added \in Seq(Character) /\ Len(added) = n
      /\ \A j \in 1..n : added[j] = left[j]
  BY <1>5, <1>6
<1>. HIDE DEF added
<1>8. \A j \in 1..Len(added) : added[j] = <<segment, First + j>>
  BY <1>5, <1>6, <1>7
<1>9. /\ step = "newline" => Len(added) = 1 /\ step' = "flush"
      /\ step = "text" =>
            /\ wrote_bytes + Len(added) <= length[segment]
            /\ step' = "text" => wrote_bytes' = wrote_bytes + Len(added)
            /\ step' # "text" => step' = "newline" /\ wrote_bytes' = 0
  <2>1. CASE step = "newline"
    <3>1. n = 1 /\ n = Len(left)
      BY <1>5, <1>6, <2>1
    <3>. QED  BY <1>1, <1>7, <2>1, <3>1 DEF WriteReturns
  <2>2. CASE step = "text"
    <3>1. wrote_bytes + Len(added) <= length[segment]
      BY <1>2, <1>4, <1>5, <1>6, <1>7, <2>2
    <3>. QED  BY <1>1, <1>7, <2>2, <3>1 DEF WriteReturns
  <2>. QED  BY <1>1, <2>1, <2>2
<1>10. CASE Full
  <2>1. pipe' = pipe \o write_buf /\ write_buf' = added
    <3>1. kept = <<>>
      BY <1>10 DEF kept
    <3>. QED  BY <1>1, <1>7, <1>10, <3>1, ConcatEmptySeq
  <2>2. pipe' \in Seq(Character) /\ write_buf' \in Seq(Character)
    BY <1>2, <1>7, <2>1, MembersOfConcat
  <2>3. received' \o pipe' = line
    <3>1. (received \o pipe) \o write_buf = received \o (pipe \o write_buf)
      BY <1>2, Associative
    <3>. QED  BY <1>1, <2>1, <3>1 DEF line
  <2>4. line' = line \o added
    BY <2>1, <2>3 DEF line
  <2>5. ToSet(received \o pipe) \subseteq ToSet(received' \o pipe')
    BY <2>3, LineParts
  <2>. QED  BY <1>7, <1>8, <1>9, <2>1, <2>2, <2>4, <2>5
<1>11. CASE ~Full
  <2>1. pipe' = pipe /\ write_buf' = write_buf \o added
    BY <1>1, <1>11 DEF kept
  <2>2. write_buf' \in Seq(Character)
        /\ ToSet(write_buf') = ToSet(write_buf) \cup ToSet(added)
    BY <1>2, <1>7, <2>1, MembersOfConcat
  <2>3. line' = line \o added
    <3>. DEFINE out == received \o pipe
    <3>1. out \in Seq(Character)
      BY <1>2
    <3>2. line = out \o write_buf /\ line' = out \o (write_buf \o added)
      BY <1>1, <2>1 DEF line
    <3>. HIDE DEF out
    <3>3. (out \o write_buf) \o added = out \o (write_buf \o added)
      BY <1>2, <1>7, <3>1, Associative
    <3>. QED  BY <3>2, <3>3
  <2>. QED  BY <1>1, <1>2, <1>7, <1>8, <1>9, <2>1, <2>2, <2>3
<1>. QED  BY <1>10, <1>11
-------------------------------------------------------------------------------
(***************************************************************************)
(* The inductive invariant.                                                *)
(***************************************************************************)

\* At first nothing is on its way.
LEMMA InitInv == Init => IInv
<1>. SUFFICES ASSUME Init PROVE IInv
  OBVIOUS
<1>1. TypeOK
  BY MaxSegmentsAssumption DEF Init, TypeOK, segment
<1>2. FeederAt
  BY DEF Init, FeederAt
<1>3. received \o pipe = <<>> /\ line = <<>> /\ write_buf = <<>>
  BY DEF Init, line
<1>4. ToSet(line) = {} /\ Ordered(line)
  BY <1>3 DEF ToSet, Ordered
<1>5. WrittenSoFar /\ BeginningsInOrder /\ ReportedHasLeft
  BY <1>4 DEF Init, WrittenSoFar, BeginningsInOrder, ReportedHasLeft
<1>. QED  BY <1>1, <1>2, <1>5 DEF IInv

\* The feeder takes the next segment, of which nothing is in the line.
LEMMA FeederPopInv ==
  ASSUME IInv, FeederPop
  PROVE  IInv'
<1>1. PICK n \in Lengths : length' = Append(length, n)
  BY DEF FeederPop
<1>2. /\ step = "pop" /\ step' = "text" /\ wrote_bytes' = 0 /\ segment < MaxSegments
      /\ write_buf' = write_buf /\ pipe' = pipe /\ received' = received
      /\ process' = process /\ reported' = reported /\ line' = line
  BY DEF FeederPop, line
<1>3. TypeOK
  BY DEF IInv
<1>4. /\ length' \in Seq(Lengths) /\ segment \in Nat /\ segment' = segment + 1
      /\ length'[segment'] \in Nat
      /\ \A s \in 1..segment : length'[s] = length[s]
  BY <1>1, <1>3, LengthsAssumption DEF TypeOK, segment
<1>5. TypeOK'
  BY <1>2, <1>3, <1>4, MaxSegmentsAssumption DEF TypeOK
<1>6. FeederAt'
  BY <1>2, <1>3, <1>4 DEF TypeOK, FeederAt
<1>7. WrittenSoFar'
  BY <1>2, <1>4 DEF IInv, WrittenSoFar
<1>8. BeginningsInOrder'
  BY <1>2, <1>4 DEF IInv, WrittenSoFar, BeginningsInOrder
<1>9. ReportedHasLeft'
  BY <1>2, <1>3, <1>4 DEF IInv, TypeOK, ReportedHasLeft
<1>. QED  BY <1>5, <1>6, <1>7, <1>8, <1>9 DEF IInv

\* Putting the next characters into the line keeps it in order and without
\* holes, and touches no segment that was reported.
LEMMA WriteCharsInv ==
  ASSUME IInv, WriteChars
  PROVE  IInv'
<1>1. TypeOK /\ FeederAt
  BY DEF IInv
<1>2. PICK added \in Seq(Character) :
        /\ \A j \in 1..Len(added) : added[j] = <<segment, First + j>>
        /\ line' = line \o added
        /\ pipe' \in Seq(Character) /\ write_buf' \in Seq(Character)
        /\ ToSet(received \o pipe) \subseteq ToSet(received' \o pipe')
        /\ ToSet(write_buf') \subseteq ToSet(write_buf) \cup ToSet(added)
        /\ step = "newline" => Len(added) = 1 /\ step' = "flush"
        /\ step = "text" =>
              /\ wrote_bytes + Len(added) <= length[segment]
              /\ step' = "text" => wrote_bytes' = wrote_bytes + Len(added)
              /\ step' # "text" => step' = "newline" /\ wrote_bytes' = 0
  BY <1>1, WriteCharsAdds
<1>3. /\ received' = received /\ length' = length /\ process' = process
      /\ reported' = reported /\ step \in {"text", "newline"} /\ segment' = segment
  BY DEF WriteChars, segment
<1>4. /\ segment \in Nat /\ segment > 0 /\ segment \notin reported
      /\ Len(added) \in Nat /\ wrote_bytes \in Nat
      /\ line \in Seq(Character) /\ received \in Seq(Character)
  BY <1>1, <1>3, LineParts DEF TypeOK, FeederAt, segment
<1>5. length[segment] \in Nat
  <2>1. length \in Seq(Lengths) /\ segment = Len(length)
    BY <1>1 DEF TypeOK, segment
  <2>2. length[segment] \in Lengths
    BY <1>4, <2>1
  <2>. QED  BY <2>2, LengthsAssumption
<1>6. First \in Nat
  BY <1>3, <1>4, <1>5 DEF First
<1>7. /\ \A d \in ToSet(added) : \E j \in 1..Len(added) : d = <<segment, First + j>>
      /\ \A j \in 1..Len(added) : <<segment, First + j>> \in ToSet(added)
  <2>1. \A c : c \in ToSet(added) <=> \E i \in 1..Len(added) : c = added[i]
    BY Members
  <2>2. \A j \in 1..Len(added) : added[j] = <<segment, First + j>>
    BY <1>2
  <2>3. ASSUME NEW d \in ToSet(added)
        PROVE  \E j \in 1..Len(added) : d = <<segment, First + j>>
    BY <2>1, <2>2, Zenon
  <2>4. ASSUME NEW j \in 1..Len(added) PROVE <<segment, First + j>> \in ToSet(added)
    <3>1. added[j] \in ToSet(added)
      BY <2>1, Zenon
    <3>. QED  BY <2>2, <3>1, Zenon
  <2>. QED  BY <2>3, <2>4
<1>8. ToSet(line') = ToSet(line) \cup ToSet(added)
  BY <1>2, <1>4, MembersOfConcat
<1>9. TypeOK'
  <2>1. wrote_bytes' \in Nat /\ step' \in {"text", "newline", "flush"}
    BY <1>2, <1>3, <1>4 DEF WriteChars, WriteReturns
  <2>. QED  BY <1>1, <1>2, <1>3, <2>1 DEF TypeOK, Character
<1>10. FeederAt'
  BY <1>2, <1>3, <1>4 DEF FeederAt
<1>11. CASE process = "running"
  <2>1. /\ \A c \in ToSet(line) : c[1] \in 1..segment /\ (c[1] = segment => c[2] <= First)
        /\ step = "text" => \A i \in 1..wrote_bytes : <<segment, i>> \in ToSet(line)
    BY <1>3, <1>11 DEF IInv, WrittenSoFar, First
  <2>2. WrittenSoFar'
    <3>1. \A c \in ToSet(line') : c[1] \in 1..segment
                                  /\ (c[1] = segment => c[2] <= First + Len(added))
      <4>1. \A c \in ToSet(added) : c[1] = segment /\ c[2] \in (First + 1)..(First + Len(added))
        BY <1>4, <1>6, <1>7
      <4>2. \A c \in ToSet(line) : c \in Character
        BY <1>4, Members
      <4>3. ASSUME NEW c \in ToSet(line), c[1] = segment PROVE c[2] <= First + Len(added)
        BY <1>4, <1>6, <2>1, <4>2, <4>3 DEF Character
      <4>. QED  BY <1>4, <1>6, <1>8, <2>1, <4>1, <4>3
    <3>2. CASE step = "newline"
      <4>1. <<segment, length[segment] + 1>> \in ToSet(line')
        <5>1. 1 \in 1..Len(added) /\ First = length[segment]
          <6>1. Len(added) = 1
            BY <1>2, <3>2
          <6>2. First = length[segment]
            BY <3>2 DEF First
          <6>. QED  BY <6>1, <6>2
        <5>2. <<segment, First + 1>> \in ToSet(added)
          BY <1>7, <5>1, Zenon
        <5>. QED  BY <1>8, <5>1, <5>2
      <4>. QED  BY <1>2, <1>3, <3>1, <3>2, <4>1 DEF WrittenSoFar
    <3>3. CASE step = "text"
      <4>1. ASSUME NEW i \in 1..(wrote_bytes + Len(added))
            PROVE  <<segment, i>> \in ToSet(line')
        <5>1. CASE i <= wrote_bytes
          BY <1>4, <1>8, <2>1, <3>3, <5>1
        <5>2. CASE i > wrote_bytes
          <6>1. i - wrote_bytes \in 1..Len(added) /\ First + (i - wrote_bytes) = i
            BY <1>4, <3>3, <5>2 DEF First
          <6>2. <<segment, First + (i - wrote_bytes)>> \in ToSet(added)
            BY <1>7, <6>1
          <6>. QED  BY <1>8, <6>1, <6>2
        <5>. QED  BY <1>4, <5>1, <5>2
      <4>2. step' \in {"text", "newline"}
        BY <1>2, <3>3
      <4>3. First = wrote_bytes
        BY <3>3 DEF First
      <4>4. CASE step' = "text"
        BY <1>2, <1>3, <3>1, <3>3, <4>1, <4>3, <4>4 DEF WrittenSoFar
      <4>5. CASE step' = "newline"
        <5>1. ASSUME NEW c \in ToSet(line'), c[1] = segment PROVE c[2] <= length[segment]
          <6>1. line' \in Seq(Character)
            BY <1>2, <1>4, MembersOfConcat
          <6>2. c \in Character
            BY <6>1, Members
          <6>. QED  BY <1>2, <1>4, <1>5, <3>1, <3>3, <4>3, <5>1, <6>2 DEF Character
        <5>. QED  BY <1>3, <3>1, <4>5, <5>1 DEF WrittenSoFar
      <4>. QED  BY <4>2, <4>4, <4>5
    <3>. QED  BY <1>3, <3>2, <3>3
  <2>3. BeginningsInOrder'
    <3>1. Ordered(line')
      <4>1. Ordered(added)
        <5>1. DOMAIN added = 1..Len(added)
          OBVIOUS
        <5>. QED  BY <1>2, <1>4, <1>6, <5>1 DEF Ordered, Before
      <4>2. ASSUME NEW c \in ToSet(line), NEW d \in ToSet(added) PROVE Before(c, d)
        <5>1. PICK j \in 1..Len(added) : d = <<segment, First + j>>
          BY <1>7
        <5>2. c \in Character
          BY <1>4, Members
        <5>. QED  BY <1>4, <1>6, <2>1, <5>1, <5>2 DEF Before, Character
      <4>3. Ordered(line)
        BY <1>11 DEF IInv, BeginningsInOrder
      <4>. QED  BY <1>2, <1>4, <4>1, <4>2, <4>3, OrderedConcat
    <3>2. ASSUME NEW c \in ToSet(line'), NEW i \in 1..(c[2] - 1), c[2] <= length[c[1]]
          PROVE  <<c[1], i>> \in ToSet(line')
      <4>1. CASE c \in ToSet(line)
        BY <1>8, <1>11, <3>2, <4>1 DEF IInv, BeginningsInOrder
      <4>2. CASE c \in ToSet(added)
        <5>1. PICK j \in 1..Len(added) : c = <<segment, First + j>>
          BY <1>7, <4>2
        <5>2. First + j <= length[segment] /\ i \in 1..(First + j - 1)
          <6>1. c[1] = segment /\ c[2] = First + j
            BY <5>1
          <6>2. First + j <= length[segment]
            BY <3>2, <6>1, Zenon
          <6>3. i \in 1..(First + j - 1)
            BY <1>4, <1>6, <6>1
          <6>. QED  BY <6>2, <6>3
        <5>3. step = "text" /\ First = wrote_bytes
          BY <1>3, <1>4, <1>5, <5>2 DEF First
        <5>4. CASE i <= wrote_bytes
          <6>1. <<segment, i>> \in ToSet(line)
            BY <1>4, <2>1, <5>2, <5>3, <5>4
          <6>. QED  BY <1>8, <5>1, <6>1
        <5>5. CASE i > wrote_bytes
          <6>1. i - wrote_bytes \in 1..Len(added) /\ First + (i - wrote_bytes) = i
            BY <1>4, <5>2, <5>3, <5>5
          <6>2. <<segment, First + (i - wrote_bytes)>> \in ToSet(added)
            BY <1>7, <6>1
          <6>. QED  BY <1>8, <5>1, <6>1, <6>2
        <5>. QED  BY <1>4, <5>2, <5>4, <5>5
      <4>. QED  BY <1>8, <4>1, <4>2
    <3>. QED  BY <1>3, <3>1, <3>2 DEF BeginningsInOrder
  <2>4. ReportedHasLeft'
    <3>1. ASSUME NEW s \in reported, NEW c \in ToSet(write_buf') PROVE c[1] > s
      <4>1. s \in 1..segment /\ s # segment
        BY <1>1, <1>4 DEF TypeOK
      <4>2. CASE c \in ToSet(write_buf)
        BY <1>11, <4>2 DEF IInv, ReportedHasLeft
      <4>3. CASE c \in ToSet(added)
        BY <1>4, <1>7, <4>1, <4>3
      <4>. QED  BY <1>2, <4>2, <4>3
    <3>2. \A s \in reported : <<s, length[s] + 1>> \in ToSet(received' \o pipe')
      BY <1>2, <1>11 DEF IInv, ReportedHasLeft
    <3>. QED  BY <1>3, <3>1, <3>2 DEF ReportedHasLeft
  <2>. QED  BY <1>9, <1>10, <2>2, <2>3, <2>4 DEF IInv
<1>12. CASE process # "running"
  BY <1>3, <1>9, <1>10, <1>12 DEF IInv, WrittenSoFar, BeginningsInOrder, ReportedHasLeft
<1>. QED  BY <1>11, <1>12

\* A step that keeps the line, the segments and the report, and begins no
\* write, keeps the invariant if what the process can read does not shrink.
LEMMA SameLineInv ==
  ASSUME IInv, TypeOK', line' = line, length' = length, process' = process,
         reported' = reported, wrote_bytes' = wrote_bytes,
         step' \in {step, "pop", "closing", "closed"},
         ToSet(received \o pipe) \subseteq ToSet(received' \o pipe'),
         ToSet(write_buf') \subseteq ToSet(write_buf)
  PROVE  IInv'
<1>1. segment' = segment
  BY DEF segment
<1>2. FeederAt'
  BY <1>1 DEF IInv, FeederAt
<1>3. WrittenSoFar'
  BY <1>1 DEF IInv, WrittenSoFar
<1>4. BeginningsInOrder'
  BY <1>1 DEF IInv, BeginningsInOrder
<1>5. ReportedHasLeft'
  BY <1>1 DEF IInv, ReportedHasLeft
<1>. QED  BY <1>2, <1>3, <1>4, <1>5 DEF IInv

\* A process that is gone promises nothing: types and the feeder's position
\* are all there is.
LEMMA GoneInv ==
  ASSUME TypeOK', FeederAt', process' = "gone"
  PROVE  IInv'
  BY DEF IInv, WrittenSoFar, BeginningsInOrder, ReportedHasLeft

\* The pipe refuses a full buffer: the feeder goes on to the newline, with part
\* of the text in the line, or to the next segment.
LEMMA WriteAgainInv ==
  ASSUME IInv, WriteAgain
  PROVE  IInv'
<1>1. /\ write_buf' = write_buf /\ pipe' = pipe /\ received' = received
      /\ length' = length /\ process' = process /\ reported' = reported
      /\ step \in {"text", "newline"} /\ segment' = segment /\ line' = line
  BY DEF WriteAgain, segment, line
<1>2. TypeOK /\ FeederAt
  BY DEF IInv
<1>3. CASE wrote_bytes > 0
  <2>1. step = "text" /\ step' = "newline" /\ wrote_bytes' = 0
    BY <1>1, <1>2, <1>3 DEF WriteAgain, WriteReturns, FeederAt
  <2>2. TypeOK'
    BY <1>1, <1>2, <2>1 DEF TypeOK
  <2>3. FeederAt'
    BY <1>1, <1>2, <2>1 DEF FeederAt
  <2>4. WrittenSoFar'
    <3>1. ASSUME process = "running", NEW c \in ToSet(line), c[1] = segment
          PROVE  c[2] <= length[segment]
      <4>1. c[2] <= wrote_bytes /\ wrote_bytes <= length[segment]
        BY <2>1, <3>1 DEF IInv, WrittenSoFar, FeederAt
      <4>2. c \in Character
        BY <1>2, LineParts, Members
      <4>3. length[segment] \in Nat
        <5>1. length \in Seq(Lengths) /\ segment > 0 /\ segment = Len(length)
          BY <1>2, <2>1 DEF TypeOK, FeederAt, segment
        <5>2. length[segment] \in Lengths
          BY <5>1
        <5>. QED  BY <5>2, LengthsAssumption
      <4>. QED  BY <1>2, <4>1, <4>2, <4>3 DEF TypeOK, Character
    <3>. QED  BY <1>1, <2>1, <3>1 DEF IInv, WrittenSoFar
  <2>5. BeginningsInOrder' /\ ReportedHasLeft'
    BY <1>1 DEF IInv, BeginningsInOrder, ReportedHasLeft
  <2>. QED  BY <2>2, <2>3, <2>4, <2>5 DEF IInv
<1>4. CASE ~(wrote_bytes > 0)
  <2>1. step' = "pop" /\ wrote_bytes' = wrote_bytes
    BY <1>4 DEF WriteAgain
  <2>2. TypeOK'
    BY <1>1, <1>2, <2>1 DEF TypeOK
  <2>. QED  BY <1>1, <2>1, <2>2, SameLineInv
<1>. QED  BY <1>3, <1>4

\* A flush that succeeds leaves the buffer empty, so that the segment may be
\* reported.
LEMMA FlushInv ==
  ASSUME IInv, Flush
  PROVE  IInv'
<1>1. /\ step = "flush" /\ step' = "pop" /\ reported' = reported \cup {segment}
      /\ pipe' = pipe \o write_buf /\ write_buf' = <<>> /\ received' = received
      /\ length' = length /\ wrote_bytes' = wrote_bytes /\ process' = process
      /\ process = "running" /\ segment' = segment
  BY DEF Flush, Accepts, segment
<1>2. TypeOK /\ FeederAt
  BY DEF IInv
<1>3. /\ line' = line /\ received' \o pipe' = line
      /\ pipe' \in Seq(Character) /\ write_buf' \in Seq(Character)
  BY <1>1, <1>2, BufferToPipe
<1>4. segment \in 1..segment
  BY <1>1, <1>2 DEF FeederAt, TypeOK, segment
<1>5. TypeOK'
  BY <1>1, <1>2, <1>3, <1>4 DEF TypeOK, Character
<1>6. FeederAt' /\ WrittenSoFar' /\ BeginningsInOrder'
  BY <1>1, <1>3 DEF IInv, FeederAt, WrittenSoFar, BeginningsInOrder
<1>7. ReportedHasLeft'
  <2>1. ToSet(write_buf') = {}
    BY <1>1 DEF ToSet
  <2>2. ToSet(received \o pipe) \subseteq ToSet(line)
    BY <1>2, LineParts
  <2>3. \A s \in reported' : <<s, length[s] + 1>> \in ToSet(line)
    BY <1>1, <2>2 DEF IInv, WrittenSoFar, ReportedHasLeft
  <2>. QED  BY <1>1, <1>3, <2>1, <2>3 DEF ReportedHasLeft
<1>. QED  BY <1>5, <1>6, <1>7 DEF IInv

\* A shutdown delivers the buffer to a process that runs.
LEMMA ShutdownInv ==
  ASSUME IInv, Shutdown
  PROVE  IInv'
<1>1. /\ write_buf' = <<>> /\ received' = received /\ length' = length
      /\ wrote_bytes' = wrote_bytes /\ process' = process /\ reported' = reported
      /\ step' = "closed" /\ segment' = segment
      /\ pipe' = IF Accepts THEN pipe \o write_buf ELSE pipe
      /\ write_buf # <<>> => Accepts \/ Broken
  BY DEF Shutdown, segment
<1>2. TypeOK
  BY DEF IInv
<1>3. ToSet(write_buf') \subseteq ToSet(write_buf)
  BY <1>1 DEF ToSet
<1>4. CASE Accepts
  <2>1. /\ line' = line /\ received' \o pipe' = line
        /\ pipe' \in Seq(Character) /\ write_buf' \in Seq(Character)
    BY <1>1, <1>2, <1>4, BufferToPipe
  <2>2. TypeOK'
    BY <1>1, <1>2, <2>1 DEF TypeOK, Character
  <2>3. ToSet(received \o pipe) \subseteq ToSet(received' \o pipe')
    BY <1>2, <2>1, LineParts
  <2>. QED  BY <1>1, <1>3, <2>1, <2>2, <2>3, SameLineInv
<1>5. CASE ~Accepts
  <2>1. pipe' = pipe
    BY <1>1, <1>5
  <2>2. TypeOK'
    BY <1>1, <1>2, <2>1 DEF TypeOK
  <2>3. CASE process = "gone"
    <3>1. FeederAt'
      BY <1>1 DEF FeederAt
    <3>. QED  BY <1>1, <2>2, <2>3, <3>1, GoneInv
  <2>4. CASE process = "running"
    <3>1. write_buf = <<>>
      BY <1>1, <1>5, <2>4 DEF Broken
    <3>2. line' = line
      BY <1>1, <2>1, <3>1 DEF line
    <3>. QED  BY <1>1, <1>3, <2>1, <2>2, <3>2, SameLineInv
  <2>. QED  BY <1>2, <2>3, <2>4 DEF TypeOK
<1>. QED  BY <1>4, <1>5

\* The process reads or ends.
LEMMA ProcessInv ==
  ASSUME IInv, ProcessReads \/ ProcessEnds
  PROVE  IInv'
<1>1. TypeOK
  BY DEF IInv
<1>2. CASE ProcessReads
  <2>1. /\ write_buf' = write_buf /\ length' = length /\ wrote_bytes' = wrote_bytes
        /\ step' = step /\ process' = process /\ reported' = reported
        /\ segment' = segment
    BY <1>2 DEF ProcessReads, segment
  <2>2. /\ line' = line /\ received' \o pipe' = received \o pipe
        /\ pipe' \in Seq(Character) /\ received' \in Seq(Character)
    BY <1>1, <1>2, PipeToProcess
  <2>3. TypeOK'
    BY <1>1, <2>1, <2>2 DEF TypeOK, Character
  <2>. QED  BY <2>1, <2>2, <2>3, SameLineInv
<1>3. CASE ProcessEnds
  <2>1. /\ write_buf' = write_buf /\ received' = received /\ length' = length
        /\ wrote_bytes' = wrote_bytes /\ step' = step /\ reported' = reported
        /\ pipe' = <<>> /\ process' = "gone" /\ segment' = segment
    BY <1>3 DEF ProcessEnds, segment
  <2>2. TypeOK'
    BY <1>1, <2>1 DEF TypeOK
  <2>3. FeederAt'
    BY <2>1 DEF IInv, FeederAt
  <2>. QED  BY <2>1, <2>2, <2>3, GoneInv
<1>. QED  BY <1>2, <1>3

\* Every step keeps the invariant.
LEMMA NextInv == IInv /\ [Next]_vars => IInv'
<1>. SUFFICES ASSUME IInv, [Next]_vars PROVE IInv'
  OBVIOUS
<1>1. CASE FeederPop
  BY <1>1, FeederPopInv
<1>2. CASE WriteChars
  BY <1>2, WriteCharsInv
<1>3. CASE WriteAgain
  BY <1>3, WriteAgainInv
<1>4. CASE Flush
  BY <1>4, FlushInv
<1>5. CASE WriteFails \/ FlushFails \/ Stop \/ Ended \/ UNCHANGED vars
  <2>1. /\ write_buf' = write_buf /\ pipe' = pipe /\ received' = received
        /\ length' = length /\ wrote_bytes' = wrote_bytes /\ process' = process
        /\ reported' = reported /\ step' \in {step, "pop", "closing"}
        /\ line' = line /\ segment' = segment
    BY <1>5 DEF WriteFails, FlushFails, Stop, Ended, vars, line, segment
  <2>2. TypeOK'
    BY <2>1 DEF IInv, TypeOK
  <2>. QED  BY <2>1, <2>2, SameLineInv
<1>6. CASE Shutdown
  BY <1>6, ShutdownInv
<1>7. CASE ProcessReads \/ ProcessEnds
  BY <1>7, ProcessInv
<1>. QED
  BY <1>1, <1>2, <1>3, <1>4, <1>5, <1>6, <1>7 DEF Next, FeederStep
-------------------------------------------------------------------------------
(***************************************************************************)
(* The theorems.                                                           *)
(***************************************************************************)

\* What is known of the buffer, the pipe and the feeder's position holds in
\* every reachable state.
THEOREM ChannelInvariant == Spec => []IInv
  BY InitInv, NextInv, PTL DEF Spec

\* Whatever the pipe refuses while tts_text_feeder_thread writes, the process
\* reads a beginning of every segment, in order, once and without holes.
THEOREM BeginningsArriveInOrder == Spec => []BeginningsInOrder
<1>1. IInv => BeginningsInOrder
  BY DEF IInv
<1>. QED  BY <1>1, ChannelInvariant, PTL

\* A segment that tts_text_feeder_thread logs as fed has left the buffer, and
\* so has all that failed before it.
THEOREM ReportIsTrue == Spec => []ReportedHasLeft
<1>1. IInv => ReportedHasLeft
  BY DEF IInv
<1>. QED  BY <1>1, ChannelInvariant, PTL
===============================================================================

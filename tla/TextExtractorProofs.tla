-------------------------- MODULE TextExtractorProofs --------------------------
(***************************************************************************)
(* Theorems about tts-text-extractor.c, for texts of any length and any    *)
(* alphabet.                                                               *)
(*                                                                         *)
(* The functions of the code are loops over a text, in the model recursive *)
(* functions of the number of iterations.  A proof about one goes by       *)
(* induction, for which a set stands for the property (UpTo for numbers,   *)
(* SeqInduction for sequences); that such a function exists at all, and    *)
(* has the value its definition says, is LoopExists and LoopFromSteps.     *)
(*                                                                         *)
(* NothingLost follows from what the loops do to the printed characters    *)
(* (ScanInv for tts_segment_text_into_sentences).  SegmentsAreSentences    *)
(* compares the code, which cleans the page and then looks ahead from each *)
(* full stop, with a reader that takes one character after the other: it   *)
(* finds the same sentences as the code (ResultIsSentences), and the same  *)
(* ones before and after cleaning (ResultCleaned).                         *)
(***************************************************************************)
EXTENDS TextExtractor, SequenceTheorems, WellFoundedInduction, TLAPS

-------------------------------------------------------------------------------
(***************************************************************************)
(* Induction, for properties given as sets.                                *)
(***************************************************************************)

\* A set of naturals that is not empty has a least element.
LEMMA LeastElement ==
    ASSUME NEW T, T \subseteq Nat, T # {}
    PROVE  \E m \in T : \A k \in T : m <= k
<1>1. PICK m \in T : \A k \in T : ~(<<k, m>> \in OpToRel(<, Nat))
  BY WFMin, NatLessThanWellFounded
<1>2. ASSUME NEW k \in T PROVE m <= k
  <2>1. k \in Nat /\ m \in Nat
    OBVIOUS
  <2>2. k < m => <<k, m>> \in OpToRel(<, Nat)
    BY <2>1 DEF OpToRel
  <2>3. ~(k < m)
    BY <1>1, <2>2
  <2>4. QED
    BY <2>1, <2>3
<1>3. QED
  BY <1>2

\* A property of 0 that goes on from i - 1 to i holds up to n.
LEMMA UpTo ==
    ASSUME NEW n \in Nat, NEW G, 0 \in G,
           \A i \in 1..n : i - 1 \in G => i \in G
    PROVE  \A i \in 0..n : i \in G
<1> DEFINE T == {i \in 0..n : i \notin G}
<1>1. SUFFICES ASSUME T # {} PROVE FALSE
  OBVIOUS
<1>2. T \subseteq Nat
  OBVIOUS
<1>3. PICK m \in T : \A k \in T : m <= k
  <2> HIDE DEF T
  <2>1. QED
    BY <1>1, <1>2, LeastElement
<1>4. m # 0 /\ m \in 1..n /\ m - 1 \in 0..n
  BY <1>3
<1>5. m - 1 \in G
  BY <1>3, <1>4
<1>6. QED
  BY <1>4, <1>5

\* A prefix is the one before it with one more element.
LEMMA PrefixAppend ==
    ASSUME NEW C, NEW s \in Seq(C), NEW i \in 1..Len(s)
    PROVE  SubSeq(s, 1, i) = Append(SubSeq(s, 1, i - 1), s[i])
<1> DEFINE t == SubSeq(s, 1, i - 1)
           u == SubSeq(s, 1, i)
<1>1. t \in Seq(C) /\ Len(t) = i - 1 /\ \A j \in 1..(i - 1) : t[j] = s[j]
  BY SubSeqProperties
<1>2. u \in Seq(C) /\ Len(u) = i /\ \A j \in 1..i : u[j] = s[j]
  BY SubSeqProperties
<1>3. s[i] \in C
  OBVIOUS
<1> HIDE DEF t, u
<1>4. Append(t, s[i]) \in Seq(C) /\ Len(Append(t, s[i])) = i
      /\ \A j \in 1..i : Append(t, s[i])[j] = s[j]
  BY <1>1, <1>3
<1>5. u = Append(t, s[i])
  BY <1>2, <1>4, SeqEqual
<1>6. QED
  BY <1>5 DEF t, u

\* A property of the empty sequence that Append keeps holds of all sequences.
LEMMA SeqInduction ==
    ASSUME NEW C, NEW G, <<>> \in G,
           \A s \in Seq(C), c \in C : s \in G => Append(s, c) \in G
    PROVE  \A s \in Seq(C) : s \in G
<1> SUFFICES ASSUME NEW s \in Seq(C) PROVE s \in G
    OBVIOUS
<1> DEFINE Prefix(i) == SubSeq(s, 1, i)
           P == {i \in 0..Len(s) : Prefix(i) \in G}
<1>1. Prefix(0) = <<>> /\ Prefix(Len(s)) = s
  BY SubSeqEmpty, SubSeqFull
<1>2. ASSUME NEW i \in 1..Len(s)
      PROVE  Prefix(i - 1) \in Seq(C) /\ s[i] \in C
             /\ Prefix(i) = Append(Prefix(i - 1), s[i])
  BY PrefixAppend
<1>3. Len(s) \in Nat
  OBVIOUS
<1> HIDE DEF Prefix
<1>4. 0 \in P
  BY <1>1, <1>3
<1>5. ASSUME NEW i \in 1..Len(s), i - 1 \in P PROVE i \in P
  <2>1. Prefix(i - 1) \in G
    BY <1>5
  <2>2. Prefix(i) \in G
    BY <1>2, <2>1
  <2>3. QED
    BY <1>3, <2>2
<1>6. \A i \in 0..Len(s) : i \in P
  <2> HIDE DEF P
  <2>1. QED
    BY <1>3, <1>4, <1>5, UpTo
<1>7. Prefix(Len(s)) \in G
  BY <1>3, <1>6
<1>8. QED
  BY <1>1, <1>7
-------------------------------------------------------------------------------
(***************************************************************************)
(* Loops.  The value of a loop over a sequence is defined by a recursive   *)
(* function, which has to be shown to exist.                               *)
(***************************************************************************)

\* f is what a loop computes that begins with a and goes from f[i - 1] to f[i]
\* by F[i].
IsLoop(f, S, a, n, F) ==
    /\ f \in [0..n -> S]
    /\ f[0] = a
    /\ \A i \in 1..n : f[i] = F[i][f[i - 1]]

\* Every loop computes something.
LEMMA LoopExists ==
    ASSUME NEW S, NEW a \in S, NEW n \in Nat, NEW F \in [1..n -> [S -> S]]
    PROVE  \E f : IsLoop(f, S, a, n, F)
<1> DEFINE G == {m \in 0..n : \E f : IsLoop(f, S, a, m, F)}
<1>1. 0 \in G
  <2>1. IsLoop([i \in 0..0 |-> a], S, a, 0, F)
    BY DEF IsLoop
  <2>2. QED
    BY <2>1
<1>2. ASSUME NEW m \in 1..n, m - 1 \in G PROVE m \in G
  <2>1. PICK f : IsLoop(f, S, a, m - 1, F)
    BY <1>2
  <2> DEFINE g == [i \in 0..m |-> IF i = m THEN F[m][f[m - 1]] ELSE f[i]]
  <2>2. f \in [0..(m - 1) -> S] /\ f[0] = a
    BY <2>1 DEF IsLoop
  <2>3. F[m][f[m - 1]] \in S
    BY <2>2
  <2>4. g \in [0..m -> S] /\ g[0] = a
    BY <2>2, <2>3
  <2>5. ASSUME NEW i \in 1..m PROVE g[i] = F[i][g[i - 1]]
    <3>1. i - 1 \in 0..m /\ g[i - 1] = f[i - 1]
      OBVIOUS
    <3>2. CASE i = m
      BY <3>1, <3>2
    <3>3. CASE i \in 1..(m - 1)
      <4>1. f[i] = F[i][f[i - 1]]
        BY <2>1, <3>3 DEF IsLoop
      <4>2. g[i] = f[i]
        BY <3>3
      <4>3. QED
        BY <3>1, <4>1, <4>2
    <3>4. QED
      BY <3>2, <3>3
  <2> HIDE DEF g
  <2>6. IsLoop(g, S, a, m, F)
    BY <2>4, <2>5 DEF IsLoop
  <2>7. QED
    BY <2>6
<1>3. \A m \in 0..n : m \in G
  <2> HIDE DEF G
  <2>1. QED
    BY <1>1, <1>2, UpTo
<1>4. QED
  BY <1>3

\* A function that makes the steps of a loop is what the loop computes.
LEMMA LoopFromSteps ==
    ASSUME NEW S, NEW a \in S, NEW n \in Nat, NEW F \in [1..n -> [S -> S]],
           NEW f, f = [i \in 0..n |-> f[i]], f[0] = a,
           \A i \in 1..n : f[i - 1] \in S => f[i] = F[i][f[i - 1]]
    PROVE  IsLoop(f, S, a, n, F)
<1> DEFINE G == {i \in 0..n : f[i] \in S}
<1>1. 0 \in G
  OBVIOUS
<1>2. ASSUME NEW i \in 1..n, i - 1 \in G PROVE i \in G
  <2>1. f[i] = F[i][f[i - 1]] /\ f[i - 1] \in S
    BY <1>2
  <2>2. QED
    BY <2>1
<1>3. \A i \in 0..n : i \in G
  <2> HIDE DEF G
  <2>1. QED
    BY <1>1, <1>2, UpTo
<1>4. \A i \in 0..n : f[i] \in S
  BY <1>3
<1>5. f \in [0..n -> S]
  BY <1>4
<1>6. \A i \in 1..n : i - 1 \in 0..n
  OBVIOUS
<1>7. QED
  BY <1>4, <1>5, <1>6 DEF IsLoop

\* Two loops that make the same steps compute the same up to any point.
LEMMA LoopsAgree ==
    ASSUME NEW S, NEW a, NEW m \in Nat, NEW n \in Nat, m <= n,
           NEW F, NEW G, \A i \in 1..m : F[i] = G[i],
           NEW f, IsLoop(f, S, a, m, F), NEW g, IsLoop(g, S, a, n, G)
    PROVE  \A i \in 0..m : f[i] = g[i]
<1> DEFINE P == {i \in 0..m : f[i] = g[i]}
<1>1. 0 \in P
  BY DEF IsLoop
<1>2. ASSUME NEW i \in 1..m, i - 1 \in P PROVE i \in P
  <2>1. f[i] = F[i][f[i - 1]] /\ g[i] = G[i][g[i - 1]] /\ F[i] = G[i]
    BY DEF IsLoop
  <2>2. QED
    BY <1>2, <2>1
<1>3. \A i \in 0..m : i \in P
  <2> HIDE DEF P
  <2>1. QED
    BY <1>1, <1>2, UpTo
<1>4. QED
  BY <1>3

\* The steps of a loop over the sequence t, of which F[c] is the one for c.
Steps(F, t) == [i \in 1..Len(t) |-> F[t[i]]]

\* v is what such a loop over t \in Seq(C) returns, with steps from S to S.
Computes(v, C, S, a, F, t) ==
    /\ a \in S /\ F \in [C -> [S -> S]] /\ t \in Seq(C)
    /\ \E f : IsLoop(f, S, a, Len(t), Steps(F, t)) /\ v = f[Len(t)]

\* A loop over nothing returns what it began with.
LEMMA ComputesEmpty ==
    ASSUME NEW C, NEW S, NEW a, NEW F, NEW v, Computes(v, C, S, a, F, <<>>)
    PROVE  v = a
  BY DEF Computes, IsLoop

\* One more element makes one more step.
LEMMA ComputesAppend ==
    ASSUME NEW C, NEW S, NEW a, NEW F, NEW t, NEW c \in C, NEW v, NEW w,
           Computes(v, C, S, a, F, t), Computes(w, C, S, a, F, Append(t, c))
    PROVE  v \in S /\ w = F[c][v]
<1>0. a \in S /\ F \in [C -> [S -> S]] /\ t \in Seq(C)
  BY DEF Computes
<1> DEFINE n == Len(t)
           u == Append(t, c)
<1>1. n \in Nat /\ Len(u) = n + 1 /\ u[n + 1] = c /\ \A i \in 1..n : u[i] = t[i]
  BY <1>0
<1>2. PICK f : IsLoop(f, S, a, n, Steps(F, t)) /\ v = f[n]
  BY DEF Computes
<1>3. PICK g : IsLoop(g, S, a, Len(u), Steps(F, u)) /\ w = g[Len(u)]
  BY DEF Computes
<1> HIDE DEF n, u
<1>4. \A i \in 1..n : Steps(F, t)[i] = Steps(F, u)[i]
  BY <1>1 DEF Steps, n
<1>5. Steps(F, u)[n + 1] = F[c]
  BY <1>1 DEF Steps
<1>6. n + 1 \in Nat /\ n <= n + 1 /\ n \in 0..n
  BY <1>1
<1>7. IsLoop(g, S, a, n + 1, Steps(F, u)) /\ w = g[n + 1]
  BY <1>1, <1>3
<1>8. \A i \in 0..n : f[i] = g[i]
  <2> DEFINE P == Steps(F, t)
             Q == Steps(F, u)
             k == n + 1
  <2>1. n \in Nat /\ k \in Nat /\ n <= k
    BY <1>1, <1>6
  <2>2. \A i \in 1..n : P[i] = Q[i]
    BY <1>4
  <2>3. IsLoop(f, S, a, n, P) /\ IsLoop(g, S, a, k, Q)
    BY <1>2, <1>7
  <2> HIDE DEF P, Q, k
  <2>4. QED
    BY <2>1, <2>2, <2>3, LoopsAgree
<1>9. g[n + 1] = F[c][g[n]]
  BY <1>1, <1>5, <1>7 DEF IsLoop
<1>10. f[n] \in S
  BY <1>2, <1>6 DEF IsLoop
<1>11. QED
  BY <1>2, <1>6, <1>7, <1>8, <1>9, <1>10

\* What a loop returns has its type.
LEMMA ComputesType ==
    ASSUME NEW C, NEW S, NEW a, NEW F, NEW t, NEW v,
           Computes(v, C, S, a, F, t)
    PROVE  v \in S
<1>1. PICK f : IsLoop(f, S, a, Len(t), Steps(F, t)) /\ v = f[Len(t)]
  BY DEF Computes
<1>2. Len(t) \in 0..Len(t)
  BY DEF Computes
<1>3. QED
  BY <1>1, <1>2 DEF IsLoop
-------------------------------------------------------------------------------
(***************************************************************************)
(* The operators that are defined by loops over texts.                     *)
(***************************************************************************)

\* The characters of pages, and of what is made of them.
Char == (UNION Alphabets) \cup {"sp"}

\* The step of strlen.
BytesStep == [c \in Char |-> [x \in Nat |-> x + Width(c)]]

\* The type of this step, and what it does.
LEMMA BytesStepType ==
    /\ BytesStep \in [Char -> [Nat -> Nat]]
    /\ \A c \in Char : \A x \in Nat : BytesStep[c][x] = x + Width(c)
  BY DEF BytesStep, Width

\* strlen is a loop.
LEMMA BytesLoop ==
    ASSUME NEW t \in Seq(Char)
    PROVE  Computes(Bytes(t), Char, Nat, 0, BytesStep, t)
<1> DEFINE n == Len(t)
           F == Steps(BytesStep, t)
           Eq(g) == g = [i \in 0..n |-> IF i = 0 THEN 0 ELSE g[i - 1] + Width(t[i])]
<1>1. n \in Nat /\ 0 \in Nat /\ \A i \in 1..n : t[i] \in Char
  OBVIOUS
<1>2. BytesStep \in [Char -> [Nat -> Nat]]
      /\ \A c \in Char : \A x \in Nat : BytesStep[c][x] = x + Width(c)
  BY BytesStepType
<1>3. F \in [1..n -> [Nat -> Nat]]
      /\ \A i \in 1..n : \A x \in Nat : F[i][x] = x + Width(t[i])
  BY <1>1, <1>2 DEF Steps
<1> HIDE DEF F
<1>4. PICK h : IsLoop(h, Nat, 0, n, F)
  <2> HIDE DEF n
  <2>1. QED
    BY <1>1, <1>3, LoopExists
<1>5. h \in [0..n -> Nat] /\ h[0] = 0 /\ \A i \in 1..n : h[i] = F[i][h[i - 1]]
  BY <1>4 DEF IsLoop
<1>6. ASSUME NEW i \in 1..n PROVE h[i] = h[i - 1] + Width(t[i])
  <2>1. i - 1 \in 0..n
    BY <1>1
  <2>2. h[i - 1] \in Nat
    BY <1>5, <2>1
  <2>3. QED
    BY <1>3, <1>5, <2>2
<1>7. Eq(h)
  BY <1>1, <1>5, <1>6
<1> DEFINE f == CHOOSE g : Eq(g)
<1>8. Eq(f)
  BY <1>7
<1>9. Bytes(t) = f[n]
  BY DEF Bytes
<1> HIDE DEF f
<1>10. f = [i \in 0..n |-> f[i]] /\ f[0] = 0
       /\ \A i \in 1..n : f[i - 1] \in Nat => f[i] = F[i][f[i - 1]]
  <2>1. f = [i \in 0..n |-> f[i]] /\ f[0] = 0 /\ \A i \in 1..n : f[i] = f[i - 1] + Width(t[i])
    BY <1>1, <1>8
  <2>2. \A i \in 1..n : f[i - 1] \in Nat => F[i][f[i - 1]] = f[i - 1] + Width(t[i])
    BY <1>3
  <2>3. QED
    BY <2>1, <2>2
<1>11. IsLoop(f, Nat, 0, n, F)
  <2> HIDE DEF n, Eq
  <2>1. QED
    BY <1>1, <1>3, <1>10, LoopFromSteps
<1>12. QED
  BY <1>1, <1>2, <1>9, <1>11 DEF Computes, F

\* A loop of clean_extracted_text keeps to the characters of texts.
LEMMA PutType == \A c \in Char : \A x \in Seq(Char) : Put(x, c) \in Seq(Char)
<1> SUFFICES ASSUME NEW c \in Char, NEW x \in Seq(Char) PROVE Put(x, c) \in Seq(Char)
    OBVIOUS
<1>1. "sp" \in Char
  BY DEF Char
<1>2. Append(x, c) \in Seq(Char) /\ Append(x, "sp") \in Seq(Char)
  BY <1>1
<1>3. Put(x, c) = x \/ Put(x, c) = Append(x, c) \/ Put(x, c) = Append(x, "sp")
  BY Zenon DEF Put
<1>4. QED
  BY <1>2, <1>3

\* The step of the loop of clean_extracted_text.
CollapseStep == [c \in Char |-> [x \in Seq(Char) |-> Put(x, c)]]

\* The type of this step, and what it does.
LEMMA CollapseStepType ==
    /\ CollapseStep \in [Char -> [Seq(Char) -> Seq(Char)]]
    /\ \A c \in Char : \A x \in Seq(Char) : CollapseStep[c][x] = Put(x, c)
  BY PutType DEF CollapseStep

\* The loop of clean_extracted_text is a loop.
LEMMA CollapseLoop ==
    ASSUME NEW t \in Seq(Char)
    PROVE  Computes(Collapse(t), Char, Seq(Char), <<>>, CollapseStep, t)
<1> DEFINE n == Len(t)
           F == Steps(CollapseStep, t)
           Eq(g) == g = [i \in 0..n |-> IF i = 0 THEN <<>> ELSE Put(g[i - 1], t[i])]
<1>1. n \in Nat /\ <<>> \in Seq(Char) /\ \A i \in 1..n : t[i] \in Char
  OBVIOUS
<1>2. CollapseStep \in [Char -> [Seq(Char) -> Seq(Char)]]
      /\ \A c \in Char : \A x \in Seq(Char) : CollapseStep[c][x] = Put(x, c)
  BY CollapseStepType
<1>3. F \in [1..n -> [Seq(Char) -> Seq(Char)]]
      /\ \A i \in 1..n : \A x \in Seq(Char) : F[i][x] = Put(x, t[i])
  BY <1>1, <1>2 DEF Steps
<1> HIDE DEF F
<1>4. PICK h : IsLoop(h, Seq(Char), <<>>, n, F)
  <2> HIDE DEF n
  <2>1. QED
    BY <1>1, <1>3, LoopExists
<1>5. h \in [0..n -> Seq(Char)] /\ h[0] = <<>> /\ \A i \in 1..n : h[i] = F[i][h[i - 1]]
  BY <1>4 DEF IsLoop
<1>6. ASSUME NEW i \in 1..n PROVE h[i] = Put(h[i - 1], t[i])
  <2>1. i - 1 \in 0..n
    BY <1>1
  <2>2. h[i - 1] \in Seq(Char)
    BY <1>5, <2>1
  <2>3. QED
    BY <1>3, <1>5, <2>2
<1>7. Eq(h)
  BY <1>1, <1>5, <1>6
<1> DEFINE f == CHOOSE g : Eq(g)
<1>8. Eq(f)
  BY <1>7
<1>9. Collapse(t) = f[n]
  BY DEF Collapse
<1> HIDE DEF f
<1>10. f = [i \in 0..n |-> f[i]] /\ f[0] = <<>>
       /\ \A i \in 1..n : f[i - 1] \in Seq(Char) => f[i] = F[i][f[i - 1]]
  <2>1. f = [i \in 0..n |-> f[i]] /\ f[0] = <<>> /\ \A i \in 1..n : f[i] = Put(f[i - 1], t[i])
    BY <1>1, <1>8
  <2>2. \A i \in 1..n : f[i - 1] \in Seq(Char) => F[i][f[i - 1]] = Put(f[i - 1], t[i])
    BY <1>3
  <2>3. QED
    BY <2>1, <2>2
<1>11. IsLoop(f, Seq(Char), <<>>, n, F)
  <2> HIDE DEF n, Eq
  <2>1. QED
    BY <1>1, <1>3, <1>10, LoopFromSteps
<1>12. QED
  BY <1>1, <1>2, <1>9, <1>11 DEF Computes, F

\* One more character.
AddInk(ink, c) == IF Space(c) THEN ink ELSE Append(ink, c)

\* AddInk makes a text of a text.
LEMMA AddInkType == \A c \in Char : \A x \in Seq(Char) : AddInk(x, c) \in Seq(Char)
  BY DEF AddInk

\* The step of what is printed of a text.
InkStep == [c \in Char |-> [x \in Seq(Char) |-> AddInk(x, c)]]

\* The type of this step, and what it does.
LEMMA InkStepType ==
    /\ InkStep \in [Char -> [Seq(Char) -> Seq(Char)]]
    /\ \A c \in Char : \A x \in Seq(Char) : InkStep[c][x] = AddInk(x, c)
  BY AddInkType DEF InkStep

\* What is printed of a text is a loop.
LEMMA InkLoop ==
    ASSUME NEW t \in Seq(Char)
    PROVE  Computes(Ink(t), Char, Seq(Char), <<>>, InkStep, t)
<1> DEFINE n == Len(t)
           F == Steps(InkStep, t)
           Eq(g) == g = [i \in 0..n |-> IF i = 0 THEN <<>> ELSE AddInk(g[i - 1], t[i])]
<1>1. n \in Nat /\ <<>> \in Seq(Char) /\ \A i \in 1..n : t[i] \in Char
  OBVIOUS
<1>2. InkStep \in [Char -> [Seq(Char) -> Seq(Char)]]
      /\ \A c \in Char : \A x \in Seq(Char) : InkStep[c][x] = AddInk(x, c)
  BY InkStepType
<1>3. F \in [1..n -> [Seq(Char) -> Seq(Char)]]
      /\ \A i \in 1..n : \A x \in Seq(Char) : F[i][x] = AddInk(x, t[i])
  BY <1>1, <1>2 DEF Steps
<1> HIDE DEF F
<1>4. PICK h : IsLoop(h, Seq(Char), <<>>, n, F)
  <2> HIDE DEF n
  <2>1. QED
    BY <1>1, <1>3, LoopExists
<1>5. h \in [0..n -> Seq(Char)] /\ h[0] = <<>> /\ \A i \in 1..n : h[i] = F[i][h[i - 1]]
  BY <1>4 DEF IsLoop
<1>6. ASSUME NEW i \in 1..n PROVE h[i] = AddInk(h[i - 1], t[i])
  <2>1. i - 1 \in 0..n
    BY <1>1
  <2>2. h[i - 1] \in Seq(Char)
    BY <1>5, <2>1
  <2>3. QED
    BY <1>3, <1>5, <2>2
<1>7. Eq(h)
  BY <1>1, <1>5, <1>6
<1> DEFINE f == CHOOSE g : Eq(g)
<1>8. Eq(f)
  BY <1>7
<1>9. Ink(t) = f[n]
  BY DEF Ink, AddInk
<1> HIDE DEF f
<1>10. f = [i \in 0..n |-> f[i]] /\ f[0] = <<>>
       /\ \A i \in 1..n : f[i - 1] \in Seq(Char) => f[i] = F[i][f[i - 1]]
  <2>1. f = [i \in 0..n |-> f[i]] /\ f[0] = <<>> /\ \A i \in 1..n : f[i] = AddInk(f[i - 1], t[i])
    BY <1>1, <1>8
  <2>2. \A i \in 1..n : f[i - 1] \in Seq(Char) => F[i][f[i - 1]] = AddInk(f[i - 1], t[i])
    BY <1>3
  <2>3. QED
    BY <2>1, <2>2
<1>11. IsLoop(f, Seq(Char), <<>>, n, F)
  <2> HIDE DEF n, Eq
  <2>1. QED
    BY <1>1, <1>3, <1>10, LoopFromSteps
<1>12. QED
  BY <1>1, <1>2, <1>9, <1>11 DEF Computes, F

\* What is printed of a text is a text.
LEMMA InkType == \A t \in Seq(Char) : Ink(t) \in Seq(Char)
  BY InkLoop, ComputesType

\* One more text.
AddText(ink, t) == ink \o Ink(t)

\* AddText makes a text of two.
LEMMA AddTextType == \A t \in Seq(Char) : \A x \in Seq(Char) : AddText(x, t) \in Seq(Char)
  BY InkType DEF AddText

\* The step of what is printed of a list of texts.
InkOfAllStep == [c \in Seq(Char) |-> [x \in Seq(Char) |-> AddText(x, c)]]

\* The type of this step, and what it does.
LEMMA InkOfAllStepType ==
    /\ InkOfAllStep \in [Seq(Char) -> [Seq(Char) -> Seq(Char)]]
    /\ \A c \in Seq(Char) : \A x \in Seq(Char) : InkOfAllStep[c][x] = AddText(x, c)
  BY AddTextType DEF InkOfAllStep

\* What is printed of a list of texts is a loop.
LEMMA InkOfAllLoop ==
    ASSUME NEW t \in Seq(Seq(Char))
    PROVE  Computes(InkOfAll(t), Seq(Char), Seq(Char), <<>>, InkOfAllStep, t)
<1> DEFINE n == Len(t)
           F == Steps(InkOfAllStep, t)
           Eq(g) == g = [i \in 0..n |-> IF i = 0 THEN <<>> ELSE AddText(g[i - 1], t[i])]
<1>1. n \in Nat /\ <<>> \in Seq(Char) /\ \A i \in 1..n : t[i] \in Seq(Char)
  OBVIOUS
<1>2. InkOfAllStep \in [Seq(Char) -> [Seq(Char) -> Seq(Char)]]
      /\ \A c \in Seq(Char) : \A x \in Seq(Char) : InkOfAllStep[c][x] = AddText(x, c)
  BY InkOfAllStepType
<1>3. F \in [1..n -> [Seq(Char) -> Seq(Char)]]
      /\ \A i \in 1..n : \A x \in Seq(Char) : F[i][x] = AddText(x, t[i])
  BY <1>1, <1>2 DEF Steps
<1> HIDE DEF F
<1>4. PICK h : IsLoop(h, Seq(Char), <<>>, n, F)
  <2> HIDE DEF n
  <2>1. QED
    BY <1>1, <1>3, LoopExists
<1>5. h \in [0..n -> Seq(Char)] /\ h[0] = <<>> /\ \A i \in 1..n : h[i] = F[i][h[i - 1]]
  BY <1>4 DEF IsLoop
<1>6. ASSUME NEW i \in 1..n PROVE h[i] = AddText(h[i - 1], t[i])
  <2>1. i - 1 \in 0..n
    BY <1>1
  <2>2. h[i - 1] \in Seq(Char)
    BY <1>5, <2>1
  <2>3. QED
    BY <1>3, <1>5, <2>2
<1>7. Eq(h)
  BY <1>1, <1>5, <1>6
<1> DEFINE f == CHOOSE g : Eq(g)
<1>8. Eq(f)
  BY <1>7
<1>9. InkOfAll(t) = f[n]
  BY DEF InkOfAll, AddText
<1> HIDE DEF f
<1>10. f = [i \in 0..n |-> f[i]] /\ f[0] = <<>>
       /\ \A i \in 1..n : f[i - 1] \in Seq(Char) => f[i] = F[i][f[i - 1]]
  <2>1. f = [i \in 0..n |-> f[i]] /\ f[0] = <<>> /\ \A i \in 1..n : f[i] = AddText(f[i - 1], t[i])
    BY <1>1, <1>8
  <2>2. \A i \in 1..n : f[i - 1] \in Seq(Char) => F[i][f[i - 1]] = AddText(f[i - 1], t[i])
    BY <1>3
  <2>3. QED
    BY <2>1, <2>2
<1>11. IsLoop(f, Seq(Char), <<>>, n, F)
  <2> HIDE DEF n, Eq
  <2>1. QED
    BY <1>1, <1>3, <1>10, LoopFromSteps
<1>12. QED
  BY <1>1, <1>2, <1>9, <1>11 DEF Computes, F

\* The length of a text with one more character.
LEMMA BytesLaws ==
    /\ Bytes(<<>>) = 0
    /\ \A t \in Seq(Char) : Bytes(t) \in Nat
    /\ \A t \in Seq(Char), c \in Char : Bytes(Append(t, c)) = Bytes(t) + Width(c)
<1>1. <<>> \in Seq(Char) /\ 0 \in Nat
  OBVIOUS
<1>2. Bytes(<<>>) = 0
  BY <1>1, BytesLoop, ComputesEmpty
<1>3. \A t \in Seq(Char) : Bytes(t) \in Nat
  BY BytesLoop, ComputesType
<1>4. ASSUME NEW t \in Seq(Char), NEW c \in Char
      PROVE  Bytes(Append(t, c)) = Bytes(t) + Width(c)
  <2>1. Append(t, c) \in Seq(Char)
    OBVIOUS
  <2>2. Bytes(Append(t, c)) = BytesStep[c][Bytes(t)]
    <3> DEFINE v == Bytes(t)
               w == Bytes(Append(t, c))
    <3>1. Computes(v, Char, Nat, 0, BytesStep, t)
          /\ Computes(w, Char, Nat, 0, BytesStep, Append(t, c))
      BY <2>1, BytesLoop
    <3> HIDE DEF v, w
    <3>2. w = BytesStep[c][v]
      BY <3>1, ComputesAppend
    <3>3. QED
      BY <3>2 DEF v, w
  <2>3. QED
    BY <1>3, <2>2, BytesStepType
<1>5. QED
  BY <1>2, <1>3, <1>4

\* One more character is one more iteration of clean_extracted_text.
LEMMA CollapseLaws ==
    /\ Collapse(<<>>) = <<>>
    /\ \A t \in Seq(Char) : Collapse(t) \in Seq(Char)
    /\ \A t \in Seq(Char), c \in Char : Collapse(Append(t, c)) = Put(Collapse(t), c)
<1>1. <<>> \in Seq(Char) /\ <<>> \in Seq(Char)
  OBVIOUS
<1>2. Collapse(<<>>) = <<>>
  BY <1>1, CollapseLoop, ComputesEmpty
<1>3. \A t \in Seq(Char) : Collapse(t) \in Seq(Char)
  BY CollapseLoop, ComputesType
<1>4. ASSUME NEW t \in Seq(Char), NEW c \in Char
      PROVE  Collapse(Append(t, c)) = Put(Collapse(t), c)
  <2>1. Append(t, c) \in Seq(Char)
    OBVIOUS
  <2>2. Collapse(Append(t, c)) = CollapseStep[c][Collapse(t)]
    <3> DEFINE v == Collapse(t)
               w == Collapse(Append(t, c))
    <3>1. Computes(v, Char, Seq(Char), <<>>, CollapseStep, t)
          /\ Computes(w, Char, Seq(Char), <<>>, CollapseStep, Append(t, c))
      BY <2>1, CollapseLoop
    <3> HIDE DEF v, w
    <3>2. w = CollapseStep[c][v]
      BY <3>1, ComputesAppend
    <3>3. QED
      BY <3>2 DEF v, w
  <2>3. QED
    BY <1>3, <2>2, CollapseStepType
<1>5. QED
  BY <1>2, <1>3, <1>4

\* What is printed of a text with one more character.
LEMMA InkLaws ==
    /\ Ink(<<>>) = <<>>
    /\ \A t \in Seq(Char) : Ink(t) \in Seq(Char)
    /\ \A t \in Seq(Char), c \in Char : Ink(Append(t, c)) = AddInk(Ink(t), c)
<1>1. <<>> \in Seq(Char) /\ <<>> \in Seq(Char)
  OBVIOUS
<1>2. Ink(<<>>) = <<>>
  BY <1>1, InkLoop, ComputesEmpty
<1>3. \A t \in Seq(Char) : Ink(t) \in Seq(Char)
  BY InkLoop, ComputesType
<1>4. ASSUME NEW t \in Seq(Char), NEW c \in Char
      PROVE  Ink(Append(t, c)) = AddInk(Ink(t), c)
  <2>1. Append(t, c) \in Seq(Char)
    OBVIOUS
  <2>2. Ink(Append(t, c)) = InkStep[c][Ink(t)]
    <3> DEFINE v == Ink(t)
               w == Ink(Append(t, c))
    <3>1. Computes(v, Char, Seq(Char), <<>>, InkStep, t)
          /\ Computes(w, Char, Seq(Char), <<>>, InkStep, Append(t, c))
      BY <2>1, InkLoop
    <3> HIDE DEF v, w
    <3>2. w = InkStep[c][v]
      BY <3>1, ComputesAppend
    <3>3. QED
      BY <3>2 DEF v, w
  <2>3. QED
    BY <1>3, <2>2, InkStepType
<1>5. QED
  BY <1>2, <1>3, <1>4

\* What is printed of a list with one more text.
LEMMA InkOfAllLaws ==
    /\ InkOfAll(<<>>) = <<>>
    /\ \A t \in Seq(Seq(Char)) : InkOfAll(t) \in Seq(Char)
    /\ \A t \in Seq(Seq(Char)), c \in Seq(Char) : InkOfAll(Append(t, c)) = InkOfAll(t) \o Ink(c)
<1>1. <<>> \in Seq(Seq(Char)) /\ <<>> \in Seq(Char)
  OBVIOUS
<1>2. InkOfAll(<<>>) = <<>>
  BY <1>1, InkOfAllLoop, ComputesEmpty
<1>3. \A t \in Seq(Seq(Char)) : InkOfAll(t) \in Seq(Char)
  BY InkOfAllLoop, ComputesType
<1>4. ASSUME NEW t \in Seq(Seq(Char)), NEW c \in Seq(Char)
      PROVE  InkOfAll(Append(t, c)) = InkOfAll(t) \o Ink(c)
  <2>1. Append(t, c) \in Seq(Seq(Char))
    OBVIOUS
  <2>2. InkOfAll(Append(t, c)) = InkOfAllStep[c][InkOfAll(t)]
    <3> DEFINE v == InkOfAll(t)
               w == InkOfAll(Append(t, c))
    <3>1. Computes(v, Seq(Char), Seq(Char), <<>>, InkOfAllStep, t)
          /\ Computes(w, Seq(Char), Seq(Char), <<>>, InkOfAllStep, Append(t, c))
      BY <2>1, InkOfAllLoop
    <3> HIDE DEF v, w
    <3>2. w = InkOfAllStep[c][v]
      BY <3>1, ComputesAppend
    <3>3. QED
      BY <3>2 DEF v, w
  <2>3. QED
    BY <1>3, <2>2, InkOfAllStepType DEF AddText
<1>5. QED
  BY <1>2, <1>3, <1>4
-------------------------------------------------------------------------------
(***************************************************************************)
(* What cleaning a text and cutting it do to its length and its ink.       *)
(***************************************************************************)

\* A character at the end of two texts is at the end of the second.
LEMMA ConcatAppend ==
    ASSUME NEW C, NEW s \in Seq(C), NEW t \in Seq(C), NEW c \in C
    PROVE  s \o Append(t, c) = Append(s \o t, c)
<1>1. Append(t, c) \in Seq(C) /\ s \o t \in Seq(C)
  OBVIOUS
<1> DEFINE u == Append(t, c)
           v == s \o t
<1>2. Len(u) = Len(t) + 1 /\ u[Len(t) + 1] = c /\ \A i \in 1..Len(t) : u[i] = t[i]
  OBVIOUS
<1>3. Len(v) = Len(s) + Len(t) /\ \A i \in 1..Len(v) :
          v[i] = IF i <= Len(s) THEN s[i] ELSE t[i - Len(s)]
  OBVIOUS
<1> HIDE DEF u, v
<1>4. s \o u \in Seq(C) /\ Len(s \o u) = Len(s) + Len(u) /\ \A i \in 1..Len(s \o u) :
          (s \o u)[i] = IF i <= Len(s) THEN s[i] ELSE u[i - Len(s)]
  BY <1>1 DEF u
<1>5. Append(v, c) \in Seq(C) /\ Len(Append(v, c)) = Len(v) + 1
      /\ Append(v, c)[Len(v) + 1] = c /\ \A i \in 1..Len(v) : Append(v, c)[i] = v[i]
  BY <1>1 DEF v
<1> DEFINE x == s \o u
           y == Append(v, c)
<1> HIDE DEF x, y
<1>6. x \in Seq(C) /\ y \in Seq(C) /\ Len(x) = Len(y)
  BY <1>2, <1>3, <1>4, <1>5 DEF x, y
<1>7. ASSUME NEW i \in 1..Len(x) PROVE x[i] = y[i]
  <2>0. Len(x) = Len(s) + Len(t) + 1 /\ Len(s) \in Nat /\ Len(t) \in Nat /\ i \in Nat
        /\ Len(v) = Len(s) + Len(t) /\ Len(u) = Len(t) + 1
    BY <1>2, <1>3, <1>4 DEF x
  <2>1. CASE i <= Len(s)
    BY <1>3, <1>4, <1>5, <2>0, <2>1 DEF x, y
  <2>2. CASE i > Len(s) /\ i <= Len(s) + Len(t)
    <3>1. x[i] = u[i - Len(s)] /\ i - Len(s) \in 1..Len(t)
      BY <1>4, <2>0, <2>2 DEF x
    <3>2. y[i] = t[i - Len(s)]
      BY <1>3, <1>5, <2>0, <2>2 DEF y
    <3>3. QED
      BY <1>2, <3>1, <3>2
  <2>3. CASE i = Len(s) + Len(t) + 1
    <3>1. x[i] = u[i - Len(s)] /\ i - Len(s) = Len(t) + 1
      BY <1>4, <2>0, <2>3 DEF x
    <3>2. y[i] = c
      BY <1>3, <1>5, <2>0, <2>3 DEF y
    <3>3. QED
      BY <1>2, <3>1, <3>2
  <2>4. QED
    BY <2>0, <2>1, <2>2, <2>3
<1>8. x = y
  BY <1>6, <1>7, SeqEqual
<1>9. QED
  BY <1>8 DEF x, y, u, v

\* What is printed of two texts is what is printed of the one and of the other.
LEMMA InkConcat == \A t \in Seq(Char), s \in Seq(Char) : Ink(s \o t) = Ink(s) \o Ink(t)
<1> DEFINE G == {t \in Seq(Char) : \A s \in Seq(Char) : Ink(s \o t) = Ink(s) \o Ink(t)}
<1>1. <<>> \in G
  BY InkLaws
<1>2. ASSUME NEW t \in Seq(Char), NEW c \in Char, t \in G PROVE Append(t, c) \in G
  <2>1. ASSUME NEW s \in Seq(Char) PROVE Ink(s \o Append(t, c)) = Ink(s) \o Ink(Append(t, c))
    <3>1. s \o t \in Seq(Char) /\ s \o Append(t, c) = Append(s \o t, c)
      BY ConcatAppend
    <3>2. Ink(s \o Append(t, c)) = AddInk(Ink(s) \o Ink(t), c)
      BY <1>2, <3>1, InkLaws
    <3>3. Ink(s) \in Seq(Char) /\ Ink(t) \in Seq(Char)
      BY InkLaws
    <3>4. AddInk(Ink(s) \o Ink(t), c) = Ink(s) \o AddInk(Ink(t), c)
      <4>1. Ink(s) \o Append(Ink(t), c) = Append(Ink(s) \o Ink(t), c)
        BY <3>3, ConcatAppend
      <4>2. QED
        BY <4>1, Zenon DEF AddInk
    <3>5. QED
      BY <3>2, <3>4, InkLaws
  <2>2. Append(t, c) \in Seq(Char)
    OBVIOUS
  <2>3. QED
    BY <2>1, <2>2
<1>3. \A t \in Seq(Char) : t \in G
  <2> HIDE DEF G
  <2>1. QED
    BY <1>1, <1>2, SeqInduction
<1>4. QED
  BY <1>3

\* Lengths add up.
LEMMA BytesConcat == \A t \in Seq(Char), s \in Seq(Char) : Bytes(s \o t) = Bytes(s) + Bytes(t)
<1> DEFINE G == {t \in Seq(Char) : \A s \in Seq(Char) : Bytes(s \o t) = Bytes(s) + Bytes(t)}
<1>1. <<>> \in G
  BY BytesLaws
<1>2. ASSUME NEW t \in Seq(Char), NEW c \in Char, t \in G PROVE Append(t, c) \in G
  <2>1. ASSUME NEW s \in Seq(Char)
        PROVE  Bytes(s \o Append(t, c)) = Bytes(s) + Bytes(Append(t, c))
    <3>1. s \o t \in Seq(Char) /\ s \o Append(t, c) = Append(s \o t, c)
      BY ConcatAppend
    <3>2. Bytes(s \o Append(t, c)) = (Bytes(s) + Bytes(t)) + Width(c)
      BY <1>2, <3>1, BytesLaws
    <3>3. Bytes(s) \in Nat /\ Bytes(t) \in Nat /\ Width(c) \in Nat
      BY BytesLaws DEF Width
    <3>4. Bytes(Append(t, c)) = Bytes(t) + Width(c)
      BY BytesLaws
    <3>5. QED
      BY <3>2, <3>3, <3>4
  <2>2. Append(t, c) \in Seq(Char)
    OBVIOUS
  <2>3. QED
    BY <2>1, <2>2
<1>3. \A t \in Seq(Char) : t \in G
  <2> HIDE DEF G
  <2>1. QED
    BY <1>1, <1>2, SeqInduction
<1>4. QED
  BY <1>3

\* Only the empty text has no bytes.
LEMMA BytesPositive == \A t \in Seq(Char) : t # <<>> => Bytes(t) >= 1
<1> DEFINE G == {t \in Seq(Char) : t # <<>> => Bytes(t) >= 1}
<1>1. <<>> \in G
  OBVIOUS
<1>2. ASSUME NEW t \in Seq(Char), NEW c \in Char, t \in G PROVE Append(t, c) \in G
  <2>1. Bytes(t) \in Nat /\ Bytes(Append(t, c)) = Bytes(t) + Width(c)
    BY BytesLaws
  <2>2. Width(c) \in Nat /\ Width(c) >= 1
    BY DEF Width
  <2>3. Append(t, c) \in Seq(Char) /\ Bytes(Append(t, c)) >= 1
    BY <2>1, <2>2
  <2>4. QED
    BY <2>3
<1>3. \A t \in Seq(Char) : t \in G
  <2> HIDE DEF G
  <2>1. QED
    BY <1>1, <1>2, SeqInduction
<1>4. QED
  BY <1>3

\* White space leaves no ink.
LEMMA InkOfSpaces ==
    \A t \in Seq(Char) : (\A i \in 1..Len(t) : Space(t[i])) => Ink(t) = <<>>
<1> DEFINE Blank(t) == \A i \in 1..Len(t) : Space(t[i])
           G == {t \in Seq(Char) : Blank(t) => Ink(t) = <<>>}
<1>1. <<>> \in G
  BY InkLaws
<1>2. ASSUME NEW t \in Seq(Char), NEW c \in Char, t \in G PROVE Append(t, c) \in G
  <2>1. Append(t, c) \in Seq(Char) /\ (Blank(Append(t, c)) => Blank(t) /\ Space(c))
    <3>1. Len(Append(t, c)) = Len(t) + 1 /\ Append(t, c)[Len(t) + 1] = c /\ Len(t) \in Nat
          /\ \A i \in 1..Len(t) : Append(t, c)[i] = t[i]
      OBVIOUS
    <3>2. Append(t, c) \in Seq(Char)
      OBVIOUS
    <3>3. ASSUME Blank(Append(t, c)) PROVE Blank(t) /\ Space(c)
      BY <3>1, <3>3
    <3>4. QED
      BY <3>2, <3>3
  <2> HIDE DEF Blank
  <2>2. Ink(Append(t, c)) = AddInk(Ink(t), c)
    BY InkLaws
  <2>3. Blank(Append(t, c)) => Ink(Append(t, c)) = <<>>
    BY <1>2, <2>1, <2>2 DEF AddInk
  <2>4. QED
    BY <2>1, <2>3
<1>3. \A t \in Seq(Char) : t \in G
  <2> HIDE DEF G
  <2>1. QED
    BY <1>1, <1>2, SeqInduction
<1>4. QED
  BY <1>3

\* An iteration of clean_extracted_text prints what it reads, in no more bytes.
LEMMA PutKeepsInk ==
    \A x \in Seq(Char), c \in Char :
        Ink(Put(x, c)) = AddInk(Ink(x), c) /\ Bytes(Put(x, c)) <= Bytes(x) + Width(c)
<1> SUFFICES ASSUME NEW x \in Seq(Char), NEW c \in Char
             PROVE  Ink(Put(x, c)) = AddInk(Ink(x), c)
                    /\ Bytes(Put(x, c)) <= Bytes(x) + Width(c)
    OBVIOUS
<1>1. "sp" \in Char /\ Space("sp") /\ Width("sp") = 1
  BY DEF Char, Space, Width
<1>2. Width(c) \in Nat /\ Width(c) >= 1 /\ Bytes(x) \in Nat
  BY BytesLaws DEF Width
<1>3. Ink(Append(x, c)) = AddInk(Ink(x), c) /\ Bytes(Append(x, c)) = Bytes(x) + Width(c)
  BY InkLaws, BytesLaws
<1>4. Ink(Append(x, "sp")) = Ink(x) /\ Bytes(Append(x, "sp")) = Bytes(x) + 1
  BY <1>1, InkLaws, BytesLaws DEF AddInk
<1>5. CASE ~Space(c)
  <2>1. Put(x, c) = Append(x, c)
    BY <1>5, Zenon DEF Put
  <2>2. QED
    BY <1>2, <1>3, <2>1
<1>6. CASE Space(c)
  <2>1. Put(x, c) = x \/ Put(x, c) = Append(x, "sp")
    BY <1>6, Zenon DEF Put
  <2>2. AddInk(Ink(x), c) = Ink(x)
    BY <1>6, Zenon DEF AddInk
  <2>3. CASE Put(x, c) = x
    BY <1>2, <2>2, <2>3
  <2>4. CASE Put(x, c) = Append(x, "sp")
    BY <1>2, <1>4, <2>2, <2>4
  <2>5. QED
    BY <2>1, <2>3, <2>4
<1>7. QED
  BY <1>5, <1>6

\* So does the loop.
LEMMA CollapseKeepsInk ==
    \A t \in Seq(Char) : Ink(Collapse(t)) = Ink(t) /\ Bytes(Collapse(t)) <= Bytes(t)
<1> DEFINE G == {t \in Seq(Char) : Ink(Collapse(t)) = Ink(t) /\ Bytes(Collapse(t)) <= Bytes(t)}
<1>1. <<>> \in G
  BY CollapseLaws, BytesLaws
<1>2. ASSUME NEW t \in Seq(Char), NEW c \in Char, t \in G PROVE Append(t, c) \in G
  <2>1. Append(t, c) \in Seq(Char) /\ Collapse(t) \in Seq(Char)
        /\ Collapse(Append(t, c)) = Put(Collapse(t), c)
    BY CollapseLaws
  <2>2. Ink(Append(t, c)) = AddInk(Ink(t), c) /\ Bytes(Append(t, c)) = Bytes(t) + Width(c)
    BY InkLaws, BytesLaws
  <2>3. Ink(Put(Collapse(t), c)) = AddInk(Ink(Collapse(t)), c)
        /\ Bytes(Put(Collapse(t), c)) <= Bytes(Collapse(t)) + Width(c)
    BY <2>1, PutKeepsInk
  <2>4. Put(Collapse(t), c) \in Seq(Char)
    BY <2>1, PutType
  <2>5. Bytes(t) \in Nat /\ Bytes(Collapse(t)) \in Nat /\ Width(c) \in Nat
        /\ Bytes(Put(Collapse(t), c)) \in Nat
    BY <2>1, <2>4, BytesLaws DEF Width
  <2>6. Ink(Collapse(t)) = Ink(t) /\ Bytes(Collapse(t)) <= Bytes(t)
    BY <1>2
  <2>7. Ink(Collapse(Append(t, c))) = Ink(Append(t, c))
    BY <2>1, <2>2, <2>3, <2>6
  <2>8. Bytes(Collapse(Append(t, c))) <= Bytes(Append(t, c))
    BY <2>1, <2>2, <2>3, <2>5, <2>6
  <2>9. QED
    BY <2>1, <2>7, <2>8
<1>3. \A t \in Seq(Char) : t \in G
  <2> HIDE DEF G
  <2>1. QED
    BY <1>1, <1>2, SeqInduction
<1>4. QED
  BY <1>3

\* A text that is not empty is what is before its end, and its end.
LEMMA FrontLast ==
    ASSUME NEW C, NEW x \in Seq(C), x # <<>>
    PROVE  Front(x) \in Seq(C) /\ Last(x) \in C /\ x = Append(Front(x), Last(x))
           /\ Len(Front(x)) = Len(x) - 1
<1>1. Len(x) \in 1..Len(x) /\ SubSeq(x, 1, Len(x)) = x
  BY SubSeqFull
<1>2. x = Append(SubSeq(x, 1, Len(x) - 1), x[Len(x)])
  BY <1>1, PrefixAppend
<1>3. SubSeq(x, 1, Len(x) - 1) \in Seq(C) /\ Len(SubSeq(x, 1, Len(x) - 1)) = Len(x) - 1
  BY <1>1
<1>4. QED
  BY <1>1, <1>2, <1>3 DEF Front, Last

\* Nor does the end of clean_extracted_text lose ink.
LEMMA TrimKeepsInk ==
    \A x \in Seq(Char) :
        Trim(x) \in Seq(Char) /\ Ink(Trim(x)) = Ink(x) /\ Bytes(Trim(x)) <= Bytes(x)
<1> SUFFICES ASSUME NEW x \in Seq(Char)
             PROVE  Trim(x) \in Seq(Char) /\ Ink(Trim(x)) = Ink(x)
                    /\ Bytes(Trim(x)) <= Bytes(x)
    OBVIOUS
<1>1. "sp" \in Char /\ Space("sp") /\ Width("sp") = 1 /\ Bytes(x) \in Nat
  BY BytesLaws DEF Char, Space, Width
<1>2. CASE x # <<>> /\ Last(x) = "sp"
  <2>1. Trim(x) = Front(x)
    BY <1>2, Zenon DEF Trim
  <2>2. Front(x) \in Seq(Char) /\ x = Append(Front(x), "sp")
    BY <1>2, FrontLast
  <2>3. Ink(x) = AddInk(Ink(Front(x)), "sp") /\ Bytes(x) = Bytes(Front(x)) + 1
        /\ Bytes(Front(x)) \in Nat
    BY <1>1, <2>2, InkLaws, BytesLaws
  <2>4. Ink(x) = Ink(Front(x))
    BY <1>1, <2>3 DEF AddInk
  <2>5. QED
    BY <2>1, <2>2, <2>3, <2>4
<1>3. CASE ~(x # <<>> /\ Last(x) = "sp")
  <2>1. Trim(x) = x
    BY <1>3, Zenon DEF Trim
  <2>2. QED
    BY <1>1, <2>1
<1>4. QED
  BY <1>2, <1>3

\* clean_extracted_text makes a text no longer and loses nothing printed.
LEMMA CleanKeepsInk ==
    \A t \in Seq(Char) :
        Clean(t) \in Seq(Char) /\ Ink(Clean(t)) = Ink(t) /\ Bytes(Clean(t)) <= Bytes(t)
<1> SUFFICES ASSUME NEW t \in Seq(Char)
             PROVE  Clean(t) \in Seq(Char) /\ Ink(Clean(t)) = Ink(t)
                    /\ Bytes(Clean(t)) <= Bytes(t)
    OBVIOUS
<1>1. Collapse(t) \in Seq(Char)
  BY CollapseLaws
<1>2. Clean(t) \in Seq(Char) /\ Ink(Clean(t)) = Ink(Collapse(t))
      /\ Bytes(Clean(t)) <= Bytes(Collapse(t))
  BY <1>1, TrimKeepsInk DEF Clean
<1>3. Bytes(t) \in Nat /\ Bytes(Collapse(t)) \in Nat /\ Bytes(Clean(t)) \in Nat
  BY <1>1, <1>2, BytesLaws
<1>4. QED
  BY <1>2, <1>3, CollapseKeepsInk

\* A text up to b is the text up to a and the text from there.
LEMMA PrefixSplit ==
    ASSUME NEW t \in Seq(Char), NEW a \in 0..Len(t), NEW b \in a..Len(t)
    PROVE  /\ SubSeq(t, 1, a) \in Seq(Char) /\ SubSeq(t, a + 1, b) \in Seq(Char)
           /\ SubSeq(t, 1, b) \in Seq(Char)
           /\ SubSeq(t, 1, b) = SubSeq(t, 1, a) \o SubSeq(t, a + 1, b)
<1>1. Len(t) \in Nat /\ a \in Nat /\ b \in Nat /\ a <= b /\ b <= Len(t)
  OBVIOUS
<1>2. SubSeq(t, 1, a) \in Seq(Char) /\ SubSeq(t, a + 1, b) \in Seq(Char)
      /\ SubSeq(t, 1, b) \in Seq(Char)
  BY <1>1
<1>3. 1 \in 1..(Len(t) + 1) /\ a \in (1 - 1)..Len(t)
  BY <1>1
<1>4. SubSeq(t, 1, b) = SubSeq(t, 1, a) \o SubSeq(t, a + 1, b)
  BY <1>3, ConcatAdjacentSubSeq
<1>5. QED
  BY <1>2, <1>4

\* What is printed up to b is what is printed up to a and from there.
LEMMA InkPrefixSplit ==
    ASSUME NEW t \in Seq(Char), NEW a \in 0..Len(t), NEW b \in a..Len(t)
    PROVE  Ink(SubSeq(t, 1, b)) = Ink(SubSeq(t, 1, a)) \o Ink(SubSeq(t, a + 1, b))
  BY PrefixSplit, InkConcat

\* Nothing is printed of a part that is white space.
LEMMA InkOfBlankPart ==
    ASSUME NEW t \in Seq(Char), NEW a \in 1..(Len(t) + 1), NEW b \in 0..Len(t),
           \A j \in a..b : Space(t[j])
    PROVE  Ink(SubSeq(t, a, b)) = <<>>
<1> DEFINE w == SubSeq(t, a, b)
<1>1. Len(t) \in Nat /\ a \in Int /\ b \in Int
  OBVIOUS
<1>2. ASSUME NEW j \in a..b PROVE t[j] \in Char
  <2>1. j \in 1..Len(t)
    BY <1>1
  <2>2. QED
    BY <2>1, ElementOfSeq
<1>3. w \in Seq(Char) /\ Len(w) = (IF a <= b THEN b - a + 1 ELSE 0)
      /\ \A k \in 1..(b - a + 1) : w[k] = t[a + k - 1]
  BY <1>1, <1>2, SubSeqProperties
<1> HIDE DEF w
<1>4. \A k \in 1..Len(w) : w[k] = t[a + k - 1] /\ a + k - 1 \in a..b
  BY <1>1, <1>3
<1>5. \A k \in 1..Len(w) : Space(w[k])
  BY <1>4
<1>6. Ink(w) = <<>>
  BY <1>3, <1>5, InkOfSpaces
<1>7. QED
  BY <1>6 DEF w

\* A part of a text is not longer than the text.
LEMMA BytesOfPart ==
    ASSUME NEW t \in Seq(Char), NEW a \in 0..Len(t), NEW b \in a..Len(t)
    PROVE  Bytes(SubSeq(t, a + 1, b)) <= Bytes(t)
<1>1. Len(t) \in 0..Len(t) /\ b \in 0..Len(t) /\ Len(t) \in b..Len(t)
  OBVIOUS
<1> DEFINE u == SubSeq(t, 1, a)
           v == SubSeq(t, a + 1, b)
           w == SubSeq(t, 1, b)
           x == SubSeq(t, b + 1, Len(t))
<1>2. u \in Seq(Char) /\ v \in Seq(Char) /\ w \in Seq(Char) /\ w = u \o v
  BY PrefixSplit
<1>3. x \in Seq(Char) /\ t = w \o x
  BY <1>1, PrefixSplit, SubSeqFull
<1> HIDE DEF u, v, w, x
<1>4. Bytes(w) = Bytes(u) + Bytes(v) /\ Bytes(t) = Bytes(w) + Bytes(x)
  BY <1>2, <1>3, BytesConcat
<1>5. Bytes(u) \in Nat /\ Bytes(v) \in Nat /\ Bytes(x) \in Nat
  BY <1>2, <1>3, BytesLaws
<1>6. Bytes(v) <= Bytes(t)
  BY <1>4, <1>5
<1>7. QED
  BY <1>6 DEF v
-------------------------------------------------------------------------------
(***************************************************************************)
(* tts_segment_text_into_sentences.                                        *)
(***************************************************************************)

\* From position i, SkipSpaces passes white space and nothing else.
LEMMA SkipSpacesFacts ==
    ASSUME NEW t \in Seq(Char), NEW i \in 1..(Len(t) + 1)
    PROVE  /\ SkipSpaces(t, i) \in i..(Len(t) + 1)
           /\ \A j \in i..(SkipSpaces(t, i) - 1) : Space(t[j])
           /\ SkipSpaces(t, i) <= Len(t) => ~Space(t[SkipSpaces(t, i)])
<1> DEFINE rest == {j \in i..Len(t) : ~Space(t[j])}
<1>1. Len(t) \in Nat
  OBVIOUS
<1>2. CASE rest = {}
  <2>1. SkipSpaces(t, i) = Len(t) + 1
    BY <1>2 DEF SkipSpaces
  <2>2. QED
    BY <1>1, <1>2, <2>1
<1>3. CASE rest # {}
  <2>1. SkipSpaces(t, i) = Min(rest)
    BY <1>3 DEF SkipSpaces
  <2>2. PICK m \in rest : \A k \in rest : m <= k
    <3>1. rest \subseteq Nat
      BY <1>1
    <3> HIDE DEF rest
    <3>2. QED
      BY <1>3, <3>1, LeastElement
  <2>3. Min(rest) \in rest /\ \A k \in rest : Min(rest) <= k
    <3> HIDE DEF rest
    <3>1. QED
      BY <2>2 DEF Min
  <2> DEFINE n == Min(rest)
  <2> HIDE DEF n
  <2>4. n \in rest /\ \A k \in rest : n <= k
    BY <2>3 DEF n
  <2>5. n \in i..Len(t) /\ ~Space(t[n])
    BY <2>4
  <2>6. \A j \in i..(n - 1) : Space(t[j])
    BY <1>1, <2>4, <2>5
  <2>7. QED
    BY <1>1, <2>1, <2>5, <2>6 DEF n
<1>4. QED
  BY <1>2, <1>3

\* The values that the loop over the characters goes through.
Scans == [start : Nat \ {0}, list : Seq(Seq(Char))]

\* What one sentence adds to a list of them.
LEMMA SentenceFacts ==
    ASSUME NEW t \in Seq(Char), NEW a \in Nat \ {0}, NEW b \in 0..Len(t)
    PROVE  /\ Sentence(t, a, b) \in Seq(Seq(Char))
           /\ SubSeq(t, a, b) \in Seq(Char)
           /\ \A l \in Seq(Seq(Char)) :
                 InkOfAll(l \o Sentence(t, a, b)) = InkOfAll(l) \o Ink(SubSeq(t, a, b))
           /\ \A k \in 1..Len(Sentence(t, a, b)) :
                 LET s == Sentence(t, a, b)[k] IN s # <<>> /\ Bytes(s) <= Bytes(t)
<1> DEFINE u == SubSeq(t, a, b)
<1>1. u \in Seq(Char)
  OBVIOUS
<1>2. Bytes(u) <= Bytes(t)
  <2>1. CASE a <= b
    <3>1. a - 1 \in 0..Len(t) /\ b \in (a - 1)..Len(t) /\ (a - 1) + 1 = a
      BY <2>1
    <3>2. QED
      BY <3>1, BytesOfPart
  <2>2. CASE a > b
    <3>1. u = <<>>
      BY <2>2, SubSeqEmpty
    <3>2. QED
      BY <3>1, BytesLaws
  <2>3. QED
    BY <2>1, <2>2
<1> HIDE DEF u
<1>3. Clean(u) \in Seq(Char) /\ Ink(Clean(u)) = Ink(u) /\ Bytes(Clean(u)) <= Bytes(t)
  <2>1. Clean(u) \in Seq(Char) /\ Ink(Clean(u)) = Ink(u) /\ Bytes(Clean(u)) <= Bytes(u)
    BY <1>1, CleanKeepsInk
  <2>2. Bytes(Clean(u)) \in Nat /\ Bytes(u) \in Nat /\ Bytes(t) \in Nat
    BY <1>1, <2>1, BytesLaws
  <2>3. QED
    BY <1>2, <2>1, <2>2
<1>4. CASE Clean(u) = <<>>
  <2>1. Sentence(t, a, b) = <<>>
    BY <1>4 DEF Sentence, u
  <2>2. Ink(u) = <<>>
    BY <1>3, <1>4, InkLaws
  <2>3. \A l \in Seq(Seq(Char)) : InkOfAll(l) \in Seq(Char)
    BY InkOfAllLaws
  <2>4. \A l \in Seq(Seq(Char)) : InkOfAll(l \o <<>>) = InkOfAll(l) \o Ink(u)
    BY <2>2, <2>3
  <2>5. QED
    BY <1>1, <2>1, <2>4 DEF u
<1>5. CASE Clean(u) # <<>>
  <2> DEFINE c == Clean(u)
  <2>1. Sentence(t, a, b) = <<c>>
    BY <1>5 DEF Sentence, u
  <2>2. c \in Seq(Char) /\ Ink(c) = Ink(u) /\ Bytes(c) <= Bytes(t) /\ c # <<>>
    BY <1>3, <1>5
  <2> HIDE DEF c
  <2>3. \A l \in Seq(Seq(Char)) : l \o <<c>> = Append(l, c)
    BY <2>2
  <2>4. \A l \in Seq(Seq(Char)) : InkOfAll(l \o <<c>>) = InkOfAll(l) \o Ink(u)
    BY <2>2, <2>3, InkOfAllLaws
  <2>5. <<c>> \in Seq(Seq(Char)) /\ Len(<<c>>) = 1 /\ <<c>>[1] = c
    BY <2>2
  <2>6. \A k \in 1..Len(<<c>>) : <<c>>[k] = c
    BY <2>5
  <2>7. QED
    BY <1>1, <2>1, <2>2, <2>4, <2>5, <2>6 DEF u
<1>6. QED
  BY <1>4, <1>5

\* The loop keeps to its type.
LEMMA VisitType ==
    ASSUME NEW t \in Seq(Char), NEW x \in Scans, NEW i \in 1..Len(t)
    PROVE  Visit(t, x, i) \in Scans
<1>1. x.start \in Nat \ {0} /\ x.list \in Seq(Seq(Char))
  BY DEF Scans
<1>2. i + 1 \in 1..(Len(t) + 1) /\ i \in 0..Len(t)
  OBVIOUS
<1>3. SkipSpaces(t, i + 1) \in Nat \ {0}
  BY <1>2, SkipSpacesFacts
<1>4. Sentence(t, x.start, i) \in Seq(Seq(Char))
  BY <1>1, <1>2, SentenceFacts
<1> DEFINE l == x.list \o Sentence(t, x.start, i)
           n == SkipSpaces(t, i + 1)
<1>5. l \in Seq(Seq(Char))
  BY <1>1, <1>4
<1> HIDE DEF l, n
<1>6. [start |-> n, list |-> l] \in Scans
  BY <1>3, <1>5 DEF Scans, n
<1>7. Visit(t, x, i) = x \/ Visit(t, x, i) = [start |-> n, list |-> l]
  BY Zenon DEF Visit, n, l
<1>8. QED
  BY <1>6, <1>7

\* What the loop over the characters of a text computes.
LEMMA ScanFacts ==
    ASSUME NEW t \in Seq(Char)
    PROVE  /\ Scan(t)[0] = [start |-> 1, list |-> <<>>]
           /\ \A i \in 0..Len(t) : Scan(t)[i] \in Scans
           /\ \A i \in 1..Len(t) : Scan(t)[i] = Visit(t, Scan(t)[i - 1], i)
<1> DEFINE n == Len(t)
           a == [start |-> 1, list |-> <<>>]
           F == [i \in 1..n |-> [x \in Scans |-> Visit(t, x, i)]]
           Eq(g) == g = [i \in 0..n |-> IF i = 0 THEN a ELSE Visit(t, g[i - 1], i)]
<1>1. n \in Nat /\ a \in Scans
  BY DEF Scans
<1>2. F \in [1..n -> [Scans -> Scans]]
      /\ \A i \in 1..n : \A x \in Scans : F[i][x] = Visit(t, x, i)
  BY VisitType
<1> HIDE DEF F, a
<1>3. PICK h : IsLoop(h, Scans, a, n, F)
  <2> HIDE DEF n
  <2>1. QED
    BY <1>1, <1>2, LoopExists
<1>4. h \in [0..n -> Scans] /\ h[0] = a /\ \A i \in 1..n : h[i] = F[i][h[i - 1]]
  BY <1>3 DEF IsLoop
<1>5. ASSUME NEW i \in 1..n PROVE h[i] = Visit(t, h[i - 1], i)
  <2>1. i - 1 \in 0..n
    BY <1>1
  <2>2. h[i - 1] \in Scans
    BY <1>4, <2>1
  <2>3. QED
    BY <1>2, <1>4, <2>2
<1>6. Eq(h)
  BY <1>1, <1>4, <1>5
<1> DEFINE f == CHOOSE g : Eq(g)
<1>7. Eq(f)
  BY <1>6
<1>8. Scan(t) = f
  BY DEF Scan, a
<1> HIDE DEF f
<1>9. f = [i \in 0..n |-> f[i]] /\ f[0] = a /\ \A i \in 1..n : f[i] = Visit(t, f[i - 1], i)
  BY <1>1, <1>7
<1>10. \A i \in 1..n : f[i - 1] \in Scans => f[i] = F[i][f[i - 1]]
  BY <1>2, <1>9
<1>11. IsLoop(f, Scans, a, n, F)
  <2> HIDE DEF n, Eq
  <2>1. QED
    BY <1>1, <1>2, <1>9, <1>10, LoopFromSteps
<1>12. QED
  BY <1>8, <1>9, <1>11 DEF IsLoop, a

\* No text of the list is empty, or longer than the text it is from.
PartsOf(t, l) == \A k \in 1..Len(l) : l[k] # <<>> /\ Bytes(l[k]) <= Bytes(t)

\* Two lists of parts make a list of parts.
LEMMA PartsOfConcat ==
    ASSUME NEW t, NEW l \in Seq(Seq(Char)), NEW m \in Seq(Seq(Char)),
           PartsOf(t, l), PartsOf(t, m)
    PROVE  PartsOf(t, l \o m)
<1> SUFFICES ASSUME NEW k \in 1..Len(l \o m)
             PROVE  (l \o m)[k] # <<>> /\ Bytes((l \o m)[k]) <= Bytes(t)
    BY DEF PartsOf
<1>1. \/ k \in 1..Len(l) /\ (l \o m)[k] = l[k]
      \/ k - Len(l) \in 1..Len(m) /\ (l \o m)[k] = m[k - Len(l)]
  OBVIOUS
<1>2. QED
  BY <1>1, Zenon DEF PartsOf

\* Before iteration i + 1 of the loop, what comes before the sentence that has
\* begun is in the list, and the sentence begins where the loop is or where the
\* white space before it ends.
ScanInv(t, x, i) ==
    /\ x.start \in 1..(Len(t) + 1)
    /\ InkOfAll(x.list) = Ink(SubSeq(t, 1, x.start - 1))
    /\ \A j \in (i + 1)..(x.start - 1) : Space(t[j])
    /\ PartsOf(t, x.list)

\* An iteration of tts_segment_text_into_sentences keeps ScanInv.
LEMMA ScanInvStep ==
    ASSUME NEW t \in Seq(Char), NEW i \in 1..Len(t), NEW x \in Scans,
           ScanInv(t, x, i - 1)
    PROVE  ScanInv(t, Visit(t, x, i), i)
<1>1. i \in Nat /\ Len(t) \in Nat /\ x.start \in 1..(Len(t) + 1) /\ (i - 1) + 1 = i
  BY DEF ScanInv
<1>2. CASE ~EndsSentence(t, i)
  <2>1. Visit(t, x, i) = x
    BY <1>2, Zenon DEF Visit
  <2>2. \A j \in (i + 1)..(x.start - 1) : Space(t[j])
    BY <1>1 DEF ScanInv
  <2>3. QED
    BY <2>1, <2>2 DEF ScanInv
<1>3. CASE EndsSentence(t, i)
  <2> DEFINE n == SkipSpaces(t, i + 1)
             l == x.list \o Sentence(t, x.start, i)
  <2>1. Visit(t, x, i) = [start |-> n, list |-> l]
    BY <1>3, Zenon DEF Visit
  <2>2. ~Space(t[i])
    BY <1>3 DEF EndsSentence, Space
  <2>3. x.start <= i
    BY <1>1, <2>2 DEF ScanInv
  <2>4. n \in (i + 1)..(Len(t) + 1) /\ \A j \in (i + 1)..(n - 1) : Space(t[j])
    BY SkipSpacesFacts
  <2>5. x.list \in Seq(Seq(Char)) /\ x.start \in Nat \ {0} /\ i \in 0..Len(t)
    BY <1>1 DEF Scans
  <2> DEFINE st == x.start
             u == SubSeq(t, 1, st - 1)
             v == SubSeq(t, st, i)
             w == SubSeq(t, i + 1, n - 1)
  <2>6. InkOfAll(l) = InkOfAll(x.list) \o Ink(v) /\ Sentence(t, st, i) \in Seq(Seq(Char))
        /\ PartsOf(t, Sentence(t, st, i))
    BY <2>5, SentenceFacts DEF PartsOf
  <2>7. Ink(SubSeq(t, 1, i)) = Ink(u) \o Ink(v)
    <3>1. st - 1 \in 0..Len(t) /\ i \in (st - 1)..Len(t) /\ (st - 1) + 1 = st
      BY <1>1, <2>3, <2>5
    <3>2. QED
      BY <3>1, InkPrefixSplit
  <2>8. Ink(SubSeq(t, 1, n - 1)) = Ink(SubSeq(t, 1, i)) \o Ink(w)
    <3>1. i \in 0..Len(t) /\ n - 1 \in i..Len(t)
      BY <1>1, <2>4
    <3>2. QED
      BY <3>1, InkPrefixSplit
  <2>9. Ink(w) = <<>>
    <3>1. i + 1 \in 1..(Len(t) + 1) /\ n - 1 \in i..Len(t)
      BY <1>1, <2>4
    <3>2. QED
      BY <2>4, <3>1, InkOfBlankPart
  <2>10. InkOfAll(l) = Ink(SubSeq(t, 1, n - 1))
    <3>1. InkOfAll(x.list) = Ink(u)
      BY DEF ScanInv
    <3>2. SubSeq(t, 1, i) \in Seq(Char)
      BY <1>1
    <3>3. Ink(SubSeq(t, 1, i)) \in Seq(Char)
      BY <3>2, InkLaws
    <3>4. Ink(SubSeq(t, 1, i)) \o <<>> = Ink(SubSeq(t, 1, i))
      BY <3>3
    <3>5. QED
      BY <2>6, <2>7, <2>8, <2>9, <3>1, <3>4
  <2>11. PartsOf(t, l)
    <3>1. PartsOf(t, x.list)
      BY DEF ScanInv
    <3>2. QED
      BY <2>5, <2>6, <3>1, PartsOfConcat
  <2>12. n \in 1..(Len(t) + 1)
    BY <1>1, <2>4
  <2> DEFINE y == [start |-> n, list |-> l]
  <2>13. y.start = n /\ y.list = l
    OBVIOUS
  <2> HIDE DEF y, n, l
  <2>14. ScanInv(t, y, i)
    BY <2>4, <2>10, <2>11, <2>12, <2>13 DEF ScanInv
  <2>15. QED
    BY <2>1, <2>14 DEF y
<1>4. QED
  BY <1>2, <1>3

\* The sentences of a text hold all that is printed of it, in its order; none
\* of them is empty or longer than the text.
LEMMA SentencesKeepInk ==
    ASSUME NEW t \in Seq(Char)
    PROVE  /\ Sentences(t) \in Seq(Seq(Char))
           /\ InkOfAll(Sentences(t)) = Ink(t)
           /\ PartsOf(t, Sentences(t))
<1> DEFINE n == Len(t)
           G == {i \in 0..n : ScanInv(t, Scan(t)[i], i)}
<1>1. n \in Nat
  OBVIOUS
<1>2. 0 \in G
  <2>1. Scan(t)[0] = [start |-> 1, list |-> <<>>]
    BY ScanFacts
  <2>2. SubSeq(t, 1, 1 - 1) = <<>>
    BY SubSeqEmpty
  <2>3. InkOfAll(<<>>) = Ink(<<>>)
    BY InkLaws, InkOfAllLaws
  <2> DEFINE y == [start |-> 1, list |-> <<>>]
  <2>4. y.start = 1 /\ y.list = <<>>
    OBVIOUS
  <2> HIDE DEF y
  <2>5. PartsOf(t, <<>>)
    BY DEF PartsOf
  <2>6. ScanInv(t, y, 0)
    <3>1. InkOfAll(y.list) = Ink(SubSeq(t, 1, y.start - 1))
      BY <2>2, <2>3, <2>4
    <3>2. y.start \in 1..(Len(t) + 1) /\ \A j \in (0 + 1)..(y.start - 1) : Space(t[j])
      BY <1>1, <2>4
    <3>3. QED
      BY <2>4, <2>5, <3>1, <3>2 DEF ScanInv
  <2>7. QED
    BY <1>1, <2>1, <2>6 DEF y
<1>3. ASSUME NEW i \in 1..n, i - 1 \in G PROVE i \in G
  <2>1. ScanInv(t, Scan(t)[i - 1], i - 1) /\ i - 1 \in 0..n /\ i \in 0..n
    BY <1>1, <1>3
  <2>2. Scan(t)[i - 1] \in Scans /\ Scan(t)[i] = Visit(t, Scan(t)[i - 1], i)
    BY <2>1, ScanFacts
  <2>3. ScanInv(t, Scan(t)[i], i)
    BY <2>1, <2>2, ScanInvStep
  <2>4. QED
    BY <2>1, <2>3
<1>4. \A i \in 0..n : i \in G
  <2> HIDE DEF G
  <2>1. QED
    BY <1>1, <1>2, <1>3, UpTo
<1> DEFINE x == Scan(t)[n]
<1>5. ScanInv(t, x, n) /\ x \in Scans
  BY <1>1, <1>4, ScanFacts
<1>6. Sentences(t) = x.list \o Sentence(t, x.start, n)
  BY DEF Sentences
<1> HIDE DEF x
<1>7. x.list \in Seq(Seq(Char)) /\ x.start \in Nat \ {0} /\ x.start \in 1..(n + 1)
      /\ InkOfAll(x.list) = Ink(SubSeq(t, 1, x.start - 1)) /\ PartsOf(t, x.list)
  BY <1>5 DEF Scans, ScanInv
<1> DEFINE r == Sentence(t, x.start, n)
<1>8. r \in Seq(Seq(Char)) /\ PartsOf(t, r)
      /\ InkOfAll(x.list \o r) = InkOfAll(x.list) \o Ink(SubSeq(t, x.start, n))
  <2>1. n \in 0..Len(t)
    BY <1>1
  <2>2. QED
    BY <1>7, <2>1, SentenceFacts DEF PartsOf
<1>9. Ink(t) = Ink(SubSeq(t, 1, x.start - 1)) \o Ink(SubSeq(t, x.start, n))
  <2>1. x.start - 1 \in 0..Len(t) /\ Len(t) \in (x.start - 1)..Len(t)
        /\ (x.start - 1) + 1 = x.start
    BY <1>1, <1>7
  <2>2. SubSeq(t, 1, Len(t)) = t
    BY SubSeqFull
  <2>3. QED
    BY <2>1, <2>2, InkPrefixSplit
<1> HIDE DEF r
<1>10. x.list \o r \in Seq(Seq(Char)) /\ PartsOf(t, x.list \o r)
  BY <1>7, <1>8, PartsOfConcat
<1>11. QED
  BY <1>6, <1>7, <1>8, <1>9, <1>10 DEF r
-------------------------------------------------------------------------------
(***************************************************************************)
(* tts_extract_text_segments.                                              *)
(***************************************************************************)

\* tts_text_segment_new lets a text pass if it is neither empty nor too long.
AddKept(list, c) == IF Bytes(c) \in 1..MaxText THEN Append(list, c) ELSE list

\* AddKept makes a list of texts of one.
LEMMA AddKeptType ==
    \A c \in Seq(Char) : \A x \in Seq(Seq(Char)) : AddKept(x, c) \in Seq(Seq(Char))
  BY DEF AddKept

\* The texts of a list that pass.
Kept(texts) ==
    LET list[i \in 0..Len(texts)] ==
            IF i = 0 THEN <<>> ELSE AddKept(list[i - 1], texts[i])
    IN  list[Len(texts)]

\* The step of what tts_text_segment_new lets pass of a list of texts.
KeptStep == [c \in Seq(Char) |-> [x \in Seq(Seq(Char)) |-> AddKept(x, c)]]

\* The type of this step, and what it does.
LEMMA KeptStepType ==
    /\ KeptStep \in [Seq(Char) -> [Seq(Seq(Char)) -> Seq(Seq(Char))]]
    /\ \A c \in Seq(Char) : \A x \in Seq(Seq(Char)) : KeptStep[c][x] = AddKept(x, c)
  BY AddKeptType DEF KeptStep

\* What tts_text_segment_new lets pass of a list of texts is a loop.
LEMMA KeptLoop ==
    ASSUME NEW t \in Seq(Seq(Char))
    PROVE  Computes(Kept(t), Seq(Char), Seq(Seq(Char)), <<>>, KeptStep, t)
<1> DEFINE n == Len(t)
           F == Steps(KeptStep, t)
           Eq(g) == g = [i \in 0..n |-> IF i = 0 THEN <<>> ELSE AddKept(g[i - 1], t[i])]
<1>1. n \in Nat /\ <<>> \in Seq(Seq(Char)) /\ \A i \in 1..n : t[i] \in Seq(Char)
  OBVIOUS
<1>2. KeptStep \in [Seq(Char) -> [Seq(Seq(Char)) -> Seq(Seq(Char))]]
      /\ \A c \in Seq(Char) : \A x \in Seq(Seq(Char)) : KeptStep[c][x] = AddKept(x, c)
  BY KeptStepType
<1>3. F \in [1..n -> [Seq(Seq(Char)) -> Seq(Seq(Char))]]
      /\ \A i \in 1..n : \A x \in Seq(Seq(Char)) : F[i][x] = AddKept(x, t[i])
  BY <1>1, <1>2 DEF Steps
<1> HIDE DEF F
<1>4. PICK h : IsLoop(h, Seq(Seq(Char)), <<>>, n, F)
  <2> HIDE DEF n
  <2>1. QED
    BY <1>1, <1>3, LoopExists
<1>5. h \in [0..n -> Seq(Seq(Char))] /\ h[0] = <<>> /\ \A i \in 1..n : h[i] = F[i][h[i - 1]]
  BY <1>4 DEF IsLoop
<1>6. ASSUME NEW i \in 1..n PROVE h[i] = AddKept(h[i - 1], t[i])
  <2>1. i - 1 \in 0..n
    BY <1>1
  <2>2. h[i - 1] \in Seq(Seq(Char))
    BY <1>5, <2>1
  <2>3. QED
    BY <1>3, <1>5, <2>2
<1>7. Eq(h)
  BY <1>1, <1>5, <1>6
<1> DEFINE f == CHOOSE g : Eq(g)
<1>8. Eq(f)
  BY <1>7
<1>9. Kept(t) = f[n]
  BY DEF Kept
<1> HIDE DEF f
<1>10. f = [i \in 0..n |-> f[i]] /\ f[0] = <<>>
       /\ \A i \in 1..n : f[i - 1] \in Seq(Seq(Char)) => f[i] = F[i][f[i - 1]]
  <2>1. f = [i \in 0..n |-> f[i]] /\ f[0] = <<>> /\ \A i \in 1..n : f[i] = AddKept(f[i - 1], t[i])
    BY <1>1, <1>8
  <2>2. \A i \in 1..n : f[i - 1] \in Seq(Seq(Char)) => F[i][f[i - 1]] = AddKept(f[i - 1], t[i])
    BY <1>3
  <2>3. QED
    BY <2>1, <2>2
<1>11. IsLoop(f, Seq(Seq(Char)), <<>>, n, F)
  <2> HIDE DEF n, Eq
  <2>1. QED
    BY <1>1, <1>3, <1>10, LoopFromSteps
<1>12. QED
  BY <1>1, <1>2, <1>9, <1>11 DEF Computes, F

\* What passes of a list with one more text.
LEMMA KeptLaws ==
    /\ Kept(<<>>) = <<>>
    /\ \A t \in Seq(Seq(Char)) : Kept(t) \in Seq(Seq(Char))
    /\ \A t \in Seq(Seq(Char)), c \in Seq(Char) : Kept(Append(t, c)) = AddKept(Kept(t), c)
<1>1. <<>> \in Seq(Seq(Char)) /\ <<>> \in Seq(Seq(Char))
  OBVIOUS
<1>2. Kept(<<>>) = <<>>
  BY <1>1, KeptLoop, ComputesEmpty
<1>3. \A t \in Seq(Seq(Char)) : Kept(t) \in Seq(Seq(Char))
  BY KeptLoop, ComputesType
<1>4. ASSUME NEW t \in Seq(Seq(Char)), NEW c \in Seq(Char)
      PROVE  Kept(Append(t, c)) = AddKept(Kept(t), c)
  <2>1. Append(t, c) \in Seq(Seq(Char))
    OBVIOUS
  <2>2. Kept(Append(t, c)) = KeptStep[c][Kept(t)]
    <3> DEFINE v == Kept(t)
               w == Kept(Append(t, c))
    <3>1. Computes(v, Seq(Char), Seq(Seq(Char)), <<>>, KeptStep, t)
          /\ Computes(w, Seq(Char), Seq(Seq(Char)), <<>>, KeptStep, Append(t, c))
      BY <2>1, KeptLoop
    <3> HIDE DEF v, w
    <3>2. w = KeptStep[c][v]
      BY <3>1, ComputesAppend
    <3>3. QED
      BY <3>2 DEF v, w
  <2>3. QED
    BY <1>3, <2>2, KeptStepType
<1>5. QED
  BY <1>2, <1>3, <1>4

\* The segments that the code makes: the type goes with the text.
Segs == {[text |-> s[1], segment_id |-> s[2], type |-> ContentType(s[1])] : s \in Seq(Char) \X Nat}

\* The texts of segments are texts.
LEMMA TextsOfType ==
    ASSUME NEW l \in Seq(Segs)
    PROVE  /\ TextsOf(l) \in Seq(Seq(Char)) /\ Len(TextsOf(l)) = Len(l)
           /\ \A i \in 1..Len(l) : TextsOf(l)[i] = l[i].text
<1>1. Len(l) \in Nat
  OBVIOUS
<1>2. ASSUME NEW i \in 1..Len(l) PROVE l[i].text \in Seq(Char)
  <2>1. l[i] \in Segs
    BY ElementOfSeq
  <2>2. PICK s \in Seq(Char) \X Nat :
            l[i] = [text |-> s[1], segment_id |-> s[2], type |-> ContentType(s[1])]
    BY <2>1 DEF Segs
  <2>3. QED
    BY <2>2
<1>3. QED
  BY <1>1, <1>2 DEF TextsOf

\* tts_text_segment_new adds what it lets pass.
LEMMA SegmentFacts ==
    ASSUME NEW x \in Seq(Char), NEW n \in Nat, NEW l \in Seq(Segs)
    PROVE  /\ l \o Segment(x, n) \in Seq(Segs)
           /\ TextsOf(l \o Segment(x, n)) = AddKept(TextsOf(l), x)
<1>1. CASE Bytes(x) \in 1..MaxText
  <2> DEFINE r == [text |-> x, segment_id |-> n, type |-> ContentType(x)]
             u == TextsOf(l)
             v == TextsOf(Append(l, r))
  <2>1. Segment(x, n) = <<r>>
    BY <1>1, Zenon DEF Segment
  <2>2. r \in Segs /\ r.text = x
    <3>1. <<x, n>> \in Seq(Char) \X Nat /\ <<x, n>>[1] = x /\ <<x, n>>[2] = n
      OBVIOUS
    <3>2. \E s \in Seq(Char) \X Nat :
              r = [text |-> s[1], segment_id |-> s[2], type |-> ContentType(s[1])]
      BY <3>1, Zenon
    <3>3. QED
      BY <3>2 DEF Segs
  <2> HIDE DEF r
  <2>3. l \o <<r>> = Append(l, r) /\ Append(l, r) \in Seq(Segs)
    BY <2>2
  <2>4. Len(Append(l, r)) = Len(l) + 1 /\ Append(l, r)[Len(l) + 1] = r
        /\ \A i \in 1..Len(l) : Append(l, r)[i] = l[i]
    BY <2>2
  <2>5. u \in Seq(Seq(Char)) /\ Len(u) = Len(l) /\ \A i \in 1..Len(l) : u[i] = l[i].text
    BY TextsOfType
  <2>6. v \in Seq(Seq(Char)) /\ Len(v) = Len(l) + 1
        /\ \A i \in 1..(Len(l) + 1) : v[i] = Append(l, r)[i].text
    BY <2>3, <2>4, TextsOfType
  <2> HIDE DEF u, v
  <2>7. Append(u, x) \in Seq(Seq(Char)) /\ Len(Append(u, x)) = Len(l) + 1
        /\ Append(u, x)[Len(l) + 1] = x /\ \A i \in 1..Len(l) : Append(u, x)[i] = u[i]
    BY <2>5
  <2>8. ASSUME NEW i \in 1..(Len(l) + 1) PROVE v[i] = Append(u, x)[i]
    <3>1. CASE i \in 1..Len(l)
      BY <2>4, <2>5, <2>6, <2>7, <3>1
    <3>2. CASE i = Len(l) + 1
      BY <2>2, <2>4, <2>6, <2>7, <3>2
    <3>3. i \in 1..Len(l) \/ i = Len(l) + 1
      OBVIOUS
    <3>4. QED
      BY <3>1, <3>2, <3>3
  <2>9. v = Append(u, x)
    BY <2>6, <2>7, <2>8, SeqEqual
  <2>10. AddKept(u, x) = Append(u, x)
    BY <1>1, Zenon DEF AddKept
  <2>11. QED
    BY <2>1, <2>3, <2>9, <2>10 DEF u, v
<1>2. CASE ~(Bytes(x) \in 1..MaxText)
  <2>1. Segment(x, n) = <<>>
    BY <1>2, Zenon DEF Segment
  <2>2. AddKept(TextsOf(l), x) = TextsOf(l)
    BY <1>2, Zenon DEF AddKept
  <2>3. l \o <<>> = l
    OBVIOUS
  <2>4. QED
    BY <2>1, <2>2, <2>3
<1>3. QED
  BY <1>1, <1>2

\* The segment that iteration i of tts_extract_text_segments adds.
AddSegment(list, sentences, i) == list \o Segment(sentences[i], i - 1)

\* tts_extract_text_segments lists the sentences that pass, each with the type
\* that ContentType gives to it.
LEMMA ExtractFacts ==
    ASSUME NEW t \in Seq(Char)
    PROVE  Extract(t) \in Seq(Segs) /\ TextsOf(Extract(t)) = Kept(Sentences(Clean(t)))
<1> DEFINE L == Sentences(Clean(t))
           n == Len(L)
           F == [i \in 1..n |-> [x \in Seq(Segs) |-> AddSegment(x, L, i)]]
           Eq(g) == g = [i \in 0..n |-> IF i = 0 THEN <<>> ELSE AddSegment(g[i - 1], L, i)]
<1>1. L \in Seq(Seq(Char))
  BY CleanKeepsInk, SentencesKeepInk
<1> DEFINE f == CHOOSE g : Eq(g)
<1>2. Extract(t) = f[n]
  BY DEF Extract, AddSegment
<1> HIDE DEF L
<1>3. n \in Nat /\ <<>> \in Seq(Segs)
  BY <1>1
<1>4. ASSUME NEW i \in 1..n, NEW x \in Seq(Segs)
      PROVE  AddSegment(x, L, i) \in Seq(Segs)
             /\ TextsOf(AddSegment(x, L, i)) = AddKept(TextsOf(x), L[i])
  <2>1. i - 1 \in Nat /\ L[i] \in Seq(Char)
    BY <1>1, <1>3, ElementOfSeq
  <2>2. QED
    BY <2>1, SegmentFacts DEF AddSegment
<1>5. F \in [1..n -> [Seq(Segs) -> Seq(Segs)]]
      /\ \A i \in 1..n : \A x \in Seq(Segs) : F[i][x] = AddSegment(x, L, i)
  BY <1>4
<1> HIDE DEF F
<1>6. PICK h : IsLoop(h, Seq(Segs), <<>>, n, F)
  <2> HIDE DEF n
  <2>1. QED
    BY <1>3, <1>5, LoopExists
<1>7. h \in [0..n -> Seq(Segs)] /\ h[0] = <<>> /\ \A i \in 1..n : h[i] = F[i][h[i - 1]]
  BY <1>6 DEF IsLoop
<1>8. ASSUME NEW i \in 1..n PROVE h[i] = AddSegment(h[i - 1], L, i)
  <2>1. i - 1 \in 0..n
    BY <1>3
  <2>2. h[i - 1] \in Seq(Segs)
    BY <1>7, <2>1
  <2>3. QED
    BY <1>5, <1>7, <2>2
<1>9. Eq(h)
  BY <1>3, <1>7, <1>8
<1>10. Eq(f)
  BY <1>9
<1> HIDE DEF f
<1>11. f = [i \in 0..n |-> f[i]] /\ f[0] = <<>>
       /\ \A i \in 1..n : f[i] = AddSegment(f[i - 1], L, i)
  BY <1>3, <1>10
<1>12. \A i \in 1..n : f[i - 1] \in Seq(Segs) => f[i] = F[i][f[i - 1]]
  BY <1>5, <1>11
<1>13. IsLoop(f, Seq(Segs), <<>>, n, F)
  <2> HIDE DEF n, Eq
  <2>1. QED
    BY <1>3, <1>5, <1>11, <1>12, LoopFromSteps
<1>14. \A i \in 0..n : f[i] \in Seq(Segs)
  BY <1>13 DEF IsLoop
<1> DEFINE G == {i \in 0..n : TextsOf(f[i]) = Kept(SubSeq(L, 1, i))}
<1>15. 0 \in G
  <2>1. SubSeq(L, 1, 0) = <<>>
    BY SubSeqEmpty
  <2>2. TextsOf(<<>>) = <<>>
    BY DEF TextsOf
  <2>3. Kept(<<>>) = <<>>
    BY KeptLaws
  <2>4. f[0] = <<>> /\ 0 \in 0..n
    BY <1>3, <1>11
  <2>5. TextsOf(f[0]) = Kept(SubSeq(L, 1, 0))
    BY <2>1, <2>2, <2>3, <2>4, Zenon
  <2>6. QED
    BY <2>4, <2>5
<1>16. ASSUME NEW i \in 1..n, i - 1 \in G PROVE i \in G
  <2>1. i - 1 \in 0..n /\ i \in 0..n /\ TextsOf(f[i - 1]) = Kept(SubSeq(L, 1, i - 1))
    BY <1>3, <1>16
  <2>2. f[i - 1] \in Seq(Segs)
    BY <1>14, <2>1
  <2>3. TextsOf(f[i]) = AddKept(TextsOf(f[i - 1]), L[i])
    BY <1>4, <1>11, <2>2
  <2>4. SubSeq(L, 1, i) = Append(SubSeq(L, 1, i - 1), L[i]) /\ L[i] \in Seq(Char)
        /\ SubSeq(L, 1, i - 1) \in Seq(Seq(Char))
    BY <1>1, PrefixAppend, ElementOfSeq
  <2> DEFINE q == SubSeq(L, 1, i - 1)
             c == L[i]
  <2> HIDE DEF q, c
  <2>5. Kept(Append(q, c)) = AddKept(Kept(q), c)
    BY <2>4, KeptLaws DEF q, c
  <2>6. TextsOf(f[i]) = Kept(SubSeq(L, 1, i))
    BY <2>1, <2>3, <2>4, <2>5 DEF q, c
  <2>7. QED
    BY <2>1, <2>6
<1>17. \A i \in 0..n : i \in G
  <2> HIDE DEF G
  <2>1. QED
    BY <1>3, <1>15, <1>16, UpTo
<1>18. n \in 0..n /\ SubSeq(L, 1, n) = L
  BY <1>1, <1>3, SubSeqFull
<1>19. TextsOf(f[n]) = Kept(L) /\ f[n] \in Seq(Segs)
  BY <1>14, <1>17, <1>18
<1>20. QED
  BY <1>2, <1>19 DEF L

\* If no text of a list is too long, they all pass.
LEMMA AllKept ==
    \A l \in Seq(Seq(Char)) :
        (\A k \in 1..Len(l) : Bytes(l[k]) \in 1..MaxText) => Kept(l) = l
<1> DEFINE Short(l) == \A k \in 1..Len(l) : Bytes(l[k]) \in 1..MaxText
           G == {l \in Seq(Seq(Char)) : Short(l) => Kept(l) = l}
<1>1. <<>> \in G
  BY KeptLaws
<1>2. ASSUME NEW l \in Seq(Seq(Char)), NEW c \in Seq(Char), l \in G
      PROVE  Append(l, c) \in G
  <2>1. Len(Append(l, c)) = Len(l) + 1 /\ Append(l, c)[Len(l) + 1] = c /\ Len(l) \in Nat
        /\ \A k \in 1..Len(l) : Append(l, c)[k] = l[k]
    OBVIOUS
  <2>2. Append(l, c) \in Seq(Seq(Char)) /\ Kept(Append(l, c)) = AddKept(Kept(l), c)
    BY KeptLaws
  <2>3. ASSUME Short(Append(l, c)) PROVE Kept(Append(l, c)) = Append(l, c)
    <3>1. ASSUME NEW k \in 1..(Len(l) + 1) PROVE Bytes(Append(l, c)[k]) \in 1..MaxText
      BY <2>1, <2>3
    <3>2. Len(l) + 1 \in 1..(Len(l) + 1)
      BY <2>1
    <3>3. Bytes(c) \in 1..MaxText
      BY <2>1, <3>1, <3>2
    <3>4. ASSUME NEW k \in 1..Len(l) PROVE Bytes(l[k]) \in 1..MaxText
      <4>1. k \in 1..(Len(l) + 1)
        BY <2>1
      <4>2. QED
        BY <2>1, <3>1, <4>1
    <3>5. Kept(l) = l
      BY <1>2, <3>4
    <3>6. QED
      BY <2>2, <3>3, <3>5, Zenon DEF AddKept
  <2> HIDE DEF Short
  <2>4. QED
    BY <2>2, <2>3
<1>3. \A l \in Seq(Seq(Char)) : l \in G
  <2> HIDE DEF G
  <2>1. QED
    BY <1>1, <1>2, SeqInduction
<1>4. QED
  BY <1>3

\* All that is printed on a page that would fit into one segment is in the
\* segments of the page.
LEMMA ExtractKeepsInk ==
    ASSUME NEW t \in Seq(Char), Bytes(t) <= MaxText
    PROVE  InkOfAll(TextsOf(Extract(t))) = Ink(t)
<1> DEFINE u == Clean(t)
           L == Sentences(u)
<1>1. u \in Seq(Char) /\ Ink(u) = Ink(t) /\ Bytes(u) <= Bytes(t)
  BY CleanKeepsInk
<1>2. Bytes(u) \in Nat /\ Bytes(t) \in Nat
  BY <1>1, BytesLaws
<1> HIDE DEF u
<1>3. L \in Seq(Seq(Char)) /\ InkOfAll(L) = Ink(u) /\ PartsOf(u, L)
  BY <1>1, SentencesKeepInk
<1> HIDE DEF L
<1>4. ASSUME NEW k \in 1..Len(L) PROVE Bytes(L[k]) \in 1..MaxText
  <2>1. L[k] \in Seq(Char)
    BY <1>3, ElementOfSeq
  <2>2. L[k] # <<>> /\ Bytes(L[k]) <= Bytes(u)
    BY <1>3 DEF PartsOf
  <2>3. Bytes(L[k]) \in Nat /\ Bytes(L[k]) >= 1
    BY <2>1, <2>2, BytesLaws, BytesPositive
  <2>4. QED
    BY <1>1, <1>2, <2>2, <2>3, MaxTextAssumption
<1>5. Kept(L) = L
  BY <1>3, <1>4, AllKept
<1>6. TextsOf(Extract(t)) = Kept(L)
  BY ExtractFacts DEF L, u
<1>7. QED
  BY <1>1, <1>3, <1>5, <1>6

\* The type of a text found by tts_extract_text_segments and the one found by
\* tts_detect_content_type differ only for headings.
LEMMA TypesOfTexts ==
    \A text :
        \/ ContentType(text) = DetectContentType(text)
        \/ ContentType(text) = "NORMAL" /\ DetectContentType(text) = "HEADING"
<1> TAKE text
<1>1. CASE ContainsMath(text)
  BY <1>1 DEF ContentType, DetectContentType
<1>2. CASE ~ContainsMath(text) /\ IsTableContent(text)
  BY <1>2 DEF ContentType, DetectContentType
<1>3. CASE ~ContainsMath(text) /\ ~IsTableContent(text) /\ ContainsLinks(text)
  BY <1>3 DEF ContentType, DetectContentType
<1>4. CASE ~ContainsMath(text) /\ ~IsTableContent(text) /\ ~ContainsLinks(text)
  BY <1>4 DEF ContentType, DetectContentType
<1>5. QED
  BY <1>1, <1>2, <1>3, <1>4

\* A segment has the type of its text.
LEMMA SegmentTypes ==
    ASSUME NEW l \in Seq(Segs), NEW i \in 1..Len(l)
    PROVE  l[i].type = ContentType(l[i].text)
<1>1. l[i] \in Segs
  BY ElementOfSeq
<1>2. PICK s \in Seq(Char) \X Nat :
          l[i] = [text |-> s[1], segment_id |-> s[2], type |-> ContentType(s[1])]
  BY <1>1 DEF Segs
<1>3. QED
  BY <1>2
-------------------------------------------------------------------------------
(***************************************************************************)
(* The sentences of a text are those of the text before it was cleaned.    *)
(* The proof goes through a reader that takes one character after the      *)
(* other and never looks ahead: it closes a sentence at the capital after  *)
(* a full stop.                                                            *)
(***************************************************************************)

\* The sentences read, the one that is being read, with white space collapsed,
\* and whether all of it is printed before a full stop, but for white space.
Readers == [list : Seq(Seq(Char)), cur : Seq(Char), stop : BOOLEAN]

\* Nothing is read.
Unread == [list |-> <<>>, cur |-> <<>>, stop |-> FALSE]

\* The list with the sentence cur, if there is anything in it.
Close(list, cur) == IF Trim(cur) = <<>> THEN list ELSE Append(list, Trim(cur))

\* The next character is c.
Read(r, c) ==
    IF r.stop /\ c = "A"
    THEN [list |-> Close(r.list, r.cur), cur |-> <<c>>, stop |-> FALSE]
    ELSE [list |-> r.list, cur |-> Put(r.cur, c), stop |-> c = "." \/ (r.stop /\ Space(c))]

\* The reader at the end of a text.
Reading(text) ==
    LET read[i \in 0..Len(text)] == IF i = 0 THEN Unread ELSE Read(read[i - 1], text[i])
    IN  read[Len(text)]

\* All the sentences that it has read then.
Result(text) == Close(Reading(text).list, Reading(text).cur)

\* The type of the reader before it reads.
LEMMA UnreadType == Unread \in Readers
  BY DEF Unread, Readers

\* Closing a sentence makes a list of texts.
LEMMA CloseType ==
    \A l \in Seq(Seq(Char)), x \in Seq(Char) : Close(l, x) \in Seq(Seq(Char))
  BY TrimKeepsInk DEF Close

\* The reader keeps to its type.
LEMMA ReadType == \A c \in Char : \A x \in Readers : Read(x, c) \in Readers
<1> SUFFICES ASSUME NEW c \in Char, NEW x \in Readers PROVE Read(x, c) \in Readers
    OBVIOUS
<1>1. x.list \in Seq(Seq(Char)) /\ x.cur \in Seq(Char)
  BY DEF Readers
<1> DEFINE l == Close(x.list, x.cur)
           q == Put(x.cur, c)
           b == c = "." \/ (x.stop /\ Space(c))
<1>2. l \in Seq(Seq(Char)) /\ q \in Seq(Char) /\ <<c>> \in Seq(Char)
  BY <1>1, CloseType, PutType
<1>3. b \in BOOLEAN
  BY Zenon
<1>4. Read(x, c) = [list |-> l, cur |-> <<c>>, stop |-> FALSE]
      \/ Read(x, c) = [list |-> x.list, cur |-> q, stop |-> b]
  BY Zenon DEF Read
<1> HIDE DEF l, q, b
<1>5. [list |-> l, cur |-> <<c>>, stop |-> FALSE] \in Readers
  BY <1>2 DEF Readers
<1>6. [list |-> x.list, cur |-> q, stop |-> b] \in Readers
  BY <1>1, <1>2, <1>3 DEF Readers
<1>7. QED
  BY <1>4, <1>5, <1>6

\* The step of the reader.
ReadingStep == [c \in Char |-> [x \in Readers |-> Read(x, c)]]

\* The type of this step, and what it does.
LEMMA ReadingStepType ==
    /\ ReadingStep \in [Char -> [Readers -> Readers]]
    /\ \A c \in Char : \A x \in Readers : ReadingStep[c][x] = Read(x, c)
  BY ReadType DEF ReadingStep

\* The reader is a loop.
LEMMA ReadingLoop ==
    ASSUME NEW t \in Seq(Char)
    PROVE  Computes(Reading(t), Char, Readers, Unread, ReadingStep, t)
<1> DEFINE n == Len(t)
           F == Steps(ReadingStep, t)
           Eq(g) == g = [i \in 0..n |-> IF i = 0 THEN Unread ELSE Read(g[i - 1], t[i])]
<1>1. n \in Nat /\ Unread \in Readers /\ \A i \in 1..n : t[i] \in Char
  BY UnreadType
<1>2. ReadingStep \in [Char -> [Readers -> Readers]]
      /\ \A c \in Char : \A x \in Readers : ReadingStep[c][x] = Read(x, c)
  BY ReadingStepType
<1>3. F \in [1..n -> [Readers -> Readers]]
      /\ \A i \in 1..n : \A x \in Readers : F[i][x] = Read(x, t[i])
  BY <1>1, <1>2 DEF Steps
<1> HIDE DEF F
<1>4. PICK h : IsLoop(h, Readers, Unread, n, F)
  <2> HIDE DEF n
  <2>1. QED
    BY <1>1, <1>3, LoopExists
<1>5. h \in [0..n -> Readers] /\ h[0] = Unread /\ \A i \in 1..n : h[i] = F[i][h[i - 1]]
  BY <1>4 DEF IsLoop
<1>6. ASSUME NEW i \in 1..n PROVE h[i] = Read(h[i - 1], t[i])
  <2>1. i - 1 \in 0..n
    BY <1>1
  <2>2. h[i - 1] \in Readers
    BY <1>5, <2>1
  <2>3. QED
    BY <1>3, <1>5, <2>2
<1>7. Eq(h)
  BY <1>1, <1>5, <1>6
<1> DEFINE f == CHOOSE g : Eq(g)
<1>8. Eq(f)
  BY <1>7
<1>9. Reading(t) = f[n]
  BY DEF Reading
<1> HIDE DEF f
<1>10. f = [i \in 0..n |-> f[i]] /\ f[0] = Unread
       /\ \A i \in 1..n : f[i - 1] \in Readers => f[i] = F[i][f[i - 1]]
  <2>1. f = [i \in 0..n |-> f[i]] /\ f[0] = Unread /\ \A i \in 1..n : f[i] = Read(f[i - 1], t[i])
    BY <1>1, <1>8
  <2>2. \A i \in 1..n : f[i - 1] \in Readers => F[i][f[i - 1]] = Read(f[i - 1], t[i])
    BY <1>3
  <2>3. QED
    BY <2>1, <2>2
<1>11. IsLoop(f, Readers, Unread, n, F)
  <2> HIDE DEF n, Eq
  <2>1. QED
    BY <1>1, <1>3, <1>10, LoopFromSteps
<1>12. QED
  BY <1>1, <1>2, <1>9, <1>11 DEF Computes, F

\* One more character is one more step of the reader.
LEMMA ReadingLaws ==
    /\ Reading(<<>>) = Unread
    /\ \A t \in Seq(Char) : Reading(t) \in Readers
    /\ \A t \in Seq(Char), c \in Char : Reading(Append(t, c)) = Read(Reading(t), c)
<1>1. <<>> \in Seq(Char) /\ Unread \in Readers
  BY UnreadType
<1>2. Reading(<<>>) = Unread
  BY <1>1, ReadingLoop, ComputesEmpty
<1>3. \A t \in Seq(Char) : Reading(t) \in Readers
  BY ReadingLoop, ComputesType
<1>4. ASSUME NEW t \in Seq(Char), NEW c \in Char
      PROVE  Reading(Append(t, c)) = Read(Reading(t), c)
  <2>1. Append(t, c) \in Seq(Char)
    OBVIOUS
  <2>2. Reading(Append(t, c)) = ReadingStep[c][Reading(t)]
    <3> DEFINE v == Reading(t)
               w == Reading(Append(t, c))
    <3>1. Computes(v, Char, Readers, Unread, ReadingStep, t)
          /\ Computes(w, Char, Readers, Unread, ReadingStep, Append(t, c))
      BY <2>1, ReadingLoop
    <3> HIDE DEF v, w
    <3>2. w = ReadingStep[c][v]
      BY <3>1, ComputesAppend
    <3>3. QED
      BY <3>2 DEF v, w
  <2>3. QED
    BY <1>3, <2>2, ReadingStepType
<1>5. QED
  BY <1>2, <1>3, <1>4

\* The text ends with a space that stands for white space.
EndsBlank(x) == x # <<>> /\ Last(x) = "sp"

\* What is before the last element, and the last one.
LEMMA LastAppend ==
    ASSUME NEW C, NEW x \in Seq(C), NEW c \in C
    PROVE  Append(x, c) # <<>> /\ Last(Append(x, c)) = c /\ Front(Append(x, c)) = x
<1> DEFINE y == Append(x, c)
<1>1. y \in Seq(C) /\ Len(y) = Len(x) + 1 /\ y[Len(x) + 1] = c /\ Len(x) \in Nat
      /\ \A i \in 1..Len(x) : y[i] = x[i]
  OBVIOUS
<1> HIDE DEF y
<1>2. y # <<>> /\ Last(y) = c
  BY <1>1 DEF Last
<1>3. Front(y) = x
  <2>1. Front(y) \in Seq(C) /\ Len(Front(y)) = Len(x) /\ \A i \in 1..Len(x) : Front(y)[i] = x[i]
    <3>1. Front(y) = SubSeq(y, 1, Len(x))
      BY <1>1 DEF Front
    <3>2. QED
      BY <1>1, <3>1, SubSeqProperties
  <2>2. QED
    BY <2>1, SeqEqual
<1>4. QED
  BY <1>2, <1>3 DEF y

\* White space is put as one space, which Trim takes away again.
LEMMA PutSpace ==
    ASSUME NEW x \in Seq(Char), NEW c \in Char, Space(c)
    PROVE  /\ EndsBlank(x) => Put(x, c) = x
           /\ ~EndsBlank(x) => Put(x, c) = Append(x, "sp")
           /\ EndsBlank(Put(x, c))
           /\ Trim(Put(x, c)) = Trim(x)
<1>1. "sp" \in Char
  BY DEF Char
<1>2. CASE EndsBlank(x)
  <2>1. Put(x, c) = x
    BY <1>2, Zenon DEF Put, EndsBlank
  <2>2. QED
    BY <1>2, <2>1
<1>3. CASE ~EndsBlank(x)
  <2>1. Put(x, c) = Append(x, "sp")
    BY <1>3, Zenon DEF Put, EndsBlank
  <2> DEFINE y == Append(x, "sp")
  <2>2. y # <<>> /\ Last(y) = "sp" /\ Front(y) = x
    BY <1>1, LastAppend
  <2> HIDE DEF y
  <2>3. EndsBlank(y) /\ Trim(y) = x
    BY <2>2, Zenon DEF EndsBlank, Trim
  <2>4. Trim(x) = x
    BY <1>3, Zenon DEF EndsBlank, Trim
  <2>5. QED
    BY <1>3, <2>1, <2>3, <2>4 DEF y
<1>4. QED
  BY <1>2, <1>3

\* The reader takes white space as such.
LEMMA ReadSpace ==
    ASSUME NEW r \in Readers, NEW c \in Char, Space(c)
    PROVE  /\ Read(r, c) = [list |-> r.list, cur |-> Put(r.cur, c), stop |-> r.stop]
           /\ EndsBlank(r.cur) => Read(r, c) = r
           /\ "sp" \in Char /\ Read(r, "sp") = Read(r, c)
<1>1. r = [list |-> r.list, cur |-> r.cur, stop |-> r.stop] /\ r.cur \in Seq(Char)
      /\ r.list \in Seq(Seq(Char)) /\ r.stop \in BOOLEAN
  BY DEF Readers
<1>2. ASSUME NEW d \in Char, Space(d)
      PROVE  Read(r, d) = [list |-> r.list, cur |-> Put(r.cur, d), stop |-> r.stop]
  <2>1. d # "A" /\ d # "."
    BY <1>2 DEF Space
  <2>2. (d = "." \/ (r.stop /\ Space(d))) = r.stop
    BY <1>1, <1>2, <2>1, Zenon
  <2>3. Read(r, d) = [list |-> r.list, cur |-> Put(r.cur, d),
                      stop |-> d = "." \/ (r.stop /\ Space(d))]
    BY <2>1, Zenon DEF Read
  <2>4. QED
    BY <2>2, <2>3
<1>3. "sp" \in Char /\ Space("sp")
  BY DEF Char, Space
<1>4. Put(r.cur, "sp") = Put(r.cur, c)
  BY <1>1, <1>3, PutSpace
<1>5. EndsBlank(r.cur) => Put(r.cur, c) = r.cur
  BY <1>1, PutSpace
<1>6. QED
  BY <1>1, <1>2, <1>3, <1>4, <1>5

\* The reader does not mind that white space was collapsed.
LEMMA ReadingCollapsed == \A t \in Seq(Char) : Reading(Collapse(t)) = Reading(t)
<1> DEFINE P(t) == /\ Reading(Collapse(t)) = Reading(t)
                   /\ EndsBlank(Collapse(t)) => EndsBlank(Reading(t).cur)
           G == {t \in Seq(Char) : P(t)}
<1>1. <<>> \in G
  <2>1. Collapse(<<>>) = <<>> /\ <<>> \in Seq(Char)
    BY CollapseLaws
  <2>2. QED
    BY <2>1 DEF EndsBlank
<1>2. ASSUME NEW t \in Seq(Char), NEW c \in Char, t \in G PROVE Append(t, c) \in G
  <2> DEFINE u == Collapse(t)
             r == Reading(t)
             s == Append(t, c)
  <2>1. u \in Seq(Char) /\ r \in Readers /\ s \in Seq(Char)
    BY CollapseLaws, ReadingLaws
  <2>2. Reading(u) = r /\ (EndsBlank(u) => EndsBlank(r.cur))
    BY <1>2
  <2>3. Collapse(s) = Put(u, c) /\ Reading(s) = Read(r, c)
    BY CollapseLaws, ReadingLaws
  <2> HIDE DEF u, r, s
  <2>4. r.cur \in Seq(Char)
    BY <2>1 DEF Readers
  <2>5. P(s)
    <3>1. CASE ~Space(c)
      <4>1. Put(u, c) = Append(u, c)
        BY <3>1, Zenon DEF Put
      <4>2. Reading(Append(u, c)) = Read(r, c)
        BY <2>1, <2>2, ReadingLaws
      <4>3. Last(Append(u, c)) = c /\ c # "sp"
        BY <2>1, <3>1, LastAppend DEF Space
      <4>4. ~EndsBlank(Append(u, c))
        BY <4>3 DEF EndsBlank
      <4>5. QED
        BY <2>3, <4>1, <4>2, <4>4
    <3>2. CASE Space(c) /\ EndsBlank(u)
      <4>1. Put(u, c) = u
        BY <2>1, <3>2, PutSpace
      <4>2. Read(r, c) = r
        BY <2>1, <2>2, <3>2, ReadSpace
      <4>3. QED
        BY <2>2, <2>3, <4>1, <4>2
    <3>3. CASE Space(c) /\ ~EndsBlank(u)
      <4>1. Put(u, c) = Append(u, "sp")
        BY <2>1, <3>3, PutSpace
      <4>2. "sp" \in Char /\ Read(r, "sp") = Read(r, c)
            /\ Read(r, c) = [list |-> r.list, cur |-> Put(r.cur, c), stop |-> r.stop]
        BY <2>1, <3>3, ReadSpace
      <4>3. Reading(Append(u, "sp")) = Read(r, "sp")
        BY <2>1, <2>2, <4>2, ReadingLaws
      <4>4. EndsBlank(Put(r.cur, c))
        BY <2>4, <3>3, PutSpace
      <4>5. Read(r, c).cur = Put(r.cur, c)
        BY <4>2
      <4>6. QED
        BY <2>3, <4>1, <4>2, <4>3, <4>4, <4>5
    <3>4. QED
      BY <3>1, <3>2, <3>3
  <2> HIDE DEF P
  <2>6. QED
    BY <2>1, <2>5 DEF s
<1>3. \A t \in Seq(Char) : t \in G
  <2> HIDE DEF G
  <2>1. QED
    BY <1>1, <1>2, SeqInduction
<1>4. QED
  BY <1>3

\* Nor that a space at the end was dropped.
LEMMA ResultTrimmed == \A x \in Seq(Char) : Result(Trim(x)) = Result(x)
<1> SUFFICES ASSUME NEW x \in Seq(Char) PROVE Result(Trim(x)) = Result(x)
    OBVIOUS
<1>1. CASE ~EndsBlank(x)
  <2>1. Trim(x) = x
    BY <1>1, Zenon DEF EndsBlank, Trim
  <2>2. QED
    BY <2>1
<1>2. CASE EndsBlank(x)
  <2> DEFINE y == Front(x)
             r == Reading(y)
  <2>1. Trim(x) = y
    BY <1>2, Zenon DEF EndsBlank, Trim
  <2>2. y \in Seq(Char) /\ x = Append(y, "sp")
    BY <1>2, FrontLast DEF EndsBlank
  <2> HIDE DEF y
  <2>3. "sp" \in Char /\ Space("sp") /\ r \in Readers
    BY <2>2, ReadingLaws DEF Char, Space
  <2>4. Reading(x) = Read(r, "sp")
    BY <2>2, <2>3, ReadingLaws
  <2> HIDE DEF r
  <2>5. Reading(x) = [list |-> r.list, cur |-> Put(r.cur, "sp"), stop |-> r.stop]
    BY <2>3, <2>4, ReadSpace
  <2>6. Reading(x).list = r.list /\ Reading(x).cur = Put(r.cur, "sp")
    BY <2>5
  <2>7. r.cur \in Seq(Char)
    BY <2>3 DEF Readers
  <2>8. Trim(Put(r.cur, "sp")) = Trim(r.cur)
    BY <2>3, <2>7, PutSpace
  <2>9. Close(r.list, Put(r.cur, "sp")) = Close(r.list, r.cur)
    BY <2>8 DEF Close
  <2>10. QED
    BY <2>1, <2>6, <2>9 DEF Result, r
<1>3. QED
  BY <1>1, <1>2

\* The reader finds the same sentences before and after clean_extracted_text.
LEMMA ResultCleaned == \A t \in Seq(Char) : Result(Clean(t)) = Result(t)
<1> SUFFICES ASSUME NEW t \in Seq(Char) PROVE Result(Clean(t)) = Result(t)
    OBVIOUS
<1>1. Collapse(t) \in Seq(Char) /\ Reading(Collapse(t)) = Reading(t)
  BY CollapseLaws, ReadingCollapsed
<1>2. Result(Clean(t)) = Result(Collapse(t))
  BY <1>1, ResultTrimmed DEF Clean
<1>3. QED
  BY <1>1, <1>2 DEF Result

\* A part is the one before it with one more element.
LEMMA PartAppend ==
    ASSUME NEW C, NEW s \in Seq(C), NEW i \in 1..Len(s), NEW a \in 1..i
    PROVE  /\ SubSeq(s, a, i - 1) \in Seq(C) /\ s[i] \in C
           /\ SubSeq(s, a, i) = Append(SubSeq(s, a, i - 1), s[i])
<1> DEFINE t == SubSeq(s, a, i - 1)
           u == SubSeq(s, a, i)
           m == i - a
<1>1. a \in Nat /\ i \in Nat /\ m \in Nat /\ a \in Int /\ i \in Int /\ i - 1 \in Int
  OBVIOUS
<1>2. t \in Seq(C) /\ Len(t) = m /\ \A j \in 1..m : t[j] = s[a + j - 1]
  BY <1>1, SubSeqProperties
<1>3. u \in Seq(C) /\ Len(u) = m + 1 /\ \A j \in 1..(m + 1) : u[j] = s[a + j - 1]
  BY <1>1, SubSeqProperties
<1>4. s[i] \in C /\ s[a + (m + 1) - 1] = s[i]
  BY <1>1
<1> HIDE DEF t, u, m
<1>5. Append(t, s[i]) \in Seq(C) /\ Len(Append(t, s[i])) = m + 1
      /\ Append(t, s[i])[m + 1] = s[i] /\ \A j \in 1..m : Append(t, s[i])[j] = t[j]
  BY <1>2, <1>4
<1>6. ASSUME NEW j \in 1..(m + 1) PROVE u[j] = Append(t, s[i])[j]
  <2>1. j \in 1..m \/ j = m + 1
    BY <1>1
  <2>2. CASE j \in 1..m
    BY <1>2, <1>3, <1>5, <2>2
  <2>3. CASE j = m + 1
    BY <1>3, <1>4, <1>5, <2>3
  <2>4. QED
    BY <2>1, <2>2, <2>3
<1>7. u = Append(t, s[i])
  BY <1>3, <1>5, <1>6, SeqEqual
<1>8. QED
  BY <1>2, <1>4, <1>7 DEF t, u

\* White space is skipped from anywhere inside it to the same place.
LEMMA SkipSpacesStep ==
    ASSUME NEW t \in Seq(Char), NEW i \in 1..Len(t)
    PROVE  /\ Space(t[i]) => SkipSpaces(t, i) = SkipSpaces(t, i + 1)
           /\ ~Space(t[i]) => SkipSpaces(t, i) = i
<1>1. i \in Nat /\ Len(t) \in Nat /\ i \in 1..(Len(t) + 1)
  OBVIOUS
<1>2. ASSUME Space(t[i]) PROVE SkipSpaces(t, i) = SkipSpaces(t, i + 1)
  <2>1. {j \in i..Len(t) : ~Space(t[j])} = {j \in (i + 1)..Len(t) : ~Space(t[j])}
    BY <1>1, <1>2
  <2>2. QED
    BY <2>1 DEF SkipSpaces
<1>3. ASSUME ~Space(t[i]) PROVE SkipSpaces(t, i) = i
  <2> DEFINE n == SkipSpaces(t, i)
  <2>1. n \in i..(Len(t) + 1) /\ \A j \in i..(n - 1) : Space(t[j])
    BY <1>1, SkipSpacesFacts
  <2> HIDE DEF n
  <2>2. n = i
    BY <1>1, <1>3, <2>1
  <2>3. QED
    BY <2>2 DEF n
<1>4. QED
  BY <1>2, <1>3

\* The reader closes a sentence with what the code adds for it.
LEMMA CloseSentence ==
    ASSUME NEW t \in Seq(Char), NEW a \in Nat \ {0}, NEW b \in 0..Len(t),
           NEW l \in Seq(Seq(Char))
    PROVE  Close(l, Collapse(SubSeq(t, a, b))) = l \o Sentence(t, a, b)
<1> DEFINE x == Clean(SubSeq(t, a, b))
<1>1. SubSeq(t, a, b) \in Seq(Char)
  BY SentenceFacts
<1>2. x \in Seq(Char) /\ x = Trim(Collapse(SubSeq(t, a, b)))
  BY <1>1, CleanKeepsInk DEF Clean
<1>3. Sentence(t, a, b) = IF x = <<>> THEN <<>> ELSE <<x>>
  BY DEF Sentence
<1>4. Close(l, Collapse(SubSeq(t, a, b))) = IF x = <<>> THEN l ELSE Append(l, x)
  BY <1>2 DEF Close
<1> HIDE DEF x
<1>5. l \o <<>> = l /\ l \o <<x>> = Append(l, x)
  BY <1>2
<1>6. QED
  BY <1>3, <1>4, <1>5

\* After i characters: between two sentences, when the code has begun the next
\* one and the reader waits for the capital that begins it ...
Between(t, x, r, i) ==
    /\ x.start \in (i + 1)..(Len(t) + 1)
    /\ \A j \in (i + 1)..(x.start - 1) : Space(t[j])
    /\ x.start <= Len(t) => t[x.start] = "A"
    /\ r.stop
    /\ Close(r.list, r.cur) = x.list

\* ... or inside a sentence, when a full stop before i did not end it.
Inside(t, x, r, i) ==
    /\ x.start \in 1..(i + 1)
    /\ r.list = x.list
    /\ r.cur = Collapse(SubSeq(t, x.start, i))
    /\ r.stop => SkipSpaces(t, i + 1) <= Len(t) /\ t[SkipSpaces(t, i + 1)] # "A"

\* The next character, if the code and the reader are between two sentences.
LEMMA BetweenStep ==
    ASSUME NEW t \in Seq(Char), NEW i \in 1..Len(t), NEW x \in Scans, NEW r \in Readers,
           Between(t, x, r, i - 1)
    PROVE  \/ Between(t, Visit(t, x, i), Read(r, t[i]), i)
           \/ Inside(t, Visit(t, x, i), Read(r, t[i]), i)
<1> DEFINE c == t[i]
<1>1. i \in Nat /\ Len(t) \in Nat /\ (i - 1) + 1 = i /\ c \in Char
  BY ElementOfSeq
<1>2. x.start \in i..(Len(t) + 1) /\ (\A j \in i..(x.start - 1) : Space(t[j]))
      /\ (x.start <= Len(t) => t[x.start] = "A") /\ r.stop /\ Close(r.list, r.cur) = x.list
  BY <1>1 DEF Between
<1>3. r.cur \in Seq(Char) /\ r.list \in Seq(Seq(Char))
  BY DEF Readers
<1> HIDE DEF c
<1>4. CASE x.start > i
  <2>1. Space(c)
    BY <1>1, <1>2, <1>4 DEF c
  <2>2. Visit(t, x, i) = x
    <3>1. ~EndsSentence(t, i)
      BY <2>1 DEF EndsSentence, Space, c
    <3>2. QED
      BY <3>1, Zenon DEF Visit
  <2> DEFINE s == Read(r, c)
  <2>3. s = [list |-> r.list, cur |-> Put(r.cur, c), stop |-> r.stop]
    BY <1>1, <2>1, ReadSpace
  <2> HIDE DEF s
  <2>4. s.list = r.list /\ s.cur = Put(r.cur, c) /\ s.stop = r.stop
    BY <2>3
  <2>5. Trim(s.cur) = Trim(r.cur)
    BY <1>1, <1>3, <2>1, <2>4, PutSpace
  <2>6. Close(s.list, s.cur) = Close(r.list, r.cur)
    BY <2>4, <2>5 DEF Close
  <2>7. x.start \in (i + 1)..(Len(t) + 1) /\ \A j \in (i + 1)..(x.start - 1) : Space(t[j])
    BY <1>1, <1>2, <1>4
  <2>8. Between(t, x, s, i)
    BY <1>2, <2>4, <2>6, <2>7 DEF Between
  <2>9. QED
    BY <2>2, <2>8 DEF s, c
<1>5. CASE x.start = i
  <2>1. c = "A"
    BY <1>1, <1>2, <1>5 DEF c
  <2>2. Visit(t, x, i) = x
    <3>1. ~EndsSentence(t, i)
      BY <2>1 DEF EndsSentence, c
    <3>2. QED
      BY <3>1, Zenon DEF Visit
  <2> DEFINE s == Read(r, c)
  <2>3. s = [list |-> Close(r.list, r.cur), cur |-> <<c>>, stop |-> FALSE]
    BY <1>2, <2>1, Zenon DEF Read
  <2> HIDE DEF s
  <2>4. s.list = x.list /\ s.cur = <<c>> /\ s.stop = FALSE
    BY <1>2, <2>3
  <2>5. Collapse(SubSeq(t, i, i)) = <<c>>
    <3>1. SubSeq(t, i, i - 1) = <<>>
      BY <1>1, SubSeqEmpty
    <3>2. i \in 1..i
      BY <1>1
    <3>3. SubSeq(t, i, i) = Append(<<>>, c)
      BY <3>1, <3>2, PartAppend DEF c
    <3>4. Collapse(Append(<<>>, c)) = Put(<<>>, c) /\ <<>> \in Seq(Char)
      <4>1. <<>> \in Seq(Char) /\ Collapse(<<>>) = <<>>
        BY CollapseLaws
      <4>2. QED
        BY <1>1, <4>1, CollapseLaws
    <3>5. ~Space(c)
      BY <2>1 DEF Space
    <3>6. Put(<<>>, c) = Append(<<>>, c)
      BY <3>5, Zenon DEF Put
    <3>7. Append(<<>>, c) = <<c>>
      BY <1>1
    <3>8. QED
      BY <3>3, <3>4, <3>6, <3>7
  <2>6. x.start \in 1..(i + 1)
    BY <1>1, <1>5
  <2>7. Inside(t, x, s, i)
    BY <1>5, <2>4, <2>5, <2>6 DEF Inside
  <2>8. QED
    BY <2>2, <2>7 DEF s, c
<1>6. QED
  BY <1>1, <1>2, <1>4, <1>5

\* The next character, if they are inside a sentence.
LEMMA InsideStep ==
    ASSUME NEW t \in Seq(Char), NEW i \in 1..Len(t), NEW x \in Scans, NEW r \in Readers,
           Inside(t, x, r, i - 1)
    PROVE  \/ Between(t, Visit(t, x, i), Read(r, t[i]), i)
           \/ Inside(t, Visit(t, x, i), Read(r, t[i]), i)
<1> DEFINE c == t[i]
           s == Read(r, c)
           a == x.start
           part == SubSeq(t, a, i - 1)
           b == c = "." \/ (r.stop /\ Space(c))
<1>1. i \in Nat /\ Len(t) \in Nat /\ (i - 1) + 1 = i /\ c \in Char /\ i \in 0..Len(t)
  BY ElementOfSeq
<1>2. a \in 1..i /\ r.list = x.list /\ r.cur = Collapse(part)
      /\ (r.stop => SkipSpaces(t, i) <= Len(t) /\ t[SkipSpaces(t, i)] # "A")
  BY <1>1 DEF Inside
<1>3. r.cur \in Seq(Char) /\ r.list \in Seq(Seq(Char))
  BY DEF Readers
<1>4. ~(r.stop /\ c = "A")
  <2>1. SUFFICES ASSUME r.stop, c = "A" PROVE FALSE
    OBVIOUS
  <2>2. ~Space(t[i])
    BY <2>1 DEF Space
  <2>3. SkipSpaces(t, i) = i
    BY <2>2, SkipSpacesStep
  <2>4. QED
    BY <1>2, <2>1, <2>3
<1>5. s = [list |-> r.list, cur |-> Put(r.cur, c), stop |-> b]
  BY <1>4, Zenon DEF Read
<1>6. s.list = r.list /\ s.cur = Put(r.cur, c) /\ s.stop = b
  BY <1>5
<1>7. SubSeq(t, a, i) = Append(part, c) /\ part \in Seq(Char)
  BY <1>2, PartAppend
<1>8. s.cur = Collapse(SubSeq(t, a, i))
  <2> HIDE DEF part, c, s
  <2>1. Collapse(Append(part, c)) = Put(Collapse(part), c)
    BY <1>1, <1>7, CollapseLaws
  <2>2. QED
    BY <1>2, <1>6, <1>7, <2>1
<1> HIDE DEF s, part
<1>9. CASE EndsSentence(t, i)
  <2> DEFINE n == SkipSpaces(t, i + 1)
             l == x.list \o Sentence(t, a, i)
             y == [start |-> n, list |-> l]
  <2>1. Visit(t, x, i) = y
    BY <1>9, Zenon DEF Visit
  <2>2. y.start = n /\ y.list = l
    OBVIOUS
  <2>3. c = "." /\ (n > Len(t) \/ t[n] = "A")
    BY <1>9 DEF EndsSentence
  <2>4. n \in (i + 1)..(Len(t) + 1) /\ \A j \in (i + 1)..(n - 1) : Space(t[j])
    <3>1. i + 1 \in 1..(Len(t) + 1)
      BY <1>1
    <3>2. QED
      BY <3>1, SkipSpacesFacts
  <2>5. s.stop
    BY <1>6, <2>3
  <2>6. Close(s.list, s.cur) = l
    <3>1. a \in Nat \ {0} /\ x.list \in Seq(Seq(Char))
      BY <1>2, <1>3
    <3>2. Close(x.list, Collapse(SubSeq(t, a, i))) = x.list \o Sentence(t, a, i)
      <4> HIDE DEF a
      <4>1. QED
        BY <1>1, <3>1, CloseSentence
    <3>3. QED
      BY <1>2, <1>6, <1>8, <3>2
  <2> HIDE DEF y, n, l
  <2>7. n <= Len(t) => t[n] = "A"
    BY <1>1, <2>3, <2>4
  <2>8. Between(t, y, s, i)
    BY <2>2, <2>4, <2>5, <2>6, <2>7 DEF Between
  <2>9. QED
    BY <2>1, <2>8 DEF s
<1>10. CASE ~EndsSentence(t, i)
  <2> DEFINE n == SkipSpaces(t, i + 1)
  <2>1. Visit(t, x, i) = x
    BY <1>10, Zenon DEF Visit
  <2>2. a \in 1..(i + 1)
    BY <1>1, <1>2
  <2>3. ASSUME s.stop PROVE n <= Len(t) /\ t[n] # "A"
    <3>1. c = "." \/ (r.stop /\ Space(c))
      BY <1>6, <2>3
    <3>2. CASE c = "."
      <4>1. ~(n > Len(t) \/ t[n] = "A")
        BY <1>10, <3>2 DEF EndsSentence
      <4>2. n \in (i + 1)..(Len(t) + 1)
        <5>1. i + 1 \in 1..(Len(t) + 1)
          BY <1>1
        <5>2. QED
          BY <5>1, SkipSpacesFacts
      <4>3. QED
        BY <1>1, <4>1, <4>2
    <3>3. CASE r.stop /\ Space(c)
      <4>1. SkipSpaces(t, i) = n
        BY <3>3, SkipSpacesStep
      <4>2. QED
        BY <1>2, <3>3, <4>1
    <3>4. QED
      BY <3>1, <3>2, <3>3
  <2>4. Inside(t, x, s, i)
    BY <1>2, <1>6, <1>8, <2>2, <2>3 DEF Inside
  <2>5. QED
    BY <2>1, <2>4 DEF s
<1>11. QED
  BY <1>9, <1>10

\* The reader, which does not look ahead, finds the sentences that
\* tts_segment_text_into_sentences finds.
LEMMA ResultIsSentences == \A t \in Seq(Char) : Result(t) = Sentences(t)
<1> SUFFICES ASSUME NEW t \in Seq(Char) PROVE Result(t) = Sentences(t)
    OBVIOUS
<1> DEFINE n == Len(t)
           X(i) == Scan(t)[i]
           R(i) == Reading(SubSeq(t, 1, i))
           Rel(i) == Between(t, X(i), R(i), i) \/ Inside(t, X(i), R(i), i)
           G == {i \in 0..n : Rel(i)}
<1>1. n \in Nat
  OBVIOUS
<1>2. X(0) = [start |-> 1, list |-> <<>>] /\ (\A i \in 0..n : X(i) \in Scans)
      /\ \A i \in 1..n : X(i) = Visit(t, X(i - 1), i)
  BY ScanFacts
<1>3. R(0) = Unread
  <2>1. SubSeq(t, 1, 0) = <<>>
    BY SubSeqEmpty
  <2>2. Reading(<<>>) = Unread
    BY ReadingLaws
  <2>3. QED
    BY <2>1, <2>2
<1>4. ASSUME NEW i \in 1..n
      PROVE  R(i - 1) \in Readers /\ R(i) = Read(R(i - 1), t[i])
  <2> DEFINE q == SubSeq(t, 1, i - 1)
             c == t[i]
  <2>1. 1 \in 1..i
    BY <1>1
  <2>2. q \in Seq(Char) /\ c \in Char /\ SubSeq(t, 1, i) = Append(q, c)
    BY <2>1, PartAppend
  <2> HIDE DEF q, c
  <2>3. Reading(q) \in Readers /\ Reading(Append(q, c)) = Read(Reading(q), c)
    BY <2>2, ReadingLaws
  <2>4. QED
    BY <2>2, <2>3 DEF q, c
<1> HIDE DEF X, R
<1>5. Rel(0)
  <2>1. X(0).start = 1 /\ X(0).list = <<>>
    BY <1>2
  <2>2. R(0).list = <<>> /\ R(0).cur = <<>> /\ R(0).stop = FALSE
    BY <1>3 DEF Unread
  <2>3. Collapse(SubSeq(t, 1, 0)) = <<>>
    <3>1. SubSeq(t, 1, 0) = <<>>
      BY SubSeqEmpty
    <3>2. Collapse(<<>>) = <<>>
      BY CollapseLaws
    <3>3. QED
      BY <3>1, <3>2
  <2>4. Inside(t, X(0), R(0), 0)
    BY <2>1, <2>2, <2>3 DEF Inside
  <2>5. QED
    BY <2>4
<1>6. ASSUME NEW i \in 1..n, Rel(i - 1) PROVE Rel(i)
  <2>1. i - 1 \in 0..n
    BY <1>1
  <2>2. X(i - 1) \in Scans /\ X(i) = Visit(t, X(i - 1), i)
        /\ R(i - 1) \in Readers /\ R(i) = Read(R(i - 1), t[i])
    BY <1>2, <1>4, <2>1
  <2>3. CASE Between(t, X(i - 1), R(i - 1), i - 1)
    BY <2>2, <2>3, BetweenStep
  <2>4. CASE Inside(t, X(i - 1), R(i - 1), i - 1)
    BY <2>2, <2>4, InsideStep
  <2>5. QED
    BY <1>6, <2>3, <2>4
<1>7. Rel(n)
  <2> HIDE DEF Rel
  <2>1. 0 \in G
    BY <1>1, <1>5
  <2>2. ASSUME NEW i \in 1..n, i - 1 \in G PROVE i \in G
    BY <1>1, <1>6, <2>2
  <2>3. \A i \in 0..n : i \in G
    <3> HIDE DEF G
    <3>1. QED
      BY <1>1, <2>1, <2>2, UpTo
  <2>4. QED
    BY <1>1, <2>3
<1> DEFINE x == X(n)
           r == R(n)
<1>8. x \in Scans
  BY <1>1, <1>2
<1>9. x.list \in Seq(Seq(Char)) /\ x.start \in Nat \ {0} /\ n \in 0..n
  BY <1>1, <1>8 DEF Scans
<1>10. Result(t) = Close(r.list, r.cur)
  <2>1. SubSeq(t, 1, n) = t
    BY SubSeqFull
  <2>2. QED
    BY <2>1 DEF Result, R
<1>11. Sentences(t) = x.list \o Sentence(t, x.start, n)
  BY DEF Sentences, X
<1>12. CASE Between(t, x, r, n)
  <2>1. x.start = n + 1 /\ Close(r.list, r.cur) = x.list
    BY <1>1, <1>12 DEF Between
  <2>2. SubSeq(t, n + 1, n) = <<>>
    BY <1>1, SubSeqEmpty
  <2>3. Clean(<<>>) = <<>>
    <3>1. Collapse(<<>>) = <<>>
      BY CollapseLaws
    <3>2. Trim(<<>>) = <<>>
      BY Zenon DEF Trim
    <3>3. QED
      BY <3>1, <3>2 DEF Clean
  <2>4. Sentence(t, x.start, n) = <<>>
    BY <2>1, <2>2, <2>3 DEF Sentence
  <2>5. x.list \o <<>> = x.list
    BY <1>9
  <2>6. QED
    BY <1>10, <1>11, <2>1, <2>4, <2>5
<1>13. CASE Inside(t, x, r, n)
  <2>1. r.list = x.list /\ r.cur = Collapse(SubSeq(t, x.start, n))
    BY <1>13 DEF Inside
  <2>2. QED
    BY <1>9, <1>10, <1>11, <2>1, CloseSentence
<1>14. QED
  BY <1>7, <1>12, <1>13
-------------------------------------------------------------------------------
(***************************************************************************)
(* The sentences of a page are those between its boundaries.               *)
(***************************************************************************)

\* Before the end of the page, the boundaries are where the code ends sentences.
LEMMA BoundaryEndsSentence ==
    ASSUME NEW t \in Seq(Char), NEW i \in 1..(Len(t) - 1)
    PROVE  Boundary(t, i) <=> EndsSentence(t, i)
<1> DEFINE n == SkipSpaces(t, i + 1)
           Next1 == \A j \in (i + 1)..Len(t) :
                       Space(t[j]) \/ t[j] = "A" \/ \E k \in (i + 1)..(j - 1) : ~Space(t[k])
<1>1. i \in Nat /\ Len(t) \in Nat /\ i # Len(t) /\ i + 1 \in 1..(Len(t) + 1)
  OBVIOUS
<1>2. n \in (i + 1)..(Len(t) + 1) /\ (\A j \in (i + 1)..(n - 1) : Space(t[j]))
      /\ (n <= Len(t) => ~Space(t[n]))
  BY <1>1, SkipSpacesFacts
<1>3. Boundary(t, i) <=> t[i] = "." /\ Next1
  BY <1>1 DEF Boundary
<1>4. EndsSentence(t, i) <=> t[i] = "." /\ (n > Len(t) \/ t[n] = "A")
  BY DEF EndsSentence
<1> HIDE DEF n
<1>5. ASSUME Next1 PROVE n > Len(t) \/ t[n] = "A"
  BY <1>1, <1>2, <1>5
<1>6. ASSUME n > Len(t) \/ t[n] = "A", NEW j \in (i + 1)..Len(t)
      PROVE  Space(t[j]) \/ t[j] = "A" \/ \E k \in (i + 1)..(j - 1) : ~Space(t[k])
  <2>1. CASE j < n
    BY <1>1, <1>2, <2>1
  <2>2. CASE j = n
    BY <1>1, <1>6, <2>2
  <2>3. CASE j > n
    <3>1. n \in (i + 1)..(j - 1) /\ ~Space(t[n])
      BY <1>1, <1>2, <2>3
    <3>2. QED
      BY <3>1
  <2>4. QED
    BY <1>1, <1>2, <2>1, <2>2, <2>3
<1>7. QED
  BY <1>3, <1>4, <1>5, <1>6

\* Where the sentence begins of which e is the end.
FirstOf(t, e) ==
    LET before == {d \in 1..(e - 1) : Boundary(t, d)}
    IN  IF before = {} THEN 1 ELSE SkipSpaces(t, Max(before) + 1)

\* The sentence after a boundary begins where the white space ends; a position
\* that is none changes nothing.
LEMMA FirstOfStep ==
    ASSUME NEW t, NEW e \in Nat \ {0}
    PROVE  FirstOf(t, e + 1) = IF Boundary(t, e) THEN SkipSpaces(t, e + 1) ELSE FirstOf(t, e)
<1> DEFINE S == {d \in 1..(e - 1) : Boundary(t, d)}
           T == {d \in 1..((e + 1) - 1) : Boundary(t, d)}
<1>1. CASE Boundary(t, e)
  <2>1. e \in T /\ T # {} /\ T \subseteq Nat /\ \A y \in T : e >= y
    BY <1>1
  <2> HIDE DEF T
  <2>2. Max(T) \in T /\ \A y \in T : Max(T) >= y
    BY <2>1 DEF Max
  <2>3. Max(T) = e
    <3>1. Max(T) \in Nat /\ e \in Nat
      BY <2>1, <2>2
    <3>2. Max(T) >= e
      BY <2>1, <2>2
    <3>3. e >= Max(T)
      BY <2>1, <2>2
    <3>4. QED
      BY <3>1, <3>2, <3>3
  <2>4. QED
    BY <1>1, <2>1, <2>3 DEF FirstOf, T
<1>2. CASE ~Boundary(t, e)
  <2>1. T = S
    BY <1>2
  <2> HIDE DEF S, T
  <2>2. FirstOf(t, e + 1) = FirstOf(t, e)
    BY <2>1 DEF FirstOf, S, T
  <2>3. QED
    BY <1>2, <2>2
<1>3. QED
  BY <1>1, <1>2

\* The code begins its sentences there.
LEMMA FirstOfIsStart ==
    ASSUME NEW t \in Seq(Char)
    PROVE  \A e \in 1..Len(t) : FirstOf(t, e) = Scan(t)[e - 1].start
<1> DEFINE n == Len(t)
           X(i) == Scan(t)[i]
           G == {i \in 0..(n - 1) : FirstOf(t, i + 1) = X(i).start}
<1>1. n \in Nat
  OBVIOUS
<1>2. X(0) = [start |-> 1, list |-> <<>>] /\ \A i \in 1..n : X(i) = Visit(t, X(i - 1), i)
  BY ScanFacts
<1> HIDE DEF X
<1>3. FirstOf(t, 0 + 1) = 1
  BY DEF FirstOf
<1>4. ASSUME NEW i \in 1..(n - 1), i - 1 \in G PROVE i \in G
  <2>1. i \in Nat \ {0} /\ i \in 1..n /\ i \in 0..(n - 1) /\ (i - 1) + 1 = i
    BY <1>1
  <2>2. FirstOf(t, i) = X(i - 1).start
    BY <1>4, <2>1
  <2>3. Boundary(t, i) <=> EndsSentence(t, i)
    BY BoundaryEndsSentence
  <2>4. FirstOf(t, i + 1) = IF Boundary(t, i) THEN SkipSpaces(t, i + 1) ELSE FirstOf(t, i)
    BY <2>1, FirstOfStep
  <2>5. X(i) = Visit(t, X(i - 1), i)
    BY <1>2, <2>1
  <2>6. X(i).start = IF EndsSentence(t, i) THEN SkipSpaces(t, i + 1) ELSE X(i - 1).start
    BY <2>5 DEF Visit
  <2>7. FirstOf(t, i + 1) = X(i).start
    BY <2>2, <2>3, <2>4, <2>6
  <2>8. QED
    BY <2>1, <2>7
<1>5. ASSUME NEW e \in 1..n PROVE FirstOf(t, e) = X(e - 1).start
  <2>1. n - 1 \in Nat /\ e - 1 \in 0..(n - 1) /\ (e - 1) + 1 = e
    BY <1>1
  <2>2. 0 \in G
    BY <1>2, <1>3, <2>1
  <2>3. \A i \in 0..(n - 1) : i \in G
    <3> DEFINE m == n - 1
    <3>1. m \in Nat /\ \A i \in 1..m : i - 1 \in G => i \in G
      BY <1>4, <2>1
    <3> HIDE DEF G, m
    <3>2. \A i \in 0..m : i \in G
      BY <2>2, <3>1, UpTo
    <3>3. QED
      BY <3>2 DEF m
  <2>4. FirstOf(t, (e - 1) + 1) = X(e - 1).start
    BY <2>1, <2>3
  <2>5. QED
    BY <2>1, <2>4
<1>6. QED
  BY <1>5 DEF X

\* The text up to the end e is the cleaned one that the code makes.
LEMMA StretchTextFacts ==
    ASSUME NEW t \in Seq(Char), NEW e \in 1..Len(t)
    PROVE  /\ StretchText(t, e) = Clean(SubSeq(t, Scan(t)[e - 1].start, e))
           /\ StretchText(t, e) \in Seq(Char)
<1>1. FirstOf(t, e) = Scan(t)[e - 1].start
  BY FirstOfIsStart
<1>2. e - 1 \in 0..Len(t) /\ e \in 0..Len(t)
  OBVIOUS
<1> DEFINE a == Scan(t)[e - 1].start
<1>3. a \in Nat \ {0}
  BY <1>2, ScanFacts DEF Scans
<1> HIDE DEF a
<1>4. SubSeq(t, a, e) \in Seq(Char)
  BY <1>2, <1>3, SentenceFacts
<1>5. StretchText(t, e) = Clean(SubSeq(t, FirstOf(t, e), e))
  BY DEF StretchText, FirstOf
<1>6. QED
  BY <1>1, <1>4, <1>5, CleanKeepsInk DEF a

\* An empty sentence does not pass, so that it makes no difference whether it
\* is in the list.
LEMMA KeptSentence ==
    ASSUME NEW t \in Seq(Char), NEW a \in Nat \ {0}, NEW b \in 0..Len(t),
           NEW l \in Seq(Seq(Char))
    PROVE  Kept(l \o Sentence(t, a, b)) = AddKept(Kept(l), Clean(SubSeq(t, a, b)))
<1> DEFINE x == Clean(SubSeq(t, a, b))
<1>1. SubSeq(t, a, b) \in Seq(Char)
  BY SentenceFacts
<1>2. x \in Seq(Char)
  BY <1>1, CleanKeepsInk
<1>3. Sentence(t, a, b) = IF x = <<>> THEN <<>> ELSE <<x>>
  BY DEF Sentence
<1> HIDE DEF x
<1>4. l \o <<>> = l /\ l \o <<x>> = Append(l, x)
  BY <1>2
<1>5. Kept(Append(l, x)) = AddKept(Kept(l), x)
  BY <1>2, KeptLaws
<1>6. CASE x = <<>>
  <2>1. Bytes(x) = 0
    BY <1>6, BytesLaws
  <2>2. ~(Bytes(x) \in 1..MaxText)
    BY <2>1
  <2>3. AddKept(Kept(l), x) = Kept(l)
    BY <2>2, Zenon DEF AddKept
  <2>4. QED
    BY <1>3, <1>4, <1>6, <2>3 DEF x
<1>7. CASE x # <<>>
  BY <1>3, <1>4, <1>5, <1>7 DEF x
<1>8. QED
  BY <1>6, <1>7

\* What the boundary e adds to the list of stretches.
AddStretch(list, t, e) ==
    IF Boundary(t, e) /\ Bytes(StretchText(t, e)) \in 1..MaxText
    THEN Append(list, StretchText(t, e))
    ELSE list

\* The list of stretches is a loop over the positions of a page.
LEMMA StretchesLoop ==
    ASSUME NEW t \in Seq(Char)
    PROVE  \E f : /\ Stretches(t) = f[Len(t)]
                  /\ f[0] = <<>>
                  /\ \A e \in 1..Len(t) : f[e] = AddStretch(f[e - 1], t, e)
<1> DEFINE n == Len(t)
           S == Seq(Seq(Char))
           F == [e \in 1..n |-> [x \in S |-> AddStretch(x, t, e)]]
           Eq(g) == g = [e \in 0..n |-> IF e = 0 THEN <<>> ELSE AddStretch(g[e - 1], t, e)]
           f == CHOOSE g : Eq(g)
<1>1. Stretches(t) = f[n]
  BY DEF Stretches, AddStretch
<1>2. n \in Nat /\ <<>> \in S
  OBVIOUS
<1>3. ASSUME NEW e \in 1..n, NEW x \in S PROVE AddStretch(x, t, e) \in S
  <2>1. StretchText(t, e) \in Seq(Char)
    BY StretchTextFacts
  <2>2. Append(x, StretchText(t, e)) \in S
    BY <2>1
  <2>3. QED
    BY <2>2 DEF AddStretch
<1>4. F \in [1..n -> [S -> S]] /\ \A e \in 1..n : \A x \in S : F[e][x] = AddStretch(x, t, e)
  BY <1>3
<1> HIDE DEF F
<1>5. PICK h : IsLoop(h, S, <<>>, n, F)
  <2> HIDE DEF n, S
  <2>1. QED
    BY <1>2, <1>4, LoopExists
<1>6. h \in [0..n -> S] /\ h[0] = <<>> /\ \A e \in 1..n : h[e] = F[e][h[e - 1]]
  BY <1>5 DEF IsLoop
<1>7. ASSUME NEW e \in 1..n PROVE h[e] = AddStretch(h[e - 1], t, e)
  <2>1. e - 1 \in 0..n
    BY <1>2
  <2>2. h[e - 1] \in S
    BY <1>6, <2>1
  <2>3. QED
    BY <1>4, <1>6, <2>2
<1>8. Eq(h)
  BY <1>2, <1>6, <1>7
<1>9. Eq(f)
  BY <1>8
<1> HIDE DEF f
<1>10. f[0] = <<>> /\ \A e \in 1..n : f[e] = AddStretch(f[e - 1], t, e)
  BY <1>2, <1>9
<1>11. QED
  BY <1>1, <1>10

\* The stretches of a text are its sentences, but for the ones that do not
\* pass.
LEMMA StretchesAreSentences == \A t \in Seq(Char) : Stretches(t) = Kept(Sentences(t))
<1> SUFFICES ASSUME NEW t \in Seq(Char) PROVE Stretches(t) = Kept(Sentences(t))
    OBVIOUS
<1> DEFINE n == Len(t)
           X(i) == Scan(t)[i]
<1>1. n \in Nat
  OBVIOUS
<1>2. PICK f : /\ Stretches(t) = f[n]
               /\ f[0] = <<>>
               /\ \A e \in 1..n : f[e] = AddStretch(f[e - 1], t, e)
  BY StretchesLoop
<1>3. X(0) = [start |-> 1, list |-> <<>>] /\ (\A i \in 0..n : X(i) \in Scans)
      /\ \A i \in 1..n : X(i) = Visit(t, X(i - 1), i)
  BY ScanFacts
<1>4. ASSUME NEW e \in 1..n
      PROVE  /\ X(e - 1).list \in Seq(Seq(Char)) /\ X(e - 1).start \in Nat \ {0}
             /\ StretchText(t, e) = Clean(SubSeq(t, X(e - 1).start, e))
             /\ Kept(X(e - 1).list \o Sentence(t, X(e - 1).start, e))
                  = AddKept(Kept(X(e - 1).list), StretchText(t, e))
             /\ Boundary(t, e) => f[e] = AddKept(f[e - 1], StretchText(t, e))
             /\ ~Boundary(t, e) => f[e] = f[e - 1]
  <2>1. e - 1 \in 0..n /\ e \in 0..n
    BY <1>1
  <2> DEFINE x == X(e - 1)
  <2>2. x \in Scans
    BY <1>3, <2>1
  <2>3. StretchText(t, e) = Clean(SubSeq(t, x.start, e))
    BY StretchTextFacts
  <2> HIDE DEF x
  <2>4. x.list \in Seq(Seq(Char)) /\ x.start \in Nat \ {0}
    BY <2>2 DEF Scans
  <2>5. Kept(x.list \o Sentence(t, x.start, e))
          = AddKept(Kept(x.list), Clean(SubSeq(t, x.start, e)))
    BY <2>1, <2>4, KeptSentence
  <2>6. f[e] = AddStretch(f[e - 1], t, e)
    BY <1>2
  <2>7. Boundary(t, e) => f[e] = AddKept(f[e - 1], StretchText(t, e))
    BY <2>6, Zenon DEF AddStretch, AddKept
  <2>8. ~Boundary(t, e) => f[e] = f[e - 1]
    BY <2>6, Zenon DEF AddStretch
  <2>9. QED
    BY <2>3, <2>4, <2>5, <2>7, <2>8 DEF x
<1>5. Sentences(t) = X(n).list \o Sentence(t, X(n).start, n)
  BY DEF Sentences
<1> HIDE DEF X
<1> DEFINE G == {i \in 0..(n - 1) : f[i] = Kept(X(i).list)}
<1>6. f[0] = Kept(X(0).list)
  <2>1. X(0).list = <<>>
    BY <1>3
  <2>2. Kept(<<>>) = <<>>
    BY KeptLaws
  <2>3. QED
    BY <1>2, <2>1, <2>2
<1>7. ASSUME NEW i \in 1..(n - 1), i - 1 \in G PROVE i \in G
  <2>1. i \in 1..n /\ i \in 0..(n - 1) /\ f[i - 1] = Kept(X(i - 1).list)
    BY <1>1, <1>7
  <2>2. Boundary(t, i) <=> EndsSentence(t, i)
    BY BoundaryEndsSentence
  <2>3. X(i) = Visit(t, X(i - 1), i)
    BY <1>3, <2>1
  <2>4. f[i] = Kept(X(i).list)
    <3>1. CASE EndsSentence(t, i)
      <4>1. X(i).list = X(i - 1).list \o Sentence(t, X(i - 1).start, i)
        <5> DEFINE l == X(i - 1).list \o Sentence(t, X(i - 1).start, i)
        <5>1. X(i) = [start |-> SkipSpaces(t, i + 1), list |-> l]
          BY <2>3, <3>1, Zenon DEF Visit
        <5> HIDE DEF l
        <5>2. X(i).list = l
          BY <5>1
        <5>3. QED
          BY <5>2 DEF l
      <4>2. Kept(X(i).list) = AddKept(f[i - 1], StretchText(t, i))
        BY <1>4, <2>1, <4>1
      <4>3. f[i] = AddKept(f[i - 1], StretchText(t, i))
        BY <1>4, <2>1, <2>2, <3>1
      <4>4. QED
        BY <4>2, <4>3
    <3>2. CASE ~EndsSentence(t, i)
      <4>1. X(i) = X(i - 1)
        BY <2>3, <3>2, Zenon DEF Visit
      <4>2. QED
        BY <1>4, <2>1, <2>2, <3>2, <4>1
    <3>3. QED
      BY <3>1, <3>2
  <2>5. QED
    BY <2>1, <2>4
<1>8. ASSUME NEW a \in Nat, a > n PROVE Sentence(t, a, n) = <<>>
  <2>1. SubSeq(t, a, n) = <<>>
    BY <1>1, <1>8, SubSeqEmpty
  <2>2. Collapse(<<>>) = <<>>
    BY CollapseLaws
  <2>3. Trim(<<>>) = <<>>
    BY Zenon DEF Trim
  <2>4. Clean(SubSeq(t, a, n)) = <<>>
    BY <2>1, <2>2, <2>3 DEF Clean
  <2>5. QED
    BY <2>4 DEF Sentence
<1>9. CASE n = 0
  <2>1. X(0).list = <<>> /\ X(0).start = 1
    BY <1>3
  <2>2. Sentence(t, 1, n) = <<>>
    BY <1>8, <1>9
  <2>3. Sentences(t) = <<>>
    BY <1>5, <1>9, <2>1, <2>2
  <2>4. Kept(<<>>) = <<>>
    BY KeptLaws
  <2>5. QED
    BY <1>2, <1>9, <2>3, <2>4
<1>10. CASE n > 0
  <2> DEFINE m == n - 1
             x == X(m)
  <2>1. m \in Nat /\ m \in 0..m /\ n \in 1..n /\ m \in 0..n
    BY <1>1, <1>10
  <2>2. \A i \in 0..m : i \in G
    <3>1. 0 \in G
      BY <1>6, <2>1
    <3>2. \A i \in 1..m : i - 1 \in G => i \in G
      BY <1>7
    <3> HIDE DEF G, m
    <3>3. QED
      BY <2>1, <3>1, <3>2, UpTo
  <2>3. f[m] = Kept(x.list)
    BY <2>1, <2>2
  <2>4. f[n] = AddKept(f[m], StretchText(t, n))
    <3>1. Boundary(t, n)
      BY DEF Boundary
    <3>2. QED
      BY <1>4, <2>1, <3>1
  <2>5. Kept(x.list \o Sentence(t, x.start, n)) = AddKept(Kept(x.list), StretchText(t, n))
        /\ x.list \in Seq(Seq(Char)) /\ x.start \in Nat \ {0}
    BY <1>4, <2>1
  <2>6. Sentences(t) = x.list \o Sentence(t, x.start, n)
    <3>1. X(n) = Visit(t, x, n)
      BY <1>3, <2>1
    <3>2. CASE ~EndsSentence(t, n)
      <4>1. X(n) = x
        BY <3>1, <3>2, Zenon DEF Visit
      <4>2. QED
        BY <1>5, <4>1
    <3>3. CASE EndsSentence(t, n)
      <4> DEFINE l == x.list \o Sentence(t, x.start, n)
                 a == SkipSpaces(t, n + 1)
      <4>1. X(n) = [start |-> a, list |-> l]
        BY <3>1, <3>3, Zenon DEF Visit
      <4>2. a \in Nat /\ a > n
        <5>1. n + 1 \in 1..(n + 1)
          BY <1>1
        <5>2. a \in (n + 1)..(n + 1)
          BY <5>1, SkipSpacesFacts
        <5>3. QED
          BY <1>1, <5>2
      <4>3. l \in Seq(Seq(Char))
        <5>1. n \in 0..n
          BY <1>1
        <5> DEFINE b == x.start
                   q == Sentence(t, b, n)
        <5>2. b \in Nat \ {0}
          BY <2>5
        <5>3. q \in Seq(Seq(Char))
          <6> HIDE DEF b
          <6>1. QED
            BY <5>1, <5>2, SentenceFacts
        <5> HIDE DEF q
        <5>4. x.list \o q \in Seq(Seq(Char))
          BY <2>5, <5>3
        <5>5. QED
          BY <5>4 DEF q
      <4> HIDE DEF l, a
      <4>4. X(n).start = a /\ X(n).list = l
        BY <4>1
      <4>5. Sentences(t) = l \o <<>>
        BY <1>5, <1>8, <4>2, <4>4
      <4>6. l \o <<>> = l
        BY <4>3
      <4>7. QED
        BY <4>5, <4>6 DEF l
    <3>4. QED
      BY <3>2, <3>3
  <2>7. QED
    BY <1>2, <2>3, <2>4, <2>5, <2>6
<1>11. QED
  BY <1>1, <1>9, <1>10

\* The segments of a page are the sentences of the page as it was.
LEMMA ExtractStretches ==
    ASSUME NEW t \in Seq(Char)
    PROVE  TextsOf(Extract(t)) = Stretches(t)
<1>1. Clean(t) \in Seq(Char)
  BY CleanKeepsInk
<1>2. Sentences(Clean(t)) = Result(t)
  BY <1>1, ResultIsSentences, ResultCleaned
<1>3. Sentences(Clean(t)) = Sentences(t)
  BY <1>2, ResultIsSentences
<1>4. QED
  BY <1>3, ExtractFacts, StretchesAreSentences
-------------------------------------------------------------------------------
(***************************************************************************)
(* The loops that rewrite a text stay inside their buffers.                *)
(***************************************************************************)

\* The lengths in the tables of the code, which is all that the proofs need to
\* know of them.
LEMMA ReplacementLengths ==
    \A r \in MathReplacements :
        r.symbol_len \in Nat \ {0, 1} /\ r.spoken_len \in Nat
  BY DEF MathReplacements

\* The lengths of link patterns and of their announcements.
LEMMA PatternLengths ==
    \A p \in LinkPatterns : p.pattern_len \in Nat \ {0} /\ p.announce_len \in Nat
  BY DEF LinkPatterns

\* The invariant holds before the buffer is allocated.
LEMMA ProcessInvInit == InitProcess => ProcessInv
<1> SUFFICES ASSUME InitProcess PROVE ProcessInv
    OBVIOUS
<1> USE DEF InitProcess
<1>1. original_len \in Nat /\ src \in 0..original_len
      /\ dst \in Nat /\ remaining \in Nat /\ literal \in Nat /\ added \in Nat
  BY MaxBytesAssumption
<1>2. first_column \in BOOLEAN
  BY Zenon
<1>3. step = "start" /\ call \in Calls
  OBVIOUS
<1>4. QED
  BY <1>1, <1>2, <1>3 DEF ProcessInv, ProcessTypeOK

\* An iteration that reads r bytes of what is left of the text, and writes w
\* bytes, a of them its own, into what is left of the buffer, keeps src, dst and remaining in step.
LEMMA AdvanceKeepsBounds ==
    ASSUME ProcessInv, step = "loop", UNCHANGED <<call, original_len, step>>,
           NEW r \in Nat, NEW w \in Nat, NEW a \in Nat, Advances(r, w, a),
           r <= original_len - src, w <= remaining, w <= r + a,
           first_column' \in BOOLEAN, literal' \in Nat
    PROVE  ProcessInv'
  BY DEF ProcessInv, ProcessTypeOK, BufferSize, Advances, Calls

\* Every step keeps the invariant.
LEMMA ProcessInvNext == ProcessInv /\ [ProcessNext]_processVars => ProcessInv'
<1> SUFFICES ASSUME ProcessInv, [ProcessNext]_processVars
             PROVE  ProcessInv'
    OBVIOUS
<1> USE DEF ProcessInv, ProcessTypeOK
<1>1. CASE Allocate
  <2>1. original_len \in Nat /\ BufferSize \in Nat /\ BufferSize - 1 \in Nat
        /\ BufferSize' = BufferSize
    BY <1>1 DEF Allocate, BufferSize, Calls
  <2>2. dst' \in Nat /\ remaining' \in Nat /\ added' = dst'
    BY <1>1, <2>1 DEF Allocate, TableStartLen
  <2>3. dst' + remaining' = BufferSize' - 1
    BY <1>1, <2>1 DEF Allocate, TableStartLen
  <2>4. UNCHANGED <<call, original_len, src, literal>>
        /\ step' = "loop" /\ original_len > 0
    BY <1>1 DEF Allocate
  <2>5. first_column' \in BOOLEAN
    BY <1>1, Zenon DEF Allocate
  <2>6. ProcessTypeOK'
    BY <2>2, <2>4, <2>5
  <2>7. src' + added' >= dst'
    <3>1. src' \in Nat
      BY <2>6
    <3>2. ASSUME NEW x \in Nat, NEW y \in Nat PROVE y <= x + y
      OBVIOUS
    <3>3. QED
      BY <2>2, <3>1, <3>2
  <2>8. QED
    BY <2>3, <2>4, <2>6, <2>7
<1>2. CASE AllocateNothing
  BY <1>2 DEF AllocateNothing, cursor
<1>3. CASE CopyByte
  <2>1. UNCHANGED <<call, original_len, step>> /\ step = "loop"
        /\ src < original_len /\ remaining > 0
    BY <1>3 DEF CopyByte, Iterates
  <2>2. Advances(1, 1, 0) /\ literal' \in Nat /\ UNCHANGED first_column
    BY <1>3 DEF CopyByte
  <2>3. QED
    BY <2>1, <2>2, AdvanceKeepsBounds
<1>4. CASE MathSymbol
  <2>1. UNCHANGED <<call, original_len, step>> /\ step = "loop"
        /\ src < original_len /\ remaining > 0 /\ UNCHANGED first_column
    BY <1>4 DEF MathSymbol, Iterates
  <2>2. PICK r \in MathReplacements :
          /\ src + r.symbol_len <= original_len
          /\ IF r.spoken_len < remaining
             THEN Advances(r.symbol_len, r.spoken_len, r.spoken_len) /\ literal' = 0
             ELSE Advances(1, 1, 0) /\ literal' = r.symbol_len - 1
    BY <1>4 DEF MathSymbol
  <2>3. r.symbol_len \in Nat \ {0, 1} /\ r.spoken_len \in Nat
    BY ReplacementLengths
  <2>4. CASE r.spoken_len < remaining
    BY <2>1, <2>2, <2>3, <2>4, AdvanceKeepsBounds
  <2>5. CASE ~(r.spoken_len < remaining)
    BY <2>1, <2>2, <2>3, <2>5, AdvanceKeepsBounds
  <2>6. QED
    BY <2>4, <2>5
<1>5. ASSUME NEW len \in Nat, NEW b \in BOOLEAN, Iterates("table"), Separates(len, b)
      PROVE  ProcessInv'
  <2>1. UNCHANGED <<call, original_len, step>> /\ step = "loop"
        /\ src < original_len /\ remaining > 0 /\ literal' \in Nat
    BY <1>5 DEF Iterates, Separates
  <2>2. CASE len < remaining
    <3>1. Advances(1, len, len) /\ first_column' = b
      BY <1>5, <2>2 DEF Separates
    <3>2. first_column' \in BOOLEAN
      BY <3>1, Zenon
    <3>3. QED
      BY <2>1, <2>2, <3>1, <3>2, AdvanceKeepsBounds
  <2>3. CASE ~(len < remaining)
    <3>1. Advances(1, 0, 0) /\ UNCHANGED first_column
      BY <1>5, <2>3 DEF Separates
    <3>2. QED
      BY <2>1, <3>1, AdvanceKeepsBounds
  <2>4. QED
    BY <2>2, <2>3
<1>6. CASE TableColumn
  BY <1>5, <1>6 DEF TableColumn, ColumnLen
<1>7. CASE TableRow
  BY <1>5, <1>7 DEF TableRow, RowLen
<1>8. CASE LinkFound
  <2>1. UNCHANGED <<call, original_len, step>> /\ step = "loop"
        /\ src < original_len /\ remaining > 0 /\ UNCHANGED first_column
        /\ literal' = 1
    BY <1>8 DEF LinkFound, Iterates
  <2>2. PICK p \in LinkPatterns : \E n \in p.pattern_len..(original_len - src) :
          LET opening == IF p.announce_len < remaining THEN p.announce_len ELSE 0
              room == remaining - opening
              copied == IF n < room THEN n ELSE room
              closing == IF LinkEndLen < room - copied THEN LinkEndLen ELSE 0
          IN  Advances(copied, opening + copied + closing, opening + closing)
    BY <1>8 DEF LinkFound
  <2>3. PICK n \in p.pattern_len..(original_len - src) :
          LET opening == IF p.announce_len < remaining THEN p.announce_len ELSE 0
              room == remaining - opening
              copied == IF n < room THEN n ELSE room
              closing == IF LinkEndLen < room - copied THEN LinkEndLen ELSE 0
          IN  Advances(copied, opening + copied + closing, opening + closing)
    BY <2>2
  <2> DEFINE opening == IF p.announce_len < remaining THEN p.announce_len ELSE 0
             room == remaining - opening
             copied == IF n < room THEN n ELSE room
             closing == IF LinkEndLen < room - copied THEN LinkEndLen ELSE 0
  <2>4. p.announce_len \in Nat /\ n \in Nat /\ n <= original_len - src
    BY <2>3, PatternLengths
  <2>5. opening \in Nat /\ room \in Nat /\ opening + room = remaining
    BY <2>4
  <2>6. copied \in Nat /\ copied <= n /\ copied <= room
    BY <2>4, <2>5
  <2>7. closing \in Nat /\ closing <= room - copied
    BY <2>5, <2>6 DEF LinkEndLen
  <2>8. Advances(copied, opening + copied + closing, opening + closing)
    BY <2>3
  <2> HIDE DEF opening, room, copied, closing
  <2>9. /\ opening + copied + closing \in Nat /\ opening + closing \in Nat
        /\ opening + copied + closing <= remaining
        /\ opening + copied + closing <= copied + (opening + closing)
        /\ copied <= original_len - src
    BY <2>4, <2>5, <2>6, <2>7
  <2>10. QED
    BY <2>1, <2>6, <2>8, <2>9, AdvanceKeepsBounds
<1>9. CASE Finish
  BY <1>9 DEF Finish, cursor, BufferSize
<1>10. CASE UNCHANGED processVars
  BY <1>10 DEF processVars, cursor, BufferSize
<1>11. QED
  BY <1>1, <1>2, <1>3, <1>4, <1>6, <1>7, <1>8, <1>9, <1>10
     DEF ProcessNext, Returned
-------------------------------------------------------------------------------
(***************************************************************************)
(* The module's specification.                                             *)
(***************************************************************************)

\* The texts of pages are texts.
LEMMA PageIsText == \A A \in Alphabets : SeqOf(A, MaxLength) \subseteq Seq(Char)
<1> SUFFICES ASSUME NEW A \in Alphabets, NEW t \in SeqOf(A, MaxLength)
             PROVE  t \in Seq(Char)
    OBVIOUS
<1>1. A \subseteq Char
  BY DEF Char
<1>2. PICK m \in 0..MaxLength : t \in [1..m -> A]
  BY DEF SeqOf
<1>3. m \in Nat /\ t \in [1..m -> Char]
  BY <1>1, <1>2, MaxLengthAssumption
<1>4. QED
  BY <1>3, SeqDef

\* A call either extracts a page or rewrites a text, and an extraction that has
\* come to its end has returned the segments of its page.
TextInv ==
    /\ raw \in Seq(Char)
    /\ call = "extract" \/ ProcessInv
    /\ Extracted => segments = Extract(raw)

\* TextInv holds before the call.
LEMMA TextInvInit == Init => TextInv
<1> SUFFICES ASSUME Init PROVE TextInv
    OBVIOUS
<1>1. CASE InitExtract
  <2>1. raw \in Seq(Char)
    BY <1>1, PageIsText DEF InitExtract
  <2>2. call = "extract" /\ step = "start"
    BY <1>1 DEF InitExtract
  <2>3. QED
    BY <2>1, <2>2 DEF TextInv, Extracted
<1>2. CASE InitProcess /\ raw = <<>>
  <2>1. raw \in Seq(Char) /\ step = "start"
    BY <1>2 DEF InitProcess
  <2>2. ProcessInv
    BY <1>2, ProcessInvInit
  <2>3. QED
    BY <2>1, <2>2 DEF TextInv, Extracted
<1>3. QED
  BY <1>1, <1>2 DEF Init

\* Every step keeps TextInv.
LEMMA TextInvNext == TextInv /\ [Next]_vars => TextInv'
<1> SUFFICES ASSUME TextInv, [Next]_vars PROVE TextInv'
    OBVIOUS
<1>1. CASE ExtractSegments
  BY <1>1 DEF ExtractSegments, TextInv, Extracted
<1>2. CASE ExtractFails
  BY <1>2 DEF ExtractFails, TextInv, Extracted, pageVars
<1>3. CASE ProcessNext /\ UNCHANGED pageVars
  <2>1. raw' = raw /\ segments' = segments
    BY <1>3 DEF pageVars
  <2>2. CASE ProcessInv
    <3>1. ProcessInv'
      BY <1>3, <2>2, ProcessInvNext
    <3>2. call' # "extract"
      BY <3>1 DEF ProcessInv, Calls
    <3>3. QED
      BY <2>1, <3>1, <3>2 DEF TextInv, Extracted
  <2>3. CASE call = "extract"
    <3>1. Returned
      BY <1>3, <2>3 DEF ProcessNext, Allocate, AllocateNothing, CopyByte, MathSymbol,
           TableColumn, TableRow, LinkFound, Finish, Iterates, Calls
    <3>2. call' = call /\ step' = step
      BY <3>1 DEF Returned, processVars
    <3>3. QED
      BY <2>1, <2>3, <3>2 DEF TextInv, Extracted
  <2>4. QED
    BY <2>2, <2>3 DEF TextInv
<1>4. CASE UNCHANGED vars
  <2>1. raw' = raw /\ segments' = segments /\ call' = call /\ step' = step
    BY <1>4 DEF vars, processVars, pageVars
  <2>2. UNCHANGED processVars
    BY <1>4 DEF vars
  <2>3. ProcessInv => ProcessInv'
    BY <2>2, ProcessInvNext
  <2>4. QED
    BY <2>1, <2>3 DEF TextInv, Extracted
<1>5. QED
  BY <1>1, <1>2, <1>3, <1>4 DEF Next

\* The inductive invariant: what tts_extract_text_segments returns is the
\* segments of its page, and the rewriting functions keep to their buffers.
THEOREM TextInvariant == Spec => []TextInv
  BY TextInvInit, TextInvNext, PTL DEF Spec

\* tts_extract_text_segments loses nothing that is printed on a page, and
\* repeats nothing: cleaning twice, cutting at full stops and dropping empty
\* sentences only ever removes white space.  For pages of any length and with
\* any characters, as long as the page would fit into one segment.
THEOREM NothingIsLost == Spec => []NothingLost
<1>1. TextInv => NothingLost
  BY ExtractKeepsInk DEF TextInv, NothingLost
<1>2. QED
  BY <1>1, TextInvariant, PTL

\* The segments of a page are its sentences, each cut where the page has a full
\* stop before a capital and cleaned: that the code cleans the page before it
\* looks for full stops, and each sentence again after it, makes no difference.
THEOREM SegmentsAreItsSentences == Spec => []SegmentsAreSentences
<1>1. TextInv => SegmentsAreSentences
  BY ExtractStretches DEF TextInv, SegmentsAreSentences
<1>2. QED
  BY <1>1, TextInvariant, PTL

\* tts_extract_text_segments and tts_detect_content_type find the same type for
\* a segment, unless it is a heading.
THEOREM TypesDoAgree == Spec => []TypesAgree
<1>1. TextInv => TypesAgree
  <2> SUFFICES ASSUME TextInv, Extracted, NEW i \in DOMAIN segments
               PROVE  \/ segments[i].type = DetectContentType(segments[i].text)
                      \/ /\ segments[i].type = "NORMAL"
                         /\ DetectContentType(segments[i].text) = "HEADING"
      BY DEF TypesAgree
  <2>1. segments = Extract(raw) /\ raw \in Seq(Char)
    BY DEF TextInv
  <2>2. segments \in Seq(Segs)
    BY <2>1, ExtractFacts
  <2>3. i \in 1..Len(segments)
    BY <2>2
  <2>4. segments[i].type = ContentType(segments[i].text)
    BY <2>2, <2>3, SegmentTypes
  <2>5. QED
    BY <2>4, TypesOfTexts
<1>2. QED
  BY <1>1, TextInvariant, PTL

\* tts_process_math_content, tts_process_table_content and
\* tts_process_link_content write inside their buffers whatever the text is.
THEOREM BufferIsSafe == Spec => []BufferSafe
<1>1. TextInv => BufferSafe
  BY DEF TextInv, ProcessInv, ProcessTypeOK, BufferSafe, BufferSize, Calls
<1>2. QED
  BY <1>1, TextInvariant, PTL

\* They copy a text to its end when they add less than its length to it.
THEOREM TextIsKept == Spec => []TextKept
<1>1. TextInv => TextKept
  BY DEF TextInv, ProcessInv, ProcessTypeOK, TextKept, BufferSize, Calls
<1>2. QED
  BY <1>1, TextInvariant, PTL

\* An iteration of a loop reads at least one byte of the text.
IterationReads == step = "loop" => src' > src \/ step' = "done"

\* Every step of the rewriting functions is such an iteration or none.
LEMMA ProcessReads == ProcessInv /\ ProcessNext => IterationReads
<1> SUFFICES ASSUME ProcessInv, ProcessNext, step = "loop"
             PROVE  src' > src \/ step' = "done"
    BY DEF IterationReads
<1>0. src \in Nat /\ original_len \in Nat /\ remaining \in Nat
  BY DEF ProcessInv, ProcessTypeOK
<1>1. ASSUME NEW r \in Nat \ {0}, NEW w, NEW a, Advances(r, w, a) PROVE src' > src
  BY <1>0, <1>1 DEF Advances
<1>2. CASE Allocate \/ AllocateNothing \/ Returned
  BY <1>2 DEF Allocate, AllocateNothing, Returned
<1>3. CASE CopyByte
  BY <1>1, <1>3 DEF CopyByte
<1>4. CASE MathSymbol
  BY <1>1, <1>4, ReplacementLengths DEF MathSymbol
<1>5. CASE TableColumn \/ TableRow
  BY <1>1, <1>5 DEF TableColumn, TableRow, Separates
<1>6. CASE LinkFound
  <2>1. remaining > 0
    BY <1>6 DEF LinkFound, Iterates
  <2>2. PICK p \in LinkPatterns : \E n \in p.pattern_len..(original_len - src) :
          LET opening == IF p.announce_len < remaining THEN p.announce_len ELSE 0
              room == remaining - opening
              copied == IF n < room THEN n ELSE room
              closing == IF LinkEndLen < room - copied THEN LinkEndLen ELSE 0
          IN  Advances(copied, opening + copied + closing, opening + closing)
    BY <1>6 DEF LinkFound
  <2>3. PICK n \in p.pattern_len..(original_len - src) :
          LET opening == IF p.announce_len < remaining THEN p.announce_len ELSE 0
              room == remaining - opening
              copied == IF n < room THEN n ELSE room
              closing == IF LinkEndLen < room - copied THEN LinkEndLen ELSE 0
          IN  Advances(copied, opening + copied + closing, opening + closing)
    BY <2>2
  <2> DEFINE opening == IF p.announce_len < remaining THEN p.announce_len ELSE 0
             room == remaining - opening
             copied == IF n < room THEN n ELSE room
             closing == IF LinkEndLen < room - copied THEN LinkEndLen ELSE 0
  <2>4. p.announce_len \in Nat /\ n \in Nat \ {0}
    BY <1>0, <2>3, PatternLengths
  <2>5. room \in Nat \ {0}
    BY <1>0, <2>1, <2>4
  <2>6. copied \in Nat \ {0}
    BY <2>4, <2>5
  <2>7. Advances(copied, opening + copied + closing, opening + closing)
    BY <2>3
  <2> HIDE DEF opening, room, copied, closing
  <2>8. QED
    BY <1>1, <2>6, <2>7
<1>7. CASE Finish
  BY <1>7 DEF Finish
<1>8. QED
  BY <1>2, <1>3, <1>4, <1>5, <1>6, <1>7 DEF ProcessNext

\* The loops of tts_process_math_content, tts_process_table_content and
\* tts_process_link_content end, after at most as many iterations as the text
\* has bytes: also one that finds no room for an announcement reads on.
THEOREM EveryIterationReads == Spec => [][IterationReads]_vars
<1>1. TextInv /\ [Next]_vars => [IterationReads]_vars
  <2> SUFFICES ASSUME TextInv, Next PROVE IterationReads
      OBVIOUS
  <2>1. CASE ExtractSegments \/ ExtractFails
    BY <2>1 DEF ExtractSegments, ExtractFails, IterationReads
  <2>2. CASE ProcessNext /\ ProcessInv
    BY <2>2, ProcessReads
  <2>3. CASE ProcessNext /\ call = "extract"
    <3>1. Returned
      BY <2>3 DEF ProcessNext, Allocate, AllocateNothing, CopyByte, MathSymbol,
           TableColumn, TableRow, LinkFound, Finish, Iterates, Calls
    <3>2. QED
      BY <3>1 DEF Returned, IterationReads
  <2>4. QED
    BY <2>1, <2>2, <2>3 DEF Next, TextInv
<1>2. QED
  BY <1>1, TextInvariant, PTL DEF Spec
===============================================================================

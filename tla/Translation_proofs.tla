------------------------ MODULE Translation_proofs ------------------------
(***************************************************************************)
(* Proofs about the translation of answers: the extractor of tool calls    *)
(* (ToolXml), for every text, and the streams made of what it lets out     *)
(* (OpenAIStreams), for any lexemes and any bounds.                        *)
(*                                                                         *)
(* The extractor: a round of its loop either takes a complete block away,  *)
(* and then it does the same whatever text follows; or it does not, and    *)
(* then it may as well wait for that text (RoundPlus).  So draining what   *)
(* is held before more comes makes no difference in the end (DrainPlus),   *)
(* and a text may be cut anywhere (CutsJoin).  The one exception is a      *)
(* block that began with the bare word invoke at the end of a piece, when  *)
(* the word goes on: Early, which the model remembers as `early`.          *)
(*                                                                         *)
(* The streams: the worker's record of a response and what the client has  *)
(* agree after every chunk (Sound), the recovered calls are numbered from  *)
(* 100 without a gap (Numbered), and what was sent together with what the  *)
(* extractor would make of the rest is what it makes of the whole text     *)
(* (Parted).  None of this is an induction of the library: a set that      *)
(* holds the empty sequence and is closed under Append holds all sequences *)
(* (ByAppending), and a least counterexample does for recursive functions. *)
(***************************************************************************)
EXTENDS OpenAIStreams, SequenceTheorems, WellFoundedInduction, NaturalsInduction, TLAPS

-----------------------------------------------------------------------------
(* Sequences put one behind another. *)

\* A set of numbers that is not empty has a least one.
LEMMA LeastOf ==
    ASSUME NEW S \in SUBSET Nat, S # {}
    PROVE  \E x \in S : \A y \in S : x <= y
<1>1. PICK x \in S : \A y \in S : ~(<<y, x>> \in OpToRel(<, Nat))
  BY WFMin, NatLessThanWellFounded
<1>2. \A y \in S : ~(y < x)
  BY <1>1, Zenon DEF OpToRel
<1> QED
  BY <1>2

\* FlattenSeq is a recursive function: f is what it is of the first n sequences.
Flattens(ss, n, f) == f = [i \in 1..n |-> IF i = 1 THEN ss[i] ELSE f[i - 1] \o ss[i]]

LEMMA FlattenIs ==
    ASSUME NEW ss, Len(ss) # 0
    PROVE  FlattenSeq(ss) = (CHOOSE f : Flattens(ss, Len(ss), f))[Len(ss)]
  BY Zenon DEF FlattenSeq, Flattens

\* There is such a function,
LEMMA FlattenExists ==
    ASSUME NEW ss
    PROVE  \A n \in Nat : \E f : Flattens(ss, n, f)
<1> DEFINE Bad == {n \in Nat : ~\E f : Flattens(ss, n, f)}
<1> SUFFICES ASSUME Bad # {} PROVE FALSE
  OBVIOUS
<1>1. PICK n \in Bad : \A m \in Bad : n <= m
  <2>1. Bad \in SUBSET Nat
    OBVIOUS
  <2> HIDE DEF Bad
  <2> QED BY LeastOf, <2>1
<1>2. n # 0
  <2>1. Flattens(ss, 0, [i \in 1..0 |-> 0])
    BY DEF Flattens
  <2> QED BY <2>1
<1>3. n - 1 \in Nat /\ n - 1 \notin Bad
  BY <1>1, <1>2
<1>4. PICK f : Flattens(ss, n - 1, f)
  BY <1>3
<1> DEFINE g == [i \in 1..n |-> IF i = n THEN (IF n = 1 THEN ss[n] ELSE f[n - 1] \o ss[n]) ELSE f[i]]
<1>5. Flattens(ss, n, g)
  <2>1. \A i \in 1..n : g[i] = IF i = 1 THEN ss[i] ELSE g[i - 1] \o ss[i]
    <3> SUFFICES ASSUME NEW i \in 1..n
                 PROVE  g[i] = IF i = 1 THEN ss[i] ELSE g[i - 1] \o ss[i]
      OBVIOUS
    <3>1. CASE i = n
      BY <3>1, <1>3
    <3>2. CASE i # n
      <4>1. i \in 1..(n-1)
        BY <3>2, <1>3
      <4>2. f[i] = IF i = 1 THEN ss[i] ELSE f[i - 1] \o ss[i]
        BY <1>4, <4>1 DEF Flattens
      <4> QED BY <4>1, <4>2, <3>2
    <3> QED BY <3>1, <3>2
  <2>2. g = [i \in 1..n |-> g[i]]
    OBVIOUS
  <2> HIDE DEF g
  <2>3. g = [i \in 1..n |-> IF i = 1 THEN ss[i] ELSE g[i - 1] \o ss[i]]
    BY <2>1, <2>2
  <2> QED BY <2>3 DEF Flattens
<1> QED BY <1>1, <1>5

\* and only one, so that it is the same for a sequence that goes on.
LEMMA FlattenUnique ==
    ASSUME NEW ss, NEW tt, NEW m \in Nat, NEW n \in Nat, m <= n, NEW f, NEW g,
           Flattens(ss, m, f), Flattens(tt, n, g), \A i \in 1..m : ss[i] = tt[i]
    PROVE  \A i \in 1..m : f[i] = g[i]
<1> DEFINE Bad == {i \in 1..m : f[i] # g[i]}
<1> SUFFICES ASSUME Bad # {} PROVE FALSE
  OBVIOUS
<1>1. PICK i \in Bad : \A j \in Bad : i <= j
  <2>1. Bad \in SUBSET Nat
    OBVIOUS
  <2> HIDE DEF Bad
  <2> QED BY LeastOf, <2>1
<1>2. /\ f[i] = IF i = 1 THEN ss[i] ELSE f[i - 1] \o ss[i]
      /\ g[i] = IF i = 1 THEN tt[i] ELSE g[i - 1] \o tt[i]
  <2>1. i \in 1..m /\ i \in 1..n
    OBVIOUS
  <2> QED BY <2>1 DEF Flattens
<1>3. i # 1
  BY <1>2
<1>4. i - 1 \in 1..m /\ i - 1 \notin Bad
  BY <1>1, <1>3
<1> QED BY <1>2, <1>4

LEMMA FlattenValue ==
    ASSUME NEW ss, NEW n \in Nat, n # 0, Len(ss) = n, NEW g, Flattens(ss, n, g)
    PROVE  FlattenSeq(ss) = g[n]
<1> DEFINE f == CHOOSE f : Flattens(ss, n, f)
<1>1. FlattenSeq(ss) = f[n]
  BY FlattenIs
<1>2. Flattens(ss, n, f)
  BY Zenon
<1> HIDE DEF f
<1>3. n <= n /\ n \in 1..n
  OBVIOUS
<1>4. \A i \in 1..n : f[i] = g[i]
  BY <1>2, <1>3, FlattenUnique
<1> QED BY <1>1, <1>3, <1>4

\* What all of it is built from: nothing, and one sequence more.
LEMMA FlattenEmpty ==
    FlattenSeq(<< >>) = << >>
  BY DEF FlattenSeq

LEMMA FlattenNext ==
    ASSUME NEW ss, NEW tt, NEW n \in Nat, NEW m \in Nat, m = n + 1, n # 0,
           Len(ss) = n, Len(tt) = m, \A i \in 1..n : ss[i] = tt[i]
    PROVE  FlattenSeq(tt) = FlattenSeq(ss) \o tt[m]
<1>1. PICK g : Flattens(tt, m, g)
  BY FlattenExists, Zenon
<1>2. PICK f : Flattens(ss, n, f)
  BY FlattenExists, Zenon
<1>3. n <= m /\ n \in 1..n /\ m \in 1..m /\ m # 1 /\ m - 1 = n /\ m # 0
  OBVIOUS
<1>4. FlattenSeq(tt) = g[m] /\ FlattenSeq(ss) = f[n]
  BY FlattenValue, <1>1, <1>2, <1>3
<1>5. g[m] = IF m = 1 THEN tt[m] ELSE g[m - 1] \o tt[m]
  BY <1>1, <1>3 DEF Flattens
<1>6. \A i \in 1..n : f[i] = g[i]
  BY FlattenUnique, <1>1, <1>2, <1>3, SMTT(40)
<1> QED BY <1>3, <1>4, <1>5, <1>6, Zenon

LEMMA FlattenOne ==
    ASSUME NEW s
    PROVE  FlattenSeq(<<s>>) = s
<1>1. PICK g : Flattens(<<s>>, 1, g)
  <2>1. 1 \in Nat
    OBVIOUS
  <2> QED BY <2>1, FlattenExists, Zenon
<1>2. g[1] = <<s>>[1]
  BY <1>1 DEF Flattens
<1>3. Len(<<s>>) = 1 /\ <<s>>[1] = s /\ 1 \in Nat /\ 1 # 0
  OBVIOUS
<1>4. FlattenSeq(<<s>>) = g[1]
  BY FlattenValue, <1>1, <1>3
<1> QED BY <1>2, <1>3, <1>4

LEMMA FlattenAppend ==
    ASSUME NEW S, NEW ss \in Seq(Seq(S)), NEW s \in Seq(S)
    PROVE  FlattenSeq(Append(ss, s)) = FlattenSeq(ss) \o s
<1> DEFINE tt == Append(ss, s)
<1>1. PICK n \in Nat : n = Len(ss)
  OBVIOUS
<1>2. PICK m \in Nat : m = n + 1
  OBVIOUS
<1>3. Len(tt) = m /\ tt[m] = s /\ \A i \in 1..n : ss[i] = tt[i]
  BY <1>1, <1>2
<1>7. CASE n = 0
  <2>1. ss = << >> /\ tt = <<s>>
    BY <1>7, <1>1
  <2>2. << >> \o s = s
    OBVIOUS
  <2> QED BY <2>1, <2>2, FlattenEmpty, FlattenOne, Zenon
<1>8. CASE n # 0
  <2> HIDE DEF tt
  <2>1. FlattenSeq(tt) = FlattenSeq(ss) \o tt[m]
    BY <1>1, <1>2, <1>3, <1>8, FlattenNext, Zenon
  <2> QED BY <2>1, <1>3, Zenon DEF tt
<1> QED BY <1>7, <1>8

\* By what all sequences are built from: a set of them that holds nothing, and with a sequence
\* all that are one longer, holds all.
LEMMA ByAppending ==
    ASSUME NEW S, NEW P \in SUBSET Seq(S), << >> \in P,
           \A s \in P : \A e \in S : Append(s, e) \in P
    PROVE  Seq(S) \subseteq P
<1> DEFINE Bad == {n \in Nat : \E s \in Seq(S) : s \notin P /\ Len(s) = n}
<1> SUFFICES ASSUME Bad # {} PROVE FALSE
  <2>1. \A s \in Seq(S) : Len(s) \in Nat
    OBVIOUS
  <2> QED BY <2>1
<1>1. PICK n \in Bad : \A m \in Bad : n <= m
  <2>1. Bad \in SUBSET Nat
    OBVIOUS
  <2> HIDE DEF Bad
  <2> QED BY LeastOf, <2>1
<1>2. PICK s \in Seq(S) : s \notin P /\ Len(s) = n
  OBVIOUS
<1>3. s # << >>
  BY <1>2
<1>4. PICK t \in Seq(S), e \in S : s = Append(t, e)
  BY <1>3, SequenceEmptyOrAppend
<1>5. Len(t) \in Nat /\ Len(t) + 1 = n
  BY <1>2, <1>4
<1>6. t \in P
  BY <1>1, <1>5
<1> QED BY <1>2, <1>4, <1>6

LEMMA FlattenType ==
    ASSUME NEW S, NEW ss \in Seq(Seq(S))
    PROVE  FlattenSeq(ss) \in Seq(S)
<1> DEFINE P == {tt \in Seq(Seq(S)) : FlattenSeq(tt) \in Seq(S)}
<1>1. << >> \in P
  <2>1. << >> \in Seq(Seq(S)) /\ << >> \in Seq(S)
    OBVIOUS
  <2> QED BY <2>1, FlattenEmpty
<1>2. \A tt \in P : \A s \in Seq(S) : Append(tt, s) \in P
  <2> SUFFICES ASSUME NEW tt \in P, NEW s \in Seq(S) PROVE Append(tt, s) \in P
    OBVIOUS
  <2>1. FlattenSeq(Append(tt, s)) = FlattenSeq(tt) \o s
    BY FlattenAppend
  <2>2. Append(tt, s) \in Seq(Seq(S)) /\ FlattenSeq(tt) \o s \in Seq(S)
    OBVIOUS
  <2> QED BY <2>1, <2>2
<1>3. Seq(Seq(S)) \subseteq P
  <2> HIDE DEF P
  <2>1. P \in SUBSET Seq(Seq(S))
    BY DEF P
  <2> QED BY <1>1, <1>2, <2>1, ByAppending
<1> QED BY <1>3

LEMMA FlattenConcat ==
    ASSUME NEW S, NEW ss \in Seq(Seq(S)), NEW tt \in Seq(Seq(S))
    PROVE  FlattenSeq(ss \o tt) = FlattenSeq(ss) \o FlattenSeq(tt)
<1> DEFINE P == {uu \in Seq(Seq(S)) : FlattenSeq(ss \o uu) = FlattenSeq(ss) \o FlattenSeq(uu)}
<1>1. << >> \in P
  <2>1. ss \o << >> = ss /\ FlattenSeq(ss) \o << >> = FlattenSeq(ss)
    BY FlattenType
  <2>2. << >> \in Seq(Seq(S))
    OBVIOUS
  <2> QED BY <2>1, <2>2, FlattenEmpty
<1>2. \A uu \in P : \A s \in Seq(S) : Append(uu, s) \in P
  <2> SUFFICES ASSUME NEW uu \in P, NEW s \in Seq(S) PROVE Append(uu, s) \in P
    OBVIOUS
  <2>1. ss \o Append(uu, s) = Append(ss \o uu, s) /\ ss \o uu \in Seq(Seq(S)) /\ Append(uu, s) \in Seq(Seq(S))
    BY SMTT(40)
  <2>2. FlattenSeq(Append(ss \o uu, s)) = (FlattenSeq(ss) \o FlattenSeq(uu)) \o s
    BY <2>1, FlattenAppend
  <2>3. /\ FlattenSeq(Append(uu, s)) = FlattenSeq(uu) \o s
        /\ FlattenSeq(ss) \in Seq(S) /\ FlattenSeq(uu) \in Seq(S)
    BY FlattenAppend, FlattenType
  <2>4. \A a, b \in Seq(S) : (a \o b) \o s = a \o (b \o s)
    <3> HIDE DEF P
    <3> QED BY ConcatAssociative, SMTT(40)
  <2> QED BY <2>1, <2>2, <2>3, <2>4
<1>3. Seq(Seq(S)) \subseteq P
  <2> HIDE DEF P
  <2>1. P \in SUBSET Seq(Seq(S))
    BY DEF P
  <2> QED BY <1>1, <1>2, <2>1, ByAppending
<1> QED BY <1>3

\* Where each sequence is one thing, they are those things.
LEMMA FlattenSingles ==
    ASSUME NEW S, NEW s \in Seq(S)
    PROVE  FlattenSeq([i \in DOMAIN s |-> <<s[i]>>]) = s
<1> DEFINE P == {t \in Seq(S) : FlattenSeq([i \in DOMAIN t |-> <<t[i]>>]) = t}
<1>1. << >> \in P
  <2>1. [i \in DOMAIN << >> |-> <<(<< >>)[i]>>] = << >>
    OBVIOUS
  <2> QED BY <2>1, FlattenEmpty
<1>2. \A t \in P : \A e \in S : Append(t, e) \in P
  <2> SUFFICES ASSUME NEW t \in P, NEW e \in S PROVE Append(t, e) \in P
    OBVIOUS
  <2> DEFINE u == Append(t, e)  each(s_) == [i \in DOMAIN s_ |-> <<s_[i]>>]
  <2>0. DOMAIN t = 1..Len(t) /\ DOMAIN u = 1..(Len(t) + 1) /\ u \in Seq(S)
    OBVIOUS
  <2>1. each(t) \in Seq(Seq(S)) /\ <<e>> \in Seq(S)
    BY <2>0
  <2>2. each(u) = Append(each(t), <<e>>)
    <3>1. each(u) \in Seq(Seq(S)) /\ Append(each(t), <<e>>) \in Seq(Seq(S)) /\ Len(each(u)) = Len(t) + 1
      BY <2>0, <2>1
    <3>2. \A i \in 1..Len(each(u)) : each(u)[i] = Append(each(t), <<e>>)[i]
      BY <3>1, <2>0
    <3> QED BY <3>1, <3>2, SeqEqual
  <2>3. FlattenSeq(each(u)) = t \o <<e>>
    BY <2>1, <2>2, FlattenAppend
  <2>4. u \in Seq(S) /\ u = t \o <<e>>
    OBVIOUS
  <2> QED BY <2>3, <2>4
<1>3. Seq(S) \subseteq P
  <2> HIDE DEF P
  <2>1. P \in SUBSET Seq(S)
    BY DEF P
  <2> QED BY <1>1, <1>2, <2>1, ByAppending
<1> QED BY <1>3

Txt == Seq(Alphabet)

-----------------------------------------------------------------------------
(* Parts of sequences. *)

\* What is left of a sequence from a place on, and up to one.
LEMMA FromFacts ==
    ASSUME NEW S, NEW s \in Seq(S), NEW i \in 1..(Len(s) + 1)
    PROVE  /\ From(s, i) \in Seq(S)
           /\ Len(From(s, i)) = Len(s) - i + 1
           /\ \A j \in 1..(Len(s) - i + 1) : From(s, i)[j] = s[i + j - 1]
           /\ DOMAIN From(s, i) = 1..(Len(s) - i + 1)
<1>1. Len(s) \in Nat /\ i \in Int /\ Len(s) \in Int
  OBVIOUS
<1>2. \A j \in i..Len(s) : s[j] \in S
  OBVIOUS
<1>3. /\ From(s, i) \in Seq(S)
      /\ Len(From(s, i)) = IF i <= Len(s) THEN Len(s) - i + 1 ELSE 0
      /\ \A j \in 1..(Len(s) - i + 1) : From(s, i)[j] = s[i + j - 1]
  BY <1>1, <1>2, SubSeqProperties DEF From
<1> QED BY <1>1, <1>3

LEMMA FrontFacts ==
    ASSUME NEW S, NEW s \in Seq(S), NEW n \in 0..Len(s)
    PROVE  /\ SubSeq(s, 1, n) \in Seq(S)
           /\ Len(SubSeq(s, 1, n)) = n
           /\ \A j \in 1..n : SubSeq(s, 1, n)[j] = s[j]
<1>1. Len(s) \in Nat /\ 1 \in Int /\ n \in Int
  OBVIOUS
<1>2. \A j \in 1..n : s[j] \in S
  OBVIOUS
<1>3. /\ SubSeq(s, 1, n) \in Seq(S)
      /\ Len(SubSeq(s, 1, n)) = IF 1 <= n THEN n - 1 + 1 ELSE 0
      /\ \A j \in 1..(n - 1 + 1) : SubSeq(s, 1, n)[j] = s[1 + j - 1]
  BY <1>1, <1>2, SubSeqProperties
<1> QED BY <1>1, <1>3

LEMMA FromConcat ==
    ASSUME NEW S, NEW s \in Seq(S), NEW r \in Seq(S), NEW i \in 1..(Len(s) + 1)
    PROVE  From(s \o r, i) = From(s, i) \o r
<1>1. /\ s \o r \in Seq(S) /\ Len(s \o r) = Len(s) + Len(r) /\ i \in 1..(Len(s \o r) + 1)
      /\ Len(s) \in Nat /\ Len(r) \in Nat
      /\ \A j \in 1..(Len(s) + Len(r)) : (s \o r)[j] = IF j <= Len(s) THEN s[j] ELSE r[j - Len(s)]
  BY ConcatProperties
<1>2. /\ From(s \o r, i) \in Seq(S)
      /\ Len(From(s \o r, i)) = Len(s \o r) - i + 1
      /\ \A j \in 1..(Len(s \o r) - i + 1) : From(s \o r, i)[j] = (s \o r)[i + j - 1]
  BY <1>1, FromFacts
<1>3. /\ From(s, i) \in Seq(S)
      /\ Len(From(s, i)) = Len(s) - i + 1
      /\ \A j \in 1..(Len(s) - i + 1) : From(s, i)[j] = s[i + j - 1]
  BY FromFacts
<1>4. /\ From(s, i) \o r \in Seq(S)
      /\ Len(From(s, i) \o r) = Len(s) - i + 1 + Len(r)
      /\ \A j \in 1..(Len(s) - i + 1 + Len(r)) :
           (From(s, i) \o r)[j] = IF j <= Len(s) - i + 1 THEN From(s, i)[j] ELSE r[j - (Len(s) - i + 1)]
  <2> DEFINE f == From(s, i)
  <2>1. f \in Seq(S) /\ Len(f) = Len(s) - i + 1
    BY <1>3
  <2> HIDE DEF f
  <2>2. /\ f \o r \in Seq(S)
        /\ Len(f \o r) = Len(f) + Len(r)
        /\ \A j \in 1..(Len(f) + Len(r)) : (f \o r)[j] = IF j <= Len(f) THEN f[j] ELSE r[j - Len(f)]
    BY <2>1, ConcatProperties
  <2>3. /\ f \o r \in Seq(S)
        /\ Len(f \o r) = Len(s) - i + 1 + Len(r)
        /\ \A j \in 1..(Len(s) - i + 1 + Len(r)) :
             (f \o r)[j] = IF j <= Len(s) - i + 1 THEN f[j] ELSE r[j - (Len(s) - i + 1)]
    BY <2>1, <2>2
  <2> QED BY <2>3 DEF f
<1>5. Len(From(s \o r, i)) = Len(From(s, i) \o r)
  BY <1>1, <1>2, <1>4
<1>6. \A j \in 1..Len(From(s \o r, i)) : From(s \o r, i)[j] = (From(s, i) \o r)[j]
  <2> SUFFICES ASSUME NEW j \in 1..(Len(s) - i + 1 + Len(r))
               PROVE  From(s \o r, i)[j] = (From(s, i) \o r)[j]
    BY <1>4, <1>5
  <2>0. j \in 1..(Len(s \o r) - i + 1) /\ i + j - 1 \in 1..(Len(s) + Len(r))
    BY <1>1
  <2>1. From(s \o r, i)[j] = IF i + j - 1 <= Len(s) THEN s[i + j - 1] ELSE r[i + j - 1 - Len(s)]
    BY <2>0, <1>1, <1>2
  <2>2. CASE j <= Len(s) - i + 1
    <3>1. j \in 1..(Len(s) - i + 1) /\ i + j - 1 <= Len(s)
      BY <2>2, <1>1
    <3> QED BY <3>1, <2>1, <2>2, <1>3, <1>4
  <2>3. CASE ~(j <= Len(s) - i + 1)
    <3>1. ~(i + j - 1 <= Len(s)) /\ i + j - 1 - Len(s) = j - (Len(s) - i + 1)
      BY <2>3, <1>1
    <3> QED BY <3>1, <2>1, <2>3, <1>4
  <2> QED BY <2>2, <2>3
<1> QED BY <1>2, <1>4, <1>5, <1>6, SeqEqual

LEMMA FromFrom ==
    ASSUME NEW S, NEW s \in Seq(S), NEW i \in 1..(Len(s) + 1), NEW j \in 1..(Len(s) - i + 2)
    PROVE  From(From(s, i), j) = From(s, i + j - 1)
<1>0. Len(s) \in Nat /\ i + j - 1 \in 1..(Len(s) + 1)
  OBVIOUS
<1>1. /\ From(s, i) \in Seq(S)
      /\ Len(From(s, i)) = Len(s) - i + 1
      /\ \A k \in 1..(Len(s) - i + 1) : From(s, i)[k] = s[i + k - 1]
  BY FromFacts
<1>2. /\ From(s, i + j - 1) \in Seq(S)
      /\ Len(From(s, i + j - 1)) = Len(s) - (i + j - 1) + 1
      /\ \A k \in 1..(Len(s) - (i + j - 1) + 1) : From(s, i + j - 1)[k] = s[(i + j - 1) + k - 1]
  BY <1>0, FromFacts
<1> DEFINE t == From(s, i)
<1>3. t \in Seq(S) /\ j \in 1..(Len(t) + 1)
  BY <1>0, <1>1
<1>4. /\ From(t, j) \in Seq(S)
      /\ Len(From(t, j)) = Len(t) - j + 1
      /\ \A k \in 1..(Len(t) - j + 1) : From(t, j)[k] = t[j + k - 1]
  <2> HIDE DEF t
  <2> QED BY <1>3, FromFacts
<1>5. Len(From(t, j)) = Len(From(s, i + j - 1))
  BY <1>0, <1>1, <1>2, <1>4
<1>6. \A k \in 1..Len(From(t, j)) : From(t, j)[k] = From(s, i + j - 1)[k]
  <2> SUFFICES ASSUME NEW k \in 1..(Len(s) - (i + j - 1) + 1)
               PROVE  From(t, j)[k] = From(s, i + j - 1)[k]
    BY <1>2, <1>5
  <2>1. j + k - 1 \in 1..(Len(s) - i + 1) /\ k \in 1..(Len(t) - j + 1) /\ i + (j + k - 1) - 1 = (i + j - 1) + k - 1
    BY <1>0, <1>1
  <2>2. From(t, j)[k] = s[i + (j + k - 1) - 1]
    BY <2>1, <1>1, <1>4
  <2> QED BY <2>1, <2>2, <1>2
<1> QED BY <1>2, <1>4, <1>5, <1>6, SeqEqual

LEMMA FrontFrom ==
    ASSUME NEW S, NEW s \in Seq(S), NEW i \in 1..(Len(s) + 1)
    PROVE  SubSeq(s, 1, i - 1) \o From(s, i) = s
<1>1. Len(s) \in Nat /\ i - 1 \in 0..Len(s) /\ i = i - 1 + 1 /\ 1 \in 1..(Len(s) + 1) /\ Len(s) \in (i - 1)..Len(s)
      /\ i - 1 \in (1 - 1)..Len(s)
  OBVIOUS
<1>2. SubSeq(s, 1, i - 1) \o SubSeq(s, i - 1 + 1, Len(s)) = SubSeq(s, 1, Len(s))
  BY <1>1, ConcatAdjacentSubSeq
<1>3. SubSeq(s, 1, Len(s)) = s
  BY SubSeqFull
<1> QED BY <1>1, <1>2, <1>3 DEF From

LEMMA FrontConcat ==
    ASSUME NEW S, NEW s \in Seq(S), NEW r \in Seq(S), NEW n \in 0..Len(s)
    PROVE  SubSeq(s \o r, 1, n) = SubSeq(s, 1, n)
<1>1. /\ s \o r \in Seq(S) /\ Len(s \o r) = Len(s) + Len(r) /\ n \in 0..Len(s \o r)
      /\ Len(s) \in Nat /\ Len(r) \in Nat
      /\ \A j \in 1..n : (s \o r)[j] = s[j]
  BY ConcatProperties
<1>2. /\ SubSeq(s \o r, 1, n) \in Seq(S) /\ Len(SubSeq(s \o r, 1, n)) = n
      /\ \A j \in 1..n : SubSeq(s \o r, 1, n)[j] = (s \o r)[j]
  BY <1>1, FrontFacts
<1>3. /\ SubSeq(s, 1, n) \in Seq(S) /\ Len(SubSeq(s, 1, n)) = n
      /\ \A j \in 1..n : SubSeq(s, 1, n)[j] = s[j]
  BY FrontFacts
<1>4. \A j \in 1..Len(SubSeq(s \o r, 1, n)) : SubSeq(s \o r, 1, n)[j] = SubSeq(s, 1, n)[j]
  BY <1>1, <1>2, <1>3
<1> QED BY <1>2, <1>3, <1>4, SeqEqual

-----------------------------------------------------------------------------
(* Tags in a text. *)

Tags == Opening(Invoke) \cup {t \o <<">">> : t \in Opening(Wrapper)} \cup Closing(Invoke) \cup Closing(Wrapper)

LEMMA TagsAre ==
    /\ Opening(Invoke) = {<<"<", "n", "v">>, <<"<", ":", "n", "v">>}
    /\ Opening(Wrapper) = {<<"<", "f">>, <<"<", ":", "f">>}
    /\ {t \o <<">">> : t \in Opening(Wrapper)} = {<<"<", "f", ">">>, <<"<", ":", "f", ">">>}
    /\ Closing(Invoke) = {<<"<", "/", "n", "v", ">">>, <<"<", "/", ":", "n", "v", ">">>}
    /\ Closing(Wrapper) = {<<"<", "/", "f", ">">>, <<"<", "/", ":", "f", ">">>}
<1>1. /\ Opening(Invoke) = {<<"<", "n", "v">>, <<"<", ":", "n", "v">>}
      /\ Opening(Wrapper) = {<<"<", "f">>, <<"<", ":", "f">>}
      /\ Closing(Invoke) = {<<"<", "/", "n", "v", ">">>, <<"<", "/", ":", "n", "v", ">">>}
      /\ Closing(Wrapper) = {<<"<", "/", "f", ">">>, <<"<", "/", ":", "f", ">">>}
  BY DEF Opening, Closing, Prefixed, Invoke, Wrapper, Ns
<1> QED BY <1>1

\* A tag begins with "<", and has no other.
LEMMA TagFacts ==
    ASSUME NEW t \in Tags
    PROVE  /\ t \in Txt /\ Len(t) \in 3..6 /\ t[1] = "<"
           /\ \A k \in 2..Len(t) : t[k] # "<"
<1> USE DEF Txt, Alphabet
<1>1. CASE t = <<"<", "n", "v">>
  BY <1>1
<1>2. CASE t = <<"<", ":", "n", "v">>
  BY <1>2
<1>3. CASE t = <<"<", "f", ">">>
  BY <1>3
<1>4. CASE t = <<"<", ":", "f", ">">>
  BY <1>4
<1>5. CASE t = <<"<", "/", "n", "v", ">">>
  BY <1>5
<1>6. CASE t = <<"<", "/", ":", "n", "v", ">">>
  BY <1>6
<1>7. CASE t = <<"<", "/", "f", ">">>
  BY <1>7
<1>8. CASE t = <<"<", "/", ":", "f", ">">>
  BY <1>8
<1> QED BY <1>1, <1>2, <1>3, <1>4, <1>5, <1>6, <1>7, <1>8, TagsAre DEF Tags

LEMMA AtIs ==
    ASSUME NEW s \in Txt, NEW t \in Txt, NEW i \in Nat, i # 0, Len(t) >= 1
    PROVE  At(s, i, t) <=> /\ i + Len(t) - 1 <= Len(s)
                           /\ \A k \in 1..Len(t) : s[i + k - 1] = t[k]
<1>1. Len(s) \in Nat /\ Len(t) \in Nat /\ i \in Int /\ i + Len(t) - 1 \in Int
  BY DEF Txt
<1> SUFFICES ASSUME i + Len(t) - 1 <= Len(s)
             PROVE  SubSeq(s, i, i + Len(t) - 1) = t <=> \A k \in 1..Len(t) : s[i + k - 1] = t[k]
  BY DEF At
<1> DEFINE u == SubSeq(s, i, i + Len(t) - 1)
<1>2. \A j \in i..(i + Len(t) - 1) : s[j] \in Alphabet
  BY <1>1 DEF Txt
<1>3. /\ u \in Seq(Alphabet)
      /\ Len(u) = IF i <= i + Len(t) - 1 THEN i + Len(t) - 1 - i + 1 ELSE 0
      /\ \A k \in 1..(i + Len(t) - 1 - i + 1) : u[k] = s[i + k - 1]
  BY <1>1, <1>2, SubSeqProperties
<1>4. Len(u) = Len(t) /\ \A k \in 1..Len(t) : u[k] = s[i + k - 1]
  BY <1>1, <1>3
<1> HIDE DEF u
<1>5. ASSUME \A k \in 1..Len(t) : s[i + k - 1] = t[k] PROVE u = t
  <2>1. \A k \in 1..Len(u) : u[k] = t[k]
    BY <1>4, <1>5
  <2> QED BY <1>3, <1>4, <2>1, SeqEqual DEF Txt
<1>6. ASSUME u = t PROVE \A k \in 1..Len(t) : s[i + k - 1] = t[k]
  BY <1>4, <1>6
<1> QED BY <1>5, <1>6 DEF u

LEMMA TxtConcat ==
    ASSUME NEW s \in Txt, NEW r \in Txt
    PROVE  /\ s \o r \in Txt /\ Len(s) \in Nat /\ Len(r) \in Nat
           /\ Len(s \o r) = Len(s) + Len(r)
           /\ \A i \in 1..Len(s) : (s \o r)[i] = s[i]
           /\ \A i \in (Len(s) + 1)..(Len(s) + Len(r)) : (s \o r)[i] = r[i - Len(s)]
           /\ DOMAIN s = 1..Len(s) /\ DOMAIN (s \o r) = 1..(Len(s) + Len(r))
  BY DEF Txt

LEMMA AtConcat ==
    ASSUME NEW s \in Txt, NEW r \in Txt, NEW t \in Txt, NEW i \in Nat, i # 0, Len(t) >= 1
    PROVE  /\ At(s, i, t) => At(s \o r, i, t)
           /\ At(s \o r, i, t) /\ i + Len(t) - 1 <= Len(s) => At(s, i, t)
<1> DEFINE u == s \o r
<1>1. /\ u \in Txt /\ Len(s) \in Nat /\ Len(r) \in Nat /\ Len(u) = Len(s) + Len(r)
      /\ \A j \in 1..Len(s) : u[j] = s[j]
  BY TxtConcat
<1>2. Len(t) \in Nat
  BY DEF Txt
<1> HIDE DEF u
<1>3. At(s, i, t) <=> /\ i + Len(t) - 1 <= Len(s)
                      /\ \A k \in 1..Len(t) : s[i + k - 1] = t[k]
  BY AtIs
<1>4. At(u, i, t) <=> /\ i + Len(t) - 1 <= Len(u)
                      /\ \A k \in 1..Len(t) : u[i + k - 1] = t[k]
  BY <1>1, AtIs
<1>5. i + Len(t) - 1 <= Len(s) => \A k \in 1..Len(t) : u[i + k - 1] = s[i + k - 1]
  BY <1>1, <1>2
<1>6. i + Len(t) - 1 <= Len(s) => i + Len(t) - 1 <= Len(u)
  BY <1>1, <1>2
<1>7. ASSUME At(s, i, t) PROVE At(u, i, t)
  BY <1>3, <1>4, <1>5, <1>6, <1>7
<1>8. ASSUME At(u, i, t), i + Len(t) - 1 <= Len(s) PROVE At(s, i, t)
  BY <1>3, <1>4, <1>5, <1>8
<1> QED BY <1>7, <1>8 DEF u

LEMMA AtFrom ==
    ASSUME NEW s \in Txt, NEW t \in Txt, NEW n \in 0..Len(s), NEW j \in Nat, j # 0, Len(t) >= 1
    PROVE  At(From(s, n + 1), j, t) <=> At(s, n + j, t)
<1> DEFINE h == From(s, n + 1)
<1>0. Len(s) \in Nat /\ Len(t) \in Nat /\ n + 1 \in 1..(Len(s) + 1) /\ n + j \in Nat /\ n + j # 0
  BY DEF Txt
<1>1. /\ h \in Txt /\ Len(h) = Len(s) - n /\ \A k \in 1..(Len(s) - n) : h[k] = s[n + k]
  <2>1. /\ h \in Seq(Alphabet) /\ Len(h) = Len(s) - (n + 1) + 1
        /\ \A k \in 1..(Len(s) - (n + 1) + 1) : h[k] = s[(n + 1) + k - 1]
    BY <1>0, FromFacts DEF Txt
  <2>2. \A k \in 1..(Len(s) - n) : k \in 1..(Len(s) - (n + 1) + 1) /\ (n + 1) + k - 1 = n + k
    BY <1>0
  <2> QED BY <1>0, <2>1, <2>2 DEF Txt
<1> HIDE DEF h
<1>2. At(h, j, t) <=> /\ j + Len(t) - 1 <= Len(h)
                      /\ \A k \in 1..Len(t) : h[j + k - 1] = t[k]
  BY <1>1, AtIs
<1>3. At(s, n + j, t) <=> /\ n + j + Len(t) - 1 <= Len(s)
                          /\ \A k \in 1..Len(t) : s[n + j + k - 1] = t[k]
  BY <1>0, AtIs
<1>4. j + Len(t) - 1 <= Len(h) <=> n + j + Len(t) - 1 <= Len(s)
  BY <1>0, <1>1
<1>5. j + Len(t) - 1 <= Len(h) => \A k \in 1..Len(t) : h[j + k - 1] = s[n + j + k - 1]
  <2> SUFFICES ASSUME j + Len(t) - 1 <= Len(h), NEW k \in 1..Len(t)
               PROVE  h[j + k - 1] = s[n + j + k - 1]
    OBVIOUS
  <2>1. j + k - 1 \in 1..(Len(s) - n) /\ n + (j + k - 1) = n + j + k - 1
    BY <1>0, <1>1
  <2> QED BY <2>1, <1>1
<1> QED BY <1>2, <1>3, <1>4, <1>5 DEF h

\* Where a tag is there is a "<", and none in the rest of it.
LEMMA TagAt ==
    ASSUME NEW s \in Txt, NEW t \in Tags, NEW i \in Nat, i # 0, At(s, i, t)
    PROVE  /\ i \in 1..Len(s) /\ i + Len(t) - 1 \in 1..Len(s) /\ s[i] = "<"
           /\ \A j \in (i + 1)..(i + Len(t) - 1) : s[j] # "<"
<1>1. /\ t \in Txt /\ Len(t) \in 3..6 /\ t[1] = "<" /\ \A k \in 2..Len(t) : t[k] # "<"
  BY TagFacts
<1>2. Len(s) \in Nat
  BY DEF Txt
<1>3. /\ i + Len(t) - 1 <= Len(s) /\ \A k \in 1..Len(t) : s[i + k - 1] = t[k]
  BY <1>1, AtIs
<1>4. i \in 1..Len(s) /\ i + Len(t) - 1 \in 1..Len(s)
  BY <1>1, <1>2, <1>3
<1>5. s[i] = "<"
  <2>1. 1 \in 1..Len(t) /\ i + 1 - 1 = i
    BY <1>1
  <2> QED BY <2>1, <1>1, <1>3
<1>6. ASSUME NEW j \in (i + 1)..(i + Len(t) - 1) PROVE s[j] # "<"
  <2>1. j - i + 1 \in 2..Len(t) /\ j - i + 1 \in 1..Len(t) /\ i + (j - i + 1) - 1 = j
    BY <1>1
  <2> QED BY <2>1, <1>1, <1>3
<1> QED BY <1>4, <1>5, <1>6

LEMMA LeastFacts ==
    ASSUME NEW S \in SUBSET Nat, S # {}
    PROVE  Least(S) \in S /\ \A j \in S : Least(S) <= j
<1>1. \E i \in S : \A j \in S : i <= j
  BY LeastOf
<1> QED BY <1>1 DEF Least

LEMMA LeastIs ==
    ASSUME NEW S \in SUBSET Nat, NEW i \in S, \A j \in S : i <= j
    PROVE  Least(S) = i
<1>1. Least(S) \in S /\ \A j \in S : Least(S) <= j
  BY LeastFacts
<1>2. Least(S) <= i /\ i <= Least(S) /\ Least(S) \in Nat /\ i \in Nat
  BY <1>1
<1> QED BY <1>2

\* A set of numbers up to n that is not empty has a greatest one.
LEMMA GreatestFacts ==
    ASSUME NEW n \in Nat, NEW S \in SUBSET (0..n), S # {}
    PROVE  Greatest(S) \in S /\ \A j \in S : j <= Greatest(S)
<1> DEFINE R == {n - i : i \in S}
<1>1. R \in SUBSET Nat /\ R # {}
  <2>1. \A i \in S : i \in 0..n /\ n - i \in Nat
    OBVIOUS
  <2>2. PICK i \in S : TRUE
    OBVIOUS
  <2>3. n - i \in R
    OBVIOUS
  <2> QED BY <2>1, <2>3
<1>2. PICK m \in R : \A j \in R : m <= j
  <2> HIDE DEF R
  <2> QED BY <1>1, LeastOf
<1>3. PICK i \in S : m = n - i
  OBVIOUS
<1>4. \A j \in S : j <= i
  <2> SUFFICES ASSUME NEW j \in S PROVE j <= i
    OBVIOUS
  <2>1. n - j \in R
    OBVIOUS
  <2>2. m <= n - j
    BY <1>2, <2>1
  <2>3. i \in Int /\ j \in Int
    OBVIOUS
  <2> QED BY <2>2, <2>3, <1>3
<1>5. \E k \in S : \A j \in S : j <= k
  BY <1>4
<1> QED BY <1>5 DEF Greatest

-----------------------------------------------------------------------------
(* Where blocks begin. *)

TriggerAt(s, i) == WrapperAt(s, i) \/ InvokeAt(s, i)
WrapperTags == {t \o <<">">> : t \in Opening(Wrapper)}

LEMMA WrapperIs ==
    ASSUME NEW s, NEW i
    PROVE  WrapperAt(s, i) <=> \E t \in WrapperTags : At(s, i, t)
  BY Zenon DEF WrapperAt, WrapperTags

LEMMA TagKinds ==
    /\ WrapperTags \subseteq Tags /\ Opening(Invoke) \subseteq Tags
    /\ Closing(Invoke) \subseteq Tags /\ Closing(Wrapper) \subseteq Tags
    /\ PrefixTokens = Opening(Invoke) \cup WrapperTags
  BY DEF Tags, WrapperTags, PrefixTokens

LEMMA TriggersIs ==
    ASSUME NEW s \in Txt
    PROVE  /\ Triggers(s) \in SUBSET Nat
           /\ \A i : i \in Triggers(s) <=> i \in 1..Len(s) /\ TriggerAt(s, i)
           /\ \A i \in Triggers(s) : s[i] = "<"
<1>1. DOMAIN s = 1..Len(s)
  BY DEF Txt
<1>2. \A i : i \in Triggers(s) <=> i \in 1..Len(s) /\ TriggerAt(s, i)
  BY <1>1 DEF Triggers, TriggerAt
<1>3. ASSUME NEW i \in Triggers(s) PROVE s[i] = "<"
  <2>1. i \in Nat /\ i # 0 /\ TriggerAt(s, i)
    BY <1>2, <1>3
  <2>2. \E t \in Tags : At(s, i, t)
    BY <2>1, WrapperIs, TagKinds DEF TriggerAt, InvokeAt
  <2> QED BY <2>1, <2>2, TagAt
<1> QED BY <1>2, <1>3

\* What follows a "<" does not change what begins before it,
LEMMA TriggerBefore ==
    ASSUME NEW s \in Txt, NEW r \in Txt, NEW i \in 1..Len(s), s[i] = "<", NEW j \in 1..(i - 1)
    PROVE  TriggerAt(s \o r, j) <=> TriggerAt(s, j)
<1> DEFINE u == s \o r
<1>1. /\ u \in Txt /\ Len(s) \in Nat /\ Len(r) \in Nat /\ Len(u) = Len(s) + Len(r)
      /\ \A k \in 1..Len(s) : u[k] = s[k]
  BY TxtConcat
<1>2. j \in Nat /\ j # 0 /\ j < i /\ i \in Nat /\ u[i] = "<" /\ i <= Len(s)
  BY <1>1
<1>3. ASSUME NEW t \in Tags
      PROVE  /\ At(u, j, t) <=> At(s, j, t)
             /\ At(s, j, t) => j + Len(t) <= i
  <2>1. t \in Txt /\ Len(t) \in 3..6 /\ Len(t) \in Nat /\ Len(t) >= 1
    BY TagFacts
  <2>2. ASSUME NEW w \in {s, u}, At(w, j, t) PROVE j + Len(t) <= i
    <3>1. w \in Txt /\ w[i] = "<"
      BY <1>1, <1>2
    <3>2. \A k \in (j + 1)..(j + Len(t) - 1) : w[k] # "<"
      <4> HIDE DEF u
      <4> QED BY <3>1, <1>2, <2>2, TagAt
    <3>3. ~(i \in (j + 1)..(j + Len(t) - 1))
      BY <3>1, <3>2
    <3> QED BY <3>3, <1>2, <2>1
  <2>3. At(s, j, t) => At(u, j, t)
    BY <1>2, <2>1, AtConcat
  <2>4. At(u, j, t) /\ j + Len(t) - 1 <= Len(s) => At(s, j, t)
    BY <1>2, <2>1, AtConcat
  <2>5. j + Len(t) <= i => j + Len(t) - 1 <= Len(s)
    BY <1>2, <2>1, <1>1
  <2> HIDE DEF u
  <2> QED BY <2>2, <2>3, <2>4, <2>5
<1> HIDE DEF u
<1>4. WrapperAt(u, j) <=> WrapperAt(s, j)
  BY <1>3, WrapperIs, TagKinds
<1>5. InvokeAt(u, j) <=> InvokeAt(s, j)
  <2>1. ASSUME NEW t \in Opening(Invoke), At(s, j, t)
        PROVE  /\ j + Len(t) <= Len(s) /\ j + Len(t) <= Len(u) /\ u[j + Len(t)] = s[j + Len(t)]
    <3>1. t \in Tags /\ Len(t) \in 3..6
      BY TagKinds, TagFacts
    <3>2. j + Len(t) <= i
      BY <3>1, <2>1, <1>3
    <3>3. j + Len(t) \in 1..Len(s) /\ j + Len(t) <= Len(s) /\ j + Len(t) <= Len(u)
      BY <3>1, <3>2, <1>1, <1>2
    <3> QED BY <3>3, <1>1
  <2>2. \A t \in Opening(Invoke) : At(u, j, t) <=> At(s, j, t)
    BY <1>3, TagKinds
  <2> QED BY <2>1, <2>2 DEF InvokeAt
<1> QED BY <1>4, <1>5 DEF TriggerAt, u

\* and not that it begins itself, if it is more than the bare word, or the word ends there.
Bare(s) == s \in Opening(Invoke)
GoesOn(r) == r # << >> /\ r[1] \in Words
LEMMA TriggerHere ==
    ASSUME NEW s \in Txt, NEW r \in Txt, NEW i \in 1..Len(s), TriggerAt(s, i),
           ~(Bare(From(s, i)) /\ GoesOn(r))
    PROVE  TriggerAt(s \o r, i)
<1> DEFINE u == s \o r
<1>1. /\ u \in Txt /\ Len(s) \in Nat /\ Len(r) \in Nat /\ Len(u) = Len(s) + Len(r)
      /\ \A k \in 1..Len(s) : u[k] = s[k]
      /\ \A k \in (Len(s) + 1)..(Len(s) + Len(r)) : u[k] = r[k - Len(s)]
  BY TxtConcat
<1>2. i \in Nat /\ i # 0
  OBVIOUS
<1>3. ASSUME NEW t \in Tags, At(s, i, t) PROVE At(u, i, t) /\ i + Len(t) - 1 <= Len(s)
  <2>1. t \in Txt /\ Len(t) >= 1
    BY TagFacts
  <2> QED BY <1>2, <1>3, <2>1, AtConcat DEF At
<1>4. CASE WrapperAt(s, i)
  <2>1. WrapperAt(u, i)
    <3> HIDE DEF u
    <3> QED BY <1>3, <1>4, WrapperIs, TagKinds
  <2> QED BY <2>1 DEF TriggerAt
<1>5. CASE InvokeAt(s, i)
  <2>1. PICK t \in Opening(Invoke) : At(s, i, t) /\ (i + Len(t) <= Len(s) => s[i + Len(t)] \notin Words)
    BY <1>5 DEF InvokeAt
  <2>2. t \in Tags /\ Len(t) \in 3..6 /\ At(u, i, t) /\ i + Len(t) - 1 <= Len(s)
    BY <2>1, <1>3, TagKinds, TagFacts
  <2>3. i + Len(t) <= Len(u) => u[i + Len(t)] \notin Words
    <3>1. CASE i + Len(t) <= Len(s)
      <4>1. i + Len(t) \in 1..Len(s)
        BY <3>1, <2>2, <1>2
      <4> QED BY <4>1, <3>1, <2>1, <1>1
    <3>2. CASE ~(i + Len(t) <= Len(s))
      <4>1. i + Len(t) = Len(s) + 1
        BY <3>2, <2>2, <1>1, <1>2
      <4>2. From(s, i) = t
        <5>1. SubSeq(s, i, i + Len(t) - 1) = t
          BY <2>1 DEF At
        <5>2. i + Len(t) - 1 = Len(s)
          BY <4>1, <2>2, <1>1, <1>2
        <5> QED BY <5>1, <5>2 DEF From
      <4>3. ~GoesOn(r)
        BY <4>2 DEF Bare
      <4>4. ASSUME i + Len(t) <= Len(u) PROVE u[i + Len(t)] \notin Words
        <5>1. i + Len(t) \in (Len(s) + 1)..(Len(s) + Len(r)) /\ i + Len(t) - Len(s) = 1 /\ Len(r) # 0
          BY <4>1, <4>4, <1>1
        <5>2. u[i + Len(t)] = r[1] /\ r # << >>
          BY <5>1, <1>1
        <5> QED BY <5>2, <4>3 DEF GoesOn
      <4> QED BY <4>4
    <3> QED BY <3>1, <3>2
  <2>4. InvokeAt(u, i)
    <3> HIDE DEF u
    <3> QED BY <2>2, <2>3 DEF InvokeAt
  <2> QED BY <2>4 DEF TriggerAt
<1> QED BY <1>4, <1>5 DEF TriggerAt

\* So the first one stays the first.
LEMMA FirstStays ==
    ASSUME NEW s \in Txt, NEW r \in Txt, Triggers(s) # {},
           ~(Bare(From(s, Least(Triggers(s)))) /\ GoesOn(r))
    PROVE  Triggers(s \o r) # {} /\ Least(Triggers(s \o r)) = Least(Triggers(s))
<1> DEFINE i == Least(Triggers(s))  u == s \o r
<1>1. Triggers(s) \in SUBSET Nat /\ \A j : j \in Triggers(s) <=> j \in 1..Len(s) /\ TriggerAt(s, j)
  BY TriggersIs
<1>2. i \in Triggers(s) /\ \A j \in Triggers(s) : i <= j
  BY <1>1, LeastFacts
<1>3. i \in 1..Len(s) /\ TriggerAt(s, i) /\ s[i] = "<"
  <2> HIDE DEF i
  <2> QED BY <1>1, <1>2, TriggersIs
<1>4. u \in Txt /\ Len(u) = Len(s) + Len(r) /\ Len(s) \in Nat /\ Len(r) \in Nat
  BY TxtConcat
<1>5. TriggerAt(u, i)
  BY <1>3, TriggerHere
<1>6. \A j \in 1..(i - 1) : TriggerAt(u, j) <=> TriggerAt(s, j)
  <2> HIDE DEF i
  <2> QED BY <1>3, TriggerBefore
<1> HIDE DEF i, u
<1>7. Triggers(u) \in SUBSET Nat /\ \A j : j \in Triggers(u) <=> j \in 1..Len(u) /\ TriggerAt(u, j)
  BY <1>4, TriggersIs
<1>8. i \in Triggers(u)
  BY <1>3, <1>4, <1>5, <1>7
<1>9. \A j \in Triggers(u) : i <= j
  <2> SUFFICES ASSUME NEW j \in Triggers(u), ~(i <= j) PROVE FALSE
    OBVIOUS
  <2>1. j \in 1..Len(u) /\ TriggerAt(u, j)
    BY <1>7
  <2>2. j \in 1..(i - 1) /\ j \in 1..Len(s)
    BY <2>1, <1>3, <1>4
  <2>3. j \in Triggers(s)
    BY <2>1, <2>2, <1>6, <1>1
  <2> QED BY <2>3, <1>2
<1> QED BY <1>7, <1>8, <1>9, LeastIs DEF i, u

\* Blocks are where they are in what remains when text in front is taken away.
LEMMA TriggerShift ==
    ASSUME NEW s \in Txt, NEW n \in 0..Len(s), NEW j \in Nat, j # 0
    PROVE  TriggerAt(From(s, n + 1), j) <=> TriggerAt(s, n + j)
<1> DEFINE h == From(s, n + 1)
<1>0. Len(s) \in Nat
  BY DEF Txt
<1>1. /\ h \in Txt /\ Len(h) = Len(s) - n /\ \A k \in 1..(Len(s) - n) : h[k] = s[n + k]
  <2>1. n + 1 \in 1..(Len(s) + 1)
    BY <1>0
  <2>2. /\ h \in Seq(Alphabet) /\ Len(h) = Len(s) - (n + 1) + 1
        /\ \A k \in 1..(Len(s) - (n + 1) + 1) : h[k] = s[(n + 1) + k - 1]
    BY <2>1, FromFacts DEF Txt
  <2>3. \A k \in 1..(Len(s) - n) : k \in 1..(Len(s) - (n + 1) + 1) /\ (n + 1) + k - 1 = n + k
    BY <1>0
  <2> QED BY <1>0, <2>2, <2>3 DEF Txt
<1>2. \A t \in Tags : At(h, j, t) <=> At(s, n + j, t)
  <2> SUFFICES ASSUME NEW t \in Tags PROVE At(h, j, t) <=> At(s, n + j, t)
    OBVIOUS
  <2>1. t \in Txt /\ Len(t) >= 1
    BY TagFacts
  <2> QED BY <2>1, AtFrom
<1> HIDE DEF h
<1>3. WrapperAt(h, j) <=> WrapperAt(s, n + j)
  BY <1>2, WrapperIs, TagKinds
<1>4. ASSUME NEW t \in Opening(Invoke)
      PROVE  (j + Len(t) <= Len(h) => h[j + Len(t)] \notin Words)
               <=> (n + j + Len(t) <= Len(s) => s[n + j + Len(t)] \notin Words)
  <2>1. Len(t) \in 3..6
    BY TagKinds, TagFacts
  <2>2. j + Len(t) <= Len(h) <=> n + j + Len(t) <= Len(s)
    BY <1>0, <1>1, <2>1
  <2>3. j + Len(t) <= Len(h) => h[j + Len(t)] = s[n + j + Len(t)]
    <3> SUFFICES ASSUME j + Len(t) <= Len(h) PROVE h[j + Len(t)] = s[n + j + Len(t)]
      OBVIOUS
    <3>1. j + Len(t) \in 1..(Len(s) - n) /\ n + (j + Len(t)) = n + j + Len(t)
      BY <1>0, <1>1, <2>1
    <3> QED BY <3>1, <1>1
  <2> QED BY <2>2, <2>3
<1>5. InvokeAt(h, j) <=> InvokeAt(s, n + j)
  <2>1. \A t \in Opening(Invoke) : At(h, j, t) <=> At(s, n + j, t)
    BY <1>2, TagKinds
  <2> QED BY <2>1, <1>4 DEF InvokeAt
<1> QED BY <1>3, <1>5 DEF TriggerAt, h

-----------------------------------------------------------------------------
(* What is held back. *)

Partial(s, k) == \E t \in PrefixTokens : k < Len(t) /\ From(s, Len(s) - k + 1) = SubSeq(t, 1, k)

LEMMA HeldFacts ==
    ASSUME NEW s \in Txt
    PROVE  /\ HeldBack(s) \in 0..Len(s)
           /\ \A k \in 1..Len(s) : Partial(s, k) => k <= HeldBack(s)
           /\ HeldBack(s) # 0 => Partial(s, HeldBack(s))
<1> DEFINE K == {0} \cup {k \in 1..Len(s) : Partial(s, k)}
<1>0. Len(s) \in Nat
  BY DEF Txt
<1>1. K \in SUBSET (0..Len(s)) /\ K # {}
  BY <1>0
<1>2. HeldBack(s) = Greatest(K)
  BY DEF HeldBack, Partial
<1>3. Greatest(K) \in K /\ \A j \in K : j <= Greatest(K)
  <2> HIDE DEF K
  <2> QED BY <1>0, <1>1, GreatestFacts
<1>4. HeldBack(s) \in K /\ \A j \in K : j <= HeldBack(s)
  BY <1>2, <1>3
<1> QED BY <1>1, <1>4

\* It depends only on the end,
LEMMA PartialShift ==
    ASSUME NEW s \in Txt, NEW n \in 0..Len(s), NEW k \in 1..(Len(s) - n)
    PROVE  Partial(From(s, n + 1), k) <=> Partial(s, k)
<1> DEFINE h == From(s, n + 1)
<1>0. Len(s) \in Nat /\ n + 1 \in 1..(Len(s) + 1)
  BY DEF Txt
<1>1. Len(h) = Len(s) - n
  <2> DEFINE i == n + 1
  <2>1. i \in 1..(Len(s) + 1) /\ s \in Seq(Alphabet)
    BY <1>0 DEF Txt
  <2> HIDE DEF i
  <2>2. Len(From(s, i)) = Len(s) - i + 1
    BY <2>1, FromFacts
  <2>3. h = From(s, i)
    BY DEF i
  <2> HIDE DEF h
  <2>4. Len(s) - i + 1 = Len(s) - n
    BY <1>0 DEF i
  <2> QED BY <2>2, <2>3, <2>4
<1>2. Len(h) - k + 1 \in 1..(Len(s) - (n + 1) + 2) /\ (n + 1) + (Len(h) - k + 1) - 1 = Len(s) - k + 1
  BY <1>0, <1>1
<1>3. From(h, Len(h) - k + 1) = From(s, Len(s) - k + 1)
  <2>1. From(From(s, n + 1), Len(h) - k + 1) = From(s, (n + 1) + (Len(h) - k + 1) - 1)
    BY <1>0, <1>2, FromFrom DEF Txt
  <2> QED BY <2>1, <1>2
<1> HIDE DEF h
<1> QED BY <1>3 DEF Partial, h

LEMMA HeldShift ==
    ASSUME NEW s \in Txt, NEW n \in 0..Len(s), HeldBack(s) <= Len(s) - n
    PROVE  HeldBack(From(s, n + 1)) = HeldBack(s)
<1> DEFINE h == From(s, n + 1)
<1>0. Len(s) \in Nat /\ n + 1 \in 1..(Len(s) + 1)
  BY DEF Txt
<1>1. Len(h) = Len(s) - n /\ h \in Txt
  BY <1>0, FromFacts DEF Txt
<1>2. /\ HeldBack(s) \in 0..Len(s)
      /\ \A k \in 1..Len(s) : Partial(s, k) => k <= HeldBack(s)
      /\ HeldBack(s) # 0 => Partial(s, HeldBack(s))
  BY HeldFacts
<1>3. /\ HeldBack(h) \in 0..Len(h)
      /\ \A k \in 1..Len(h) : Partial(h, k) => k <= HeldBack(h)
      /\ HeldBack(h) # 0 => Partial(h, HeldBack(h))
  <2> HIDE DEF h
  <2> QED BY <1>1, HeldFacts
<1>4. \A k \in 1..(Len(s) - n) : Partial(h, k) <=> Partial(s, k)
  BY PartialShift
<1> HIDE DEF h
<1>5. HeldBack(s) <= HeldBack(h)
  <2>1. CASE HeldBack(s) # 0
    <3>1. HeldBack(s) \in 1..(Len(s) - n) /\ HeldBack(s) \in 1..Len(h)
      BY <2>1, <1>0, <1>1, <1>2
    <3> QED BY <3>1, <2>1, <1>2, <1>3, <1>4
  <2> QED BY <2>1, <1>1, <1>3
<1>6. HeldBack(h) <= HeldBack(s)
  <2>1. CASE HeldBack(h) # 0
    <3>1. HeldBack(h) \in 1..(Len(s) - n) /\ HeldBack(h) \in 1..Len(s)
      BY <2>1, <1>0, <1>1, <1>3
    <3> QED BY <3>1, <2>1, <1>2, <1>3, <1>4
  <2> QED BY <2>1, <1>0, <1>2
<1> QED BY <1>0, <1>1, <1>2, <1>3, <1>5, <1>6 DEF h

\* and a longer end was partial before more came.
LEMMA PartialConcat ==
    ASSUME NEW s \in Txt, NEW r \in Txt, NEW k \in 1..Len(s), Partial(s \o r, k + Len(r))
    PROVE  Partial(s, k)
<1>0. /\ s \o r \in Txt /\ Len(s) \in Nat /\ Len(r) \in Nat /\ Len(s \o r) = Len(s) + Len(r)
  BY TxtConcat
<1>1. PICK t \in PrefixTokens : /\ k + Len(r) < Len(t)
                                /\ From(s \o r, Len(s \o r) - (k + Len(r)) + 1) = SubSeq(t, 1, k + Len(r))
  BY DEF Partial
<1>2. t \in Tags /\ t \in Txt /\ Len(t) \in 3..6
  BY TagKinds, TagFacts
<1> DEFINE i == Len(s) - k + 1  f == From(s, i)
<1>3. i \in 1..(Len(s) + 1) /\ Len(s \o r) - (k + Len(r)) + 1 = i /\ Len(s) - i + 1 = k
  BY <1>0
<1>4. f \in Txt /\ Len(f) = k
  BY <1>3, FromFacts DEF Txt
<1>5. f \o r = SubSeq(t, 1, k + Len(r))
  BY <1>1, <1>3, FromConcat DEF Txt
<1> HIDE DEF f, i
<1>6. /\ \A j \in 1..k : (f \o r)[j] = f[j]
  BY <1>4, TxtConcat
<1>7. \A j \in 1..(k + Len(r)) : SubSeq(t, 1, k + Len(r))[j] = t[j]
  <2>1. k + Len(r) \in 0..Len(t)
    BY <1>0, <1>1, <1>2
  <2> QED BY <2>1, <1>2, FrontFacts DEF Txt
<1>8. SubSeq(t, 1, k) \in Txt /\ Len(SubSeq(t, 1, k)) = k /\ \A j \in 1..k : SubSeq(t, 1, k)[j] = t[j]
  <2>1. k \in 0..Len(t)
    BY <1>0, <1>1, <1>2
  <2> QED BY <2>1, <1>2, FrontFacts DEF Txt
<1>9. \A j \in 1..k : f[j] = t[j]
  <2> SUFFICES ASSUME NEW j \in 1..k PROVE f[j] = t[j]
    OBVIOUS
  <2>1. j \in 1..(k + Len(r))
    BY <1>0
  <2> QED BY <2>1, <1>5, <1>6, <1>7
<1>10. f = SubSeq(t, 1, k)
  <2>1. \A j \in 1..Len(f) : f[j] = SubSeq(t, 1, k)[j]
    BY <1>4, <1>8, <1>9
  <2> QED BY <2>1, <1>4, <1>8, SeqEqual DEF Txt
<1>11. k < Len(t)
  BY <1>0, <1>1, <1>2
<1> QED BY <1>10, <1>11 DEF Partial, f, i

\* A tag that is cut is held back.
LEMMA CutIsPartial ==
    ASSUME NEW s \in Txt, NEW r \in Txt, NEW t \in PrefixTokens, NEW i \in 1..Len(s),
           At(s \o r, i, t), ~(i + Len(t) - 1 <= Len(s))
    PROVE  Partial(s, Len(s) - i + 1)
<1>0. /\ s \o r \in Txt /\ Len(s) \in Nat /\ Len(r) \in Nat /\ Len(s \o r) = Len(s) + Len(r)
      /\ \A j \in 1..Len(s) : (s \o r)[j] = s[j]
  BY TxtConcat
<1>1. t \in Tags /\ t \in Txt /\ Len(t) \in 3..6 /\ i \in Nat /\ i # 0
  BY TagKinds, TagFacts
<1>2. \A k \in 1..Len(t) : (s \o r)[i + k - 1] = t[k]
  <2>1. Len(t) >= 1
    BY <1>1
  <2> QED BY <2>1, <1>0, <1>1, AtIs
<1> DEFINE n == Len(s) - i + 1  f == From(s, i)
<1>3. n \in 1..Len(s) /\ n < Len(t) /\ n \in 0..Len(t) /\ Len(s) - n + 1 = i /\ i \in 1..(Len(s) + 1)
  BY <1>0, <1>1
<1>4. f \in Txt /\ Len(f) = n /\ \A k \in 1..n : f[k] = s[i + k - 1]
  BY <1>3, FromFacts DEF Txt
<1>5. SubSeq(t, 1, n) \in Txt /\ Len(SubSeq(t, 1, n)) = n /\ \A k \in 1..n : SubSeq(t, 1, n)[k] = t[k]
  <2> HIDE DEF n
  <2> QED BY <1>1, <1>3, FrontFacts DEF Txt
<1>6. \A k \in 1..n : f[k] = t[k]
  <2> SUFFICES ASSUME NEW k \in 1..n PROVE f[k] = t[k]
    OBVIOUS
  <2>1. k \in 1..Len(t) /\ i + k - 1 \in 1..Len(s)
    BY <1>0, <1>1, <1>3
  <2> QED BY <2>1, <1>0, <1>2, <1>4
<1>7. f = SubSeq(t, 1, n)
  <2> HIDE DEF f, n
  <2>1. \A k \in 1..Len(f) : f[k] = SubSeq(t, 1, n)[k]
    BY <1>4, <1>5, <1>6
  <2> QED BY <2>1, <1>4, <1>5, SeqEqual DEF Txt
<1> QED BY <1>3, <1>7 DEF Partial

-----------------------------------------------------------------------------
(* One round. *)

Piece1 == {<<a>> : a \in Alphabet}
Calls1 == {Call(body) : body \in Txt}
OutType == Piece1 \cup Calls1
\* What the extractor is: text, and items that are an atom of text or a call.
ExtType == [buf : Txt, capturing : BOOLEAN, out : Seq(OutType)]
Plus(x, r) == [x EXCEPT !.buf = @ \o r]
Whole(x) == x.capturing => \E t \in PrefixTokens : At(x.buf, 1, t)

LEMMA AtomsType ==
    ASSUME NEW s \in Txt
    PROVE  Atoms(s) \in Seq(OutType) /\ Len(Atoms(s)) = Len(s) /\ \A i \in 1..Len(s) : Atoms(s)[i] = <<s[i]>>
<1>1. DOMAIN s = 1..Len(s) /\ Len(s) \in Nat /\ \A i \in 1..Len(s) : s[i] \in Alphabet
  BY DEF Txt
<1>2. \A i \in 1..Len(s) : <<s[i]>> \in OutType
  BY <1>1 DEF OutType, Piece1
<1> QED BY <1>1, <1>2 DEF Atoms

LEMMA AtomsConcat ==
    ASSUME NEW s \in Txt, NEW r \in Txt
    PROVE  Atoms(s \o r) = Atoms(s) \o Atoms(r)
<1>1. /\ s \o r \in Txt /\ Len(s) \in Nat /\ Len(r) \in Nat
      /\ Len(s \o r) = Len(s) + Len(r)
      /\ \A i \in 1..Len(s) : (s \o r)[i] = s[i]
      /\ \A i \in (Len(s) + 1)..(Len(s) + Len(r)) : (s \o r)[i] = r[i - Len(s)]
  BY TxtConcat
<1>2. /\ Atoms(s \o r) \in Seq(OutType) /\ Len(Atoms(s \o r)) = Len(s) + Len(r)
      /\ \A i \in 1..(Len(s) + Len(r)) : Atoms(s \o r)[i] = <<(s \o r)[i]>>
  BY <1>1, AtomsType
<1>3. /\ Atoms(s) \in Seq(OutType) /\ Len(Atoms(s)) = Len(s) /\ \A i \in 1..Len(s) : Atoms(s)[i] = <<s[i]>>
      /\ Atoms(r) \in Seq(OutType) /\ Len(Atoms(r)) = Len(r) /\ \A i \in 1..Len(r) : Atoms(r)[i] = <<r[i]>>
  BY AtomsType
<1>4. /\ Atoms(s) \o Atoms(r) \in Seq(OutType) /\ Len(Atoms(s) \o Atoms(r)) = Len(s) + Len(r)
      /\ \A i \in 1..(Len(s) + Len(r)) :
            (Atoms(s) \o Atoms(r))[i] = IF i <= Len(s) THEN Atoms(s)[i] ELSE Atoms(r)[i - Len(s)]
  <2> DEFINE a == Atoms(s)  b == Atoms(r)
  <2>1. a \in Seq(OutType) /\ b \in Seq(OutType) /\ Len(a) = Len(s) /\ Len(b) = Len(r)
    BY <1>3
  <2> HIDE DEF a, b
  <2>2. /\ a \o b \in Seq(OutType) /\ Len(a \o b) = Len(a) + Len(b)
        /\ \A i \in 1..(Len(a) + Len(b)) : (a \o b)[i] = IF i <= Len(a) THEN a[i] ELSE b[i - Len(a)]
    BY <2>1, ConcatProperties
  <2>3. /\ a \o b \in Seq(OutType) /\ Len(a \o b) = Len(s) + Len(r)
        /\ \A i \in 1..(Len(s) + Len(r)) : (a \o b)[i] = IF i <= Len(s) THEN a[i] ELSE b[i - Len(s)]
    BY <2>1, <2>2
  <2> QED BY <2>3 DEF a, b
<1>5. \A i \in 1..Len(Atoms(s \o r)) : Atoms(s \o r)[i] = (Atoms(s) \o Atoms(r))[i]
  <2> SUFFICES ASSUME NEW i \in 1..(Len(s) + Len(r)) PROVE Atoms(s \o r)[i] = (Atoms(s) \o Atoms(r))[i]
    BY <1>2
  <2>1. CASE i <= Len(s)
    <3>1. i \in 1..Len(s)
      BY <2>1, <1>1
    <3> QED BY <3>1, <2>1, <1>1, <1>2, <1>3, <1>4
  <2>2. CASE ~(i <= Len(s))
    <3>1. i \in (Len(s) + 1)..(Len(s) + Len(r)) /\ i - Len(s) \in 1..Len(r)
      BY <2>2, <1>1
    <3> QED BY <3>1, <2>2, <1>1, <1>2, <1>3, <1>4
  <2> QED BY <2>1, <2>2
<1> QED BY <1>2, <1>4, <1>5, SeqEqual

\* What the first half of a round does.
LEMMA CaptureCases ==
    ASSUME NEW x \in ExtType
    PROVE  /\ Capture(x) \in ExtType
           /\ x.capturing => Capture(x) = x
           /\ ~x.capturing /\ Triggers(x.buf) # {} =>
                LET i == Least(Triggers(x.buf))
                IN  /\ i \in 1..Len(x.buf) /\ TriggerAt(x.buf, i)
                    /\ Capture(x) = [buf |-> From(x.buf, i), capturing |-> TRUE,
                                     out |-> x.out \o Atoms(SubSeq(x.buf, 1, i - 1))]
           /\ ~x.capturing /\ Triggers(x.buf) = {} =>
                LET keep == Len(x.buf) - HeldBack(x.buf)
                IN  /\ keep \in 0..Len(x.buf)
                    /\ Capture(x) = [buf |-> From(x.buf, keep + 1), capturing |-> FALSE,
                                     out |-> x.out \o Atoms(SubSeq(x.buf, 1, keep))]
<1>1. /\ x.buf \in Txt /\ x.capturing \in BOOLEAN /\ x.out \in Seq(OutType)
      /\ x = [buf |-> x.buf, capturing |-> x.capturing, out |-> x.out]
  BY DEF ExtType
<1>2. Len(x.buf) \in Nat
  BY <1>1 DEF Txt
<1>3. ASSUME NEW n \in 0..Len(x.buf)
      PROVE  /\ x.out \o Atoms(SubSeq(x.buf, 1, n)) \in Seq(OutType)
             /\ From(x.buf, n + 1) \in Txt
  <2>1. SubSeq(x.buf, 1, n) \in Txt
    BY <1>1, FrontFacts DEF Txt
  <2>2. Atoms(SubSeq(x.buf, 1, n)) \in Seq(OutType)
    BY <2>1, AtomsType
  <2>3. From(x.buf, n + 1) \in Txt
    <3>1. n + 1 \in 1..(Len(x.buf) + 1)
      BY <1>2
    <3> QED BY <3>1, <1>1, FromFacts DEF Txt
  <2> QED BY <1>1, <2>2, <2>3
<1>4. CASE x.capturing
  BY <1>4 DEF Capture
<1>5. CASE ~x.capturing /\ Triggers(x.buf) # {}
  <2> DEFINE i == Least(Triggers(x.buf))
  <2>1. i \in Triggers(x.buf)
    BY <1>1, <1>5, TriggersIs, LeastFacts
  <2>2. i \in 1..Len(x.buf) /\ TriggerAt(x.buf, i)
    <3> HIDE DEF i
    <3> QED BY <1>1, <2>1, TriggersIs
  <2>3. Capture(x) = [buf |-> From(x.buf, i), capturing |-> TRUE,
                      out |-> x.out \o Atoms(SubSeq(x.buf, 1, i - 1))]
    BY <1>1, <1>5 DEF Capture
  <2>4. Capture(x) \in ExtType
    <3> HIDE DEF i
    <3>1. i - 1 \in 0..Len(x.buf) /\ i - 1 + 1 = i
      BY <1>2, <2>2
    <3>2. From(x.buf, i) \in Txt /\ x.out \o Atoms(SubSeq(x.buf, 1, i - 1)) \in Seq(OutType)
      <4>1. From(x.buf, i - 1 + 1) \in Txt /\ x.out \o Atoms(SubSeq(x.buf, 1, i - 1)) \in Seq(OutType)
        BY <3>1, <1>3
      <4> QED BY <3>1, <4>1
    <3> QED BY <2>3, <3>2 DEF ExtType
  <2> QED BY <1>5, <2>2, <2>3, <2>4
<1>6. CASE ~x.capturing /\ Triggers(x.buf) = {}
  <2> DEFINE keep == Len(x.buf) - HeldBack(x.buf)
  <2>1. keep \in 0..Len(x.buf)
    <3>1. HeldBack(x.buf) \in 0..Len(x.buf)
      BY <1>1, HeldFacts
    <3> QED BY <3>1, <1>2
  <2>2. Capture(x) = [buf |-> From(x.buf, keep + 1), capturing |-> FALSE,
                      out |-> x.out \o Atoms(SubSeq(x.buf, 1, keep))]
    BY <1>1, <1>6 DEF Capture
  <2>3. Capture(x) \in ExtType
    <3> HIDE DEF keep
    <3> QED BY <1>3, <2>1, <2>2 DEF ExtType
  <2> QED BY <1>6, <2>1, <2>2, <2>3
<1> QED BY <1>1, <1>4, <1>5, <1>6

LEMMA CaptureSome ==
    ASSUME NEW x \in ExtType, ~x.capturing, Triggers(x.buf) # {}, NEW i, i = Least(Triggers(x.buf))
    PROVE  /\ i \in 1..Len(x.buf) /\ TriggerAt(x.buf, i)
           /\ Capture(x) = [buf |-> From(x.buf, i), capturing |-> TRUE,
                            out |-> x.out \o Atoms(SubSeq(x.buf, 1, i - 1))]
           /\ Capture(x).buf = From(x.buf, i) /\ Capture(x).capturing
           /\ Capture(x).out = x.out \o Atoms(SubSeq(x.buf, 1, i - 1))
<1>1. /\ i \in 1..Len(x.buf) /\ TriggerAt(x.buf, i)
      /\ Capture(x) = [buf |-> From(x.buf, i), capturing |-> TRUE,
                       out |-> x.out \o Atoms(SubSeq(x.buf, 1, i - 1))]
  BY CaptureCases
<1> DEFINE b == From(x.buf, i)  o == x.out \o Atoms(SubSeq(x.buf, 1, i - 1))
<1>2. Capture(x) = [buf |-> b, capturing |-> TRUE, out |-> o]
  BY <1>1
<1> HIDE DEF b, o
<1>3. Capture(x).buf = b /\ Capture(x).capturing /\ Capture(x).out = o
  BY <1>2
<1> QED BY <1>1, <1>3 DEF b, o

LEMMA CaptureNone ==
    ASSUME NEW x \in ExtType, ~x.capturing, Triggers(x.buf) = {},
           NEW keep, keep = Len(x.buf) - HeldBack(x.buf)
    PROVE  /\ keep \in 0..Len(x.buf)
           /\ Capture(x) = [buf |-> From(x.buf, keep + 1), capturing |-> FALSE,
                            out |-> x.out \o Atoms(SubSeq(x.buf, 1, keep))]
           /\ Capture(x).buf = From(x.buf, keep + 1) /\ ~Capture(x).capturing
           /\ Capture(x).out = x.out \o Atoms(SubSeq(x.buf, 1, keep))
<1>1. /\ keep \in 0..Len(x.buf)
      /\ Capture(x) = [buf |-> From(x.buf, keep + 1), capturing |-> FALSE,
                       out |-> x.out \o Atoms(SubSeq(x.buf, 1, keep))]
  BY CaptureCases
<1> DEFINE b == From(x.buf, keep + 1)  o == x.out \o Atoms(SubSeq(x.buf, 1, keep))
<1>2. Capture(x) = [buf |-> b, capturing |-> FALSE, out |-> o]
  BY <1>1
<1> HIDE DEF b, o
<1>3. Capture(x).buf = b /\ ~Capture(x).capturing /\ Capture(x).out = o
  BY <1>2
<1> QED BY <1>1, <1>3 DEF b, o

-----------------------------------------------------------------------------
(* Where blocks end. *)

ClosedAt(s, tag, i) == \E t \in Closing(tag) : At(s, i, t)
Kinds == {Invoke, Wrapper}

LEMMA ClosingFacts ==
    ASSUME NEW tag \in Kinds, NEW t \in Closing(tag)
    PROVE  t \in Tags /\ t \in Txt /\ Len(t) \in 3..6 /\ t[1] = "<"
<1>1. t \in Tags
  BY TagKinds DEF Kinds
<1> QED BY <1>1, TagFacts

LEMMA OneClosing ==
    ASSUME NEW tag \in Kinds, NEW s \in Txt, NEW i \in Nat, i # 0,
           NEW t \in Closing(tag), NEW v \in Closing(tag), At(s, i, t), At(s, i, v)
    PROVE  t = v
<1>1. t \in Txt /\ Len(t) \in 3..6 /\ v \in Txt /\ Len(v) \in 3..6
  BY ClosingFacts
<1>2. t[3] = v[3]
  <2>1. (\A k \in 1..Len(t) : s[i + k - 1] = t[k]) /\ (\A k \in 1..Len(v) : s[i + k - 1] = v[k])
    BY <1>1, AtIs
  <2>2. \A n \in 3..6 : 3 \in 1..n
    OBVIOUS
  <2>3. 3 \in 1..Len(t) /\ 3 \in 1..Len(v)
    BY <1>1, <2>2, Zenon
  <2> QED BY <2>1, <2>3
<1>3. CASE tag = Invoke
  <2>1. /\ t = <<"<", "/", "n", "v", ">">> \/ t = <<"<", "/", ":", "n", "v", ">">>
        /\ v = <<"<", "/", "n", "v", ">">> \/ v = <<"<", "/", ":", "n", "v", ">">>
    BY <1>3, TagsAre
  <2> QED BY <2>1, <1>2
<1>4. CASE tag = Wrapper
  <2>1. /\ t = <<"<", "/", "f", ">">> \/ t = <<"<", "/", ":", "f", ">">>
        /\ v = <<"<", "/", "f", ">">> \/ v = <<"<", "/", ":", "f", ">">>
    BY <1>4, TagsAre
  <2> QED BY <2>1, <1>2
<1> QED BY <1>3, <1>4 DEF Kinds

\* What Close finds: the first, if there is one.
LEMMA CloseFacts ==
    ASSUME NEW tag \in Kinds, NEW s \in Txt
    PROVE  \/ /\ Close(s, tag) = <<0, 0>>
              /\ \A i \in 1..Len(s) : ~ClosedAt(s, tag, i)
           \/ \E i \in 1..Len(s) : \E t \in Closing(tag) :
                 /\ Close(s, tag) = <<i, i + Len(t)>>
                 /\ At(s, i, t) /\ i + Len(t) \in 2..(Len(s) + 1)
                 /\ \A j \in 1..(i - 1) : ~ClosedAt(s, tag, j)
<1> DEFINE closes(i) == {t \in Closing(tag) : At(s, i, t)}
           begins == {i \in DOMAIN s : closes(i) # {}}
           i == Least(begins)
<1>0. DOMAIN s = 1..Len(s) /\ Len(s) \in Nat
  BY DEF Txt
<1>1. \A j : j \in begins <=> j \in 1..Len(s) /\ ClosedAt(s, tag, j)
  BY <1>0 DEF ClosedAt
<1>2. Close(s, tag) = IF begins = {} THEN <<0, 0>> ELSE <<i, i + Len(CHOOSE t \in closes(i) : TRUE)>>
  BY DEF Close
<1>3. CASE begins = {}
  BY <1>1, <1>2, <1>3
<1>4. CASE begins # {}
  <2>1. begins \in SUBSET Nat
    BY <1>0, <1>1
  <2>2. i \in begins /\ \A j \in begins : i <= j
    <3> HIDE DEF begins
    <3> QED BY <1>4, <2>1, LeastFacts
  <2>3. closes(i) # {}
    BY <2>2
  <2> DEFINE t == CHOOSE t \in closes(i) : TRUE
  <2>4. t \in closes(i)
    BY <2>3
  <2>5. t \in Closing(tag) /\ At(s, i, t)
    BY <2>4
  <2>6. Close(s, tag) = <<i, i + Len(t)>>
    BY <1>2, <1>4
  <2> HIDE DEF i, t, begins
  <2>7. i \in 1..Len(s)
    BY <1>1, <2>2
  <2>8. i + Len(t) \in 2..(Len(s) + 1)
    <3>1. t \in Tags /\ Len(t) \in 3..6 /\ i \in Nat /\ i # 0
      BY <2>5, <2>7, ClosingFacts
    <3>2. i + Len(t) - 1 \in 1..Len(s)
      BY <3>1, <2>5, TagAt
    <3> QED BY <3>1, <3>2, <1>0, <2>7
  <2>9. \A j \in 1..(i - 1) : ~ClosedAt(s, tag, j)
    <3> SUFFICES ASSUME NEW j \in 1..(i - 1), ClosedAt(s, tag, j) PROVE FALSE
      OBVIOUS
    <3>1. j \in 1..Len(s) /\ ~(i <= j)
      BY <1>0, <2>7
    <3> QED BY <3>1, <1>1, <2>2
  <2> QED BY <2>5, <2>6, <2>7, <2>8, <2>9
<1> QED BY <1>3, <1>4

\* It stays the first when more comes.
LEMMA CloseStays ==
    ASSUME NEW tag \in Kinds, NEW s \in Txt, NEW r \in Txt, Close(s, tag)[2] # 0
    PROVE  Close(s \o r, tag) = Close(s, tag)
<1> DEFINE u == s \o r
<1>1. /\ u \in Txt /\ Len(s) \in Nat /\ Len(r) \in Nat /\ Len(u) = Len(s) + Len(r)
      /\ \A k \in 1..Len(s) : u[k] = s[k]
  BY TxtConcat
<1>2. PICK i \in 1..Len(s), t \in Closing(tag) :
                 /\ Close(s, tag) = <<i, i + Len(t)>>
                 /\ At(s, i, t) /\ i + Len(t) \in 2..(Len(s) + 1)
                 /\ \A j \in 1..(i - 1) : ~ClosedAt(s, tag, j)
  <2>1. Close(s, tag) # <<0, 0>>
    OBVIOUS
  <2> QED BY <2>1, CloseFacts
<1>3. t \in Tags /\ t \in Txt /\ Len(t) >= 1 /\ Len(t) \in Nat /\ i \in Nat /\ i # 0
  BY ClosingFacts
<1>4. At(u, i, t) /\ u[i] = "<"
  <2>1. At(u, i, t)
    BY <1>2, <1>3, AtConcat
  <2>2. s[i] = "<"
    BY <1>2, <1>3, TagAt
  <2> QED BY <2>1, <2>2, <1>1
<1>5. ASSUME NEW j \in 1..(i - 1), ClosedAt(u, tag, j) PROVE FALSE
  <2>1. PICK v \in Closing(tag) : At(u, j, v)
    BY <1>5 DEF ClosedAt
  <2>2. v \in Tags /\ v \in Txt /\ Len(v) >= 1 /\ Len(v) \in Nat /\ j \in Nat /\ j # 0
    BY ClosingFacts
  <2>3. \A k \in (j + 1)..(j + Len(v) - 1) : u[k] # "<"
    <3> HIDE DEF u
    <3> QED BY <1>1, <2>1, <2>2, TagAt
  <2>4. ~(i \in (j + 1)..(j + Len(v) - 1))
    BY <1>4, <2>3
  <2>5. j + Len(v) - 1 <= Len(s)
    BY <2>4, <2>2, <1>3, <1>1
  <2>6. At(s, j, v)
    BY <2>1, <2>2, <2>5, AtConcat
  <2> QED BY <2>6, <1>2 DEF ClosedAt
<1> HIDE DEF u
<1>6. i \in 1..Len(u) /\ ClosedAt(u, tag, i)
  BY <1>1, <1>4 DEF ClosedAt
<1>7. PICK k \in 1..Len(u), v \in Closing(tag) :
                 /\ Close(u, tag) = <<k, k + Len(v)>>
                 /\ At(u, k, v)
                 /\ \A j \in 1..(k - 1) : ~ClosedAt(u, tag, j)
  BY <1>1, <1>6, CloseFacts
<1>8. k = i
  <2>1. ~(k \in 1..(i - 1))
    BY <1>5, <1>7 DEF ClosedAt
  <2>2. ~(i \in 1..(k - 1))
    BY <1>6, <1>7
  <2> QED BY <2>1, <2>2, <1>3
<1>9. v = t
  BY <1>1, <1>3, <1>4, <1>7, <1>8, OneClosing
<1> QED BY <1>2, <1>7, <1>8, <1>9 DEF u

-----------------------------------------------------------------------------
(* The calls of a block. *)

ParseStep(s, f, at) ==
    LET starts == {i \in Starts(s) : at <= i}
        i == Least(starts)
        b == i + (IF s[i + 1] = ":" THEN 6 ELSE 5)
        e == Close(From(s, b), Invoke)
    IN  IF starts = {} \/ e[2] = 0 THEN << >>
        ELSE <<Call(SubSeq(s, b, b + e[1] - 2))>> \o f[b + e[2] - 1]

LEMMA ParseIs ==
    ASSUME NEW s
    PROVE  ParseInvokes(s) = (CHOOSE f : f = [at \in 1..(Len(s) + 1) |-> ParseStep(s, f, at)])[1]
  BY Zenon DEF ParseInvokes, ParseStep

LEMMA ConcatIs ==
    ASSUME NEW S, NEW a \in Seq(S), NEW c \in Seq(S), NEW v \in Seq(S), Len(v) = Len(a) + Len(c),
           \A i \in 1..Len(a) : v[i] = a[i], \A i \in 1..Len(c) : v[Len(a) + i] = c[i]
    PROVE  a \o c = v
<1>1. /\ a \o c \in Seq(S) /\ Len(a \o c) = Len(a) + Len(c) /\ Len(a) \in Nat /\ Len(c) \in Nat
      /\ \A i \in 1..(Len(a) + Len(c)) : (a \o c)[i] = IF i <= Len(a) THEN a[i] ELSE c[i - Len(a)]
  BY ConcatProperties
<1>2. ASSUME NEW i \in 1..Len(a \o c) PROVE (a \o c)[i] = v[i]
  <2>1. CASE i <= Len(a)
    BY <2>1, <1>1
  <2>2. CASE ~(i <= Len(a))
    <3>1. i - Len(a) \in 1..Len(c) /\ Len(a) + (i - Len(a)) = i
      BY <2>2, <1>1
    <3> QED BY <3>1, <2>2, <1>1
  <2> QED BY <2>1, <2>2
<1> QED BY <1>1, <1>2, SeqEqual

LEMMA NamedTags ==
    LET bare == <<"<", "n", "v", "a", ">">>
        long == <<"<", ":", "n", "v", "a", ">">>
    IN  /\ <<"<", "n", "v">> \o <<"a", ">">> = bare
        /\ bare \in Txt /\ Len(bare) = 5 /\ bare[2] = "n"
        /\ <<"<", ":", "n", "v">> \o <<"a", ">">> = long
        /\ long \in Txt /\ Len(long) = 6 /\ long[2] = ":"
<1>1. <<"<", "n", "v">> \o <<"a", ">">> = <<"<", "n", "v", "a", ">">>
  <2> DEFINE a == <<"<", "n", "v">>  c == <<"a", ">">>  v == <<"<", "n", "v", "a", ">">>
  <2>1. a \in Txt /\ c \in Txt /\ v \in Txt /\ Len(a) = 3 /\ Len(c) = 2 /\ Len(v) = 5
    BY DEF Txt, Alphabet
  <2>2. v[1] = a[1] /\ v[2] = a[2] /\ v[3] = a[3] /\ v[4] = c[1] /\ v[5] = c[2]
    OBVIOUS
  <2> HIDE DEF a, c, v
  <2>4. a \o c = v
    <3>1. \A i \in 1..Len(a) : v[i] = a[i]
      BY <2>1, <2>2
    <3>2. \A i \in 1..Len(c) : v[Len(a) + i] = c[i]
      BY <2>1, <2>2
    <3>3. Len(v) = Len(a) + Len(c)
      BY <2>1
    <3>4. a \in Seq(Alphabet) /\ c \in Seq(Alphabet) /\ v \in Seq(Alphabet)
      BY <2>1 DEF Txt
    <3> QED BY <3>1, <3>2, <3>3, <3>4, ConcatIs
  <2> QED BY <2>4 DEF a, c, v
<1>2. <<"<", ":", "n", "v">> \o <<"a", ">">> = <<"<", ":", "n", "v", "a", ">">>
  <2> DEFINE a == <<"<", ":", "n", "v">>  c == <<"a", ">">>  v == <<"<", ":", "n", "v", "a", ">">>
  <2>1. a \in Txt /\ c \in Txt /\ v \in Txt /\ Len(a) = 4 /\ Len(c) = 2 /\ Len(v) = 6
    BY DEF Txt, Alphabet
  <2>2. v[1] = a[1] /\ v[2] = a[2] /\ v[3] = a[3] /\ v[4] = a[4] /\ v[5] = c[1] /\ v[6] = c[2]
    OBVIOUS
  <2> HIDE DEF a, c, v
  <2>4. a \o c = v
    <3>1. \A i \in 1..Len(a) : v[i] = a[i]
      BY <2>1, <2>2
    <3>2. \A i \in 1..Len(c) : v[Len(a) + i] = c[i]
      BY <2>1, <2>2
    <3>3. Len(v) = Len(a) + Len(c)
      BY <2>1
    <3>4. a \in Seq(Alphabet) /\ c \in Seq(Alphabet) /\ v \in Seq(Alphabet)
      BY <2>1 DEF Txt
    <3> QED BY <3>1, <3>2, <3>3, <3>4, ConcatIs
  <2> QED BY <2>4 DEF a, c, v
<1>3. <<"<", "n", "v", "a", ">">> \in Txt /\ Len(<<"<", "n", "v", "a", ">">>) = 5
  BY DEF Txt, Alphabet
<1>4. <<"<", ":", "n", "v", "a", ">">> \in Txt /\ Len(<<"<", ":", "n", "v", "a", ">">>) = 6
  BY DEF Txt, Alphabet
<1>5. <<"<", "n", "v", "a", ">">>[2] = "n" /\ <<"<", ":", "n", "v", "a", ">">>[2] = ":"
  OBVIOUS
<1> QED BY <1>1, <1>2, <1>3, <1>4, <1>5

\* A call goes to the right.
LEMMA ParseStepFacts ==
    ASSUME NEW s \in Txt, NEW at \in 1..(Len(s) + 1)
    PROVE  \/ \A f : ParseStep(s, f, at) = << >>
           \/ \E body \in Txt : \E next \in (at + 1)..(Len(s) + 1) :
                 \A f : ParseStep(s, f, at) = <<Call(body)>> \o f[next]
<1> DEFINE starts == {i \in Starts(s) : at <= i}
           i == Least(starts)
           b == i + (IF s[i + 1] = ":" THEN 6 ELSE 5)
           e == Close(From(s, b), Invoke)
<1>0. DOMAIN s = 1..Len(s) /\ Len(s) \in Nat
  BY DEF Txt
<1>1. CASE starts = {} \/ e[2] = 0
  BY <1>1 DEF ParseStep
<1>2. CASE ~(starts = {} \/ e[2] = 0)
  <2>1. starts \in SUBSET Nat /\ starts # {}
    BY <1>0, <1>2 DEF Starts
  <2>2. i \in starts
    <3> HIDE DEF starts
    <3> QED BY <2>1, LeastFacts
  <2>3. i \in 1..Len(s) /\ at <= i /\ \E t \in Opening(Invoke) : At(s, i, t \o <<"a", ">">>)
    BY <1>0, <2>2 DEF Starts
  <2>4. PICK t \in Opening(Invoke) : At(s, i, t \o <<"a", ">">>)
    BY <2>3
  <2> HIDE DEF i, starts
  <2>5. b \in (i + 1)..(Len(s) + 1)
    <3>1. CASE t = <<"<", "n", "v">>
      <4> DEFINE v == <<"<", "n", "v", "a", ">">>
      <4>1. At(s, i, v) /\ v \in Txt /\ Len(v) = 5 /\ v[2] = "n"
        <5>1. <<"<", "n", "v">> \o <<"a", ">">> = v
          BY NamedTags
        <5>2. v \in Txt /\ Len(v) = 5 /\ v[2] = "n"
          BY NamedTags
        <5>3. At(s, i, v)
          BY <3>1, <2>4, <5>1
        <5> QED BY <5>2, <5>3
      <4> HIDE DEF v
      <4>2. i + 5 - 1 <= Len(s) /\ s[i + 2 - 1] = "n"
        <5>1. i \in Nat /\ i # 0 /\ Len(v) >= 1 /\ 2 \in 1..Len(v)
          BY <2>3, <4>1
        <5> QED BY <4>1, <5>1, AtIs
      <4>3. i + 2 - 1 = i + 1 /\ i \in Int
        BY <2>3
      <4>4. b = i + 5
        BY <4>2, <4>3
      <4> QED BY <4>2, <4>4, <2>3, <1>0
    <3>2. CASE t = <<"<", ":", "n", "v">>
      <4> DEFINE v == <<"<", ":", "n", "v", "a", ">">>
      <4>1. At(s, i, v) /\ v \in Txt /\ Len(v) = 6 /\ v[2] = ":"
        <5>1. <<"<", ":", "n", "v">> \o <<"a", ">">> = v
          BY NamedTags
        <5>2. v \in Txt /\ Len(v) = 6 /\ v[2] = ":"
          BY NamedTags
        <5>3. At(s, i, v)
          BY <3>2, <2>4, <5>1
        <5> QED BY <5>2, <5>3
      <4> HIDE DEF v
      <4>2. i + 6 - 1 <= Len(s) /\ s[i + 2 - 1] = ":"
        <5>1. i \in Nat /\ i # 0 /\ Len(v) >= 1 /\ 2 \in 1..Len(v)
          BY <2>3, <4>1
        <5> QED BY <4>1, <5>1, AtIs
      <4>3. i + 2 - 1 = i + 1 /\ i \in Int
        BY <2>3
      <4>4. b = i + 6
        BY <4>2, <4>3
      <4> QED BY <4>2, <4>4, <2>3, <1>0
    <3> QED BY <3>1, <3>2, TagsAre
  <2> HIDE DEF b
  <2>6. From(s, b) \in Txt /\ Len(From(s, b)) = Len(s) - b + 1
    <3>1. b \in 1..(Len(s) + 1)
      BY <2>3, <2>5, <1>0
    <3> QED BY <3>1, FromFacts DEF Txt
  <2>7. e[2] # 0
    BY <1>2
  <2>8. PICK k \in 1..Len(From(s, b)) : \E v \in Closing(Invoke) :
                 e = <<k, k + Len(v)>> /\ k + Len(v) \in 2..(Len(From(s, b)) + 1)
    <3>1. e # <<0, 0>> /\ Invoke \in Kinds
      BY <2>7 DEF Kinds
    <3> QED BY <3>1, <2>6, CloseFacts
  <2>9. /\ e[1] = k /\ e[2] \in 2..(Len(From(s, b)) + 1)
    BY <2>8
  <2> DEFINE body == SubSeq(s, b, b + e[1] - 2)  next == b + e[2] - 1
  <2>10. \A f : ParseStep(s, f, at) = <<Call(body)>> \o f[next]
    BY <1>2 DEF ParseStep, b, i, starts
  <2> HIDE DEF e
  <2>11. body \in Txt
    <3>1. b \in Int /\ b + e[1] - 2 \in Int /\ \A j \in b..(b + e[1] - 2) : s[j] \in Alphabet
      <4>1. b \in 1..(Len(s) + 1) /\ b + e[1] - 2 <= Len(s) /\ b + e[1] - 2 \in Int /\ b \in Int
        BY <2>3, <2>5, <2>6, <2>8, <2>9, <1>0
      <4>2. \A j \in b..(b + e[1] - 2) : j \in 1..Len(s)
        BY <4>1, <1>0
      <4> QED BY <4>1, <4>2 DEF Txt
    <3> QED BY <3>1, SubSeqProperties DEF Txt
  <2>12. next \in (at + 1)..(Len(s) + 1)
    BY <2>3, <2>5, <2>6, <2>9, <1>0
  <2> HIDE DEF body, next
  <2> QED BY <2>10, <2>11, <2>12
<1> QED BY <1>1, <1>2

\* There is such a function, by the number of places that are left,
Parses(s, n, f) == f = [at \in (Len(s) + 1 - n)..(Len(s) + 1) |-> ParseStep(s, f, at)]

LEMMA ParseExists ==
    ASSUME NEW s \in Txt
    PROVE  \A n \in 0..Len(s) : \E f : Parses(s, n, f)
<1> DEFINE L == Len(s) + 1
           Bad == {n \in 0..Len(s) : ~\E f : Parses(s, n, f)}
<1>0. Len(s) \in Nat
  BY DEF Txt
<1> SUFFICES ASSUME Bad # {} PROVE FALSE
  OBVIOUS
<1>1. PICK n \in Bad : \A m \in Bad : n <= m
  <2>1. Bad \in SUBSET Nat
    BY <1>0
  <2> HIDE DEF Bad
  <2> QED BY LeastOf, <2>1
<1>2. n \in 0..Len(s) /\ L - n \in 1..L
  BY <1>0
<1> DEFINE at0 == L - n
<1>3. CASE n = 0
  <2> DEFINE g == [at \in at0..L |-> << >>]
  <2>1. \A at \in at0..L : ParseStep(s, g, at) = << >>
    <3> SUFFICES ASSUME NEW at \in at0..L PROVE ParseStep(s, g, at) = << >>
      OBVIOUS
    <3>1. at = L /\ at \in 1..L
      BY <1>0, <1>3
    <3>2. ~\E next \in (at + 1)..L : TRUE
      BY <3>1, <1>0
    <3> HIDE DEF g
    <3> QED BY <3>1, <3>2, ParseStepFacts
  <2>2. Parses(s, n, g)
    BY <2>1 DEF Parses
  <2> QED BY <1>1, <2>2
<1>4. CASE n # 0
  <2>1. n - 1 \in 0..Len(s) /\ n - 1 \notin Bad
    BY <1>0, <1>1, <1>2, <1>4
  <2>2. PICK f : Parses(s, n - 1, f)
    BY <2>1
  <2>3. \A at \in (at0 + 1)..L : f[at] = ParseStep(s, f, at)
    <3>1. at0 + 1 = Len(s) + 1 - (n - 1)
      BY <1>0, <1>2
    <3> QED BY <3>1, <2>2 DEF Parses
  <2> DEFINE g == [at \in at0..L |-> IF at = at0 THEN ParseStep(s, f, at0) ELSE f[at]]
  <2>4. \A k \in (at0 + 1)..L : g[k] = f[k]
    BY <1>0, <1>2
  <2>5. \A at \in at0..L : ParseStep(s, g, at) = ParseStep(s, f, at)
    <3> SUFFICES ASSUME NEW at \in at0..L PROVE ParseStep(s, g, at) = ParseStep(s, f, at)
      OBVIOUS
    <3>1. at \in 1..L
      BY <1>0, <1>2
    <3> HIDE DEF g
    <3>2. CASE \A h : ParseStep(s, h, at) = << >>
      BY <3>2
    <3>3. CASE \E body \in Txt : \E next \in (at + 1)..L :
                 \A h : ParseStep(s, h, at) = <<Call(body)>> \o h[next]
      <4>1. PICK body \in Txt, next \in (at + 1)..L :
                 \A h : ParseStep(s, h, at) = <<Call(body)>> \o h[next]
        BY <3>3
      <4>2. next \in (at0 + 1)..L
        BY <1>0, <1>2
      <4> QED BY <4>1, <4>2, <2>4
    <3> QED BY <3>1, <3>2, <3>3, ParseStepFacts
  <2>6. \A at \in at0..L : g[at] = ParseStep(s, g, at)
    <3> SUFFICES ASSUME NEW at \in at0..L PROVE g[at] = ParseStep(s, g, at)
      OBVIOUS
    <3>1. CASE at = at0
      BY <3>1, <2>5
    <3>2. CASE at # at0
      <4>1. at \in (at0 + 1)..L
        BY <3>2, <1>0, <1>2
      <4> QED BY <4>1, <3>2, <2>3, <2>5
    <3> QED BY <3>1, <3>2
  <2>7. Parses(s, n, g)
    <3>1. g = [at \in at0..L |-> g[at]]
      OBVIOUS
    <3> HIDE DEF g
    <3>2. g = [at \in at0..L |-> ParseStep(s, g, at)]
      BY <2>6, <3>1
    <3> QED BY <3>2 DEF Parses
  <2> QED BY <1>1, <2>7
<1> QED BY <1>3, <1>4

\* and so what it returns are calls.
LEMMA ParseType ==
    ASSUME NEW s \in Txt
    PROVE  ParseInvokes(s) \in Seq(Calls1)
<1> DEFINE L == Len(s) + 1
           f == CHOOSE f : f = [at \in 1..L |-> ParseStep(s, f, at)]
<1>0. Len(s) \in Nat
  BY DEF Txt
<1>1. f = [at \in 1..L |-> ParseStep(s, f, at)]
  <2>1. Len(s) \in 0..Len(s) /\ L - Len(s) = 1
    BY <1>0
  <2>2. \E g : Parses(s, Len(s), g)
    BY <2>1, ParseExists
  <2>3. \E g : g = [at \in 1..L |-> ParseStep(s, g, at)]
    BY <2>1, <2>2 DEF Parses
  <2> QED BY <2>3, Zenon
<1>2. ParseInvokes(s) = f[1]
  BY ParseIs
<1> HIDE DEF f
<1> DEFINE Bad == {n \in 0..Len(s) : f[L - n] \notin Seq(Calls1)}
<1>3. Bad = {}
  <2> SUFFICES ASSUME Bad # {} PROVE FALSE
    OBVIOUS
  <2>1. PICK n \in Bad : \A m \in Bad : n <= m
    <3>1. Bad \in SUBSET Nat
      BY <1>0
    <3> HIDE DEF Bad
    <3> QED BY LeastOf, <3>1
  <2> DEFINE at == L - n
  <2>2. at \in 1..L /\ f[at] \notin Seq(Calls1)
    BY <1>0, <2>1
  <2>3. f[at] = ParseStep(s, f, at)
    BY <1>1, <2>2
  <2> HIDE DEF at
  <2>4. CASE f[at] = << >>
    BY <2>2, <2>4
  <2>5. CASE \E body \in Txt : \E next \in (at + 1)..L : f[at] = <<Call(body)>> \o f[next]
    <3>1. PICK body \in Txt, next \in (at + 1)..L : f[at] = <<Call(body)>> \o f[next]
      BY <2>5
    <3>2. L - next \in 0..Len(s) /\ ~(n <= L - next) /\ L - (L - next) = next
      BY <1>0, <2>2 DEF at
    <3>3. f[next] \in Seq(Calls1)
      BY <3>2, <2>1
    <3>4. <<Call(body)>> \in Seq(Calls1)
      BY DEF Calls1
    <3> QED BY <3>1, <3>3, <3>4, <2>2
  <2> QED BY <2>2, <2>3, <2>4, <2>5, ParseStepFacts
<1>4. Len(s) \in 0..Len(s) /\ L - Len(s) = 1
  BY <1>0
<1> QED BY <1>2, <1>3, <1>4

-----------------------------------------------------------------------------
(* The end of a block, and a round of the loop. *)

\* The end of what is captured, which depends on the tag it begins with.
KindOf(s) == IF WrapperAt(s, 1) THEN Wrapper ELSE Invoke
End(s) == Close(s, KindOf(s))[2]
Released(x) == x.capturing /\ End(x.buf) # 0

\* A block becomes itself, or calls; never nothing.
LEMMA RecoveredType ==
    ASSUME NEW block \in Txt
    PROVE  /\ Recovered(block) \in Seq(OutType)
           /\ Recovered(block) = Atoms(block) \/ (Recovered(block) \in Seq(Calls1) /\ Recovered(block) # << >>)
<1>1. ParseInvokes(block) \in Seq(Calls1)
  BY ParseType
<1>2. Seq(Calls1) \subseteq Seq(OutType)
  BY DEF OutType
<1>3. Atoms(block) \in Seq(OutType)
  BY AtomsType
<1> QED BY <1>1, <1>2, <1>3 DEF Recovered

LEMMA ReleaseCases ==
    ASSUME NEW x \in ExtType
    PROVE  /\ Release(x) \in ExtType
           /\ ~Released(x) => Release(x) = x
           /\ Released(x) =>
                /\ End(x.buf) \in 2..(Len(x.buf) + 1)
                /\ Release(x) = [buf |-> From(x.buf, End(x.buf)), capturing |-> FALSE,
                                 out |-> x.out \o Recovered(SubSeq(x.buf, 1, End(x.buf) - 1))]
                /\ SubSeq(x.buf, 1, End(x.buf) - 1) \in Txt /\ Len(Release(x).buf) < Len(x.buf)
<1>1. x.buf \in Txt /\ x.out \in Seq(OutType) /\ Len(x.buf) \in Nat
  BY DEF ExtType, Txt
<1>2. CASE ~Released(x)
  BY <1>2 DEF Released, Release, End, KindOf
<1>3. CASE Released(x)
  <2> DEFINE e == End(x.buf)
  <2>1. KindOf(x.buf) \in Kinds /\ Close(x.buf, KindOf(x.buf)) # <<0, 0>>
    BY <1>3 DEF Released, End, KindOf, Kinds
  <2>2. e \in 2..(Len(x.buf) + 1)
    <3>1. PICK i \in 1..Len(x.buf), t \in Closing(KindOf(x.buf)) :
             Close(x.buf, KindOf(x.buf)) = <<i, i + Len(t)>> /\ i + Len(t) \in 2..(Len(x.buf) + 1)
      BY <1>1, <2>1, CloseFacts
    <3> QED BY <3>1 DEF End
  <2>3. Release(x) = [buf |-> From(x.buf, e), capturing |-> FALSE,
                      out |-> x.out \o Recovered(SubSeq(x.buf, 1, e - 1))]
    BY <1>3 DEF Released, Release, End, KindOf
  <2> HIDE DEF e
  <2>4. SubSeq(x.buf, 1, e - 1) \in Txt /\ From(x.buf, e) \in Txt /\ Len(From(x.buf, e)) < Len(x.buf)
    <3>1. e - 1 \in 0..Len(x.buf) /\ e \in 1..(Len(x.buf) + 1)
      BY <1>1, <2>2
    <3>2. SubSeq(x.buf, 1, e - 1) \in Txt /\ From(x.buf, e) \in Txt /\ Len(From(x.buf, e)) = Len(x.buf) - e + 1
      BY <1>1, <3>1, FrontFacts, FromFacts DEF Txt
    <3> QED BY <1>1, <2>2, <3>2
  <2>5. x.out \o Recovered(SubSeq(x.buf, 1, e - 1)) \in Seq(OutType)
    <3>1. Recovered(SubSeq(x.buf, 1, e - 1)) \in Seq(OutType)
      BY <2>4, RecoveredType
    <3> QED BY <1>1, <3>1
  <2>6. Release(x) \in ExtType /\ Release(x).buf = From(x.buf, e)
    BY <2>3, <2>4, <2>5 DEF ExtType
  <2> QED BY <1>3, <2>2, <2>3, <2>4, <2>6 DEF e
<1> QED BY <1>2, <1>3

LEMMA PlusType ==
    ASSUME NEW x \in ExtType, NEW r \in Txt
    PROVE  /\ Plus(x, r) \in ExtType /\ Plus(x, r).buf = x.buf \o r
           /\ Plus(x, r).capturing = x.capturing /\ Plus(x, r).out = x.out
           /\ Plus(x, r) = [buf |-> x.buf \o r, capturing |-> x.capturing, out |-> x.out]
<1>1. x.buf \o r \in Txt
  BY TxtConcat DEF ExtType
<1>2. Plus(x, r) = [buf |-> x.buf \o r, capturing |-> x.capturing, out |-> x.out]
  <2> DEFINE b == x.buf \o r
  <2>1. Plus(x, r) = [x EXCEPT !.buf = b]
    BY DEF Plus
  <2> HIDE DEF b
  <2>2. [x EXCEPT !.buf = b] = [buf |-> b, capturing |-> x.capturing, out |-> x.out]
    BY DEF ExtType
  <2> QED BY <2>1, <2>2 DEF b
<1>3. Plus(x, r) \in ExtType
  BY <1>1, <1>2 DEF ExtType
<1> QED BY <1>2, <1>3

LEMMA WholePlus ==
    ASSUME NEW x \in ExtType, NEW r \in Txt, Whole(x)
    PROVE  Whole(Plus(x, r))
<1> SUFFICES ASSUME x.capturing PROVE \E t \in PrefixTokens : At(x.buf \o r, 1, t)
  BY PlusType DEF Whole
<1>1. PICK t \in PrefixTokens : At(x.buf, 1, t)
  BY DEF Whole
<1>2. t \in Tags /\ t \in Txt /\ Len(t) >= 1 /\ 1 \in Nat /\ 1 # 0
  BY TagKinds, TagFacts
<1>3. x.buf \in Txt
  BY DEF ExtType
<1> QED BY <1>1, <1>2, <1>3, AtConcat

\* Whether a block is a wrapper is settled by its first tag.
LEMMA KindStays ==
    ASSUME NEW s \in Txt, NEW r \in Txt, NEW t \in PrefixTokens, At(s, 1, t)
    PROVE  KindOf(s \o r) = KindOf(s)
<1> DEFINE u == s \o r
<1>1. u \in Txt
  BY TxtConcat
<1>2. t \in Tags /\ t \in Txt /\ Len(t) >= 1 /\ Len(t) \in 3..6 /\ 1 \in Nat /\ 1 # 0
  BY TagKinds, TagFacts
<1>3. At(u, 1, t)
  BY <1>2, AtConcat
<1>4. WrapperAt(s, 1) => WrapperAt(u, 1)
  <2> SUFFICES ASSUME NEW v \in WrapperTags, At(s, 1, v) PROVE At(u, 1, v)
    BY WrapperIs
  <2>1. v \in Txt /\ Len(v) >= 1
    BY TagKinds, TagFacts
  <2> QED BY <2>1, <1>2, AtConcat
<1> HIDE DEF u
<1>5. WrapperAt(u, 1) => WrapperAt(s, 1)
  <2> SUFFICES ASSUME NEW v \in WrapperTags, At(u, 1, v) PROVE t \in WrapperTags
    BY WrapperIs
  <2>1. v \in Tags /\ v \in Txt /\ Len(v) >= 1 /\ Len(v) \in 3..6
    BY TagKinds, TagFacts
  <2>2. /\ \A k \in 1..Len(t) : u[1 + k - 1] = t[k]
        /\ \A k \in 1..Len(v) : u[1 + k - 1] = v[k]
    BY <1>1, <1>2, <1>3, <2>1, AtIs
  <2>3. \A n \in 3..6 : 2 \in 1..n /\ 3 \in 1..n
    OBVIOUS
  <2>4. 2 \in 1..Len(t) /\ 3 \in 1..Len(t) /\ 2 \in 1..Len(v) /\ 3 \in 1..Len(v)
    BY <1>2, <2>1, <2>3, Zenon
  <2>5. t[2] = v[2] /\ t[3] = v[3]
    BY <2>2, <2>4
  <2>6. v = <<"<", "f", ">">> \/ v = <<"<", ":", "f", ">">>
    BY TagsAre DEF WrapperTags
  <2>7. t # <<"<", "n", "v">> /\ t # <<"<", ":", "n", "v">>
    <3>1. v[2] = "f" \/ (v[2] = ":" /\ v[3] = "f")
      BY <2>6
    <3>2. t[2] = "f" \/ (t[2] = ":" /\ t[3] = "f")
      BY <2>5, <3>1
    <3> QED BY <3>2
  <2>8. t \notin Opening(Invoke)
    BY <2>7, TagsAre
  <2> QED BY <2>8, TagKinds
<1> QED BY <1>4, <1>5 DEF KindOf, u

LEMMA ReleaseStays ==
    ASSUME NEW x \in ExtType, NEW r \in Txt, Whole(x), Released(x)
    PROVE  Released(Plus(x, r)) /\ Release(Plus(x, r)) = Plus(Release(x), r)
<1> DEFINE s == x.buf  e == End(s)  u == s \o r
<1>1. s \in Txt /\ u \in Txt /\ Len(s) \in Nat /\ x.capturing
  BY TxtConcat DEF ExtType, Released
<1>2. PICK t \in PrefixTokens : At(s, 1, t)
  BY <1>1 DEF Whole
<1>3. End(u) = e
  <2>1. KindOf(u) = KindOf(s) /\ KindOf(s) \in Kinds
    <3> HIDE DEF s
    <3> QED BY <1>1, <1>2, KindStays DEF u, KindOf, Kinds
  <2>2. Close(s, KindOf(s))[2] # 0
    BY DEF Released, End
  <2>3. Close(u, KindOf(s)) = Close(s, KindOf(s))
    <3> HIDE DEF s
    <3> QED BY <1>1, <2>1, <2>2, CloseStays DEF u
  <2> QED BY <2>1, <2>3 DEF End
<1>4. /\ Plus(x, r) \in ExtType /\ Plus(x, r).buf = u
      /\ Plus(x, r).capturing = x.capturing /\ Plus(x, r).out = x.out
  BY PlusType
<1>5. Released(Plus(x, r))
  BY <1>1, <1>3, <1>4 DEF Released
<1>6. /\ e \in 2..(Len(s) + 1)
      /\ Release(x) = [buf |-> From(s, e), capturing |-> FALSE,
                       out |-> x.out \o Recovered(SubSeq(s, 1, e - 1))]
      /\ Release(x) \in ExtType
  BY ReleaseCases
<1>7. Release(Plus(x, r)) = [buf |-> From(u, e), capturing |-> FALSE,
                             out |-> x.out \o Recovered(SubSeq(u, 1, e - 1))]
  <2> DEFINE p == Plus(x, r)
  <2>1. p \in ExtType /\ Released(p) /\ p.buf = u /\ p.out = x.out /\ End(p.buf) = e
    BY <1>3, <1>4, <1>5
  <2> HIDE DEF p, u, e
  <2>2. Release(p) = [buf |-> From(p.buf, End(p.buf)), capturing |-> FALSE,
                      out |-> p.out \o Recovered(SubSeq(p.buf, 1, End(p.buf) - 1))]
    BY <2>1, ReleaseCases
  <2> QED BY <2>1, <2>2 DEF p
<1> HIDE DEF e, s
<1>8. From(u, e) = From(s, e) \o r /\ SubSeq(u, 1, e - 1) = SubSeq(s, 1, e - 1)
  <2>1. e \in 1..(Len(s) + 1) /\ e - 1 \in 0..Len(s)
    BY <1>1, <1>6
  <2> QED BY <1>1, <2>1, FromConcat, FrontConcat DEF Txt
<1>9. Plus(Release(x), r) = [buf |-> From(s, e) \o r, capturing |-> FALSE,
                             out |-> x.out \o Recovered(SubSeq(s, 1, e - 1))]
  <2> DEFINE y == Release(x)
  <2>1. y \in ExtType
    BY <1>6
  <2>2. Plus(y, r) = [buf |-> y.buf \o r, capturing |-> y.capturing, out |-> y.out]
    <3> HIDE DEF y
    <3> QED BY <2>1, PlusType
  <2> QED BY <2>2, <1>6
<1> QED BY <1>5, <1>7, <1>8, <1>9

\* The bare word invoke was taken for a block, and more of the word follows.
Early(x, r) == x.capturing /\ Bare(x.buf) /\ GoesOn(r)

LEMMA WholeCapture ==
    ASSUME NEW x \in ExtType, Whole(x)
    PROVE  Whole(Capture(x))
<1>1. CASE x.capturing
  BY <1>1, CaptureCases
<1>2. CASE ~x.capturing /\ Triggers(x.buf) = {}
  BY <1>2, CaptureNone DEF Whole
<1>3. CASE ~x.capturing /\ Triggers(x.buf) # {}
  <2> DEFINE s == x.buf  i == Least(Triggers(x.buf))
  <2>1. i \in 1..Len(s) /\ TriggerAt(s, i) /\ Capture(x).buf = From(s, i)
    BY <1>3, CaptureSome
  <2> HIDE DEF i
  <2>2. s \in Txt /\ Len(s) \in Nat
    BY DEF ExtType, Txt
  <2>3. i - 1 \in 0..Len(s) /\ i - 1 + 1 = i /\ 1 \in Nat /\ 1 # 0
    BY <2>1, <2>2
  <2>4. PICK t \in PrefixTokens : At(s, i, t)
    BY <2>1, WrapperIs, TagKinds DEF TriggerAt, InvokeAt
  <2>5. t \in Txt /\ Len(t) >= 1
    BY TagKinds, TagFacts
  <2>6. At(From(s, i - 1 + 1), 1, t) <=> At(s, i - 1 + 1, t)
    <3> HIDE DEF s
    <3> QED BY <2>2, <2>3, <2>5, AtFrom
  <2>7. At(Capture(x).buf, 1, t)
    BY <2>1, <2>3, <2>4, <2>6
  <2> QED BY <2>7 DEF Whole
<1> QED BY <1>1, <1>2, <1>3

\* A block that has begun begins just the same when more comes,
LEMMA CaptureStays ==
    ASSUME NEW x \in ExtType, NEW r \in Txt, Capture(x).capturing, ~Early(Capture(x), r)
    PROVE  Capture(Plus(x, r)) = Plus(Capture(x), r)
<1> DEFINE s == x.buf  u == s \o r  p == Plus(x, r)
<1>0. s \in Txt /\ u \in Txt /\ Len(s) \in Nat /\ Len(u) = Len(s) + Len(r) /\ Len(r) \in Nat
  BY TxtConcat DEF ExtType
<1>1. p \in ExtType /\ p.buf = u /\ p.capturing = x.capturing /\ p.out = x.out
  BY PlusType
<1>2. CASE x.capturing
  <2>1. Capture(x) = x
    BY <1>2, CaptureCases
  <2>2. Capture(p) = p
    <3> HIDE DEF p
    <3> QED BY <1>1, <1>2, CaptureCases
  <2> QED BY <2>1, <2>2
<1>3. CASE ~x.capturing
  <2>1. Triggers(s) # {}
    BY <1>3, CaptureNone
  <2> DEFINE i == Least(Triggers(s))
  <2>2. /\ i \in 1..Len(s)
        /\ Capture(x) = [buf |-> From(s, i), capturing |-> TRUE, out |-> x.out \o Atoms(SubSeq(s, 1, i - 1))]
        /\ Capture(x) \in ExtType
    BY <1>3, <2>1, CaptureCases
  <2>3. ~(Bare(From(s, i)) /\ GoesOn(r))
    BY <2>2 DEF Early
  <2>4. Triggers(u) # {} /\ Least(Triggers(u)) = i
    BY <1>0, <2>1, <2>3, FirstStays
  <2>5. Capture(p) = [buf |-> From(u, i), capturing |-> TRUE, out |-> x.out \o Atoms(SubSeq(u, 1, i - 1))]
    <3>1. p \in ExtType /\ ~p.capturing /\ Triggers(p.buf) # {} /\ Least(Triggers(p.buf)) = i /\ p.buf = u
          /\ p.out = x.out
      BY <1>1, <1>3, <2>4
    <3> HIDE DEF p, i, u, s
    <3>2. LET j == Least(Triggers(p.buf))
          IN  Capture(p) = [buf |-> From(p.buf, j), capturing |-> TRUE, out |-> p.out \o Atoms(SubSeq(p.buf, 1, j - 1))]
      BY <3>1, CaptureCases
    <3> QED BY <3>1, <3>2
  <2> HIDE DEF i
  <2>6. From(u, i) = From(s, i) \o r /\ SubSeq(u, 1, i - 1) = SubSeq(s, 1, i - 1)
    <3>1. i \in 1..(Len(s) + 1) /\ i - 1 \in 0..Len(s)
      BY <1>0, <2>2
    <3> QED BY <1>0, <3>1, FromConcat, FrontConcat DEF Txt
  <2>7. Plus(Capture(x), r) = [buf |-> From(s, i) \o r, capturing |-> TRUE,
                               out |-> x.out \o Atoms(SubSeq(s, 1, i - 1))]
    <3> DEFINE y == Capture(x)
    <3>1. y \in ExtType
      BY <2>2
    <3>2. Plus(y, r) = [buf |-> y.buf \o r, capturing |-> y.capturing, out |-> y.out]
      <4> HIDE DEF y
      <4> QED BY <3>1, PlusType
    <3> QED BY <3>2, <2>2
  <2> QED BY <2>5, <2>6, <2>7 DEF p
<1> QED BY <1>2, <1>3

\* and if none has begun, what is held back is all that matters.
LEMMA NoneBefore ==
    ASSUME NEW s \in Txt, NEW r \in Txt, Triggers(s) = {}
    PROVE  \A i \in Triggers(s \o r) : i > Len(s) - HeldBack(s)
<1> DEFINE u == s \o r
<1> SUFFICES ASSUME NEW i \in Triggers(u), ~(i > Len(s) - HeldBack(s)) PROVE FALSE
  OBVIOUS
<1>1. /\ u \in Txt /\ Len(s) \in Nat /\ Len(r) \in Nat /\ Len(u) = Len(s) + Len(r)
      /\ \A k \in 1..Len(s) : u[k] = s[k]
  BY TxtConcat
<1>2. HeldBack(s) \in 0..Len(s) /\ \A k \in 1..Len(s) : Partial(s, k) => k <= HeldBack(s)
  BY HeldFacts
<1>3. i \in 1..Len(u) /\ TriggerAt(u, i)
  <2> HIDE DEF u
  <2> QED BY <1>1, TriggersIs
<1>4. i \in 1..Len(s) /\ i \in Nat /\ i # 0 /\ Len(s) - i + 1 \in 1..Len(s) /\ ~(Len(s) - i + 1 <= HeldBack(s))
  BY <1>1, <1>2, <1>3
<1>5. ~TriggerAt(s, i)
  BY <1>4, TriggersIs
<1>6. ASSUME NEW t \in PrefixTokens, At(u, i, t) PROVE At(s, i, t) /\ i + Len(t) - 1 <= Len(s)
  <2>1. t \in Txt /\ Len(t) >= 1
    BY TagKinds, TagFacts
  <2>2. i + Len(t) - 1 <= Len(s)
    BY <1>2, <1>4, <1>6, CutIsPartial
  <2> QED BY <1>4, <1>6, <2>1, <2>2, AtConcat
<1> HIDE DEF u
<1>7. CASE WrapperAt(u, i)
  <2>1. WrapperAt(s, i)
    BY <1>6, <1>7, WrapperIs, TagKinds
  <2> QED BY <2>1, <1>5 DEF TriggerAt
<1>8. CASE InvokeAt(u, i)
  <2>1. PICK t \in Opening(Invoke) : At(u, i, t) /\ (i + Len(t) <= Len(u) => u[i + Len(t)] \notin Words)
    BY <1>8 DEF InvokeAt
  <2>2. At(s, i, t) /\ Len(t) \in 3..6
    BY <1>6, <2>1, TagKinds, TagFacts
  <2>3. i + Len(t) <= Len(s) => s[i + Len(t)] \notin Words
    <3> SUFFICES ASSUME i + Len(t) <= Len(s) PROVE s[i + Len(t)] \notin Words
      OBVIOUS
    <3>1. i + Len(t) \in 1..Len(s) /\ i + Len(t) <= Len(u)
      BY <1>1, <1>4, <2>2
    <3> QED BY <3>1, <2>1, <1>1
  <2>4. InvokeAt(s, i)
    BY <2>2, <2>3 DEF InvokeAt
  <2> QED BY <2>4, <1>5 DEF TriggerAt
<1> QED BY <1>3, <1>7, <1>8 DEF TriggerAt

LEMMA OutAssociative ==
    \A a, b, c \in Seq(OutType) : (a \o b) \o c = a \o (b \o c)
  BY ConcatAssociative

LEMMA CaptureAgain ==
    ASSUME NEW x \in ExtType, NEW r \in Txt, ~Capture(x).capturing
    PROVE  Capture(Plus(x, r)) = Capture(Plus(Capture(x), r))
<1> DEFINE s == x.buf  u == s \o r  p == Plus(x, r)  keep == Len(s) - HeldBack(s)
           y == Capture(x)  h == y.buf  q == Plus(y, r)  w == h \o r
           front == Atoms(SubSeq(s, 1, keep))
<1>0. /\ s \in Txt /\ u \in Txt /\ Len(s) \in Nat /\ Len(r) \in Nat /\ Len(u) = Len(s) + Len(r)
      /\ x.out \in Seq(OutType)
  BY TxtConcat DEF ExtType
<1>1. ~x.capturing /\ Triggers(s) = {}
  BY CaptureCases, CaptureSome
<1>2. /\ keep \in 0..Len(s) /\ h = From(s, keep + 1) /\ ~y.capturing /\ y.out = x.out \o front
  BY <1>1, CaptureNone
<1>3. y \in ExtType
  BY CaptureCases
<1>4. p \in ExtType /\ p.buf = u /\ ~p.capturing /\ p.out = x.out
  BY <1>1, PlusType
<1>5. q \in ExtType /\ q.buf = w /\ ~q.capturing /\ q.out = x.out \o front
  <2>1. \A z \in ExtType : Plus(z, r) \in ExtType /\ Plus(z, r).buf = z.buf \o r
           /\ Plus(z, r).capturing = z.capturing /\ Plus(z, r).out = z.out
    BY PlusType
  <2> HIDE DEF y
  <2> QED BY <1>2, <1>3, <2>1
<1>6. HeldBack(s) \in 0..Len(s) /\ \A k \in 1..Len(s) : Partial(s, k) => k <= HeldBack(s)
  BY <1>0, HeldFacts
<1>7. /\ h \in Txt /\ Len(h) = HeldBack(s) /\ w = From(u, keep + 1) /\ Len(w) = Len(u) - keep
      /\ keep + 1 \in 1..(Len(s) + 1) /\ keep \in Nat /\ keep \in 0..Len(u) /\ w \in Txt
  <2>1. keep + 1 \in 1..(Len(s) + 1) /\ keep \in Nat /\ keep \in 0..Len(u) /\ Len(s) - (keep + 1) + 1 = HeldBack(s)
    BY <1>0, <1>2, <1>6
  <2> HIDE DEF keep, s, y
  <2>2. h \in Txt /\ Len(h) = HeldBack(s)
    BY <1>0, <1>2, <2>1, FromFacts DEF Txt
  <2>3. w = From(u, keep + 1)
    BY <1>0, <1>2, <2>1, FromConcat DEF Txt
  <2>4. Len(w) = Len(h) + Len(r) /\ w \in Txt
    BY <2>2, TxtConcat
  <2>5. Len(w) = Len(u) - keep
    BY <2>2, <2>4, <1>0, <1>6 DEF keep
  <2> QED BY <2>1, <2>2, <2>3, <2>4, <2>5
<1>8. SubSeq(s, 1, keep) = SubSeq(u, 1, keep) /\ SubSeq(u, 1, keep) \in Txt
  <2> HIDE DEF keep, s
  <2> QED BY <1>0, <1>2, <1>7, FrontConcat, FrontFacts DEF Txt
<1> HIDE DEF p, q, y
<1>9. \A i \in Triggers(u) : i > keep
  <2> HIDE DEF s
  <2> QED BY <1>0, <1>1, NoneBefore
<1> HIDE DEF keep, h
<1>10. \A j \in Nat : j # 0 => (TriggerAt(w, j) <=> TriggerAt(u, keep + j))
  <2> HIDE DEF u, w
  <2> QED BY <1>0, <1>7, TriggerShift
<1>11. \A j : j \in Triggers(w) <=> j \in Nat /\ j # 0 /\ keep + j \in Triggers(u)
  <2> HIDE DEF u, w
  <2>1. \A i : i \in Triggers(u) <=> i \in 1..Len(u) /\ TriggerAt(u, i)
    BY <1>0, TriggersIs
  <2>2. \A i : i \in Triggers(w) <=> i \in 1..Len(w) /\ TriggerAt(w, i)
    BY <1>7, TriggersIs
  <2>3. \A j : j \in 1..Len(w) <=> j \in Nat /\ j # 0 /\ keep + j \in 1..Len(u)
    BY <1>0, <1>7, SMTT(40)
  <2> QED BY <2>1, <2>2, <2>3, <1>10
<1> HIDE DEF s, u, w
<1>12. Triggers(u) \in SUBSET Nat /\ Triggers(w) \in SUBSET Nat
  BY <1>0, <1>7, TriggersIs
\* All the text up to n of w, in either way.
<1>13. \A n \in 0..Len(w) : (x.out \o front) \o Atoms(SubSeq(w, 1, n)) = x.out \o Atoms(SubSeq(u, 1, keep + n))
  <2> SUFFICES ASSUME NEW n \in 0..Len(w)
               PROVE  (x.out \o front) \o Atoms(SubSeq(w, 1, n)) = x.out \o Atoms(SubSeq(u, 1, keep + n))
    OBVIOUS
  <2> DEFINE a == SubSeq(u, 1, keep)  b == SubSeq(w, 1, n)  c == SubSeq(u, 1, keep + n)
  <2>1. b \in Txt /\ Len(b) = n /\ \A j \in 1..n : b[j] = w[j]
    BY <1>7, FrontFacts DEF Txt
  <2>2. keep + n \in 0..Len(u)
    BY <1>0, <1>7
  <2>3. c \in Txt /\ Len(c) = keep + n /\ \A j \in 1..(keep + n) : c[j] = u[j]
    BY <1>0, <2>2, FrontFacts DEF Txt
  <2>4. a \in Txt /\ Len(a) = keep /\ \A j \in 1..keep : a[j] = u[j]
    BY <1>0, <1>7, FrontFacts DEF Txt
  <2>5. \A j \in 1..n : w[j] = u[keep + j]
    <3>1. keep + 1 \in 1..(Len(u) + 1)
      BY <1>0, <1>7
    <3>2. \A j \in 1..(Len(u) - (keep + 1) + 1) : w[j] = u[(keep + 1) + j - 1]
      BY <1>0, <1>7, <3>1, FromFacts DEF Txt
    <3>3. \A j \in 1..n : j \in 1..(Len(u) - (keep + 1) + 1) /\ (keep + 1) + j - 1 = keep + j
      BY <1>0, <1>7
    <3> QED BY <3>2, <3>3
  <2> HIDE DEF a, b, c
  <2>6. a \o b = c
    <3>1. Len(c) = Len(a) + Len(b)
      BY <2>1, <2>3, <2>4
    <3>2. \A j \in 1..Len(a) : c[j] = a[j]
      BY <2>3, <2>4, <1>7
    <3>3. \A j \in 1..Len(b) : c[Len(a) + j] = b[j]
      <4> SUFFICES ASSUME NEW j \in 1..n PROVE c[keep + j] = b[j]
        BY <2>1, <2>4
      <4>1. keep + j \in 1..(keep + n)
        BY <1>7
      <4> QED BY <4>1, <2>1, <2>3, <2>5
    <3> QED BY <2>1, <2>3, <2>4, <3>1, <3>2, <3>3, ConcatIs DEF Txt
  <2>7. Atoms(c) = Atoms(a) \o Atoms(b) /\ Atoms(a) \in Seq(OutType) /\ Atoms(b) \in Seq(OutType)
    BY <2>1, <2>4, <2>6, AtomsConcat, AtomsType
  <2>8. (x.out \o Atoms(a)) \o Atoms(b) = x.out \o (Atoms(a) \o Atoms(b))
    <3> DEFINE aa == Atoms(a)  bb == Atoms(b)
    <3>1. aa \in Seq(OutType) /\ bb \in Seq(OutType)
      BY <2>7
    <3> HIDE DEF aa, bb
    <3>2. (x.out \o aa) \o bb = x.out \o (aa \o bb)
      <4>1. x.out \in Seq(OutType)
        BY <1>0
      <4> QED BY <4>1, <3>1, OutAssociative
    <3> QED BY <3>2 DEF aa, bb
  <2>9. front = Atoms(a)
    BY <1>8 DEF a
  <2> QED BY <2>7, <2>8, <2>9 DEF b, c
<1> HIDE DEF front
<1>14. CASE Triggers(u) # {}
  <2> DEFINE i == Least(Triggers(u))  j == i - keep
  <2>1. i \in Triggers(u) /\ \A k \in Triggers(u) : i <= k
    BY <1>12, <1>14, LeastFacts
  <2> HIDE DEF i
  <2>2. i \in Nat /\ i > keep /\ j \in Nat /\ j # 0 /\ keep + j = i
    BY <2>1, <1>7, <1>9, <1>12
  <2>3. j \in Triggers(w)
    BY <2>1, <2>2, <1>11
  <2>4. \A k \in Triggers(w) : j <= k
    <3> SUFFICES ASSUME NEW k \in Triggers(w) PROVE j <= k
      OBVIOUS
    <3>1. k \in Nat /\ keep + k \in Triggers(u)
      BY <1>11
    <3> QED BY <3>1, <2>1, <2>2, <1>7
  <2>5. Least(Triggers(w)) = j /\ Triggers(w) # {}
    <3> HIDE DEF j
    <3> QED BY <2>3, <2>4, <1>12, LeastIs
  <2>6. /\ i \in 1..Len(u)
        /\ Capture(p) = [buf |-> From(u, i), capturing |-> TRUE, out |-> x.out \o Atoms(SubSeq(u, 1, i - 1))]
    BY <1>4, <1>14, CaptureSome DEF i
  <2>7. /\ j \in 1..Len(w)
        /\ Capture(q) = [buf |-> From(w, j), capturing |-> TRUE,
                         out |-> (x.out \o front) \o Atoms(SubSeq(w, 1, j - 1))]
    <3> HIDE DEF j
    <3> QED BY <1>5, <2>5, CaptureSome
  <2>8. From(w, j) = From(u, i)
    <3>1. keep + 1 \in 1..(Len(u) + 1) /\ j \in 1..(Len(u) - (keep + 1) + 2) /\ (keep + 1) + j - 1 = i
      BY <1>0, <1>7, <2>2, <2>6
    <3> HIDE DEF j
    <3>2. From(From(u, keep + 1), j) = From(u, (keep + 1) + j - 1)
      BY <1>0, <3>1, FromFrom DEF Txt
    <3> QED BY <1>7, <3>1, <3>2
  <2>9. j - 1 \in 0..Len(w) /\ keep + (j - 1) = i - 1
    BY <1>0, <1>7, <2>2, <2>7
  <2> HIDE DEF j
  <2>10. (x.out \o front) \o Atoms(SubSeq(w, 1, j - 1)) = x.out \o Atoms(SubSeq(u, 1, i - 1))
    BY <2>9, <1>13
  <2> QED BY <2>6, <2>7, <2>8, <2>10 DEF p, q, y
<1>15. CASE Triggers(u) = {}
  <2>1. Triggers(w) = {}
    BY <1>11, <1>15
  <2>2. HeldBack(u) \in 0..Len(u) /\ (HeldBack(u) # 0 => Partial(u, HeldBack(u)))
    BY <1>0, HeldFacts
  <2>3. HeldBack(u) <= Len(u) - keep
    <3> SUFFICES ASSUME ~(HeldBack(u) <= Len(u) - keep) PROVE FALSE
      OBVIOUS
    <3> DEFINE k == HeldBack(u) - Len(r)
    <3>1. k \in 1..Len(s) /\ k + Len(r) = HeldBack(u) /\ HeldBack(u) # 0 /\ ~(k <= HeldBack(s))
      BY <1>0, <1>6, <1>7, <2>2, SMTT(40) DEF keep
    <3> HIDE DEF k
    <3>2. Partial(s, k)
      BY <1>0, <2>2, <3>1, PartialConcat DEF u
    <3> QED BY <1>6, <3>1, <3>2
  <2>4. HeldBack(w) = HeldBack(u)
    BY <1>0, <1>7, <2>3, HeldShift
  <2> DEFINE m == Len(u) - HeldBack(u)  n == Len(w) - HeldBack(w)
  <2>5. keep + n = m /\ n \in 0..Len(w) /\ (keep + 1) + (n + 1) - 1 = m + 1 /\ keep + 1 \in 1..(Len(u) + 1)
        /\ n + 1 \in 1..(Len(u) - (keep + 1) + 2)
    <3>1. HeldBack(u) \in Nat /\ HeldBack(u) <= Len(u) - keep /\ Len(u) \in Nat
      BY <1>0, <2>2, <2>3
    <3>2. keep \in Nat /\ Len(w) = Len(u) - keep
      BY <1>7
    <3>3. keep + n = m
      BY <2>4, <3>1, <3>2
    <3>4. n \in 0..Len(w) /\ n \in Nat /\ keep + 1 \in 1..(Len(u) + 1)
      BY <2>4, <3>1, <3>2
    <3>5. (keep + 1) + (n + 1) - 1 = m + 1
      BY <3>1, <3>2, <3>3, <3>4, SMTT(40)
    <3>6. n + 1 \in 1..(Len(u) - (keep + 1) + 2)
      BY <3>1, <3>2, <3>4
    <3> QED BY <3>3, <3>4, <3>5, <3>6
  <2>6. Capture(p) = [buf |-> From(u, m + 1), capturing |-> FALSE, out |-> x.out \o Atoms(SubSeq(u, 1, m))]
    BY <1>4, <1>15, CaptureNone
  <2>7. Capture(q) = [buf |-> From(w, n + 1), capturing |-> FALSE,
                      out |-> (x.out \o front) \o Atoms(SubSeq(w, 1, n))]
    BY <1>5, <2>1, CaptureNone, ZenonT(60)
  <2> HIDE DEF m, n
  <2>8. From(w, n + 1) = From(u, m + 1)
    <3>1. From(From(u, keep + 1), n + 1) = From(u, (keep + 1) + (n + 1) - 1)
      BY <1>0, <2>5, FromFrom DEF Txt
    <3> QED BY <1>7, <2>5, <3>1
  <2>9. (x.out \o front) \o Atoms(SubSeq(w, 1, n)) = x.out \o Atoms(SubSeq(u, 1, m))
    BY <1>13, <2>5
  <2> QED BY <2>6, <2>7, <2>8, <2>9 DEF p, q, y
<1> QED BY <1>14, <1>15

-----------------------------------------------------------------------------
(* A round with more text behind it. *)

\* A round never has more to hold than before.
LEMMA CaptureShorter ==
    ASSUME NEW x \in ExtType
    PROVE  Capture(x) \in ExtType /\ Len(Capture(x).buf) <= Len(x.buf) /\ Len(x.buf) \in Nat
<1>0. x.buf \in Txt /\ Len(x.buf) \in Nat
  BY DEF ExtType, Txt
<1>1. ASSUME NEW i \in 1..(Len(x.buf) + 1), Capture(x).buf = From(x.buf, i) PROVE Len(Capture(x).buf) <= Len(x.buf)
  <2>1. Len(From(x.buf, i)) = Len(x.buf) - i + 1
    BY <1>0, FromFacts DEF Txt
  <2> QED BY <1>0, <1>1, <2>1
<1>2. CASE x.capturing
  <2>1. Capture(x) = x
    BY <1>2, CaptureCases
  <2> QED BY <1>0, <2>1
<1>3. CASE ~x.capturing /\ Triggers(x.buf) # {}
  <2> DEFINE i == Least(Triggers(x.buf))
  <2>1. i \in 1..Len(x.buf) /\ Capture(x).buf = From(x.buf, i)
    BY <1>3, CaptureSome
  <2> HIDE DEF i
  <2>2. i \in 1..(Len(x.buf) + 1)
    BY <1>0, <2>1
  <2> QED BY <1>0, <1>1, <2>1, <2>2, CaptureCases
<1>4. CASE ~x.capturing /\ Triggers(x.buf) = {}
  <2> DEFINE keep == Len(x.buf) - HeldBack(x.buf)
  <2>1. keep \in 0..Len(x.buf) /\ Capture(x).buf = From(x.buf, keep + 1)
    BY <1>4, CaptureNone
  <2> HIDE DEF keep
  <2>2. keep + 1 \in 1..(Len(x.buf) + 1)
    BY <1>0, <2>1
  <2> QED BY <1>0, <1>1, <2>1, <2>2, CaptureCases
<1>5. x.capturing \in BOOLEAN
  BY DEF ExtType
<1> QED BY <1>2, <1>3, <1>4, <1>5

LEMMA RoundType ==
    ASSUME NEW x \in ExtType, Whole(x)
    PROVE  /\ Round(x) \in ExtType /\ Whole(Round(x))
           /\ Len(Round(x).buf) \in Nat /\ Len(x.buf) \in Nat
<1> DEFINE y == Capture(x)
<1>1. y \in ExtType /\ Whole(y)
  BY CaptureCases, WholeCapture
<1> HIDE DEF y
<1>2. Release(y) \in ExtType
  BY <1>1, ReleaseCases
<1>3. Whole(Release(y))
  <2>1. CASE ~Released(y)
    BY <2>1, <1>1, ReleaseCases
  <2>2. CASE Released(y)
    <3>1. Release(y) = [buf |-> From(y.buf, End(y.buf)), capturing |-> FALSE,
                        out |-> y.out \o Recovered(SubSeq(y.buf, 1, End(y.buf) - 1))]
      BY <2>2, <1>1, ReleaseCases
    <3>2. ~Release(y).capturing
      BY <3>1
    <3> QED BY <3>2 DEF Whole
  <2> QED BY <2>1, <2>2
<1>4. \A z \in ExtType : Len(z.buf) \in Nat
  BY DEF ExtType, Txt
<1> QED BY <1>2, <1>3, <1>4 DEF Round, y

\* A round of more text: a block that is complete stays what it was, and without one the round
\* may as well come later.
LEMMA RoundPlus ==
    ASSUME NEW x \in ExtType, Whole(x), NEW r \in Txt, ~Early(Capture(x), r)
    PROVE  \/ Round(Plus(x, r)) = Plus(Round(x), r) /\ Len(Round(x).buf) < Len(x.buf)
           \/ Round(Plus(x, r)) = Round(Plus(Round(x), r))
<1> DEFINE y == Capture(x)
<1>1. y \in ExtType /\ Whole(y) /\ Len(y.buf) <= Len(x.buf) /\ Len(x.buf) \in Nat
  BY CaptureShorter, WholeCapture
<1>2. CASE Released(y)
  <2>1. y.capturing
    BY <1>2 DEF Released
  <2>2. Capture(Plus(x, r)) = Plus(y, r)
    BY <2>1, CaptureStays
  <2> HIDE DEF y
  <2>3. Release(Plus(y, r)) = Plus(Release(y), r)
    BY <1>1, <1>2, ReleaseStays
  <2>4. Len(Release(y).buf) < Len(y.buf) /\ Release(y) \in ExtType
    BY <1>1, <1>2, ReleaseCases
  <2>5. Len(Release(y).buf) < Len(x.buf)
    <3>1. \A z \in ExtType : Len(z.buf) \in Nat
      BY DEF ExtType, Txt
    <3> QED BY <1>1, <2>4, <3>1
  <2> QED BY <2>2, <2>3, <2>5 DEF Round, y
<1>3. CASE ~Released(y)
  <2>1. Release(y) = y
    <3> HIDE DEF y
    <3> QED BY <1>1, <1>3, ReleaseCases
  <2>2. Capture(Plus(x, r)) = Capture(Plus(y, r))
    <3>1. CASE y.capturing
      <4>1. Capture(Plus(x, r)) = Plus(y, r)
        BY <3>1, CaptureStays
      <4>2. Capture(Plus(y, r)) = Plus(y, r)
        <5> HIDE DEF y
        <5>1. Plus(y, r) \in ExtType /\ Plus(y, r).capturing
          BY <1>1, <3>1, PlusType
        <5> QED BY <5>1, CaptureCases
      <4> QED BY <4>1, <4>2
    <3>2. CASE ~y.capturing
      BY <3>2, CaptureAgain
    <3> QED BY <3>1, <3>2
  <2> QED BY <2>1, <2>2 DEF Round
<1> QED BY <1>2, <1>3

LEMMA PlusNothing ==
    ASSUME NEW x \in ExtType
    PROVE  Plus(x, << >>) = x /\ << >> \in Txt /\ ~GoesOn(<< >>)
<1>1. x.buf \o << >> = x.buf
  BY DEF ExtType, Txt
<1>2. x = [buf |-> x.buf, capturing |-> x.capturing, out |-> x.out]
  BY DEF ExtType
<1>3. << >> \in Txt
  BY DEF Txt
<1>4. Plus(x, << >>) = [buf |-> x.buf \o << >>, capturing |-> x.capturing, out |-> x.out]
  BY <1>3, PlusType
<1> QED BY <1>1, <1>2, <1>3, <1>4 DEF GoesOn

LEMMA RoundRests ==
    ASSUME NEW x \in ExtType, Whole(x)
    PROVE  Len(Round(x).buf) < Len(x.buf) \/ Round(Round(x)) = Round(x)
<1>1. Round(x) \in ExtType
  BY RoundType
<1>2. Plus(x, << >>) = x /\ << >> \in Txt /\ ~Early(Capture(x), << >>)
  BY PlusNothing DEF Early
<1>3. Plus(Round(x), << >>) = Round(x)
  <2> DEFINE y == Round(x)
  <2> HIDE DEF y
  <2>1. y \in ExtType
    BY <1>1 DEF y
  <2> QED BY <2>1, PlusNothing DEF y
<1>4. \/ Round(Plus(x, << >>)) = Plus(Round(x), << >>) /\ Len(Round(x).buf) < Len(x.buf)
      \/ Round(Plus(x, << >>)) = Round(Plus(Round(x), << >>))
  BY <1>2, RoundPlus
<1> QED BY <1>2, <1>3, <1>4

\* The bare word is no block yet.
LEMMA BareRests ==
    ASSUME NEW x \in ExtType, Whole(x), Capture(x).capturing, Bare(Capture(x).buf)
    PROVE  Round(x) = Capture(x) /\ Round(Round(x)) = Round(x)
<1> DEFINE y == Capture(x)  s == y.buf
<1>1. y \in ExtType /\ s \in Txt
  BY CaptureCases DEF ExtType
<1>2. \A i \in 1..Len(s) : s[i] # "/"
  <2>1. s = <<"<", "n", "v">> \/ s = <<"<", ":", "n", "v">>
    BY TagsAre DEF Bare
  <2> HIDE DEF s
  <2>2. CASE s = <<"<", "n", "v">>
    BY <2>2
  <2>3. CASE s = <<"<", ":", "n", "v">>
    BY <2>3
  <2> QED BY <2>1, <2>2, <2>3
<1> HIDE DEF s
<1>3. ASSUME NEW tag \in Kinds, NEW i \in 1..Len(s), ClosedAt(s, tag, i) PROVE FALSE
  <2>1. PICK t \in Closing(tag) : At(s, i, t)
    BY <1>3 DEF ClosedAt
  <2>2. t \in Txt /\ Len(t) \in 3..6 /\ t \in Tags /\ i \in Nat /\ i # 0
    BY ClosingFacts
  <2>4. Len(t) \in Int /\ Len(t) >= 2 /\ Len(t) >= 1
    <3>1. \A n \in 3..6 : n \in Int /\ n >= 2 /\ n >= 1
      OBVIOUS
    <3>2. Len(t) \in 3..6
      BY <2>2
    <3> QED BY <3>1, <3>2, Zenon
  <2>3. i + Len(t) - 1 <= Len(s) /\ \A k \in 1..Len(t) : s[i + k - 1] = t[k]
    BY <1>1, <2>1, <2>2, <2>4, AtIs
  <2>5. 2 \in 1..Len(t)
    BY <2>4
  <2>6. i + 2 - 1 \in 1..Len(s)
    <3>1. Len(s) \in Int /\ i + Len(t) - 1 <= Len(s)
      BY <2>3
    <3> QED BY <2>4, <3>1
  <2>7. t[2] = "/"
    BY TagsAre DEF Kinds
  <2> QED BY <2>3, <2>5, <2>6, <2>7, <1>2
<1>4. End(s) = 0
  <2>1. KindOf(s) \in Kinds
    BY DEF KindOf, Kinds
  <2>2. Close(s, KindOf(s)) = <<0, 0>>
    <3>1. ASSUME NEW i \in 1..Len(s), NEW t \in Closing(KindOf(s)), At(s, i, t) PROVE FALSE
      BY <1>3, <2>1, <3>1 DEF ClosedAt
    <3> QED BY <1>1, <2>1, <3>1, CloseFacts
  <2> QED BY <2>2 DEF End
<1>5. Release(y) = y
  <2>1. ~Released(y)
    BY <1>4 DEF Released, s
  <2> HIDE DEF y
  <2> QED BY <1>1, <2>1, ReleaseCases
<1>6. Capture(y) = y
  <2>1. y.capturing
    OBVIOUS
  <2> HIDE DEF y
  <2> QED BY <1>1, <2>1, CaptureCases
<1> QED BY <1>5, <1>6 DEF Round

-----------------------------------------------------------------------------
(* All rounds. *)

\* Drain is a recursive function: f is what x becomes in n rounds.
Rounds(x, n, f) == f = [i \in 0..n |-> IF i = 0 THEN x ELSE Round(f[i - 1])]
Enough(x) == Len(x.buf) + 1

LEMMA DrainIs ==
    ASSUME NEW x
    PROVE  Drain(x) = (CHOOSE f : Rounds(x, Enough(x), f))[Enough(x)]
  BY Zenon DEF Drain, Rounds, Enough

LEMMA RoundsAre ==
    ASSUME NEW x, NEW n \in Nat, NEW f, Rounds(x, n, f)
    PROVE  f[0] = x /\ \A i \in 1..n : f[i] = Round(f[i - 1])
<1>1. 0 \in 0..n /\ \A i \in 1..n : i \in 0..n /\ i # 0
  OBVIOUS
<1> QED BY <1>1 DEF Rounds

LEMMA RoundsExist ==
    ASSUME NEW x
    PROVE  \A n \in Nat : \E f : Rounds(x, n, f)
<1> DEFINE Bad == {n \in Nat : ~\E f : Rounds(x, n, f)}
<1> SUFFICES ASSUME Bad # {} PROVE FALSE
  OBVIOUS
<1>1. PICK n \in Bad : \A m \in Bad : n <= m
  <2>1. Bad \in SUBSET Nat
    OBVIOUS
  <2> HIDE DEF Bad
  <2> QED BY LeastOf, <2>1
<1>2. n # 0
  <2>1. Rounds(x, 0, [i \in 0..0 |-> x])
    BY DEF Rounds
  <2> QED BY <2>1
<1>3. n - 1 \in Nat /\ n - 1 \notin Bad
  BY <1>1, <1>2
<1>4. PICK f : Rounds(x, n - 1, f)
  BY <1>3
<1>5. f[0] = x /\ \A i \in 1..(n - 1) : f[i] = Round(f[i - 1])
  BY <1>3, <1>4, RoundsAre
<1> DEFINE g == [i \in 0..n |-> IF i = n THEN Round(f[n - 1]) ELSE f[i]]
<1>6. \A i \in 0..n : g[i] = IF i = 0 THEN x ELSE Round(g[i - 1])
  <2> SUFFICES ASSUME NEW i \in 0..n PROVE g[i] = IF i = 0 THEN x ELSE Round(g[i - 1])
    OBVIOUS
  <2>1. CASE i = n
    <3>1. n \in 0..n /\ n - 1 \in 0..n /\ n - 1 # n
      BY <1>2
    <3>2. g[n] = Round(f[n - 1]) /\ g[n - 1] = f[n - 1]
      BY <3>1
    <3> QED BY <2>1, <3>2, <1>2
  <2>2. CASE i # n /\ i # 0
    <3>1. i \in 1..(n - 1) /\ i - 1 \in 0..n /\ i - 1 # n
      BY <2>2
    <3> QED BY <3>1, <2>2, <1>5
  <2>3. CASE i = 0
    BY <2>3, <1>2, <1>5
  <2> QED BY <2>1, <2>2, <2>3
<1>7. Rounds(x, n, g)
  <2>1. g = [i \in 0..n |-> g[i]]
    OBVIOUS
  <2> HIDE DEF g
  <2>2. g = [i \in 0..n |-> IF i = 0 THEN x ELSE Round(g[i - 1])]
    BY <1>6, <2>1
  <2> QED BY <2>2 DEF Rounds
<1> QED BY <1>1, <1>7

LEMMA RoundsUnique ==
    ASSUME NEW x, NEW m \in Nat, NEW n \in Nat, m <= n, NEW f, NEW g, Rounds(x, m, f), Rounds(x, n, g)
    PROVE  \A i \in 0..m : f[i] = g[i]
<1> DEFINE Bad == {i \in 0..m : f[i] # g[i]}
<1> SUFFICES ASSUME Bad # {} PROVE FALSE
  OBVIOUS
<1>1. PICK i \in Bad : \A j \in Bad : i <= j
  <2>1. Bad \in SUBSET Nat
    OBVIOUS
  <2> HIDE DEF Bad
  <2> QED BY LeastOf, <2>1
<1>2. f[0] = x /\ g[0] = x /\ (\A j \in 1..m : f[j] = Round(f[j - 1])) /\ (\A j \in 1..n : g[j] = Round(g[j - 1]))
  BY RoundsAre
<1>3. i # 0 /\ i \in 1..m /\ i \in 1..n /\ i - 1 \in 0..m /\ i - 1 \notin Bad
  BY <1>1, <1>2
<1> QED BY <1>2, <1>3

\* Once nothing changes, nothing does.
LEMMA RoundsStay ==
    ASSUME NEW x, NEW n \in Nat, NEW f, Rounds(x, n, f), NEW i \in 0..n, Round(f[i]) = f[i]
    PROVE  \A j \in i..n : f[j] = f[i]
<1> DEFINE Bad == {j \in i..n : f[j] # f[i]}
<1> SUFFICES ASSUME Bad # {} PROVE FALSE
  OBVIOUS
<1>1. PICK j \in Bad : \A k \in Bad : j <= k
  <2>1. Bad \in SUBSET Nat
    OBVIOUS
  <2> HIDE DEF Bad
  <2> QED BY LeastOf, <2>1
<1>2. \A k \in 1..n : f[k] = Round(f[k - 1])
  BY RoundsAre
<1>3. j # i /\ j \in 1..n /\ j - 1 \in i..n /\ j - 1 \notin Bad
  BY <1>1
<1> QED BY <1>2, <1>3

\* All of it keeps its type, and in the end nothing changes any more.
LEMMA RoundsFacts ==
    ASSUME NEW x \in ExtType, Whole(x), NEW n \in Nat, NEW f, Rounds(x, n, f)
    PROVE  \A i \in 0..n : /\ f[i] \in ExtType /\ Whole(f[i])
                           /\ Round(f[i]) = f[i] \/ Len(f[i].buf) + i <= Len(x.buf)
<1> DEFINE Good(i) == /\ f[i] \in ExtType /\ Whole(f[i])
                      /\ Round(f[i]) = f[i] \/ Len(f[i].buf) + i <= Len(x.buf)
           Bad == {i \in 0..n : ~Good(i)}
<1> SUFFICES ASSUME Bad # {} PROVE FALSE
  OBVIOUS
<1>1. PICK i \in Bad : \A k \in Bad : i <= k
  <2>1. Bad \in SUBSET Nat
    OBVIOUS
  <2> HIDE DEF Bad
  <2> QED BY LeastOf, <2>1
<1>2. f[0] = x /\ \A k \in 1..n : f[k] = Round(f[k - 1])
  BY RoundsAre
<1>3. i # 0
  <2>1. Good(0)
    BY <1>2, RoundType
  <2> QED BY <2>1
<1>4. i \in 1..n /\ i - 1 \in 0..n /\ i - 1 \notin Bad
  BY <1>1, <1>3
<1> DEFINE z == f[i - 1]
<1>5. /\ z \in ExtType /\ Whole(z) /\ (Round(z) = z \/ Len(z.buf) + (i - 1) <= Len(x.buf))
      /\ f[i] = Round(z) /\ i \in Nat /\ ~Good(i)
  BY <1>2, <1>4
<1> HIDE DEF z
<1>6. f[i] \in ExtType /\ Whole(f[i]) /\ Len(f[i].buf) \in Nat /\ Len(z.buf) \in Nat /\ Len(x.buf) \in Nat
  BY <1>5, RoundType
<1>7. Len(f[i].buf) < Len(z.buf) \/ Round(f[i]) = f[i]
  BY <1>5, RoundRests
<1>8. Round(f[i]) # f[i] /\ ~(Len(f[i].buf) + i <= Len(x.buf))
  BY <1>5, <1>6
<1>9. Round(z) # z
  BY <1>5, <1>8
<1> QED BY <1>5, <1>6, <1>7, <1>8, <1>9

LEMMA DrainAt ==
    ASSUME NEW x \in ExtType, NEW n \in Nat, Enough(x) <= n, NEW f, Rounds(x, n, f)
    PROVE  Drain(x) = f[Enough(x)] /\ Enough(x) \in 0..n
<1>1. Enough(x) \in Nat
  BY DEF Enough, ExtType, Txt
<1> DEFINE g == CHOOSE g : Rounds(x, Enough(x), g)
<1>2. Rounds(x, Enough(x), g)
  BY <1>1, RoundsExist, Zenon
<1>3. Drain(x) = g[Enough(x)]
  BY DrainIs
<1> HIDE DEF g
<1>4. Enough(x) \in 0..Enough(x) /\ Enough(x) \in 0..n
  BY <1>1
<1> QED BY <1>1, <1>2, <1>3, <1>4, RoundsUnique

LEMMA DrainFacts ==
    ASSUME NEW x \in ExtType, Whole(x)
    PROVE  Drain(x) \in ExtType /\ Whole(Drain(x)) /\ Round(Drain(x)) = Drain(x)
<1> DEFINE n == Enough(x)
<1>1. n \in Nat /\ n <= n /\ n = Len(x.buf) + 1 /\ Len(x.buf) \in Nat
  BY DEF Enough, ExtType, Txt
<1> HIDE DEF n
<1>2. PICK f : Rounds(x, n, f)
  BY <1>1, RoundsExist
<1>3. Drain(x) = f[n]
  BY <1>1, <1>2, DrainAt DEF n
<1>4. n \in 0..n
  BY <1>1
<1>5. f[n] \in ExtType /\ Whole(f[n]) /\ (Round(f[n]) = f[n] \/ Len(f[n].buf) + n <= Len(x.buf))
  BY <1>1, <1>2, <1>4, RoundsFacts
<1>6. Len(f[n].buf) \in Nat
  BY <1>5 DEF ExtType, Txt
<1>7. ~(Len(f[n].buf) + n <= Len(x.buf))
  <2>1. \A a, b, c \in Nat : c = b + 1 => ~(a + c <= b)
    OBVIOUS
  <2> QED BY <1>1, <1>6, <2>1, Zenon
<1> QED BY <1>3, <1>5, <1>7

\* A round more makes no difference.
LEMMA DrainRound ==
    ASSUME NEW x \in ExtType, Whole(x)
    PROVE  Drain(x) = Drain(Round(x))
<1> DEFINE y == Round(x)  N == Enough(x)  M == Enough(y)  K == N + M + 1
<1>1. y \in ExtType /\ Whole(y)
  BY RoundType
<1> HIDE DEF y
<1>2. N \in Nat /\ M \in Nat
  BY <1>1 DEF Enough, ExtType, Txt
<1>3. K \in Nat /\ N <= K /\ M <= K - 1 /\ K - 1 \in Nat /\ N \in 0..K /\ M + 1 \in 0..K /\ K \in N..K /\ K \in (M + 1)..K
  BY <1>2
<1> HIDE DEF K
<1>4. PICK f : Rounds(x, K, f)
  BY <1>3, RoundsExist
<1>5. f[0] = x /\ \A k \in 1..K : f[k] = Round(f[k - 1])
  BY <1>3, <1>4, RoundsAre
<1> DEFINE g == [i \in 0..(K - 1) |-> f[i + 1]]
<1>6. Rounds(y, K - 1, g)
  <2>1. \A i \in 0..(K - 1) : g[i] = IF i = 0 THEN y ELSE Round(g[i - 1])
    <3> SUFFICES ASSUME NEW i \in 0..(K - 1) PROVE g[i] = IF i = 0 THEN y ELSE Round(g[i - 1])
      OBVIOUS
    <3>1. i + 1 \in 1..K /\ i + 1 - 1 = i
      BY <1>3
    <3>2. g[i] = Round(f[i])
      BY <3>1, <1>5
    <3>3. CASE i = 0
      BY <3>2, <3>3, <1>5 DEF y
    <3>4. CASE i # 0
      <4>1. i - 1 \in 0..(K - 1) /\ i - 1 + 1 = i
        BY <3>4, <1>3
      <4>2. g[i - 1] = f[i]
        BY <4>1
      <4> QED BY <3>2, <3>4, <4>2
    <3> QED BY <3>3, <3>4
  <2>2. g = [i \in 0..(K - 1) |-> g[i]]
    OBVIOUS
  <2> HIDE DEF g
  <2>3. g = [i \in 0..(K - 1) |-> IF i = 0 THEN y ELSE Round(g[i - 1])]
    BY <2>1, <2>2
  <2> QED BY <2>3 DEF Rounds
<1>7. Drain(x) = f[N]
  <2> QED BY <1>3, <1>4, DrainAt
<1>8. Drain(y) = f[M + 1]
  <2>1. Drain(y) = g[M]
    <3> HIDE DEF g
    <3> QED BY <1>1, <1>3, <1>6, DrainAt
  <2>2. M \in 0..(K - 1)
    BY <1>2, <1>3
  <2> QED BY <2>1, <2>2
<1>9. Round(f[N]) = f[N] /\ Round(f[M + 1]) = f[M + 1]
  BY <1>1, <1>7, <1>8, DrainFacts
<1> HIDE DEF g, N, M
<1>10. f[K] = f[N]
  <2>1. \A j \in N..K : f[j] = f[N]
    BY <1>3, <1>4, <1>9, RoundsStay
  <2> QED BY <1>3, <2>1
<1>11. f[K] = f[M + 1]
  <2>1. \A j \in (M + 1)..K : f[j] = f[M + 1]
    BY <1>3, <1>4, <1>9, RoundsStay
  <2> QED BY <1>3, <2>1
<1> QED BY <1>7, <1>8, <1>10, <1>11 DEF y

LEMMA DrainRest ==
    ASSUME NEW x \in ExtType, Whole(x), Round(x) = x
    PROVE  Drain(x) = x
<1> DEFINE n == Enough(x)
<1>1. n \in Nat /\ n <= n /\ 0 \in 0..n /\ n \in 0..n
  BY DEF Enough, ExtType, Txt
<1> HIDE DEF n
<1>2. PICK f : Rounds(x, n, f)
  BY <1>1, RoundsExist
<1>3. Drain(x) = f[n] /\ f[0] = x
  BY <1>1, <1>2, DrainAt, RoundsAre DEF n
<1> QED BY <1>1, <1>2, <1>3, RoundsStay

\* What is drained first makes no difference to what comes of more text.
LEMMA DrainPlus ==
    ASSUME NEW x \in ExtType, Whole(x), NEW r \in Txt, ~Early(Drain(x), r)
    PROVE  Drain(Plus(x, r)) = Drain(Plus(Drain(x), r))
<1> DEFINE n == Enough(x)
<1>1. n \in Nat /\ n <= n /\ 0 \in 0..n /\ n \in 0..n
  BY DEF Enough, ExtType, Txt
<1> HIDE DEF n
<1>2. PICK f : Rounds(x, n, f)
  BY <1>1, RoundsExist
<1>3. Drain(x) = f[n] /\ f[0] = x /\ \A i \in 1..n : f[i] = Round(f[i - 1])
  BY <1>1, <1>2, DrainAt, RoundsAre DEF n
<1>4. \A i \in 0..n : f[i] \in ExtType /\ Whole(f[i])
  BY <1>1, <1>2, RoundsFacts
<1>5. ASSUME NEW i \in 1..n PROVE Drain(Plus(f[i - 1], r)) = Drain(Plus(f[i], r))
  <2>1. i \in 0..n /\ i - 1 \in 0..n /\ n \in i..n
    BY <1>1
  <2> DEFINE z == f[i - 1]
  <2>2. z \in ExtType /\ Whole(z) /\ f[i] = Round(z) /\ f[i] \in ExtType /\ Whole(f[i])
    BY <1>3, <1>4, <2>1
  <2> HIDE DEF z
  <2>3. ~Early(Capture(z), r)
    <3> SUFFICES ASSUME Early(Capture(z), r) PROVE FALSE
      OBVIOUS
    <3>1. Round(z) = Capture(z) /\ Round(Round(z)) = Round(z)
      BY <2>2, BareRests DEF Early
    <3>2. f[n] = f[i]
      BY <1>1, <1>2, <2>1, <2>2, <3>1, RoundsStay
    <3> QED BY <3>1, <3>2, <1>3, <2>2
  <2>4. /\ Plus(z, r) \in ExtType /\ Whole(Plus(z, r))
        /\ Plus(f[i], r) \in ExtType /\ Whole(Plus(f[i], r))
    BY <2>2, PlusType, WholePlus
  <2>5. \/ Round(Plus(z, r)) = Plus(Round(z), r)
        \/ Round(Plus(z, r)) = Round(Plus(Round(z), r))
    BY <2>2, <2>3, RoundPlus
  <2>6. Drain(Plus(z, r)) = Drain(Round(Plus(z, r)))
    BY <2>4, DrainRound
  <2>7. Drain(Plus(f[i], r)) = Drain(Round(Plus(f[i], r)))
    BY <2>4, DrainRound
  <2> QED BY <2>2, <2>5, <2>6, <2>7 DEF z
<1> DEFINE Bad == {i \in 0..n : Drain(Plus(x, r)) # Drain(Plus(f[i], r))}
<1>6. Bad = {}
  <2> SUFFICES ASSUME Bad # {} PROVE FALSE
    OBVIOUS
  <2>1. PICK i \in Bad : \A k \in Bad : i <= k
    <3>1. Bad \in SUBSET Nat
      BY <1>1
    <3> HIDE DEF Bad
    <3> QED BY LeastOf, <3>1
  <2>2. i # 0
    BY <1>3
  <2>3. i \in 1..n /\ i - 1 \in 0..n /\ i - 1 \notin Bad
    BY <1>1, <2>1, <2>2
  <2> QED BY <1>5, <2>1, <2>3
<1> QED BY <1>1, <1>3, <1>6

-----------------------------------------------------------------------------
(* The client and the worker: what holds of the two between chunks. *)

\* The types of what the client has, of chunks, and of what the worker keeps.
ItemType == [kind : {"message", "call"}, body : Txt, final : Txt, done : BOOLEAN]
EndType == {"none", "completed", "ended", "error"}
ClientType == [items : Seq(ItemType), end : EndType, bad : BOOLEAN]
ChunkType == [kind : {"text", "start", "args"}, index : Int, piece : Txt]
MapType(S) == UNION {[D -> S] : D \in SUBSET Int}
SseType == [next : Nat, text : Int, all : Txt, calls : MapType(Nat)]

LEMMA TxtJoin == \A s, t \in Txt : s \o t \in Txt
  BY DEF Txt

\* Single events at the client: a piece, an end, a new item.
LEMMA PutType ==
    ASSUME NEW S, NEW map \in MapType(S), NEW i \in Int, NEW v \in S
    PROVE  Put(map, i, v) \in MapType(S)
<1>1. PICK D \in SUBSET Int : map \in [D -> S]
  BY DEF MapType
<1>2. Put(map, i, v) \in [D \cup {i} -> S]
  BY <1>1 DEF Put
<1>3. D \cup {i} \in SUBSET Int
  BY <1>1
<1> QED BY <1>2, <1>3 DEF MapType

LEMMA PieceFacts ==
    ASSUME NEW c \in ClientType, NEW i \in Nat, i < Len(c.items), ~c.items[i + 1].done, NEW piece \in Txt
    PROVE  LET d == Piece(c, i, piece) IN
           /\ d \in ClientType /\ d.end = c.end /\ d.bad = c.bad /\ Len(d.items) = Len(c.items)
           /\ \A j \in 1..Len(c.items) :
                 /\ d.items[j].kind = c.items[j].kind
                 /\ d.items[j].done = c.items[j].done
                 /\ d.items[j].final = c.items[j].final
                 /\ d.items[j].body = IF j = i + 1 THEN c.items[j].body \o piece ELSE c.items[j].body
<1> DEFINE items == c.items  e == [items[i + 1] EXCEPT !.body = @ \o piece]  d == Piece(c, i, piece)
<1>1. i + 1 \in 1..Len(items) /\ items \in Seq(ItemType) /\ items[i + 1] \in ItemType
  BY DEF ClientType
<1>2. items[i + 1].body \o piece \in Txt
  <2>1. items[i + 1].body \in Txt
    BY <1>1 DEF ItemType
  <2> QED BY TxtJoin, <2>1
<1>3. e \in ItemType
  BY <1>1, <1>2 DEF ItemType
<1>4. [items EXCEPT ![i + 1] = e] \in Seq(ItemType)
  BY <1>1, <1>3
<1>5. d = [c EXCEPT !.items = [items EXCEPT ![i + 1] = e]]
  BY <1>1 DEF Piece, Fits
<1>6. /\ d.items = [items EXCEPT ![i + 1] = e] /\ d.end = c.end /\ d.bad = c.bad /\ d \in ClientType
  BY <1>4, <1>5 DEF ClientType
<1>7. Len(d.items) = Len(items) /\ \A j \in 1..Len(items) : d.items[j] = IF j = i + 1 THEN e ELSE items[j]
  BY <1>1, <1>3, <1>6, ExceptSeq
<1>8. /\ e.kind = items[i + 1].kind /\ e.done = items[i + 1].done /\ e.final = items[i + 1].final
      /\ e.body = items[i + 1].body \o piece
  BY <1>1 DEF ItemType
<1> HIDE DEF e
<1> QED
  BY <1>1, <1>6, <1>7, <1>8

LEMMA DoneFacts ==
    ASSUME NEW c \in ClientType, NEW i \in Nat, i < Len(c.items), ~c.items[i + 1].done, NEW final \in Txt
    PROVE  LET d == Done(c, i, final) IN
           /\ d \in ClientType /\ d.end = c.end /\ d.bad = c.bad /\ Len(d.items) = Len(c.items)
           /\ \A j \in 1..Len(c.items) :
                 /\ d.items[j].kind = c.items[j].kind
                 /\ d.items[j].body = c.items[j].body
                 /\ d.items[j].done = IF j = i + 1 THEN TRUE ELSE c.items[j].done
                 /\ d.items[j].final = IF j = i + 1 THEN final ELSE c.items[j].final
<1> DEFINE items == c.items  e == [items[i + 1] EXCEPT !.final = final, !.done = TRUE]
           d == Done(c, i, final)
<1>1. i + 1 \in 1..Len(items) /\ items \in Seq(ItemType) /\ items[i + 1] \in ItemType
  BY DEF ClientType
<1>3. e \in ItemType
  BY <1>1 DEF ItemType
<1>4. [items EXCEPT ![i + 1] = e] \in Seq(ItemType)
  BY <1>1, <1>3
<1>5. d = [c EXCEPT !.items = [items EXCEPT ![i + 1] = e]]
  BY <1>1 DEF Done, Fits
<1>6. /\ d.items = [items EXCEPT ![i + 1] = e] /\ d.end = c.end /\ d.bad = c.bad /\ d \in ClientType
  BY <1>4, <1>5 DEF ClientType
<1>7. Len(d.items) = Len(items) /\ \A j \in 1..Len(items) : d.items[j] = IF j = i + 1 THEN e ELSE items[j]
  BY <1>1, <1>3, <1>6, ExceptSeq
<1>8. /\ e.kind = items[i + 1].kind /\ e.body = items[i + 1].body /\ e.done = TRUE /\ e.final = final
  BY <1>1 DEF ItemType
<1> HIDE DEF e
<1> QED
  BY <1>1, <1>6, <1>7, <1>8

LEMMA AddedFacts ==
    ASSUME NEW c \in ClientType, NEW i, i = Len(c.items), NEW kind \in {"message", "call"}
    PROVE  LET d == Added(c, i, kind) IN
           /\ d \in ClientType /\ d.end = c.end /\ d.bad = c.bad /\ Len(d.items) = Len(c.items) + 1
           /\ \A j \in 1..Len(c.items) : d.items[j] = c.items[j]
           /\ d.items[i + 1] = Item(kind, << >>)
           /\ Len(c.items) \in Nat
<1>1. Item(kind, << >>) \in ItemType
  BY DEF Item, ItemType, Txt
<1>2. c.items \in Seq(ItemType) /\ Len(c.items) \in Nat
  BY DEF ClientType
<1> DEFINE d == Added(c, i, kind)
<1>3. d = [c EXCEPT !.items = Append(c.items, Item(kind, << >>)), !.bad = c.bad \/ i # Len(c.items)]
  BY DEF Added
<1>4. (c.bad \/ i # Len(c.items)) = c.bad
  BY DEF ClientType
<1> HIDE DEF d
<1>5. d.items = Append(c.items, Item(kind, << >>)) /\ d.end = c.end /\ d.bad = c.bad
  BY <1>3, <1>4 DEF ClientType
<1>6. d \in ClientType
  <2>1. Append(c.items, Item(kind, << >>)) \in Seq(ItemType)
    BY <1>1, <1>2
  <2> QED BY <1>3, <1>4, <2>1 DEF ClientType
<1> QED
  BY <1>1, <1>2, <1>5, <1>6 DEF d

-----------------------------------------------------------------------------
StateType == [sse : SseType, args : MapType(Txt), got : ClientType]

\* The worker and the client agree (Sound): on the number of items, all of them open; on all of the
\* text; on the arguments of each call that was announced before they came; and every item is the
\* message or one call. Those of the calls in `unheard` may have come before.
Aligned(x) ==
    /\ x \in StateType
    /\ ~x.got.bad
    /\ x.sse.next = Len(x.got.items)
    /\ \A j \in 1..x.sse.next : ~x.got.items[j].done
TextKept(x) ==
    IF x.sse.text = NoItem THEN x.sse.all = << >>
    ELSE /\ x.sse.text \in 0..(x.sse.next - 1)
         /\ x.got.items[x.sse.text + 1].kind = "message"
         /\ x.got.items[x.sse.text + 1].body = x.sse.all
CallsKept(x, unheard) ==
    /\ \A i \in DOMAIN x.sse.calls :
          /\ x.sse.calls[i] \in 0..(x.sse.next - 1)
          /\ x.got.items[x.sse.calls[i] + 1].kind = "call"
          /\ i \in unheard \/ x.got.items[x.sse.calls[i] + 1].body = Get(x.args, i)
    /\ \A i, j \in DOMAIN x.sse.calls : x.sse.calls[i] = x.sse.calls[j] => i = j
    /\ DOMAIN x.args \subseteq DOMAIN x.sse.calls \cup unheard
Owned(x) ==
    \A k \in 0..(x.sse.next - 1) : k = x.sse.text \/ \E i \in DOMAIN x.sse.calls : x.sse.calls[i] = k
Sound(x, unheard) == Aligned(x) /\ TextKept(x) /\ CallsKept(x, unheard) /\ Owned(x)

\* What the records of a state are.
LEMMA Parts ==
    ASSUME NEW x, NEW u, Sound(x, u)
    PROVE  /\ x \in StateType /\ x.sse \in SseType /\ x.got \in ClientType /\ x.args \in MapType(Txt)
           /\ x.sse.next \in Nat /\ x.sse.next = Len(x.got.items) /\ x.sse.text \in Int /\ x.sse.all \in Txt
           /\ x.sse.calls \in MapType(Nat) /\ ~x.got.bad
           /\ \A j \in 1..x.sse.next : ~x.got.items[j].done
           /\ TextKept(x) /\ CallsKept(x, u) /\ Owned(x)
  BY DEF Sound, Aligned, StateType, SseType

\* Calls are not disturbed by what happens to other items.
LEMMA CallsStay ==
    ASSUME NEW x, NEW y, NEW u, CallsKept(x, u), x.sse.next \in Nat, y.sse.next \in Nat,
           x.sse.next <= y.sse.next, y.sse.calls = x.sse.calls, y.args = x.args,
           \A i \in DOMAIN x.sse.calls :
              LET k == x.sse.calls[i] + 1
              IN  y.got.items[k].kind = x.got.items[k].kind /\ y.got.items[k].body = x.got.items[k].body
    PROVE  CallsKept(y, u)
<1>1. \A i \in DOMAIN x.sse.calls : x.sse.calls[i] \in 0..(y.sse.next - 1)
  BY SMTT(40) DEF CallsKept
<1> QED BY <1>1, SMTT(40) DEF CallsKept

\* Every operation on a sound state leaves a sound one.
LEMMA TextSound ==
    ASSUME NEW x, NEW u, Sound(x, u), NEW piece \in Txt
    PROVE  Sound(EmitText(x, piece), u)
<1> DEFINE y == EmitText(x, piece)
<1>1. /\ x \in StateType /\ x.sse \in SseType /\ x.got \in ClientType /\ x.args \in MapType(Txt)
      /\ x.sse.next \in Nat /\ x.sse.next = Len(x.got.items) /\ x.sse.text \in Int /\ x.sse.all \in Txt
      /\ x.sse.calls \in MapType(Nat) /\ ~x.got.bad
      /\ \A j \in 1..x.sse.next : ~x.got.items[j].done
      /\ TextKept(x) /\ CallsKept(x, u) /\ Owned(x)
  BY Parts
<1>2. x.sse.all \o piece \in Txt /\ << >> \o piece = piece
  BY <1>1, TxtJoin DEF Txt
<1>3. CASE x.sse.text = NoItem
  <2> DEFINE i == x.sse.next  c == Added(x.got, i, "message")  d == Piece(c, i, piece)
  <2>1. /\ c \in ClientType /\ c.end = x.got.end /\ c.bad = x.got.bad /\ Len(c.items) = i + 1
        /\ \A j \in 1..i : c.items[j] = x.got.items[j]
        /\ c.items[i + 1] = Item("message", << >>)
    BY <1>1, AddedFacts
  <2>2. ~c.items[i + 1].done /\ i < Len(c.items) /\ i \in Nat /\ i + 1 \in Nat /\ i \in Int
    BY <2>1, <1>1 DEF Item
  <2>3. /\ d \in ClientType /\ d.end = c.end /\ d.bad = c.bad /\ Len(d.items) = Len(c.items)
        /\ \A j \in 1..Len(c.items) :
              /\ d.items[j].kind = c.items[j].kind
              /\ d.items[j].done = c.items[j].done
              /\ d.items[j].body = IF j = i + 1 THEN c.items[j].body \o piece ELSE c.items[j].body
    <3> HIDE DEF c, i
    <3> QED BY <2>1, <2>2, PieceFacts
  <2> DEFINE s == [x.sse EXCEPT !.text = i, !.next = i + 1, !.all = x.sse.all \o piece]
  <2>4. y = [x EXCEPT !.sse = s, !.got = d]
    BY <1>3 DEF EmitText
  <2>5. /\ s.text = i /\ s.next = i + 1 /\ s.all = x.sse.all \o piece /\ s.calls = x.sse.calls /\ s \in SseType
    BY <1>1, <1>2, <2>2 DEF SseType
  <2> HIDE DEF s, d, c, y, i
  <2>6. y.sse = s /\ y.got = d /\ y.args = x.args /\ y \in StateType
    BY <1>1, <2>3, <2>4, <2>5 DEF StateType
  <2>7. \A j \in 1..i : j \in 1..Len(c.items) /\ j # i + 1
    BY <2>1, <2>2
  <2>8. \A j \in 1..i : /\ d.items[j].kind = x.got.items[j].kind /\ d.items[j].body = x.got.items[j].body
                        /\ d.items[j].done = x.got.items[j].done
    BY <2>1, <2>3, <2>7
  <2>9. d.items[i + 1].kind = "message" /\ d.items[i + 1].body = piece /\ ~d.items[i + 1].done
    <3>1. i + 1 \in 1..Len(c.items)
      BY <2>1, <2>2
    <3>2. c.items[i + 1].kind = "message" /\ c.items[i + 1].body = << >> /\ ~c.items[i + 1].done
      BY <2>1 DEF Item
    <3> QED BY <1>2, <2>3, <3>1, <3>2
  <2>10. Aligned(y)
    <3>1. \A j \in 1..(i + 1) : ~d.items[j].done
      BY <1>1, <2>2, <2>8, <2>9, SMTT(40) DEF i
    <3> QED BY <1>1, <2>1, <2>3, <2>5, <2>6, <3>1 DEF Aligned
  <2>11. TextKept(y)
    <3>1. i # NoItem /\ i \in 0..(i + 1 - 1)
      BY <2>2 DEF NoItem
    <3>2. x.sse.all = << >>
      BY <1>1, <1>3 DEF TextKept
    <3> QED BY <3>1, <3>2, <1>2, <2>5, <2>6, <2>9 DEF TextKept
  <2>12. CallsKept(y, u)
    <3>1. \A k \in DOMAIN x.sse.calls : x.sse.calls[k] + 1 \in 1..i
      BY <1>1 DEF CallsKept, i
    <3>2. x.sse.next <= y.sse.next /\ y.sse.next \in Nat /\ y.sse.calls = x.sse.calls /\ y.got = d
      BY <2>2, <2>5, <2>6 DEF i
    <3>3. \A k \in DOMAIN x.sse.calls :
             LET j == x.sse.calls[k] + 1
             IN  y.got.items[j].kind = x.got.items[j].kind /\ y.got.items[j].body = x.got.items[j].body
      BY <2>8, <3>1, <3>2
    <3>4. CallsKept(x, u) /\ x.sse.next \in Nat /\ y.args = x.args
      BY <1>1, <2>6
    <3> QED BY <3>2, <3>3, <3>4, CallsStay
  <2>13. Owned(y)
    <3> SUFFICES ASSUME NEW k \in 0..i
                 PROVE  k = i \/ \E j \in DOMAIN x.sse.calls : x.sse.calls[j] = k
      BY <2>2, <2>5, <2>6 DEF Owned
    <3>1. CASE k # i
      <4>1. k \in 0..(i - 1) /\ k # NoItem
        BY <3>1, <2>2 DEF NoItem
      <4> QED BY <4>1, <1>1, <1>3 DEF Owned, i
    <3> QED BY <3>1
  <2> QED BY <2>10, <2>11, <2>12, <2>13 DEF Sound, y
<1>4. CASE x.sse.text # NoItem
  <2> DEFINE i == x.sse.text  c == x.got  d == Piece(c, i, piece)
  <2>1. i \in 0..(x.sse.next - 1) /\ c.items[i + 1].kind = "message" /\ c.items[i + 1].body = x.sse.all
    BY <1>1, <1>4 DEF TextKept
  <2>2. ~c.items[i + 1].done /\ i < Len(c.items) /\ i \in Nat /\ i + 1 \in 1..Len(c.items)
    BY <1>1, <2>1
  <2>3. /\ d \in ClientType /\ d.end = c.end /\ d.bad = c.bad /\ Len(d.items) = Len(c.items)
        /\ \A j \in 1..Len(c.items) :
              /\ d.items[j].kind = c.items[j].kind
              /\ d.items[j].done = c.items[j].done
              /\ d.items[j].body = IF j = i + 1 THEN c.items[j].body \o piece ELSE c.items[j].body
    <3>1. c \in ClientType
      BY <1>1
    <3> HIDE DEF c, i
    <3> QED BY <3>1, <2>2, PieceFacts
  <2> DEFINE s == [x.sse EXCEPT !.text = i, !.next = x.sse.next, !.all = x.sse.all \o piece]
  <2>4. y = [x EXCEPT !.sse = s, !.got = d]
    BY <1>4 DEF EmitText
  <2>5. /\ s.text = i /\ s.next = x.sse.next /\ s.all = x.sse.all \o piece /\ s.calls = x.sse.calls
        /\ s \in SseType
    BY <1>1, <1>2 DEF SseType
  <2> HIDE DEF s, d, y
  <2>6. y.sse = s /\ y.got = d /\ y.args = x.args /\ y \in StateType
    BY <1>1, <2>3, <2>4, <2>5 DEF StateType
  <2>7. Aligned(y)
    BY <1>1, <2>3, <2>5, <2>6, SMTT(40) DEF Aligned
  <2>8. TextKept(y)
    BY <2>1, <2>2, <2>3, <2>5, <2>6, <1>4 DEF TextKept
  <2>9. CallsKept(y, u)
    <3> SUFFICES ASSUME NEW k \in DOMAIN x.sse.calls
                 PROVE  /\ d.items[x.sse.calls[k] + 1].kind = x.got.items[x.sse.calls[k] + 1].kind
                        /\ d.items[x.sse.calls[k] + 1].body = x.got.items[x.sse.calls[k] + 1].body
      BY <1>1, <2>5, <2>6, CallsStay, SMTT(40)
    <3>1. x.sse.calls[k] + 1 \in 1..Len(c.items) /\ c.items[x.sse.calls[k] + 1].kind = "call"
      BY <1>1 DEF CallsKept
    <3>2. x.sse.calls[k] + 1 # i + 1
      BY <3>1, <2>1
    <3> QED BY <2>3, <3>1, <3>2
  <2>10. Owned(y)
    BY <2>5, <2>6, <1>1 DEF Owned
  <2> QED BY <2>7, <2>8, <2>9, <2>10 DEF Sound, y
<1> QED BY <1>3, <1>4
LEMMA GetType ==
    ASSUME NEW map \in MapType(Txt), NEW i
    PROVE  Get(map, i) \in Txt
  BY DEF Get, MapType, Txt

LEMMA StartSound ==
    ASSUME NEW x, NEW u, Sound(x, u), NEW index \in Int
    PROVE  Sound(EmitStart(x, index), u) /\ index \in DOMAIN EmitStart(x, index).sse.calls
<1> DEFINE y == EmitStart(x, index)
<1>1. /\ x \in StateType /\ x.sse \in SseType /\ x.got \in ClientType /\ x.args \in MapType(Txt)
      /\ x.sse.next \in Nat /\ x.sse.next = Len(x.got.items) /\ x.sse.text \in Int /\ x.sse.all \in Txt
      /\ x.sse.calls \in MapType(Nat) /\ ~x.got.bad
      /\ \A j \in 1..x.sse.next : ~x.got.items[j].done
      /\ TextKept(x) /\ CallsKept(x, u) /\ Owned(x)
  BY Parts
<1>2. CASE index \in DOMAIN x.sse.calls
  BY <1>2 DEF EmitStart
<1>3. CASE index \notin DOMAIN x.sse.calls
  <2> DEFINE i == x.sse.next  d == Added(x.got, i, "call")  calls == Put(x.sse.calls, index, i)
             s == [x.sse EXCEPT !.calls = calls, !.next = i + 1]
  <2>1. /\ d \in ClientType /\ d.end = x.got.end /\ d.bad = x.got.bad /\ Len(d.items) = i + 1
        /\ \A j \in 1..i : d.items[j] = x.got.items[j]
        /\ d.items[i + 1] = Item("call", << >>)
    BY <1>1, AddedFacts
  <2>2. i \in Nat /\ i + 1 \in Nat
    BY <1>1
  <2>3. /\ calls \in MapType(Nat) /\ DOMAIN calls = DOMAIN x.sse.calls \cup {index} /\ calls[index] = i
        /\ \A j \in DOMAIN x.sse.calls : calls[j] = x.sse.calls[j]
    <3>1. /\ calls \in MapType(Nat) /\ DOMAIN calls = DOMAIN x.sse.calls \cup {index} /\ calls[index] = i
          /\ \A j \in DOMAIN x.sse.calls : j # index => calls[j] = x.sse.calls[j]
      <4>1. x.sse.calls \in MapType(Nat)
        BY <1>1
      <4>2. calls \in MapType(Nat)
        BY <4>1, <2>2, PutType
      <4> QED BY <4>2 DEF Put
    <3>2. \A j \in DOMAIN x.sse.calls : j # index
      BY <1>3
    <3> QED BY <3>1, <3>2
  <2>4. y = [x EXCEPT !.sse = s, !.got = d]
    BY <1>3 DEF EmitStart
  <2> HIDE DEF calls
  <2>5. s.text = x.sse.text /\ s.next = i + 1 /\ s.all = x.sse.all /\ s.calls = calls /\ s \in SseType
    BY <1>1, <2>2, <2>3 DEF SseType
  <2> HIDE DEF s, d, y
  <2>6. y.sse = s /\ y.got = d /\ y.args = x.args /\ y \in StateType
    BY <1>1, <2>1, <2>4, <2>5 DEF StateType
  <2>7. d.items[i + 1].kind = "call" /\ d.items[i + 1].body = << >> /\ ~d.items[i + 1].done
    BY <2>1 DEF Item
  <2>8. Aligned(y)
    <3>1. \A j \in 1..(i + 1) : ~d.items[j].done
      <4> SUFFICES ASSUME NEW j \in 1..(i + 1) PROVE ~d.items[j].done
        OBVIOUS
      <4>1. j \in 1..i \/ j = i + 1
        BY <2>2
      <4> QED BY <4>1, <1>1, <2>1, <2>7
    <3> QED BY <1>1, <2>1, <2>5, <2>6, <3>1 DEF Aligned
  <2>9. TextKept(y)
    <3>1. CASE x.sse.text = NoItem
      BY <3>1, <1>1, <2>5, <2>6 DEF TextKept
    <3>2. CASE x.sse.text # NoItem
      <4>1. x.sse.text \in 0..(i - 1)
        BY <1>1, <3>2 DEF TextKept
      <4>2. x.sse.text + 1 \in 1..i /\ x.sse.text \in 0..(i + 1 - 1)
        BY <4>1, <2>2
      <4>3. d.items[x.sse.text + 1].kind = "message" /\ d.items[x.sse.text + 1].body = x.sse.all
        BY <4>2, <1>1, <2>1, <3>2 DEF TextKept
      <4>4. y.sse.text = x.sse.text /\ y.sse.next = i + 1 /\ y.sse.all = x.sse.all /\ y.got = d
        BY <2>5, <2>6
      <4>5. /\ y.sse.text # NoItem /\ y.sse.text \in 0..(y.sse.next - 1)
            /\ y.got.items[y.sse.text + 1].kind = "message"
            /\ y.got.items[y.sse.text + 1].body = y.sse.all
        <5>1. y.sse.text # NoItem
          BY <3>2, <4>4
        <5>2. y.sse.text \in 0..(y.sse.next - 1)
          BY <4>2, <4>4, <2>2
        <5> QED BY <5>1, <5>2, <4>3, <4>4
      <4> QED BY <4>5 DEF TextKept
    <3> QED BY <3>1, <3>2
  <2>10. CallsKept(y, u)
    <3>1. \A k \in DOMAIN x.sse.calls : calls[k] \in 0..(i - 1) /\ calls[k] + 1 \in 1..i
      BY <1>1, <2>2, <2>3 DEF CallsKept
    <3>2. \A k \in DOMAIN x.sse.calls :
             /\ d.items[calls[k] + 1].kind = "call"
             /\ k \in u \/ d.items[calls[k] + 1].body = Get(x.args, k)
      <4> SUFFICES ASSUME NEW k \in DOMAIN x.sse.calls
                   PROVE  /\ d.items[calls[k] + 1].kind = "call"
                          /\ k \in u \/ d.items[calls[k] + 1].body = Get(x.args, k)
        OBVIOUS
      <4>1. /\ x.got.items[calls[k] + 1].kind = "call"
            /\ k \in u \/ x.got.items[calls[k] + 1].body = Get(x.args, k)
        BY <1>1, <2>3 DEF CallsKept
      <4> QED BY <4>1, <2>1, <3>1
    <3>3. index \in u \/ Get(x.args, index) = << >>
      BY <1>1, <1>3, Zenon DEF CallsKept, Get
    <3>4. \A k \in DOMAIN calls : /\ calls[k] \in 0..(i + 1 - 1)
                                  /\ d.items[calls[k] + 1].kind = "call"
                                  /\ k \in u \/ d.items[calls[k] + 1].body = Get(x.args, k)
      <4> SUFFICES ASSUME NEW k \in DOMAIN calls
                   PROVE  /\ calls[k] \in 0..(i + 1 - 1)
                          /\ d.items[calls[k] + 1].kind = "call"
                          /\ k \in u \/ d.items[calls[k] + 1].body = Get(x.args, k)
        OBVIOUS
      <4>1. CASE k = index
        BY <4>1, <2>2, <2>3, <2>7, <3>3
      <4>2. CASE k # index
        <5>1. k \in DOMAIN x.sse.calls
          BY <4>2, <2>3
        <5>2. calls[k] \in 0..(i + 1 - 1)
          BY <5>1, <3>1, <2>2
        <5> QED BY <5>1, <5>2, <3>2
      <4> QED BY <4>1, <4>2
    <3>5. \A k, j \in DOMAIN calls : calls[k] = calls[j] => k = j
      <4> SUFFICES ASSUME NEW k \in DOMAIN calls, NEW j \in DOMAIN calls, calls[k] = calls[j] PROVE k = j
        OBVIOUS
      <4>1. \A m \in DOMAIN x.sse.calls : calls[m] # i
        BY <3>1, <2>2
      <4>2. CASE k \in DOMAIN x.sse.calls /\ j \in DOMAIN x.sse.calls
        BY <4>2, <2>3, <1>1 DEF CallsKept
      <4> QED BY <4>1, <4>2, <2>3
    <3>6. DOMAIN x.args \subseteq DOMAIN calls \cup u
      BY <1>1, <2>3 DEF CallsKept
    <3>7. y.sse.calls = calls /\ y.sse.next = i + 1 /\ y.got = d /\ y.args = x.args
      BY <2>5, <2>6
    <3>8. \A k \in DOMAIN y.sse.calls :
            /\ y.sse.calls[k] \in 0..(y.sse.next - 1)
            /\ y.got.items[y.sse.calls[k] + 1].kind = "call"
            /\ k \in u \/ y.got.items[y.sse.calls[k] + 1].body = Get(y.args, k)
      BY <3>4, <3>7, <2>2
    <3>9. \A k, j \in DOMAIN y.sse.calls : y.sse.calls[k] = y.sse.calls[j] => k = j
      BY <3>5, <3>7
    <3>10. DOMAIN y.args \subseteq DOMAIN y.sse.calls \cup u
      BY <3>6, <3>7
    <3> QED BY <3>8, <3>9, <3>10 DEF CallsKept
  <2>11. Owned(y)
    <3> SUFFICES ASSUME NEW k \in 0..i
                 PROVE  k = x.sse.text \/ \E j \in DOMAIN calls : calls[j] = k
      BY <2>2, <2>5, <2>6 DEF Owned
    <3>1. CASE k # i
      <4>1. k \in 0..(i - 1)
        BY <3>1, <2>2
      <4> QED BY <4>1, <1>1, <2>3 DEF Owned
    <3>2. CASE k = i
      BY <3>2, <2>3
    <3> QED BY <3>1, <3>2
  <2>12. index \in DOMAIN y.sse.calls
    BY <2>3, <2>5, <2>6
  <2> QED BY <2>8, <2>9, <2>10, <2>11, <2>12 DEF Sound, y
<1> QED BY <1>2, <1>3

\* A fragment for a call that is open.
LEMMA KnownSound ==
    ASSUME NEW x, NEW u, Sound(x, u), NEW index \in DOMAIN x.sse.calls, NEW piece \in Txt,
           NEW y, y = [x EXCEPT !.args = Put(@, index, Get(@, index) \o piece),
                                !.got = Piece(@, x.sse.calls[index], piece)]
    PROVE  Sound(y, u)
<1> DEFINE i == x.sse.calls[index]  c == x.got  d == Piece(c, i, piece)
           args1 == Put(x.args, index, Get(x.args, index) \o piece)
<1>0. y = [x EXCEPT !.args = args1, !.got = d]
  OBVIOUS
<1>1. /\ x \in StateType /\ x.sse \in SseType /\ x.got \in ClientType /\ x.args \in MapType(Txt)
      /\ x.sse.next \in Nat /\ x.sse.next = Len(x.got.items) /\ x.sse.text \in Int /\ x.sse.all \in Txt
      /\ x.sse.calls \in MapType(Nat) /\ ~x.got.bad
      /\ \A j \in 1..x.sse.next : ~x.got.items[j].done
      /\ TextKept(x) /\ CallsKept(x, u) /\ Owned(x)
  BY Parts
<1>2. i \in 0..(x.sse.next - 1) /\ c.items[i + 1].kind = "call" /\ (index \in u \/ c.items[i + 1].body = Get(x.args, index))
  BY <1>1 DEF CallsKept
<1>3. i \in Nat /\ i < Len(c.items) /\ ~c.items[i + 1].done /\ i + 1 \in 1..Len(c.items)
  BY <1>1, <1>2
<1>4. /\ d \in ClientType /\ d.end = c.end /\ d.bad = c.bad /\ Len(d.items) = Len(c.items)
      /\ \A j \in 1..Len(c.items) :
            /\ d.items[j].kind = c.items[j].kind
            /\ d.items[j].done = c.items[j].done
            /\ d.items[j].body = IF j = i + 1 THEN c.items[j].body \o piece ELSE c.items[j].body
  <2>1. c \in ClientType
    BY <1>1
  <2> HIDE DEF c, i
  <2> QED BY <2>1, <1>3, PieceFacts
<1>5. /\ args1 \in MapType(Txt) /\ DOMAIN args1 = DOMAIN x.args \cup {index}
      /\ args1[index] = Get(x.args, index) \o piece
      /\ \A j \in DOMAIN x.args : j # index => args1[j] = x.args[j]
  <2>1. index \in Int
    BY <1>1 DEF MapType
  <2>2. Get(x.args, index) \o piece \in Txt
    BY <1>1, GetType, TxtJoin
  <2>3. x.args \in MapType(Txt)
    BY <1>1
  <2>4. args1 \in MapType(Txt)
    BY <2>1, <2>2, <2>3, PutType
  <2> QED BY <2>4 DEF Put
<1> HIDE DEF d, args1
<1>6. y.sse = x.sse /\ y.got = d /\ y.args = args1 /\ y \in StateType
  BY <1>0, <1>1, <1>4, <1>5 DEF StateType
<1>7. Get(args1, index) = Get(x.args, index) \o piece /\ \A j : j # index => Get(args1, j) = Get(x.args, j)
  BY <1>5 DEF Get
<1>8. Aligned(y)
  BY <1>1, <1>4, <1>6 DEF Aligned
<1>9. TextKept(y)
  <2>1. CASE x.sse.text = NoItem
    BY <2>1, <1>1, <1>6 DEF TextKept
  <2>2. CASE x.sse.text # NoItem
    <3>1. x.sse.text \in 0..(x.sse.next - 1) /\ c.items[x.sse.text + 1].kind = "message"
      BY <2>2, <1>1 DEF TextKept
    <3>2. x.sse.text + 1 \in 1..Len(c.items)
      BY <3>1, <1>1
    <3>3. x.sse.text + 1 # i + 1
      BY <3>1, <1>2
    <3> QED BY <2>2, <3>1, <3>2, <3>3, <1>1, <1>4, <1>6, ZenonT(60) DEF TextKept
  <2> QED BY <2>1, <2>2
<1>10. CallsKept(y, u)
  <2> DEFINE calls == x.sse.calls
  <2>1. \A k \in DOMAIN calls : /\ calls[k] \in 0..(x.sse.next - 1)
                                /\ d.items[calls[k] + 1].kind = "call"
                                /\ k \in u \/ d.items[calls[k] + 1].body = Get(args1, k)
    <3> SUFFICES ASSUME NEW k \in DOMAIN calls
                 PROVE  /\ calls[k] \in 0..(x.sse.next - 1)
                        /\ d.items[calls[k] + 1].kind = "call"
                        /\ k \in u \/ d.items[calls[k] + 1].body = Get(args1, k)
      OBVIOUS
    <3>1. /\ calls[k] \in 0..(x.sse.next - 1) /\ c.items[calls[k] + 1].kind = "call"
          /\ k \in u \/ c.items[calls[k] + 1].body = Get(x.args, k)
      BY <1>1 DEF CallsKept
    <3>2. calls[k] + 1 \in 1..Len(c.items)
      BY <3>1, <1>1
    <3>3. CASE k = index
      BY <3>1, <3>2, <3>3, <1>2, <1>4, <1>7
    <3>4. CASE k # index
      <4>1. calls[k] # i
        BY <3>4, <1>1 DEF CallsKept
      <4>2. calls[k] + 1 # i + 1
        BY <4>1, <3>1, <1>3
      <4> QED BY <3>1, <3>2, <3>4, <4>2, <1>4, <1>7
    <3> QED BY <3>3, <3>4
  <2>2. \A k, j \in DOMAIN calls : calls[k] = calls[j] => k = j
    BY <1>1 DEF CallsKept
  <2>3. DOMAIN args1 \subseteq DOMAIN calls \cup u
    BY <1>1, <1>5 DEF CallsKept
  <2> QED BY <2>1, <2>2, <2>3, <1>6, SMTT(40) DEF CallsKept
<1>11. Owned(y)
  BY <1>1, <1>6 DEF Owned
<1> QED BY <1>8, <1>9, <1>10, <1>11 DEF Sound

\* Whose pieces need not be there may be more.
LEMMA SoundMore ==
    ASSUME NEW x, NEW u, Sound(x, u), NEW v, u \subseteq v
    PROVE  Sound(x, v)
<1>1. CallsKept(x, v)
  BY DEF Sound, CallsKept
<1> QED BY <1>1 DEF Sound

LEMMA ArgsSound ==
    ASSUME NEW x, NEW u, Sound(x, u), NEW index \in Int, NEW piece \in Txt
    PROVE  /\ index \in DOMAIN x.sse.calls => Sound(EmitArgs(x, index, piece), u)
           /\ Sound(EmitArgs(x, index, piece), u \cup {index})
<1> DEFINE v == u \cup {index}
<1>1. u \subseteq v /\ index \in v
  OBVIOUS
<1> HIDE DEF v
<1>2. CASE index \in DOMAIN x.sse.calls
  <2>1. EmitStart(x, index) = x
    BY <1>2 DEF EmitStart
  <2>2. EmitArgs(x, index, piece) = [x EXCEPT !.args = Put(@, index, Get(@, index) \o piece),
                                              !.got = Piece(@, x.sse.calls[index], piece)]
    BY <1>2, <2>1 DEF EmitArgs, ChatDelta, Fragment
  <2>4. Sound(EmitArgs(x, index, piece), u)
    BY <1>2, <2>2, KnownSound, Zenon
  <2>5. Sound(EmitArgs(x, index, piece), v)
    BY <1>1, <2>4, SoundMore
  <2> QED BY <2>4, <2>5 DEF v
<1>3. CASE index \notin DOMAIN x.sse.calls /\ endpoint = "chat"
  <2> DEFINE y == EmitStart(x, index)
  <2>1. Sound(y, u) /\ index \in DOMAIN y.sse.calls
    BY StartSound
  <2>2. Sound(y, v)
    BY <1>1, <2>1, SoundMore
  <2>3. EmitArgs(x, index, piece) = [y EXCEPT !.args = Put(@, index, Get(@, index) \o piece),
                                              !.got = Piece(@, y.sse.calls[index], piece)]
    BY <1>3 DEF EmitArgs, ChatDelta
  <2> HIDE DEF y
  <2>4. Sound(EmitArgs(x, index, piece), v)
    BY <2>1, <2>2, <2>3, KnownSound, Zenon
  <2> QED BY <1>3, <2>4 DEF v
<1>4. CASE index \notin DOMAIN x.sse.calls /\ endpoint # "chat"
  <2> DEFINE args1 == Put(x.args, index, Get(x.args, index) \o piece)
  <2>1. EmitArgs(x, index, piece) = [x EXCEPT !.args = args1]
    <3>1. Fragment(x, index, piece) = x.got
      BY <1>4 DEF Fragment
    <3>2. x = [sse |-> x.sse, args |-> x.args, got |-> x.got]
      BY Parts DEF StateType
    <3> QED BY <1>4, <3>1, <3>2 DEF EmitArgs
  <2>2. x \in StateType /\ x.args \in MapType(Txt)
    BY Parts
  <2>3. args1 \in MapType(Txt) /\ DOMAIN args1 = DOMAIN x.args \cup {index}
        /\ \A j : j # index => Get(args1, j) = Get(x.args, j)
    <3>1. Get(x.args, index) \o piece \in Txt
      BY <2>2, GetType, TxtJoin
    <3>2. args1 \in MapType(Txt)
      BY <2>2, <3>1, PutType
    <3>3. DOMAIN args1 = DOMAIN x.args \cup {index} /\ \A j \in DOMAIN args1 : j # index => args1[j] = x.args[j]
      BY DEF Put
    <3> QED BY <3>2, <3>3 DEF Get
  <2> DEFINE y == [x EXCEPT !.args = args1]
  <2> HIDE DEF args1
  <2>4. y \in StateType /\ y.sse = x.sse /\ y.got = x.got /\ y.args = args1
    BY <2>2, <2>3 DEF StateType
  <2> HIDE DEF y
  <2>5. CallsKept(y, v)
    <3>1. CallsKept(x, v)
      BY <1>1, SoundMore DEF Sound
    <3>2. \A j \in DOMAIN x.sse.calls : Get(args1, j) = Get(x.args, j)
      BY <2>3, <1>4
    <3>3. DOMAIN args1 \subseteq DOMAIN x.sse.calls \cup v
      BY <3>1, <1>1, <2>3 DEF CallsKept
    <3> QED BY <3>1, <3>2, <3>3, <2>4 DEF CallsKept
  <2>6. Aligned(y) /\ TextKept(y) /\ Owned(y)
    BY <2>4 DEF Sound, Aligned, TextKept, Owned
  <2> QED BY <1>4, <2>1, <2>5, <2>6 DEF y, v, Sound
<1> QED BY <1>2, <1>3, <1>4

-----------------------------------------------------------------------------
(* Chunks one after another. *)

\* EmitAll is a recursive function: f is what becomes of x chunk by chunk.
Runs(x, cs, n, f) == f = [i \in 0..n |-> IF i = 0 THEN x ELSE Emit(f[i - 1], cs[i])]

LEMMA EmitAllIs ==
    ASSUME NEW x, NEW cs
    PROVE  EmitAll(x, cs) = (CHOOSE f : Runs(x, cs, Len(cs), f))[Len(cs)]
  BY Zenon DEF EmitAll, Runs

LEMMA RunsAre ==
    ASSUME NEW x, NEW cs, NEW n \in Nat, NEW f, Runs(x, cs, n, f)
    PROVE  f[0] = x /\ \A i \in 1..n : f[i] = Emit(f[i - 1], cs[i])
<1>1. 0 \in 0..n /\ \A i \in 1..n : i \in 0..n /\ i # 0
  OBVIOUS
<1> QED BY <1>1 DEF Runs

LEMMA RunsExist ==
    ASSUME NEW x, NEW cs
    PROVE  \A n \in Nat : \E f : Runs(x, cs, n, f)
<1> DEFINE Bad == {n \in Nat : ~\E f : Runs(x, cs, n, f)}
<1> SUFFICES ASSUME Bad # {} PROVE FALSE
  OBVIOUS
<1>1. PICK n \in Bad : \A m \in Bad : n <= m
  <2>1. Bad \in SUBSET Nat
    OBVIOUS
  <2> HIDE DEF Bad
  <2> QED BY LeastOf, <2>1
<1>2. n # 0
  <2>1. Runs(x, cs, 0, [i \in 0..0 |-> x])
    BY DEF Runs
  <2> QED BY <2>1
<1>3. n - 1 \in Nat /\ n - 1 \notin Bad
  BY <1>1, <1>2
<1>4. PICK f : Runs(x, cs, n - 1, f)
  BY <1>3
<1>5. f[0] = x /\ \A i \in 1..(n - 1) : f[i] = Emit(f[i - 1], cs[i])
  BY <1>3, <1>4, RunsAre
<1> DEFINE g == [i \in 0..n |-> IF i = n THEN Emit(f[n - 1], cs[n]) ELSE f[i]]
<1>6. \A i \in 0..n : g[i] = IF i = 0 THEN x ELSE Emit(g[i - 1], cs[i])
  <2> SUFFICES ASSUME NEW i \in 0..n PROVE g[i] = IF i = 0 THEN x ELSE Emit(g[i - 1], cs[i])
    OBVIOUS
  <2>1. CASE i = n
    <3>1. n \in 0..n /\ n - 1 \in 0..n /\ n - 1 # n
      BY <1>2
    <3>2. g[n] = Emit(f[n - 1], cs[n]) /\ g[n - 1] = f[n - 1]
      BY <3>1
    <3> QED BY <2>1, <3>2, <1>2
  <2>2. CASE i # n /\ i # 0
    <3>1. i \in 1..(n - 1) /\ i - 1 \in 0..n /\ i - 1 # n
      BY <2>2
    <3> QED BY <3>1, <2>2, <1>5
  <2>3. CASE i = 0
    BY <2>3, <1>2, <1>5
  <2> QED BY <2>1, <2>2, <2>3
<1>7. Runs(x, cs, n, g)
  <2>1. g = [i \in 0..n |-> g[i]]
    OBVIOUS
  <2> HIDE DEF g
  <2>2. g = [i \in 0..n |-> IF i = 0 THEN x ELSE Emit(g[i - 1], cs[i])]
    BY <1>6, <2>1
  <2> QED BY <2>2 DEF Runs
<1> QED BY <1>1, <1>7

Same(s, t, m) == \A i \in 1..m : s[i] = t[i]

LEMMA RunsUnique ==
    ASSUME NEW x, NEW cs, NEW ds, NEW m \in Nat, NEW n \in Nat, m <= n, NEW f, NEW g,
           Runs(x, cs, m, f), Runs(x, ds, n, g), Same(cs, ds, m)
    PROVE  f[m] = g[m]
<1>0. SUFFICES \A i \in 0..m : f[i] = g[i]
  OBVIOUS
<1> DEFINE Bad == {i \in 0..m : f[i] # g[i]}
<1> SUFFICES ASSUME Bad # {} PROVE FALSE
  OBVIOUS
<1>1. PICK i \in Bad : \A j \in Bad : i <= j
  <2>1. Bad \in SUBSET Nat
    OBVIOUS
  <2> HIDE DEF Bad
  <2> QED BY LeastOf, <2>1
<1>2. /\ f[0] = x /\ \A j \in 1..m : f[j] = Emit(f[j - 1], cs[j])
      /\ g[0] = x /\ \A j \in 1..n : g[j] = Emit(g[j - 1], ds[j])
  BY RunsAre
<1>3. i # 0 /\ i \in 1..m /\ i \in 1..n /\ i - 1 \in 0..m /\ i - 1 \notin Bad
  BY <1>1, <1>2
<1> QED BY <1>2, <1>3 DEF Same

LEMMA EmitAllAt ==
    ASSUME NEW x, NEW cs, NEW ds, NEW m \in Nat, NEW n \in Nat, m <= n, Len(cs) = m,
           Same(cs, ds, m), NEW f, Runs(x, ds, n, f)
    PROVE  EmitAll(x, cs) = f[m]
<1>1. PICK g : Runs(x, cs, m, g) /\ EmitAll(x, cs) = g[m]
  <2> DEFINE h == CHOOSE h : Runs(x, cs, m, h)
  <2>1. Runs(x, cs, m, h)
    BY RunsExist, Zenon
  <2>2. EmitAll(x, cs) = h[m]
    BY EmitAllIs
  <2> HIDE DEF h
  <2> QED BY <2>1, <2>2
<1>2. g[m] = f[m]
  BY <1>1, RunsUnique
<1> QED BY <1>1, <1>2

\* What is made of chunks, by what sequences of them are built from.
LEMMA EmitAllNone ==
    ASSUME NEW x
    PROVE  EmitAll(x, << >>) = x
<1>1. PICK n \in Nat : n = 0 /\ n <= n /\ Len(<< >>) = n /\ Same(<< >>, << >>, n)
  BY DEF Same
<1>2. PICK f : Runs(x, << >>, n, f)
  BY <1>1, RunsExist
<1>3. EmitAll(x, << >>) = f[n]
  BY <1>1, <1>2, EmitAllAt
<1>4. f[0] = x
  BY <1>2, RunsAre
<1> QED BY <1>1, <1>3, <1>4

LEMMA EmitAllAppend ==
    ASSUME NEW x, NEW cs \in Seq(ChunkType), NEW c \in ChunkType
    PROVE  EmitAll(x, Append(cs, c)) = Emit(EmitAll(x, cs), c)
<1> DEFINE ds == Append(cs, c)  m == Len(cs)  n == m + 1
<1>1. /\ m \in Nat /\ n \in Nat /\ m <= n /\ n <= n /\ Len(ds) = n /\ ds[n] = c /\ n \in 1..n /\ n - 1 = m
      /\ Same(cs, ds, m) /\ Same(ds, ds, n)
  BY DEF Same
<1>2. Len(cs) = m
  OBVIOUS
<1> HIDE DEF ds, m, n
<1>3. PICK f : Runs(x, ds, n, f)
  BY <1>1, RunsExist
<1>4. EmitAll(x, cs) = f[m]
  BY <1>1, <1>2, <1>3, EmitAllAt
<1>5. EmitAll(x, ds) = f[n]
  BY <1>1, <1>3, EmitAllAt
<1>6. f[n] = Emit(f[n - 1], ds[n])
  BY <1>1, <1>3, RunsAre
<1> QED BY <1>1, <1>4, <1>5, <1>6 DEF ds

-----------------------------------------------------------------------------
\* The arguments of a call come after it was announced.
Announced(cs) ==
    \A j \in DOMAIN cs : cs[j].kind = "args" =>
       \E i \in 1..(j - 1) : cs[i].kind = "start" /\ cs[i].index = cs[j].index
Started(cs) == {cs[i].index : i \in {j \in DOMAIN cs : cs[j].kind = "start"}}

LEMMA AnnouncedAppend ==
    ASSUME NEW cs \in Seq(ChunkType), NEW c \in ChunkType
    PROVE  /\ Announced(Append(cs, c)) => Announced(cs)
           /\ Announced(cs) /\ c.kind # "args" => Announced(Append(cs, c))
           /\ Announced(Append(cs, c)) /\ c.kind = "args" => c.index \in Started(cs)
           /\ Announced(cs) /\ c.index \in Started(cs) => Announced(Append(cs, c))
           /\ Started(Append(cs, c)) = IF c.kind = "start" THEN Started(cs) \cup {c.index} ELSE Started(cs)
<1> DEFINE ds == Append(cs, c)  n == Len(cs)
<1>1. /\ n \in Nat /\ DOMAIN cs = 1..n /\ DOMAIN ds = 1..(n + 1) /\ ds[n + 1] = c
      /\ \A i \in 1..n : ds[i] = cs[i]
  OBVIOUS
<1>2. \A i : i \in 1..(n + 1) <=> i \in 1..n \/ i = n + 1
  BY <1>1
<1> HIDE DEF ds, n
<1>3. \A j \in 1..n : \A i \in 1..(j - 1) : i \in 1..n
  BY <1>1
<1>4. \A i : i \in 1..(n + 1 - 1) <=> i \in 1..n
  BY <1>1
<1>5. Announced(ds) => Announced(cs)
  BY <1>1, <1>2, <1>3 DEF Announced
<1>6. Announced(cs) /\ c.kind # "args" => Announced(ds)
  BY <1>1, <1>2, <1>3 DEF Announced
<1>7. Announced(ds) /\ c.kind = "args" => c.index \in Started(cs)
  <2> SUFFICES ASSUME Announced(ds), c.kind = "args" PROVE c.index \in Started(cs)
    OBVIOUS
  <2>1. PICK i \in 1..(n + 1 - 1) : ds[i].kind = "start" /\ ds[i].index = ds[n + 1].index
    BY <1>1, <1>2 DEF Announced
  <2>2. i \in 1..n
    BY <1>4
  <2> QED BY <2>1, <2>2, <1>1 DEF Started
<1>8. Announced(cs) /\ c.index \in Started(cs) => Announced(ds)
  <2> SUFFICES ASSUME Announced(cs), c.index \in Started(cs), NEW j \in 1..(n + 1), ds[j].kind = "args"
               PROVE  \E i \in 1..(j - 1) : ds[i].kind = "start" /\ ds[i].index = ds[j].index
    BY <1>1 DEF Announced
  <2>1. CASE j \in 1..n
    BY <2>1, <1>1, <1>3 DEF Announced
  <2>2. CASE j = n + 1
    <3>1. PICK i \in 1..n : cs[i].kind = "start" /\ cs[i].index = c.index
      BY <1>1 DEF Started
    <3> QED BY <3>1, <2>2, <1>1, <1>4
  <2> QED BY <2>1, <2>2, <1>2
<1>9. Started(ds) = IF c.kind = "start" THEN Started(cs) \cup {c.index} ELSE Started(cs)
  <2>1. \A v : v \in Started(ds) <=> \E i \in 1..(n + 1) : ds[i].kind = "start" /\ v = ds[i].index
    BY <1>1 DEF Started
  <2>2. \A v : v \in Started(cs) <=> \E i \in 1..n : cs[i].kind = "start" /\ v = cs[i].index
    BY <1>1 DEF Started
  <2>3. \A v : v \in Started(ds) <=> v \in Started(cs) \/ (c.kind = "start" /\ v = c.index)
    BY <2>1, <2>2, <1>1, <1>2
  <2> QED BY <2>3
<1> QED BY <1>5, <1>6, <1>7, <1>8, <1>9 DEF ds

\* How a state goes on: the calls stay, and the response stays open.
GoesOnTo(x, y) == y.got.end = x.got.end /\ DOMAIN x.sse.calls \subseteq DOMAIN y.sse.calls

LEMMA PieceEnd ==
    ASSUME NEW c \in ClientType, NEW i, NEW piece
    PROVE  Piece(c, i, piece).end = c.end
  BY DEF Piece, ClientType

LEMMA TextGoesOn ==
    ASSUME NEW x, NEW u, Sound(x, u), NEW piece \in Txt
    PROVE  /\ GoesOnTo(x, EmitText(x, piece))
           /\ EmitText(x, piece).sse.all = x.sse.all \o piece
           /\ EmitText(x, piece).sse.calls = x.sse.calls
           /\ EmitText(x, piece).args = x.args
<1>1. x \in StateType /\ x.sse \in SseType /\ x.got \in ClientType /\ x.sse.next = Len(x.got.items)
  BY Parts
<1> DEFINE new == x.sse.text = NoItem
           i == IF new THEN x.sse.next ELSE x.sse.text
           c == IF new THEN Added(x.got, i, "message") ELSE x.got
           d == Piece(c, i, piece)
           next == IF new THEN x.sse.next + 1 ELSE x.sse.next
           s == [x.sse EXCEPT !.text = i, !.next = next, !.all = x.sse.all \o piece]
<1>2. EmitText(x, piece) = [x EXCEPT !.sse = s, !.got = d]
  BY DEF EmitText
<1>3. c \in ClientType /\ c.end = x.got.end
  BY <1>1, AddedFacts
<1> HIDE DEF c, i, next
<1>4. d.end = x.got.end
  BY <1>3, PieceEnd
<1>5. s.calls = x.sse.calls /\ s.all = x.sse.all \o piece
  BY <1>1 DEF SseType
<1> HIDE DEF s, d
<1> QED BY <1>1, <1>2, <1>4, <1>5 DEF GoesOnTo, StateType

LEMMA StartGoesOn ==
    ASSUME NEW x, NEW u, Sound(x, u), NEW index \in Int
    PROVE  /\ GoesOnTo(x, EmitStart(x, index))
           /\ EmitStart(x, index).sse.all = x.sse.all
           /\ DOMAIN EmitStart(x, index).sse.calls = DOMAIN x.sse.calls \cup {index}
           /\ EmitStart(x, index).args = x.args
<1>1. x \in StateType /\ x.sse \in SseType /\ x.got \in ClientType /\ x.sse.next = Len(x.got.items)
  BY Parts
<1>2. CASE index \in DOMAIN x.sse.calls
  BY <1>2 DEF EmitStart, GoesOnTo
<1>3. CASE index \notin DOMAIN x.sse.calls
  <2> DEFINE d == Added(x.got, x.sse.next, "call")  calls == Put(x.sse.calls, index, x.sse.next)
             s == [x.sse EXCEPT !.calls = calls, !.next = x.sse.next + 1]
  <2>1. EmitStart(x, index) = [x EXCEPT !.sse = s, !.got = d]
    BY <1>3 DEF EmitStart
  <2>2. d.end = x.got.end
    BY <1>1, AddedFacts
  <2>3. DOMAIN calls = DOMAIN x.sse.calls \cup {index}
    BY DEF Put
  <2> HIDE DEF calls
  <2>4. s.calls = calls /\ s.all = x.sse.all
    BY <1>1 DEF SseType
  <2> HIDE DEF s, d
  <2> QED BY <1>1, <2>1, <2>2, <2>3, <2>4 DEF GoesOnTo, StateType
<1> QED BY <1>2, <1>3

LEMMA ArgsGoOn ==
    ASSUME NEW x, NEW u, Sound(x, u), NEW index \in Int, NEW piece \in Txt
    PROVE  LET y == EmitArgs(x, index, piece) IN
           /\ GoesOnTo(x, y)
           /\ y.sse.all = x.sse.all
           /\ DOMAIN y.sse.calls \subseteq DOMAIN x.sse.calls \cup {index}
           /\ DOMAIN y.args = DOMAIN x.args \cup {index}
           /\ Get(y.args, index) = Get(x.args, index) \o piece
           /\ \A j : j # index => Get(y.args, j) = Get(x.args, j)
<1>1. x \in StateType /\ x.sse \in SseType /\ x.got \in ClientType /\ x.sse.next = Len(x.got.items)
  BY Parts
<1> DEFINE y == EmitArgs(x, index, piece)
           args1 == Put(x.args, index, Get(x.args, index) \o piece)
<1>2. /\ DOMAIN args1 = DOMAIN x.args \cup {index}
      /\ Get(args1, index) = Get(x.args, index) \o piece
      /\ \A j : j # index => Get(args1, j) = Get(x.args, j)
  <2>1. DOMAIN args1 = DOMAIN x.args \cup {index}
    BY DEF Put
  <2>2. args1[index] = Get(x.args, index) \o piece
    BY DEF Put
  <2>3. \A j \in DOMAIN x.args : j # index => args1[j] = x.args[j]
    BY DEF Put
  <2> HIDE DEF args1
  <2> QED BY <2>1, <2>2, <2>3 DEF Get
<1>3. CASE endpoint = "chat"
  <2> DEFINE z == EmitStart(x, index)  d == Piece(z.got, z.sse.calls[index], piece)
  <2>1. Sound(z, u) /\ GoesOnTo(x, z) /\ z.sse.all = x.sse.all /\ DOMAIN z.sse.calls = DOMAIN x.sse.calls \cup {index}
        /\ z.args = x.args
    BY StartSound, StartGoesOn
  <2>2. z \in StateType /\ z.got \in ClientType
    BY <2>1, Parts
  <2>3. y = [z EXCEPT !.args = args1, !.got = d]
    BY <1>3, <2>1 DEF EmitArgs, ChatDelta
  <2> HIDE DEF z, args1
  <2>4. d.end = z.got.end
    BY <2>2, PieceEnd
  <2> HIDE DEF d, y
  <2>5. y.sse = z.sse /\ y.args = args1 /\ y.got = d
    BY <2>2, <2>3 DEF StateType
  <2> QED BY <2>1, <2>4, <2>5, <1>2 DEF GoesOnTo, y
<1>4. CASE endpoint # "chat"
  <2> DEFINE d == Fragment(x, index, piece)
  <2>1. y = [x EXCEPT !.args = args1, !.got = d]
    BY <1>4 DEF EmitArgs
  <2>2. d.end = x.got.end
    BY <1>1, PieceEnd DEF Fragment
  <2> HIDE DEF d, args1, y
  <2>3. y.sse = x.sse /\ y.args = args1 /\ y.got = d
    BY <1>1, <2>1 DEF StateType
  <2> QED BY <2>2, <2>3, <1>2 DEF GoesOnTo, y
<1> QED BY <1>3, <1>4

-----------------------------------------------------------------------------
(* Items and the chunks they become. *)

\* Of an item that comes out of the extractor: what is its text, and what makes it a call.
LEMMA ItemKinds ==
    /\ \A item \in Piece1 : item \in Txt /\ ~IsCall(item)
    /\ \A item \in Calls1 : IsCall(item) /\ Tail(item) \in Txt
    /\ \A body \in Txt : Tail(Call(body)) = body
<1>0. \A a \in Alphabet : a # "call"
  BY DEF Alphabet
<1>1. \A item \in Piece1 : item \in Txt /\ ~IsCall(item)
  <2>1. ASSUME NEW a \in Alphabet PROVE <<a>> \in Txt /\ ~IsCall(<<a>>)
    <3>1. <<a>> \in Seq(Alphabet) /\ <<a>>[1] = a
      OBVIOUS
    <3> QED BY <1>0, <3>1 DEF Txt, IsCall
  <2> QED BY <2>1 DEF Piece1
<1>2. ASSUME NEW body \in Txt PROVE IsCall(Call(body)) /\ Tail(Call(body)) = body
  <2> DEFINE Letters == Alphabet \cup {"call"}
  <2>0. Alphabet \subseteq Letters /\ "call" \in Letters /\ body \in Seq(Alphabet)
    BY DEF Txt
  <2> HIDE DEF Letters
  <2>1. body \in Seq(Letters) /\ <<"call">> \in Seq(Letters)
    BY <2>0
  <2> DEFINE c == <<"call">> \o body
  <2>2. /\ c \in Seq(Letters) /\ Len(c) = 1 + Len(body) /\ Len(body) \in Nat /\ c[1] = "call"
        /\ \A i \in 1..Len(body) : c[i + 1] = body[i]
    <3> DEFINE w == <<"call">>
    <3>1. w \in Seq(Letters) /\ Len(w) = 1 /\ w[1] = "call"
      BY <2>1
    <3> HIDE DEF w
    <3>2. /\ w \o body \in Seq(Letters) /\ Len(w \o body) = 1 + Len(body) /\ Len(body) \in Nat
          /\ \A i \in 1..(1 + Len(body)) : (w \o body)[i] = IF i <= 1 THEN w[i] ELSE body[i - 1]
      BY <2>1, <3>1, ConcatProperties, SMTT(40)
    <3>3. \A i \in 1..Len(body) : i + 1 \in 1..(1 + Len(body)) /\ ~(i + 1 <= 1) /\ i + 1 - 1 = i
      BY <3>2
    <3>4. 1 \in 1..(1 + Len(body))
      BY <3>2
    <3> QED BY <3>1, <3>2, <3>3, <3>4 DEF w
  <2> HIDE DEF c
  <2>3. Tail(c) = body
    <3>1. Len(Tail(c)) = Len(body) /\ Tail(c) \in Seq(Letters) /\ \A i \in 1..Len(body) : Tail(c)[i] = c[i + 1]
      BY <2>2
    <3> QED BY <3>1, <2>1, <2>2
  <2> QED BY <2>2, <2>3 DEF IsCall, Call, c
<1>3. \A item \in Calls1 : IsCall(item) /\ Tail(item) \in Txt
  BY <1>2 DEF Calls1
<1> QED BY <1>1, <1>2, <1>3

CallPart(item) == IF IsCall(item) THEN <<item>> ELSE << >>
TextPart(item) == IF IsCall(item) THEN << >> ELSE item
TailPart(item) == IF IsCall(item) THEN <<Tail(item)>> ELSE << >>
TailsOf(items) == FlattenSeq([i \in DOMAIN items |-> TailPart(items[i])])

LEMMA PartTypes ==
    \A item \in OutType : CallPart(item) \in Seq(Calls1) /\ TextPart(item) \in Txt /\ TailPart(item) \in Seq(Txt)
  BY ItemKinds DEF OutType, CallPart, TextPart, TailPart, Txt

LEMMA CallsOfIs ==
    ASSUME NEW items
    PROVE  /\ CallsOf(items) = FlattenSeq([i \in DOMAIN items |-> CallPart(items[i])])
           /\ TextOf(items) = FlattenSeq([i \in DOMAIN items |-> TextPart(items[i])])
  BY Zenon DEF CallsOf, CallPart, TextOf, TextPart

LEMMA NoItems ==
    /\ CallsOf(<< >>) = << >> /\ TextOf(<< >>) = << >> /\ TailsOf(<< >>) = << >>
    /\ \A n : ToChunks(<< >>, n) = << >>
<1>1. /\ [i \in DOMAIN << >> |-> CallPart((<< >>)[i])] = << >>
      /\ [i \in DOMAIN << >> |-> TextPart((<< >>)[i])] = << >>
      /\ [i \in DOMAIN << >> |-> TailPart((<< >>)[i])] = << >>
  OBVIOUS
<1>2. ASSUME NEW n PROVE ToChunks(<< >>, n) = << >>
  BY FlattenEmpty DEF ToChunks
<1>3. ASSUME NEW e, e = << >> PROVE CallsOf(e) = << >> /\ TextOf(e) = << >>
  <2>1. /\ [i \in DOMAIN e |-> CallPart(e[i])] = << >>
        /\ [i \in DOMAIN e |-> TextPart(e[i])] = << >>
    BY <1>3
  <2> QED BY <2>1, FlattenEmpty, CallsOfIs
<1>4. TailsOf(<< >>) = << >>
  BY <1>1, FlattenEmpty, Zenon DEF TailsOf
<1> QED BY <1>2, <1>3, <1>4

\* Mapped part by part, one item more is one part more.
LEMMA PartsAppend ==
    ASSUME NEW items \in Seq(OutType), NEW item \in OutType
    PROVE  /\ CallsOf(Append(items, item)) = CallsOf(items) \o CallPart(item)
           /\ TextOf(Append(items, item)) = TextOf(items) \o TextPart(item)
           /\ TailsOf(Append(items, item)) = TailsOf(items) \o TailPart(item)
<1> DEFINE more == Append(items, item)
<1>1. /\ DOMAIN items = 1..Len(items) /\ Len(items) \in Nat /\ DOMAIN more = 1..(Len(items) + 1)
      /\ more[Len(items) + 1] = item /\ \A i \in 1..Len(items) : more[i] = items[i] /\ items[i] \in OutType
  OBVIOUS
<1> HIDE DEF more
<1>2. CallsOf(more) = CallsOf(items) \o CallPart(item)
  <2> DEFINE ss == [i \in DOMAIN items |-> CallPart(items[i])]
  <2>1. ss \in Seq(Seq(Calls1)) /\ CallPart(item) \in Seq(Calls1)
    BY <1>1, PartTypes
  <2>2. [i \in DOMAIN more |-> CallPart(more[i])] = Append(ss, CallPart(item))
    BY <1>1
  <2>3. FlattenSeq(Append(ss, CallPart(item))) = FlattenSeq(ss) \o CallPart(item)
    <3> HIDE DEF ss
    <3> QED BY <2>1, FlattenAppend
  <2> QED BY <2>2, <2>3, CallsOfIs
<1>3. TextOf(more) = TextOf(items) \o TextPart(item)
  <2> DEFINE ss == [i \in DOMAIN items |-> TextPart(items[i])]
  <2>1. ss \in Seq(Seq(Alphabet)) /\ TextPart(item) \in Seq(Alphabet)
    BY <1>1, PartTypes DEF Txt
  <2>2. [i \in DOMAIN more |-> TextPart(more[i])] = Append(ss, TextPart(item))
    BY <1>1
  <2>3. FlattenSeq(Append(ss, TextPart(item))) = FlattenSeq(ss) \o TextPart(item)
    <3> HIDE DEF ss
    <3> QED BY <2>1, FlattenAppend
  <2> QED BY <2>2, <2>3, CallsOfIs
<1>4. TailsOf(more) = TailsOf(items) \o TailPart(item)
  <2> DEFINE ss == [i \in DOMAIN items |-> TailPart(items[i])]
  <2>1. ss \in Seq(Seq(Txt)) /\ TailPart(item) \in Seq(Txt)
    BY <1>1, PartTypes
  <2>2. [i \in DOMAIN more |-> TailPart(more[i])] = Append(ss, TailPart(item))
    BY <1>1
  <2>3. FlattenSeq(Append(ss, TailPart(item))) = FlattenSeq(ss) \o TailPart(item)
    <3> HIDE DEF ss
    <3> QED BY <2>1, FlattenAppend
  <2> QED BY <2>2, <2>3 DEF TailsOf
<1> QED BY <1>2, <1>3, <1>4 DEF more

LEMMA PartsType ==
    ASSUME NEW items \in Seq(OutType)
    PROVE  CallsOf(items) \in Seq(Calls1) /\ TextOf(items) \in Txt /\ TailsOf(items) \in Seq(Txt)
<1> DEFINE P == {s \in Seq(OutType) : CallsOf(s) \in Seq(Calls1) /\ TextOf(s) \in Txt /\ TailsOf(s) \in Seq(Txt)}
<1>1. << >> \in P
  <2>1. << >> \in Seq(OutType) /\ << >> \in Seq(Calls1) /\ << >> \in Seq(Alphabet) /\ << >> \in Seq(Txt)
    OBVIOUS
  <2> QED BY <2>1, NoItems DEF Txt
<1>2. ASSUME NEW s \in P, NEW e \in OutType PROVE Append(s, e) \in P
  <2>1. /\ s \in Seq(OutType) /\ CallsOf(s) \in Seq(Calls1) /\ TextOf(s) \in Txt /\ TailsOf(s) \in Seq(Txt)
        /\ CallPart(e) \in Seq(Calls1) /\ TextPart(e) \in Txt /\ TailPart(e) \in Seq(Txt)
    BY PartTypes
  <2> DEFINE a == CallsOf(s)  b == CallPart(e)  c == TailsOf(s)  d == TailPart(e)
  <2>2. a \o b \in Seq(Calls1) /\ c \o d \in Seq(Txt)
    <3> HIDE DEF a, b, c, d
    <3> QED BY <2>1 DEF a, b, c, d
  <2>3. TextOf(s) \o TextPart(e) \in Txt
    BY <2>1, TxtJoin
  <2>4. Append(s, e) \in Seq(OutType)
    BY <2>1
  <2> QED BY <2>1, <2>2, <2>3, <2>4, PartsAppend
<1> HIDE DEF P
<1>3. P \in SUBSET Seq(OutType)
  BY DEF P
<1>4. Seq(OutType) \subseteq P
  BY <1>1, <1>2, <1>3, ByAppending
<1> QED BY <1>4 DEF P

Chunks1(item, index) ==
    IF IsCall(item) THEN <<Chunk("start", index, << >>), Chunk("args", index, Tail(item))>>
    ELSE <<Chunk("text", NoItem, item)>>
IndexOf(items, n, i) == Recovered100 + n + Len(CallsOf(SubSeq(items, 1, i - 1)))

LEMMA ToChunksIs ==
    ASSUME NEW items, NEW n
    PROVE  ToChunks(items, n) = FlattenSeq([i \in DOMAIN items |-> Chunks1(items[i], IndexOf(items, n, i))])
  BY Zenon DEF ToChunks, Chunks1, IndexOf

LEMMA ChunksType ==
    ASSUME NEW item \in OutType, NEW index \in Int
    PROVE  Chunks1(item, index) \in Seq(ChunkType)
<1>1. CASE IsCall(item)
  <2>1. Tail(item) \in Txt
    BY <1>1, ItemKinds DEF OutType
  <2>2. Chunk("start", index, << >>) \in ChunkType /\ Chunk("args", index, Tail(item)) \in ChunkType
    BY <2>1 DEF Chunk, ChunkType, Txt
  <2> QED BY <1>1, <2>2 DEF Chunks1
<1>2. CASE ~IsCall(item)
  <2>1. item \in Txt
    BY <1>2, ItemKinds DEF OutType
  <2>2. Chunk("text", NoItem, item) \in ChunkType
    BY <2>1 DEF Chunk, ChunkType, NoItem
  <2> QED BY <1>2, <2>2 DEF Chunks1
<1> QED BY <1>1, <1>2

LEMMA ChunksAppend ==
    ASSUME NEW items \in Seq(OutType), NEW item \in OutType, NEW n \in Nat
    PROVE  ToChunks(Append(items, item), n) =
               ToChunks(items, n) \o Chunks1(item, Recovered100 + n + Len(CallsOf(items)))
<1> DEFINE more == Append(items, item)  k == Len(items)
           ss == [i \in DOMAIN items |-> Chunks1(items[i], IndexOf(items, n, i))]
           last == Chunks1(item, Recovered100 + n + Len(CallsOf(items)))
<1>1. /\ k \in Nat /\ DOMAIN items = 1..k /\ DOMAIN more = 1..(k + 1) /\ more[k + 1] = item
      /\ \A i \in 1..k : more[i] = items[i] /\ items[i] \in OutType
  OBVIOUS
<1>2. \A i \in 0..k : SubSeq(items, 1, i) \in Seq(OutType) /\ SubSeq(more, 1, i) = SubSeq(items, 1, i)
  <2> SUFFICES ASSUME NEW i \in 0..k PROVE SubSeq(items, 1, i) \in Seq(OutType) /\ SubSeq(more, 1, i) = SubSeq(items, 1, i)
    OBVIOUS
  <2>1. more \in Seq(OutType) /\ Len(more) = k + 1 /\ i \in 0..Len(more)
    OBVIOUS
  <2> HIDE DEF more
  <2>2. /\ SubSeq(items, 1, i) \in Seq(OutType) /\ Len(SubSeq(items, 1, i)) = i
        /\ \A j \in 1..i : SubSeq(items, 1, i)[j] = items[j]
    BY FrontFacts
  <2>3. /\ SubSeq(more, 1, i) \in Seq(OutType) /\ Len(SubSeq(more, 1, i)) = i
        /\ \A j \in 1..i : SubSeq(more, 1, i)[j] = more[j]
    BY <2>1, FrontFacts
  <2>4. \A j \in 1..i : j \in 1..k
    OBVIOUS
  <2> DEFINE a == SubSeq(items, 1, i)  b == SubSeq(more, 1, i)
  <2>5. a \in Seq(OutType) /\ b \in Seq(OutType) /\ Len(a) = i /\ Len(b) = i /\ \A j \in 1..i : a[j] = b[j]
    BY <1>1, <2>2, <2>3, <2>4
  <2> HIDE DEF a, b
  <2>6. a = b
    BY <2>5
  <2> QED BY <2>2, <2>6 DEF a, b
<1>3. SubSeq(items, 1, k) = items
  OBVIOUS
<1>4. \A i \in 1..k : i - 1 \in 0..k
  BY <1>1
<1>5. \A i \in 1..k : IndexOf(more, n, i) = IndexOf(items, n, i) /\ IndexOf(items, n, i) \in Int
  <2> SUFFICES ASSUME NEW i \in 1..k PROVE IndexOf(more, n, i) = IndexOf(items, n, i) /\ IndexOf(items, n, i) \in Int
    OBVIOUS
  <2> DEFINE a == CallsOf(SubSeq(items, 1, i - 1))
  <2>1. a \in Seq(Calls1)
    BY <1>2, <1>4, PartsType
  <2> HIDE DEF a
  <2>2. Len(a) \in Nat
    BY <2>1
  <2>3. CallsOf(SubSeq(more, 1, i - 1)) = a
    BY <1>2, <1>4, Zenon DEF a
  <2>4. IndexOf(more, n, i) = Recovered100 + n + Len(a) /\ IndexOf(items, n, i) = Recovered100 + n + Len(a)
    BY <2>3, Zenon DEF IndexOf, a
  <2> QED BY <2>2, <2>4 DEF Recovered100
<1>6. Recovered100 + n + Len(CallsOf(items)) \in Int /\ IndexOf(more, n, k + 1) = Recovered100 + n + Len(CallsOf(items))
  <2> HIDE DEF more, k
  <2> DEFINE a == CallsOf(items)
  <2>1. a \in Seq(Calls1)
    BY PartsType
  <2> HIDE DEF a
  <2>2. Len(a) \in Nat
    BY <2>1
  <2>3. PICK j : j = k + 1 /\ j - 1 = k /\ k \in 0..k
    BY <1>1
  <2>4. SubSeq(more, 1, j - 1) = items
    BY <1>2, <1>3, <2>3
  <2>5. IndexOf(more, n, k + 1) = Recovered100 + n + Len(a)
    <3>1. \A s, i : SubSeq(s, 1, i - 1) = items => IndexOf(s, n, i) = Recovered100 + n + Len(a)
      BY DEF IndexOf, a
    <3>2. IndexOf(more, n, j) = Recovered100 + n + Len(a)
      BY <3>1, <2>4
    <3> QED BY <3>2, <2>3
  <2> QED BY <2>2, <2>5 DEF Recovered100, a
<1> HIDE DEF more, k
<1>7. ss \in Seq(Seq(ChunkType)) /\ last \in Seq(ChunkType)
  <2>1. \A i \in 1..k : Chunks1(items[i], IndexOf(items, n, i)) \in Seq(ChunkType)
    BY <1>1, <1>5, ChunksType
  <2> QED BY <1>1, <1>6, <2>1, ChunksType
<1>8. [i \in DOMAIN more |-> Chunks1(more[i], IndexOf(more, n, i))] = Append(ss, last)
  <2> DEFINE f == [i \in DOMAIN more |-> Chunks1(more[i], IndexOf(more, n, i))]
  <2>1. \A i \in 1..k : f[i] = ss[i]
    BY <1>1, <1>5
  <2>2. f[k + 1] = last
    BY <1>1, <1>6
  <2>3. DOMAIN f = 1..(k + 1) /\ Len(ss) = k /\ f = [i \in 1..(k + 1) |-> f[i]]
    BY <1>1
  <2> HIDE DEF f, ss, last
  <2> DEFINE A == Append(ss, last)
  <2>4. /\ A \in Seq(Seq(ChunkType)) /\ Len(A) = k + 1 /\ A[k + 1] = last /\ \A i \in 1..k : A[i] = ss[i]
    BY <1>7, <2>3
  <2> HIDE DEF A
  <2>5. \A i \in 1..(k + 1) : i \in 1..k \/ i = k + 1
    BY <1>1
  <2>6. A = [i \in 1..(k + 1) |-> A[i]]
    BY <2>4
  <2>7. \A i \in 1..(k + 1) : f[i] = A[i]
    BY <2>1, <2>2, <2>4, <2>5
  <2> QED BY <2>3, <2>6, <2>7 DEF f, A
<1> HIDE DEF ss, last
<1>9. FlattenSeq(Append(ss, last)) = FlattenSeq(ss) \o last
  BY <1>7, FlattenAppend
<1> QED BY <1>8, <1>9, ToChunksIs DEF ss, last, more

-----------------------------------------------------------------------------
(* What chunks tell the client. *)

LEMMA EmitSound ==
    ASSUME NEW x, NEW u, Sound(x, u), NEW c \in ChunkType, c.kind = "args" => c.index \in DOMAIN x.sse.calls
    PROVE  /\ Sound(Emit(x, c), u) /\ GoesOnTo(x, Emit(x, c))
           /\ c.kind = "start" => c.index \in DOMAIN Emit(x, c).sse.calls
<1>1. c.kind \in {"text", "start", "args"} /\ c.index \in Int /\ c.piece \in Txt
  BY DEF ChunkType
<1>2. CASE c.kind = "text"
  <2>1. Emit(x, c) = EmitText(x, c.piece)
    BY <1>2 DEF Emit
  <2> QED BY <1>1, <1>2, <2>1, TextSound, TextGoesOn
<1>3. CASE c.kind = "start"
  <2>1. Emit(x, c) = EmitStart(x, c.index)
    BY <1>3 DEF Emit
  <2> QED BY <1>1, <1>3, <2>1, StartSound, StartGoesOn
<1>4. CASE c.kind = "args"
  <2>1. Emit(x, c) = EmitArgs(x, c.index, c.piece)
    BY <1>4 DEF Emit
  <2>2. GoesOnTo(x, Emit(x, c))
    BY <1>1, <2>1, ArgsGoOn
  <2>3. Sound(Emit(x, c), u)
    BY <1>1, <1>4, <2>1, ArgsSound
  <2> QED BY <1>4, <2>2, <2>3
<1> QED BY <1>1, <1>2, <1>3, <1>4

\* Chunks that announce their calls leave what the client has as it should be.
LEMMA RunSound ==
    ASSUME NEW x, NEW u, Sound(x, u), NEW cs \in Seq(ChunkType), Announced(cs)
    PROVE  Sound(EmitAll(x, cs), u) /\ GoesOnTo(x, EmitAll(x, cs))
<1> DEFINE Good(s) == Sound(EmitAll(x, s), u) /\ GoesOnTo(x, EmitAll(x, s))
                      /\ Started(s) \subseteq DOMAIN EmitAll(x, s).sse.calls
           P == {s \in Seq(ChunkType) : Announced(s) => Good(s)}
<1>1. << >> \in P
  <2>1. EmitAll(x, << >>) = x
    BY EmitAllNone
  <2>2. Started(<< >>) = {} /\ << >> \in Seq(ChunkType)
    BY DEF Started
  <2> QED BY <2>1, <2>2 DEF GoesOnTo
<1>2. ASSUME NEW s \in P, NEW c \in ChunkType PROVE Append(s, c) \in P
  <2>1. s \in Seq(ChunkType) /\ (Announced(s) => Good(s)) /\ Append(s, c) \in Seq(ChunkType)
    OBVIOUS
  <2> SUFFICES ASSUME Announced(Append(s, c)) PROVE Good(Append(s, c))
    BY <2>1
  <2>2. /\ Announced(s) /\ (c.kind = "args" => c.index \in Started(s))
        /\ Started(Append(s, c)) = IF c.kind = "start" THEN Started(s) \cup {c.index} ELSE Started(s)
    BY <2>1, AnnouncedAppend
  <2>3. EmitAll(x, Append(s, c)) = Emit(EmitAll(x, s), c)
    BY <2>1, EmitAllAppend
  <2>4. PICK y : y = EmitAll(x, s)
    OBVIOUS
  <2>5. Sound(y, u) /\ GoesOnTo(x, y) /\ Started(s) \subseteq DOMAIN y.sse.calls
    BY <2>1, <2>2, <2>4
  <2>6. /\ Sound(Emit(y, c), u) /\ GoesOnTo(y, Emit(y, c))
        /\ c.kind = "start" => c.index \in DOMAIN Emit(y, c).sse.calls
    BY <2>2, <2>5, EmitSound
  <2> QED BY <2>2, <2>3, <2>4, <2>5, <2>6 DEF GoesOnTo
<1> HIDE DEF P
<1>3. P \in SUBSET Seq(ChunkType)
  BY DEF P
<1>4. Seq(ChunkType) \subseteq P
  BY <1>1, <1>2, <1>3, ByAppending
<1> QED BY <1>4 DEF P

\* What a tail of chunks does, one after the other.
LEMMA EmitAllOne ==
    ASSUME NEW x, NEW cs \in Seq(ChunkType), NEW c \in ChunkType
    PROVE  cs \o <<c>> \in Seq(ChunkType) /\ EmitAll(x, cs \o <<c>>) = Emit(EmitAll(x, cs), c)
<1>1. cs \o <<c>> = Append(cs, c) /\ Append(cs, c) \in Seq(ChunkType)
  OBVIOUS
<1> QED BY <1>1, EmitAllAppend

LEMMA EmitAllTwo ==
    ASSUME NEW x, NEW cs \in Seq(ChunkType), NEW c \in ChunkType, NEW d \in ChunkType
    PROVE  /\ cs \o <<c, d>> = Append(Append(cs, c), d)
           /\ EmitAll(x, cs \o <<c, d>>) = Emit(Emit(EmitAll(x, cs), c), d)
<1>1. cs \o <<c, d>> = Append(Append(cs, c), d) /\ Append(cs, c) \in Seq(ChunkType)
  OBVIOUS
<1> QED BY <1>1, EmitAllAppend

\* The chunks of what the extractor lets out: calls are announced.
LEMMA ChunksFacts ==
    ASSUME NEW n \in Nat, NEW items \in Seq(OutType)
    PROVE  ToChunks(items, n) \in Seq(ChunkType) /\ Announced(ToChunks(items, n))
<1> DEFINE P == {s \in Seq(OutType) : ToChunks(s, n) \in Seq(ChunkType) /\ Announced(ToChunks(s, n))}
<1>1. << >> \in P
  <2>1. << >> \in Seq(ChunkType) /\ << >> \in Seq(OutType) /\ Announced(<< >>)
    BY DEF Announced
  <2> QED BY <2>1, NoItems
<1>2. ASSUME NEW s \in P, NEW e \in OutType PROVE Append(s, e) \in P
  <2>1. s \in Seq(OutType) /\ Append(s, e) \in Seq(OutType)
    OBVIOUS
  <2> DEFINE index == Recovered100 + n + Len(CallsOf(s))  cs == ToChunks(s, n)
  <2>2. index \in Int
    <3>1. CallsOf(s) \in Seq(Calls1)
      BY <2>1, PartsType
    <3> DEFINE a == CallsOf(s)
    <3> HIDE DEF a
    <3>2. Len(a) \in Nat
      BY <3>1 DEF a
    <3> QED BY <3>2 DEF Recovered100, a
  <2>3. cs \in Seq(ChunkType) /\ Announced(cs)
    OBVIOUS
  <2>4. ToChunks(Append(s, e), n) = cs \o Chunks1(e, index)
    BY <2>1, ChunksAppend
  <2> HIDE DEF cs, index
  <2>5. CASE IsCall(e)
    <3> DEFINE c == Chunk("start", index, << >>)  d == Chunk("args", index, Tail(e))
    <3>1. c \in ChunkType /\ d \in ChunkType /\ c.kind = "start" /\ c.index = index /\ d.kind = "args" /\ d.index = index
      <4>1. Tail(e) \in Txt /\ << >> \in Txt
        BY <2>5, ItemKinds DEF OutType, Txt
      <4> QED BY <2>2, <4>1 DEF Chunk, ChunkType
    <3>2. Chunks1(e, index) = <<c, d>>
      BY <2>5 DEF Chunks1
    <3> HIDE DEF c, d
    <3>3. Announced(Append(cs, c)) /\ index \in Started(Append(cs, c)) /\ Append(cs, c) \in Seq(ChunkType)
      <4>1. Append(cs, c) \in Seq(ChunkType)
        BY <2>3, <3>1
      <4> QED BY <2>3, <3>1, <4>1, AnnouncedAppend
    <3>4. Announced(Append(Append(cs, c), d)) /\ Append(Append(cs, c), d) \in Seq(ChunkType)
      <4>1. Append(Append(cs, c), d) \in Seq(ChunkType)
        BY <3>1, <3>3
      <4> QED BY <3>1, <3>3, <4>1, AnnouncedAppend
    <3>5. cs \o <<c, d>> = Append(Append(cs, c), d)
      BY <2>3, <3>1, EmitAllTwo
    <3> QED BY <2>1, <2>4, <3>2, <3>4, <3>5
  <2>6. CASE ~IsCall(e)
    <3> DEFINE c == Chunk("text", NoItem, e)
    <3>1. c \in ChunkType /\ c.kind = "text"
      BY <2>6, ItemKinds DEF OutType, Chunk, ChunkType, NoItem
    <3>2. Chunks1(e, index) = <<c>>
      BY <2>6 DEF Chunks1
    <3> HIDE DEF c
    <3>3. cs \o <<c>> = Append(cs, c) /\ Append(cs, c) \in Seq(ChunkType)
      BY <2>3, <3>1
    <3>4. Announced(Append(cs, c))
      BY <2>3, <3>1, AnnouncedAppend
    <3> QED BY <2>1, <2>4, <3>2, <3>3, <3>4
  <2> QED BY <2>5, <2>6
<1> HIDE DEF P
<1>3. P \in SUBSET Seq(OutType)
  BY DEF P
<1>4. Seq(OutType) \subseteq P
  BY <1>1, <1>2, <1>3, ByAppending
<1> QED BY <1>4 DEF P

\* and so are those up to any of them.
LEMMA AnnouncedFront ==
    ASSUME NEW cs \in Seq(ChunkType), Announced(cs), NEW k \in DOMAIN cs
    PROVE  SubSeq(cs, 1, k) \in Seq(ChunkType) /\ Announced(SubSeq(cs, 1, k))
<1> DEFINE ds == SubSeq(cs, 1, k)
<1>1. DOMAIN cs = 1..Len(cs) /\ k \in 0..Len(cs) /\ k \in Nat
  OBVIOUS
<1>2. ds \in Seq(ChunkType) /\ Len(ds) = k /\ \A j \in 1..k : ds[j] = cs[j]
  BY <1>1, FrontFacts
<1> HIDE DEF ds
<1>3. DOMAIN ds = 1..k /\ 1..k \subseteq 1..Len(cs) /\ \A j \in 1..k : \A i \in 1..(j - 1) : i \in 1..k
  BY <1>1, <1>2
<1>4. Announced(ds)
  BY <1>1, <1>2, <1>3 DEF Announced
<1> QED BY <1>2, <1>4 DEF ds

-----------------------------------------------------------------------------
\* Recovered calls have the numbers from 100 on, and Heard are their arguments.
Numbers(n) == Recovered100..(Recovered100 + n - 1)
Numbered(x, n) ==
    /\ DOMAIN x.sse.calls \ {Native} = Numbers(n)
    /\ DOMAIN x.args \subseteq {Native} \cup Numbers(n)
Heard(x, n) == [i \in 1..n |-> Get(x.args, Recovered100 + i - 1)]

LEMMA NumbersNext ==
    ASSUME NEW n \in Nat
    PROVE  /\ Numbers(n + 1) = Numbers(n) \cup {Recovered100 + n}
           /\ Recovered100 + n \notin Numbers(n) /\ Recovered100 + n # Native /\ Native \notin Numbers(n)
           /\ \A i \in 1..n : Recovered100 + i - 1 \in Numbers(n)
  BY DEF Numbers, Recovered100, Native

IsNumber(index, n) == index = Recovered100 + n

Tells(x, y, n, items) ==
    /\ y.sse.all = x.sse.all \o TextOf(items)
    /\ Numbered(y, n + Len(CallsOf(items)))
    /\ Heard(y, n + Len(CallsOf(items))) = Heard(x, n) \o TailsOf(items)

LEMMA HeardType ==
    ASSUME NEW x, NEW u, Sound(x, u), NEW n \in Nat
    PROVE  Heard(x, n) \in Seq(Txt) /\ Len(Heard(x, n)) = n
  BY Parts, GetType DEF Heard

LEMMA TextTells ==
    ASSUME NEW x, NEW u, Sound(x, u), NEW m \in Nat, Numbered(x, m), NEW piece \in Txt
    PROVE  LET y == EmitText(x, piece)
           IN  y.sse.all = x.sse.all \o piece /\ Numbered(y, m) /\ Heard(y, m) = Heard(x, m)
  BY TextGoesOn DEF Numbered, Heard

LEMMA CallTells ==
    ASSUME NEW x, NEW u, Sound(x, u), NEW m \in Nat, Numbered(x, m), NEW piece \in Txt,
           NEW index \in Int, IsNumber(index, m)
    PROVE  LET z == EmitStart(x, index)
               y == EmitArgs(z, index, piece)
           IN
           /\ y.sse.all = x.sse.all /\ Numbered(y, m + 1) /\ Heard(y, m + 1) = Heard(x, m) \o <<piece>>
<1> DEFINE z == EmitStart(x, index)
           y == EmitArgs(z, index, piece)
<1>1. /\ index \in Int /\ index # Native /\ index \notin Numbers(m) /\ Numbers(m + 1) = Numbers(m) \cup {index}
      /\ \A i \in 1..m : Recovered100 + i - 1 \in Numbers(m)
  BY NumbersNext DEF Recovered100, IsNumber
<1>2. /\ Sound(z, u) /\ z.sse.all = x.sse.all /\ z.args = x.args
      /\ DOMAIN z.sse.calls = DOMAIN x.sse.calls \cup {index} /\ index \in DOMAIN z.sse.calls
  BY <1>1, StartSound, StartGoesOn
<1>3. /\ y.sse.all = z.sse.all /\ DOMAIN y.sse.calls = DOMAIN z.sse.calls
      /\ DOMAIN y.args = DOMAIN x.args \cup {index} /\ Get(y.args, index) = Get(x.args, index) \o piece
      /\ \A j : j # index => Get(y.args, j) = Get(x.args, j)
  <2>1. /\ GoesOnTo(z, y)
        /\ y.sse.all = z.sse.all
        /\ DOMAIN y.sse.calls \subseteq DOMAIN z.sse.calls \cup {index}
        /\ DOMAIN y.args = DOMAIN z.args \cup {index}
        /\ Get(y.args, index) = Get(z.args, index) \o piece
        /\ \A j : j # index => Get(y.args, j) = Get(z.args, j)
    <3> HIDE DEF z
    <3>1. Sound(z, u) /\ index \in Int
      BY <1>1, <1>2
    <3> QED BY <3>1, ArgsGoOn, ZenonT(60)
  <2>2. DOMAIN y.sse.calls = DOMAIN z.sse.calls
    BY <2>1, <1>2 DEF GoesOnTo
  <2> QED BY <2>1, <2>2, <1>2
<1> HIDE DEF y, z
<1>4. index \notin DOMAIN x.args
  BY <1>1 DEF Numbered
<1>5. Get(y.args, index) = piece
  <2>1. Get(x.args, index) = << >>
    BY <1>4 DEF Get
  <2>2. << >> \o piece = piece
    BY DEF Txt
  <2> QED BY <1>3, <2>1, <2>2
<1>6. Numbered(y, m + 1)
  BY <1>1, <1>2, <1>3 DEF Numbered
<1>7. Heard(y, m + 1) = Heard(x, m) \o <<piece>>
  <2> DEFINE h == Heard(x, m)  k == Heard(y, m + 1)
  <2>1. h \in Seq(Txt) /\ Len(h) = m
    BY HeardType
  <2>2. k = [i \in 1..(m + 1) |-> Get(y.args, Recovered100 + i - 1)] /\ h = [i \in 1..m |-> Get(x.args, Recovered100 + i - 1)]
    BY DEF Heard
  <2>3. \A i \in 1..m : k[i] = h[i]
    <3> SUFFICES ASSUME NEW i \in 1..m PROVE k[i] = h[i]
      OBVIOUS
    <3>1. Recovered100 + i - 1 # index /\ i \in 1..(m + 1)
      BY <1>1
    <3> HIDE DEF k, h
    <3> QED BY <3>1, <2>2, <1>3
  <2>4. k[m + 1] = piece
    <3>1. Recovered100 + (m + 1) - 1 = index /\ m + 1 \in 1..(m + 1)
      BY DEF Recovered100, IsNumber
    <3> HIDE DEF k, h
    <3> QED BY <3>1, <2>2, <1>5
  <2> HIDE DEF k, h
  <2>5. h \o <<piece>> = Append(h, piece)
    BY <2>1
  <2> DEFINE A == Append(h, piece)
  <2>6. A = [i \in 1..(m + 1) |-> A[i]] /\ A[m + 1] = piece /\ \A i \in 1..m : A[i] = h[i]
    <3>1. A \in Seq(Txt) /\ Len(A) = m + 1
      BY <2>1
    <3>2. A[m + 1] = piece /\ \A i \in 1..m : A[i] = h[i]
      BY <2>1
    <3> HIDE DEF A
    <3> QED BY <3>1, <3>2
  <2>7. k = [i \in 1..(m + 1) |-> k[i]]
    BY <2>2
  <2> HIDE DEF A
  <2>8. \A i \in 1..(m + 1) : k[i] = A[i]
    <3>1. \A i \in 1..(m + 1) : i \in 1..m \/ i = m + 1
      OBVIOUS
    <3> QED BY <3>1, <2>3, <2>4, <2>6
  <2>9. k = A
    BY <2>6, <2>7, <2>8
  <2> QED BY <2>5, <2>9 DEF A, h, k
<1> QED BY <1>2, <1>3, <1>6, <1>7 DEF y, z

LEMMA RunTells ==
    ASSUME NEW x, NEW u, Sound(x, u), NEW n \in Nat, Numbered(x, n), NEW items \in Seq(OutType)
    PROVE  Tells(x, EmitAll(x, ToChunks(items, n)), n, items)
<1> DEFINE Y(s) == EmitAll(x, ToChunks(s, n))
           P == {s \in Seq(OutType) : Tells(x, Y(s), n, s)}
<1>0. x.sse.all \in Txt /\ Heard(x, n) \in Seq(Txt)
  BY Parts, HeardType
<1>1. << >> \in P
  <2>1. Y(<< >>) = x
    BY NoItems, EmitAllNone
  <2>2. x.sse.all \o << >> = x.sse.all /\ Heard(x, n) \o << >> = Heard(x, n) /\ n + Len(<< >>) = n
    BY <1>0 DEF Txt
  <2>3. << >> \in Seq(OutType)
    OBVIOUS
  <2> QED BY <2>1, <2>2, <2>3, NoItems DEF Tells
<1>2. ASSUME NEW s \in P, NEW e \in OutType PROVE Append(s, e) \in P
  <2>1. s \in Seq(OutType) /\ Append(s, e) \in Seq(OutType)
    OBVIOUS
  <2>2. PICK y : y = Y(s)
    OBVIOUS
  <2>3. Tells(x, y, n, s)
    BY <2>2
  <2> DEFINE cs == ToChunks(s, n)  calls == CallsOf(s)  m == n + Len(calls)  index == Recovered100 + m
  <2>4. cs \in Seq(ChunkType) /\ Announced(cs)
    BY <2>1, ChunksFacts
  <2>5. Sound(y, u)
    BY <2>2, <2>4, RunSound
  <2>6. calls \in Seq(Calls1) /\ TextOf(s) \in Txt /\ TailsOf(s) \in Seq(Txt)
    BY <2>1, PartsType
  <2>7. ToChunks(Append(s, e), n) = cs \o Chunks1(e, Recovered100 + n + Len(calls))
    BY <2>1, ChunksAppend
  <2>8. /\ CallsOf(Append(s, e)) = calls \o CallPart(e)
        /\ TextOf(Append(s, e)) = TextOf(s) \o TextPart(e)
        /\ TailsOf(Append(s, e)) = TailsOf(s) \o TailPart(e)
    BY <2>1, PartsAppend
  <2> HIDE DEF calls
  <2>9. Len(calls) \in Nat
    BY <2>6
  <2>10. m \in Nat /\ Recovered100 + n + Len(calls) = index /\ index \in Int
    BY <2>9 DEF Recovered100
  <2>11. /\ y.sse.all = x.sse.all \o TextOf(s) /\ Numbered(y, m) /\ Heard(y, m) = Heard(x, n) \o TailsOf(s)
    BY <2>3 DEF Tells, calls
  <2>12. y = EmitAll(x, cs)
    BY <2>2
  <2> HIDE DEF cs, m, index
  <2>13. CASE IsCall(e)
    <3> DEFINE c == Chunk("start", index, << >>)  d == Chunk("args", index, Tail(e))
               z == EmitStart(y, index)  w == EmitArgs(z, index, Tail(e))
    <3>1. c \in ChunkType /\ d \in ChunkType /\ Emit(y, c) = z /\ Emit(z, d) = w /\ Tail(e) \in Txt
      <4>1. Tail(e) \in Txt /\ << >> \in Txt
        BY <2>13, ItemKinds DEF OutType, Txt
      <4>2. c \in ChunkType /\ d \in ChunkType
        BY <2>10, <4>1 DEF Chunk, ChunkType
      <4> QED BY <4>1, <4>2 DEF Chunk, Emit
    <3>2. Chunks1(e, index) = <<c, d>>
      BY <2>13 DEF Chunks1
    <3>3. Y(Append(s, e)) = w
      <4>1. Y(Append(s, e)) = EmitAll(x, cs \o <<c, d>>)
        BY <2>7, <2>10, <3>2
      <4> HIDE DEF c, d, z, w
      <4>2. EmitAll(x, cs \o <<c, d>>) = Emit(Emit(EmitAll(x, cs), c), d)
        BY <2>4, <3>1, EmitAllTwo
      <4> QED BY <4>1, <4>2, <2>12, <3>1
    <3>4. w.sse.all = y.sse.all /\ Numbered(w, m + 1) /\ Heard(w, m + 1) = Heard(y, m) \o <<Tail(e)>>
      <4>1. IsNumber(index, m)
        BY DEF index, IsNumber
      <4> HIDE DEF c, d
      <4> QED BY <4>1, <2>5, <2>10, <2>11, <3>1, CallTells, ZenonT(60)
    <3> HIDE DEF c, d, z, w
    <3>5. CallPart(e) = <<e>> /\ TextPart(e) = << >> /\ TailPart(e) = <<Tail(e)>>
      BY <2>13 DEF CallPart, TextPart, TailPart
    <3>6. n + Len(CallsOf(Append(s, e))) = m + 1
      <4>1. Len(calls \o <<e>>) = Len(calls) + 1
        BY <2>6, <2>13
      <4> QED BY <4>1, <2>8, <2>9, <3>5 DEF m
    <3>7. x.sse.all \o TextOf(Append(s, e)) = w.sse.all
      <4>1. TextOf(s) \o << >> = TextOf(s)
        BY <2>6 DEF Txt
      <4> QED BY <4>1, <2>8, <2>11, <3>4, <3>5
    <3>8. Heard(x, n) \o TailsOf(Append(s, e)) = Heard(w, m + 1)
      <4> DEFINE a == Heard(x, n)  b == TailsOf(s)  v == <<Tail(e)>>
      <4>1. a \in Seq(Txt) /\ b \in Seq(Txt) /\ v \in Seq(Txt)
        BY <1>0, <2>6, <3>1
      <4>2. TailsOf(Append(s, e)) = b \o v /\ Heard(w, m + 1) = (a \o b) \o v
        BY <2>8, <2>11, <3>4, <3>5
      <4> HIDE DEF a, b, v
      <4>3. (a \o b) \o v = a \o (b \o v)
        BY <4>1, SMTT(40)
      <4> QED BY <4>2, <4>3 DEF a
    <3>9. Tells(x, w, n, Append(s, e))
      BY <3>4, <3>6, <3>7, <3>8 DEF Tells
    <3> QED BY <2>1, <3>3, <3>9
  <2>14. CASE ~IsCall(e)
    <3> DEFINE c == Chunk("text", NoItem, e)  w == EmitText(y, e)
    <3>1. c \in ChunkType /\ Emit(y, c) = w /\ e \in Txt
      <4>1. e \in Txt
        BY <2>14, ItemKinds DEF OutType
      <4> QED BY <4>1 DEF Chunk, ChunkType, NoItem, Emit
    <3>2. Chunks1(e, index) = <<c>>
      BY <2>14 DEF Chunks1
    <3>3. Y(Append(s, e)) = w
      <4>1. Y(Append(s, e)) = EmitAll(x, cs \o <<c>>)
        BY <2>7, <2>10, <3>2
      <4> HIDE DEF c, w
      <4>2. EmitAll(x, cs \o <<c>>) = Emit(EmitAll(x, cs), c)
        BY <2>4, <3>1, EmitAllOne
      <4> QED BY <4>1, <4>2, <2>12, <3>1
    <3>4. w.sse.all = y.sse.all \o e /\ Numbered(w, m) /\ Heard(w, m) = Heard(y, m)
      BY <2>5, <2>10, <2>11, <3>1, TextTells
    <3> HIDE DEF c, w
    <3>5. CallPart(e) = << >> /\ TextPart(e) = e /\ TailPart(e) = << >>
      BY <2>14 DEF CallPart, TextPart, TailPart
    <3>6. n + Len(CallsOf(Append(s, e))) = m
      <4>1. calls \o << >> = calls
        BY <2>6
      <4> QED BY <4>1, <2>8, <3>5 DEF m
    <3>7. x.sse.all \o TextOf(Append(s, e)) = w.sse.all
      <4> DEFINE a == x.sse.all  b == TextOf(s)
      <4>1. a \in Seq(Alphabet) /\ b \in Seq(Alphabet) /\ e \in Seq(Alphabet)
        BY <1>0, <2>6, <3>1 DEF Txt
      <4>2. TextOf(Append(s, e)) = b \o e /\ w.sse.all = (a \o b) \o e
        BY <2>8, <2>11, <3>4, <3>5
      <4> HIDE DEF a, b
      <4>3. (a \o b) \o e = a \o (b \o e)
        BY <4>1, SMTT(40)
      <4> QED BY <4>2, <4>3 DEF a
    <3>8. TailsOf(Append(s, e)) = TailsOf(s)
      <4>1. TailsOf(s) \o << >> = TailsOf(s)
        BY <2>6
      <4> QED BY <4>1, <2>8, <3>5
    <3>9. Tells(x, w, n, Append(s, e))
      BY <3>4, <3>6, <3>7, <3>8, <2>11 DEF Tells
    <3> QED BY <2>1, <3>3, <3>9
  <2> QED BY <2>13, <2>14
<1> HIDE DEF P
<1>3. P \in SUBSET Seq(OutType)
  BY DEF P
<1>4. Seq(OutType) \subseteq P
  BY <1>1, <1>2, <1>3, ByAppending
<1> QED BY <1>4 DEF P

-----------------------------------------------------------------------------
(* The end of a response. *)

\* Finished closes the items one by one: f is what the client has after n of them.
CallAt(x, n) == {index \in DOMAIN x.sse.calls : x.sse.calls[index] = n - 1}
CloseText(x) == IF x.sse.text = NoItem THEN x.got ELSE Done(x.got, x.sse.text, x.sse.all)
CloseCall(x, c, n) ==
    IF CallAt(x, n) = {} THEN c ELSE Done(c, n - 1, ArgsAtEnd(x, CHOOSE index \in CallAt(x, n) : TRUE))
Closes(x, N, f) == f = [n \in 0..N |-> IF n = 0 THEN CloseText(x) ELSE CloseCall(x, f[n - 1], n)]

LEMMA FinishedIs ==
    ASSUME NEW x
    PROVE  Finished(x) = [(CHOOSE f : Closes(x, x.sse.next, f))[x.sse.next] EXCEPT !.end = "completed"]
  BY Zenon DEF Finished, Closes, CloseText, CloseCall, CallAt

LEMMA ClosesAre ==
    ASSUME NEW x, NEW N \in Nat, NEW f, Closes(x, N, f)
    PROVE  f[0] = CloseText(x) /\ \A i \in 1..N : f[i] = CloseCall(x, f[i - 1], i)
<1>1. 0 \in 0..N /\ \A i \in 1..N : i \in 0..N /\ i # 0
  OBVIOUS
<1> QED BY <1>1 DEF Closes

LEMMA ClosesExist ==
    ASSUME NEW x
    PROVE  \A N \in Nat : \E f : Closes(x, N, f)
<1> DEFINE Bad == {n \in Nat : ~\E f : Closes(x, n, f)}
<1> SUFFICES ASSUME Bad # {} PROVE FALSE
  OBVIOUS
<1>1. PICK n \in Bad : \A m \in Bad : n <= m
  <2>1. Bad \in SUBSET Nat
    OBVIOUS
  <2> HIDE DEF Bad
  <2> QED BY LeastOf, <2>1
<1>2. n # 0
  <2>1. Closes(x, 0, [i \in 0..0 |-> CloseText(x)])
    BY DEF Closes
  <2> QED BY <2>1
<1>3. n - 1 \in Nat /\ n - 1 \notin Bad
  BY <1>1, <1>2
<1>4. PICK f : Closes(x, n - 1, f)
  BY <1>3
<1>5. f[0] = CloseText(x) /\ \A i \in 1..(n - 1) : f[i] = CloseCall(x, f[i - 1], i)
  BY <1>3, <1>4, ClosesAre
<1> DEFINE g == [i \in 0..n |-> IF i = n THEN CloseCall(x, f[n - 1], n) ELSE f[i]]
<1>6. \A i \in 0..n : g[i] = IF i = 0 THEN CloseText(x) ELSE CloseCall(x, g[i - 1], i)
  <2> SUFFICES ASSUME NEW i \in 0..n PROVE g[i] = IF i = 0 THEN CloseText(x) ELSE CloseCall(x, g[i - 1], i)
    OBVIOUS
  <2>1. CASE i = n
    <3>1. n \in 0..n /\ n - 1 \in 0..n /\ n - 1 # n
      BY <1>2
    <3>2. g[n] = CloseCall(x, f[n - 1], n) /\ g[n - 1] = f[n - 1]
      BY <3>1
    <3> QED BY <2>1, <3>2, <1>2
  <2>2. CASE i # n /\ i # 0
    <3>1. i \in 1..(n - 1) /\ i - 1 \in 0..n /\ i - 1 # n
      BY <2>2
    <3> QED BY <3>1, <2>2, <1>5
  <2>3. CASE i = 0
    BY <2>3, <1>2, <1>5
  <2> QED BY <2>1, <2>2, <2>3
<1>7. Closes(x, n, g)
  <2>1. g = [i \in 0..n |-> g[i]]
    OBVIOUS
  <2> HIDE DEF g
  <2>2. g = [i \in 0..n |-> IF i = 0 THEN CloseText(x) ELSE CloseCall(x, g[i - 1], i)]
    BY <1>6, <2>1
  <2> QED BY <2>2 DEF Closes
<1> QED BY <1>1, <1>7

\* c is what the client has when the message and the calls among the first n items are closed.
Closed(x, u, c, n) ==
    /\ c \in ClientType /\ ~c.bad /\ Len(c.items) = x.sse.next
    /\ \A j \in 1..x.sse.next :
          /\ c.items[j].kind = x.got.items[j].kind /\ c.items[j].body = x.got.items[j].body
          /\ c.items[j].done <=> (j - 1 = x.sse.text \/ j <= n)
          /\ c.items[j].done => u # {} \/ c.items[j].final = c.items[j].body

LEMMA TextCloses ==
    ASSUME NEW x, NEW u, Sound(x, u)
    PROVE  Closed(x, u, CloseText(x), 0)
<1>1. /\ x \in StateType /\ x.got \in ClientType
      /\ x.sse.next \in Nat /\ x.sse.next = Len(x.got.items) /\ x.sse.text \in Int /\ x.sse.all \in Txt
      /\ ~x.got.bad /\ TextKept(x)
      /\ \A j \in 1..x.sse.next : ~x.got.items[j].done
  BY Parts
<1>2. CASE x.sse.text = NoItem
  <2>1. \A j \in 1..x.sse.next : j - 1 # x.sse.text /\ ~(j <= 0)
    BY <1>1, <1>2 DEF NoItem
  <2> QED BY <1>1, <1>2, <2>1 DEF Closed, CloseText
<1>3. CASE x.sse.text # NoItem
  <2> DEFINE i == x.sse.text  d == Done(x.got, i, x.sse.all)
  <2>1. /\ i \in 0..(x.sse.next - 1) /\ x.got.items[i + 1].body = x.sse.all
        /\ i \in Nat /\ i < Len(x.got.items) /\ i + 1 \in 1..x.sse.next
    BY <1>1, <1>3 DEF TextKept
  <2>2. ~x.got.items[i + 1].done
    BY <1>1, <2>1
  <2>3. /\ d \in ClientType /\ d.bad = x.got.bad /\ Len(d.items) = Len(x.got.items)
        /\ \A j \in 1..Len(x.got.items) :
              /\ d.items[j].kind = x.got.items[j].kind
              /\ d.items[j].body = x.got.items[j].body
              /\ d.items[j].done = IF j = i + 1 THEN TRUE ELSE x.got.items[j].done
              /\ d.items[j].final = IF j = i + 1 THEN x.sse.all ELSE x.got.items[j].final
    <3> DEFINE c == x.got  v == x.sse.all
    <3>1. c \in ClientType /\ i \in Nat /\ i < Len(c.items) /\ ~c.items[i + 1].done /\ v \in Txt
      BY <1>1, <2>1, <2>2
    <3> HIDE DEF i, c, v
    <3>2. LET e == Done(c, i, v) IN
          /\ e \in ClientType /\ e.bad = c.bad /\ Len(e.items) = Len(c.items)
          /\ \A j \in 1..Len(c.items) :
                /\ e.items[j].kind = c.items[j].kind
                /\ e.items[j].body = c.items[j].body
                /\ e.items[j].done = IF j = i + 1 THEN TRUE ELSE c.items[j].done
                /\ e.items[j].final = IF j = i + 1 THEN v ELSE c.items[j].final
      BY <3>1, DoneFacts, ZenonT(60)
    <3> QED BY <3>2 DEF c, v
  <2> HIDE DEF d
  <2>4. \A j \in 1..x.sse.next : (j - 1 = i <=> j = i + 1) /\ ~(j <= 0)
    BY <1>1
  <2>5. \A j \in 1..x.sse.next : /\ d.items[j].done <=> j = i + 1
                                 /\ d.items[j].done => d.items[j].final = d.items[j].body
    BY <1>1, <2>1, <2>3
  <2>6. CloseText(x) = d
    BY <1>3 DEF CloseText, d
  <2> QED BY <1>1, <2>3, <2>4, <2>5, <2>6 DEF Closed
<1> QED BY <1>2, <1>3

LEMMA CallCloses ==
    ASSUME NEW x, NEW u, Sound(x, u), NEW n \in 1..x.sse.next, NEW c, Closed(x, u, c, n - 1)
    PROVE  Closed(x, u, CloseCall(x, c, n), n)
<1>1. /\ x \in StateType /\ x.got \in ClientType /\ x.args \in MapType(Txt)
      /\ x.sse.next \in Nat /\ x.sse.next = Len(x.got.items) /\ x.sse.text \in Int /\ x.sse.all \in Txt
      /\ ~x.got.bad /\ TextKept(x) /\ CallsKept(x, u) /\ Owned(x)
  BY Parts
<1>2. n - 1 \in 0..(x.sse.next - 1) /\ n - 1 \in Nat /\ n - 1 < x.sse.next /\ n - 1 + 1 = n /\ n \in Nat
  BY <1>1
<1>3. /\ c \in ClientType /\ ~c.bad /\ Len(c.items) = x.sse.next
      /\ \A j \in 1..x.sse.next :
          /\ c.items[j].kind = x.got.items[j].kind /\ c.items[j].body = x.got.items[j].body
          /\ c.items[j].done <=> (j - 1 = x.sse.text \/ j <= n - 1)
          /\ c.items[j].done => u # {} \/ c.items[j].final = c.items[j].body
  BY DEF Closed
<1>4. \A j \in 1..x.sse.next : j <= n <=> j <= n - 1 \/ j = n
  BY <1>1, <1>2
<1>5. CASE CallAt(x, n) = {}
  <2>1. n - 1 = x.sse.text
    BY <1>1, <1>2, <1>5 DEF Owned, CallAt
  <2>2. \A j \in 1..x.sse.next : (j - 1 = x.sse.text \/ j <= n - 1) <=> (j - 1 = x.sse.text \/ j <= n)
    BY <1>4, <2>1
  <2>3. CloseCall(x, c, n) = c
    BY <1>5 DEF CloseCall
  <2> QED BY <1>3, <2>2, <2>3 DEF Closed
<1>6. CASE CallAt(x, n) # {}
  <2>0. PICK k : k = CHOOSE index \in CallAt(x, n) : TRUE
    OBVIOUS
  <2>1. k \in DOMAIN x.sse.calls /\ x.sse.calls[k] = n - 1
    BY <1>6, <2>0, Zenon DEF CallAt
  <2>2. x.got.items[n].kind = "call" /\ (k \in u \/ x.got.items[n].body = Get(x.args, k))
    BY <1>1, <1>2, <2>1 DEF CallsKept
  <2>3. n - 1 # x.sse.text
    <3>1. CASE x.sse.text = NoItem
      BY <3>1, <1>2 DEF NoItem
    <3>2. CASE x.sse.text # NoItem
      BY <3>2, <1>1, <1>2, <2>2 DEF TextKept
    <3> QED BY <3>1, <3>2
  <2>4. ~c.items[n - 1 + 1].done
    <3>1. ~(n <= n - 1)
      BY <1>2
    <3> QED BY <3>1, <2>3, <1>2, <1>3
  <2> DEFINE v == Get(x.args, k)  i == n - 1  d == Done(c, i, v)
  <2>5. v \in Txt
    BY <1>1, GetType
  <2>6. i \in Nat /\ i < Len(c.items) /\ ~c.items[i + 1].done /\ c \in ClientType
    BY <1>2, <1>3, <2>4
  <2>7. /\ d \in ClientType /\ d.bad = c.bad /\ Len(d.items) = Len(c.items)
        /\ \A j \in 1..Len(c.items) :
              /\ d.items[j].kind = c.items[j].kind
              /\ d.items[j].body = c.items[j].body
              /\ d.items[j].done = IF j = i + 1 THEN TRUE ELSE c.items[j].done
              /\ d.items[j].final = IF j = i + 1 THEN v ELSE c.items[j].final
    <3> HIDE DEF i, v
    <3> QED BY <2>5, <2>6, DoneFacts, ZenonT(60)
  <2>8. CloseCall(x, c, n) = d
    BY <1>6, <2>0, Zenon DEF CloseCall, ArgsAtEnd
  <2> HIDE DEF d
  <2>9. /\ d \in ClientType /\ ~d.bad /\ Len(d.items) = x.sse.next
        /\ \A j \in 1..x.sse.next :
              /\ d.items[j].kind = c.items[j].kind
              /\ d.items[j].body = c.items[j].body
              /\ d.items[j].done = IF j = n THEN TRUE ELSE c.items[j].done
              /\ d.items[j].final = IF j = n THEN v ELSE c.items[j].final
    BY <1>2, <1>3, <2>7
  <2> HIDE DEF v, i
  <2>10. ASSUME NEW j \in 1..x.sse.next
         PROVE  /\ d.items[j].kind = x.got.items[j].kind /\ d.items[j].body = x.got.items[j].body
                /\ d.items[j].done <=> (j - 1 = x.sse.text \/ j <= n)
                /\ d.items[j].done => u # {} \/ d.items[j].final = d.items[j].body
    <3>1. CASE j = n
      <4>1. d.items[n].done /\ d.items[n].final = v /\ d.items[n].body = x.got.items[n].body
            /\ d.items[n].kind = x.got.items[n].kind
        BY <1>3, <2>9
      <4>2. u # {} \/ x.got.items[n].body = v
        BY <2>2 DEF v
      <4>3. n <= n
        BY <1>2
      <4> QED BY <3>1, <4>1, <4>2, <4>3
    <3>2. CASE j # n
      <4>1. /\ d.items[j].kind = c.items[j].kind /\ d.items[j].body = c.items[j].body
            /\ d.items[j].done = c.items[j].done /\ d.items[j].final = c.items[j].final
        BY <2>9, <3>2
      <4> QED BY <3>2, <4>1, <1>3, <1>4
    <3> QED BY <3>1, <3>2
  <2>11. Closed(x, u, d, n)
    BY <2>9, <2>10 DEF Closed
  <2> QED BY <2>8, <2>11
<1> QED BY <1>5, <1>6

\* A response that is completed has all of its items, closed, and with what they had.
LEMMA FinishedFacts ==
    ASSUME NEW x, NEW u, Sound(x, u)
    PROVE  LET c == Finished(x) IN
           /\ c \in ClientType /\ ~c.bad /\ c.end = "completed" /\ Len(c.items) = x.sse.next
           /\ \A j \in 1..x.sse.next :
                 /\ c.items[j].kind = x.got.items[j].kind /\ c.items[j].body = x.got.items[j].body
                 /\ c.items[j].done /\ (u # {} \/ c.items[j].final = c.items[j].body)
<1>1. PICK N \in Nat : N = x.sse.next
  BY Parts
<1>2. PICK f : Closes(x, N, f) /\ Finished(x) = [f[N] EXCEPT !.end = "completed"]
  <2> DEFINE h == CHOOSE h : Closes(x, N, h)
  <2>1. Closes(x, N, h)
    BY ClosesExist, Zenon
  <2>2. Finished(x) = [h[N] EXCEPT !.end = "completed"]
    BY <1>1, FinishedIs
  <2> HIDE DEF h
  <2> QED BY <2>1, <2>2
<1>3. f[0] = CloseText(x) /\ \A i \in 1..N : f[i] = CloseCall(x, f[i - 1], i)
  <2>1. Closes(x, N, f)
    BY <1>2
  <2> QED BY <2>1, ClosesAre
<1> DEFINE Bad == {i \in 0..N : ~Closed(x, u, f[i], i)}
<1>4. Bad = {}
  <2> SUFFICES ASSUME Bad # {} PROVE FALSE
    OBVIOUS
  <2>1. PICK i \in Bad : \A j \in Bad : i <= j
    <3>1. Bad \in SUBSET Nat
      OBVIOUS
    <3> HIDE DEF Bad
    <3> QED BY LeastOf, <3>1
  <2>2. i # 0
    BY <1>3, <2>1, TextCloses
  <2>3. i \in 1..N /\ i - 1 \in 0..N /\ i - 1 \notin Bad
    BY <2>1, <2>2
  <2>4. Closed(x, u, f[i - 1], i - 1)
    BY <2>3
  <2>5. Closed(x, u, f[i], i)
    <3>1. i \in 1..x.sse.next
      BY <1>1, <2>3
    <3>2. Closed(x, u, CloseCall(x, f[i - 1], i), i)
      BY <2>4, <3>1, CallCloses
    <3> QED BY <1>3, <2>3, <3>2
  <2> QED BY <2>1, <2>5
<1>5. Closed(x, u, f[N], N)
  <2>1. N \in 0..N
    OBVIOUS
  <2> QED BY <1>4, <2>1
<1> DEFINE c == [f[N] EXCEPT !.end = "completed"]
<1>6. c \in ClientType /\ c.end = "completed" /\ c.items = f[N].items /\ c.bad = f[N].bad
  BY <1>5 DEF Closed, ClientType, EndType
<1>7. \A j \in 1..x.sse.next : j <= N
  BY <1>1
<1> HIDE DEF c
<1>8. Finished(x) = c
  BY <1>2 DEF c
<1> QED BY <1>1, <1>5, <1>6, <1>7, <1>8 DEF Closed

-----------------------------------------------------------------------------
(* Text and calls of items put one behind another. *)

LEMMA TextAssociative ==
    \A a, b, c \in Seq(Alphabet) : (a \o b) \o c = a \o (b \o c)
  BY ConcatAssociative

LEMMA BodiesAssociative ==
    \A a, b, c \in Seq(Txt) : (a \o b) \o c = a \o (b \o c)
  BY ConcatAssociative

LEMMA CallsAssociative ==
    \A a, b, c \in Seq(Calls1) : (a \o b) \o c = a \o (b \o c)
  BY ConcatAssociative

\* Text, calls and bodies of one after the other are those of the two, one after the other.
LEMMA PartsConcat ==
    ASSUME NEW s \in Seq(OutType), NEW r \in Seq(OutType)
    PROVE  /\ TextOf(s \o r) = TextOf(s) \o TextOf(r)
           /\ TailsOf(s \o r) = TailsOf(s) \o TailsOf(r)
           /\ CallsOf(s \o r) = CallsOf(s) \o CallsOf(r)
<1> DEFINE Good(t) == /\ TextOf(s \o t) = TextOf(s) \o TextOf(t)
                      /\ TailsOf(s \o t) = TailsOf(s) \o TailsOf(t)
                      /\ CallsOf(s \o t) = CallsOf(s) \o CallsOf(t)
           P == {t \in Seq(OutType) : Good(t)}
<1>1. /\ TextOf(s) \in Seq(Alphabet) /\ TailsOf(s) \in Seq(Txt) /\ CallsOf(s) \in Seq(Calls1)
  BY PartsType DEF Txt
<1>2. << >> \in P
  <2>1. << >> \in Seq(OutType) /\ s \o << >> = s /\ TextOf(s) \o << >> = TextOf(s)
        /\ TailsOf(s) \o << >> = TailsOf(s) /\ CallsOf(s) \o << >> = CallsOf(s)
    BY <1>1
  <2> QED BY <2>1, NoItems
<1>3. ASSUME NEW t \in P, NEW e \in OutType PROVE Append(t, e) \in P
  <2>1. t \in Seq(OutType) /\ Good(t)
    OBVIOUS
  <2>2. /\ s \o t \in Seq(OutType) /\ Append(t, e) \in Seq(OutType)
        /\ s \o Append(t, e) = Append(s \o t, e)
    BY <2>1
  <2>3. /\ TextOf(t) \in Seq(Alphabet) /\ TailsOf(t) \in Seq(Txt) /\ CallsOf(t) \in Seq(Calls1)
    BY <2>1, PartsType DEF Txt
  <2>4. /\ TextPart(e) \in Seq(Alphabet) /\ TailPart(e) \in Seq(Txt) /\ CallPart(e) \in Seq(Calls1)
    BY PartTypes DEF Txt
  <2>5. TextOf(s \o Append(t, e)) = TextOf(s) \o TextOf(Append(t, e))
    <3> DEFINE a == TextOf(s)  b == TextOf(t)  c == TextPart(e)
    <3>1. TextOf(Append(t, e)) = b \o c /\ TextOf(s \o Append(t, e)) = (a \o b) \o c
      BY <2>1, <2>2, PartsAppend
    <3>2. a \in Seq(Alphabet) /\ b \in Seq(Alphabet) /\ c \in Seq(Alphabet)
      BY <1>1, <2>3, <2>4
    <3> HIDE DEF a, b, c
    <3>3. (a \o b) \o c = a \o (b \o c)
      BY <3>2, TextAssociative
    <3> QED BY <3>1, <3>3 DEF a
  <2>6. TailsOf(s \o Append(t, e)) = TailsOf(s) \o TailsOf(Append(t, e))
    <3> DEFINE a == TailsOf(s)  b == TailsOf(t)  c == TailPart(e)
    <3>1. TailsOf(Append(t, e)) = b \o c /\ TailsOf(s \o Append(t, e)) = (a \o b) \o c
      BY <2>1, <2>2, PartsAppend
    <3>2. a \in Seq(Txt) /\ b \in Seq(Txt) /\ c \in Seq(Txt)
      BY <1>1, <2>3, <2>4
    <3> HIDE DEF a, b, c
    <3>3. (a \o b) \o c = a \o (b \o c)
      BY <3>2, BodiesAssociative
    <3> QED BY <3>1, <3>3 DEF a
  <2>7. CallsOf(s \o Append(t, e)) = CallsOf(s) \o CallsOf(Append(t, e))
    <3> DEFINE a == CallsOf(s)  b == CallsOf(t)  c == CallPart(e)
    <3>1. CallsOf(Append(t, e)) = b \o c /\ CallsOf(s \o Append(t, e)) = (a \o b) \o c
      BY <2>1, <2>2, PartsAppend
    <3>2. a \in Seq(Calls1) /\ b \in Seq(Calls1) /\ c \in Seq(Calls1)
      BY <1>1, <2>3, <2>4
    <3> HIDE DEF a, b, c
    <3>3. (a \o b) \o c = a \o (b \o c)
      BY <3>2, CallsAssociative
    <3> QED BY <3>1, <3>3 DEF a
  <2> QED BY <2>2, <2>5, <2>6, <2>7
<1> HIDE DEF P
<1>4. P \in SUBSET Seq(OutType)
  BY DEF P
<1>5. Seq(OutType) \subseteq P
  BY <1>2, <1>3, <1>4, ByAppending
<1> QED BY <1>5 DEF P

\* The bodies are those of the calls.
LEMMA TailsAre ==
    ASSUME NEW items \in Seq(OutType)
    PROVE  TailsOf(items) = [i \in DOMAIN CallsOf(items) |-> Tail(CallsOf(items)[i])]
<1> DEFINE Bodies(cs) == [i \in DOMAIN cs |-> Tail(cs[i])]
           P == {t \in Seq(OutType) : TailsOf(t) = Bodies(CallsOf(t))}
<1>1. << >> \in P
  <2>1. << >> \in Seq(OutType) /\ Bodies(<< >>) = << >>
    OBVIOUS
  <2> QED BY <2>1, NoItems
<1>2. ASSUME NEW t \in P, NEW e \in OutType PROVE Append(t, e) \in P
  <2>1. t \in Seq(OutType) /\ TailsOf(t) = Bodies(CallsOf(t)) /\ Append(t, e) \in Seq(OutType)
    OBVIOUS
  <2> DEFINE cs == CallsOf(t)
  <2>2. cs \in Seq(Calls1)
    BY <2>1, PartsType
  <2>3. CallsOf(Append(t, e)) = cs \o CallPart(e) /\ TailsOf(Append(t, e)) = Bodies(cs) \o TailPart(e)
    BY <2>1, PartsAppend
  <2> HIDE DEF cs
  <2>4. CASE IsCall(e)
    <3>1. e \in Calls1
      BY <2>4, ItemKinds DEF OutType
    <3> DEFINE ds == Append(cs, e)  b == Bodies(cs)  v == Tail(e)
    <3>2. cs \o <<e>> = ds /\ Len(cs) \in Nat
      BY <2>2
    <3>3. b \in Seq(Txt) /\ v \in Txt /\ Len(b) = Len(cs) /\ \A i \in 1..Len(cs) : b[i] = Tail(cs[i])
      <4>1. \A i \in DOMAIN cs : Tail(cs[i]) \in Txt
        BY <2>2, ItemKinds
      <4>2. DOMAIN cs = 1..Len(cs)
        BY <2>2
      <4> QED BY <3>1, <3>2, <4>1, <4>2, ItemKinds
    <3>4. /\ DOMAIN ds = 1..(Len(cs) + 1) /\ ds[Len(cs) + 1] = e /\ \A i \in 1..Len(cs) : ds[i] = cs[i]
      BY <2>2
    <3> HIDE DEF b, v
    <3> DEFINE A == Append(b, v)
    <3>5. b \o <<v>> = A
      BY <3>3
    <3>6. Len(A) = Len(cs) + 1 /\ A \in Seq(Txt)
      BY <3>3
    <3>7. A[Len(cs) + 1] = v /\ \A i \in 1..Len(cs) : A[i] = b[i]
      BY <3>3
    <3> HIDE DEF A, ds
    <3>8. A = [i \in 1..(Len(cs) + 1) |-> A[i]]
      BY <3>6
    <3>9. \A i \in 1..(Len(cs) + 1) : A[i] = Tail(ds[i])
      <4>1. \A i \in 1..(Len(cs) + 1) : i \in 1..Len(cs) \/ i = Len(cs) + 1
        BY <3>2
      <4> QED BY <4>1, <3>3, <3>4, <3>7 DEF v
    <3>10. Bodies(ds) = A
      BY <3>4, <3>8, <3>9
    <3>11. CallPart(e) = <<e>> /\ TailPart(e) = <<v>>
      BY <2>4 DEF CallPart, TailPart, v
    <3>12. CallsOf(Append(t, e)) = ds
      BY <2>3, <3>2, <3>11
    <3>13. TailsOf(Append(t, e)) = A
      BY <2>3, <3>5, <3>11 DEF b
    <3> QED BY <2>1, <3>10, <3>12, <3>13
  <2>5. CASE ~IsCall(e)
    <3>1. CallPart(e) = << >> /\ TailPart(e) = << >>
      BY <2>5 DEF CallPart, TailPart
    <3>2. TailsOf(t) \in Seq(Txt)
      BY <2>1, PartsType
    <3>3. cs \o << >> = cs /\ TailsOf(t) \o << >> = TailsOf(t)
      BY <2>2, <3>2
    <3> QED BY <2>1, <2>3, <3>1, <3>3 DEF cs
  <2> QED BY <2>4, <2>5
<1> HIDE DEF P
<1>3. P \in SUBSET Seq(OutType)
  BY DEF P
<1>4. Seq(OutType) \subseteq P
  BY <1>1, <1>2, <1>3, ByAppending
<1> QED BY <1>4 DEF P

\* Text taken apart is that text, and no call.
LEMMA AtomsParts ==
    ASSUME NEW s \in Txt
    PROVE  TextOf(Atoms(s)) = s /\ CallsOf(Atoms(s)) = << >> /\ TailsOf(Atoms(s)) = << >>
<1> DEFINE P == {t \in Txt : TextOf(Atoms(t)) = t /\ CallsOf(Atoms(t)) = << >> /\ TailsOf(Atoms(t)) = << >>}
<1>1. << >> \in P
  <2>1. Atoms(<< >>) = << >> /\ << >> \in Txt
    BY DEF Atoms, Txt
  <2> QED BY <2>1, NoItems
<1>2. ASSUME NEW t \in P, NEW e \in Alphabet PROVE Append(t, e) \in P
  <2>1. t \in Txt /\ <<e>> \in Txt /\ t \o <<e>> = Append(t, e) /\ Append(t, e) \in Txt
    BY DEF Txt
  <2>2. Atoms(<<e>>) = <<<<e>>>>
    BY DEF Atoms
  <2>3. Atoms(Append(t, e)) = Atoms(t) \o <<<<e>>>>
    BY <2>1, <2>2, AtomsConcat
  <2> DEFINE item == <<e>>  a == Atoms(t)
  <2>4. item \in OutType /\ ~IsCall(item) /\ a \in Seq(OutType)
    <3>1. item \in Piece1
      BY DEF Piece1
    <3> QED BY <2>1, <3>1, ItemKinds, AtomsType DEF OutType
  <2>5. TextOf(a) = t /\ CallsOf(a) = << >> /\ TailsOf(a) = << >>
    OBVIOUS
  <2> HIDE DEF item, a
  <2>6. a \o <<item>> = Append(a, item)
    BY <2>4
  <2>7. /\ CallsOf(Append(a, item)) = << >> \o << >>
        /\ TextOf(Append(a, item)) = t \o item
        /\ TailsOf(Append(a, item)) = << >> \o << >>
    BY <2>4, <2>5, PartsAppend DEF CallPart, TextPart, TailPart
  <2>8. << >> \o << >> = << >>
    OBVIOUS
  <2> QED BY <2>1, <2>3, <2>6, <2>7, <2>8 DEF item, a
<1> HIDE DEF P
<1>3. P \in SUBSET Seq(Alphabet)
  BY DEF P, Txt
<1>4. Seq(Alphabet) \subseteq P
  BY <1>1, <1>2, <1>3, ByAppending
<1> QED BY <1>4 DEF P, Txt

\* Calls are calls.
LEMMA CallsParts ==
    ASSUME NEW cs \in Seq(Calls1), CallsOf(cs) = << >>
    PROVE  cs = << >>
<1> SUFFICES ASSUME cs # << >> PROVE FALSE
  OBVIOUS
<1> DEFINE n == Len(cs)  e == cs[n]  t == SubSeq(cs, 1, n - 1)
<1>1. n \in Nat /\ n # 0 /\ e \in Calls1 /\ t \in Seq(Calls1) /\ cs = Append(t, e)
  OBVIOUS
<1> HIDE DEF n, e, t
<1>2. t \in Seq(OutType) /\ e \in OutType /\ IsCall(e)
  <2>1. Seq(Calls1) \subseteq Seq(OutType)
    BY DEF OutType
  <2> QED BY <1>1, <2>1, ItemKinds DEF OutType
<1>3. CallsOf(cs) = CallsOf(t) \o <<e>> /\ CallsOf(t) \in Seq(Calls1)
  BY <1>1, <1>2, PartsAppend, PartsType DEF CallPart
<1> DEFINE a == CallsOf(t)
<1> HIDE DEF a
<1>4. Len(a \o <<e>>) = Len(a) + 1 /\ Len(a) \in Nat
  BY <1>1, <1>3 DEF a
<1>5. a \o <<e>> = << >>
  BY <1>3 DEF a
<1> QED BY <1>4, <1>5

-----------------------------------------------------------------------------
(* What goes in comes out. *)

\* The front of what is held goes out as it is.
LEMMA AtomsMove ==
    ASSUME NEW o \in Seq(OutType), NEW s \in Txt, NEW i \in 1..(Len(s) + 1)
    PROVE  /\ TextOf(o \o Atoms(SubSeq(s, 1, i - 1))) \o From(s, i) = TextOf(o) \o s
           /\ CallsOf(o \o Atoms(SubSeq(s, 1, i - 1))) = CallsOf(o)
<1> DEFINE front == SubSeq(s, 1, i - 1)  rest == From(s, i)  t == TextOf(o)
<1>1. front \in Txt /\ rest \in Txt /\ front \o rest = s
  <2>1. s \in Seq(Alphabet) /\ i - 1 \in 0..Len(s)
    BY DEF Txt
  <2> QED BY <2>1, FrontFacts, FromFacts, FrontFrom DEF Txt
<1>2. t \in Txt /\ CallsOf(o) \in Seq(Calls1)
  BY PartsType
<1>3. Atoms(front) \in Seq(OutType)
  BY <1>1, AtomsType
<1> HIDE DEF front, rest, t
<1>4. TextOf(o \o Atoms(front)) = t \o front /\ CallsOf(o \o Atoms(front)) = CallsOf(o) \o << >>
  BY <1>1, <1>3, PartsConcat, AtomsParts, ZenonT(60) DEF t
<1>5. CallsOf(o) \o << >> = CallsOf(o)
  BY <1>2
<1>6. (t \o front) \o rest = t \o (front \o rest)
  BY <1>1, <1>2, TextAssociative, ZenonT(60) DEF Txt
<1> QED BY <1>1, <1>4, <1>5, <1>6 DEF front, rest, t

LEMMA NothingBoth ==
    ASSUME NEW a \in Seq(Calls1), NEW b \in Seq(Calls1), a \o b = << >>
    PROVE  a = << >> /\ b = << >>
<1>1. Len(a \o b) = Len(a) + Len(b) /\ Len(a) \in Nat /\ Len(b) \in Nat
  OBVIOUS
<1>2. Len(a) = 0 /\ Len(b) = 0
  BY <1>1
<1> QED BY <1>2

\* A round in which no call comes out loses nothing and adds nothing.
LEMMA RoundKeeps ==
    ASSUME NEW x \in ExtType, CallsOf(Round(x).out) = << >>
    PROVE  CallsOf(x.out) = << >> /\ TextOf(Round(x).out) \o Round(x).buf = TextOf(x.out) \o x.buf
<1> DEFINE y == Capture(x)
<1>0. x.buf \in Txt /\ x.out \in Seq(OutType) /\ Len(x.buf) \in Nat
  BY DEF ExtType, Txt
<1>1. y \in ExtType /\ CallsOf(y.out) = CallsOf(x.out) /\ TextOf(y.out) \o y.buf = TextOf(x.out) \o x.buf
  <2>1. CASE x.capturing
    BY <2>1, CaptureCases
  <2>2. CASE ~x.capturing /\ Triggers(x.buf) # {}
    <3>1. PICK i : i = Least(Triggers(x.buf))
      OBVIOUS
    <3>2. i \in 1..Len(x.buf) /\ y.buf = From(x.buf, i) /\ y.out = x.out \o Atoms(SubSeq(x.buf, 1, i - 1))
      BY <2>2, <3>1, CaptureSome
    <3>3. i \in 1..(Len(x.buf) + 1)
      BY <1>0, <3>2
    <3>4. /\ TextOf(x.out \o Atoms(SubSeq(x.buf, 1, i - 1))) \o From(x.buf, i) = TextOf(x.out) \o x.buf
          /\ CallsOf(x.out \o Atoms(SubSeq(x.buf, 1, i - 1))) = CallsOf(x.out)
      BY <1>0, <3>3, AtomsMove
    <3> QED BY <3>2, <3>4, CaptureCases
  <2>3. CASE ~x.capturing /\ Triggers(x.buf) = {}
    <3>1. PICK keep : keep = Len(x.buf) - HeldBack(x.buf)
      OBVIOUS
    <3>2. keep \in 0..Len(x.buf) /\ y.buf = From(x.buf, keep + 1) /\ y.out = x.out \o Atoms(SubSeq(x.buf, 1, keep))
      BY <2>3, <3>1, CaptureNone
    <3>3. PICK i : i = keep + 1 /\ i - 1 = keep /\ i \in 1..(Len(x.buf) + 1)
      BY <1>0, <3>2
    <3>4. y.buf = From(x.buf, i) /\ y.out = x.out \o Atoms(SubSeq(x.buf, 1, i - 1))
      BY <3>2, <3>3
    <3>5. /\ TextOf(x.out \o Atoms(SubSeq(x.buf, 1, i - 1))) \o From(x.buf, i) = TextOf(x.out) \o x.buf
          /\ CallsOf(x.out \o Atoms(SubSeq(x.buf, 1, i - 1))) = CallsOf(x.out)
      BY <1>0, <3>3, AtomsMove
    <3> QED BY <3>4, <3>5, CaptureCases
  <2> QED BY <2>1, <2>2, <2>3
<1>2. Round(x) = Release(y)
  BY DEF Round
<1> HIDE DEF y
<1>3. CASE ~Released(y)
  BY <1>1, <1>2, <1>3, ReleaseCases
<1>4. CASE Released(y)
  <2> DEFINE e == End(y.buf)  block == SubSeq(y.buf, 1, e - 1)  c == Recovered(block)
             z == [buf |-> From(y.buf, e), capturing |-> FALSE, out |-> y.out \o c]
  <2>0. y.buf \in Txt /\ y.out \in Seq(OutType) /\ Len(y.buf) \in Nat
    BY <1>1 DEF ExtType, Txt
  <2>1. e \in 2..(Len(y.buf) + 1) /\ block \in Txt /\ Release(y) = z
    BY <1>1, <1>4, ReleaseCases
  <2>2. Round(x).out = y.out \o c /\ Round(x).buf = From(y.buf, e)
    <3> HIDE DEF c, e
    <3> QED BY <1>2, <2>1
  <2>3. e \in 1..(Len(y.buf) + 1)
    BY <2>0, <2>1
  <2>4. c \in Seq(OutType) /\ (c = Atoms(block) \/ (c \in Seq(Calls1) /\ c # << >>))
    BY <2>1, RecoveredType
  <2> HIDE DEF z, e
  <2>5. CASE c = Atoms(block)
    <3>1. /\ TextOf(y.out \o Atoms(block)) \o From(y.buf, e) = TextOf(y.out) \o y.buf
          /\ CallsOf(y.out \o Atoms(block)) = CallsOf(y.out)
      BY <2>0, <2>3, AtomsMove
    <3> HIDE DEF c, block
    <3> QED BY <1>1, <2>2, <2>5, <3>1
  <2>6. CASE c \in Seq(Calls1) /\ c # << >>
    <3> HIDE DEF c
    <3>1. CallsOf(y.out \o c) = CallsOf(y.out) \o CallsOf(c)
      BY <2>0, <2>4, PartsConcat
    <3>2. CallsOf(y.out) \in Seq(Calls1) /\ CallsOf(c) \in Seq(Calls1)
      BY <2>0, <2>4, PartsType
    <3>3. CallsOf(c) = << >>
      BY <2>2, <3>1, <3>2, NothingBoth
    <3> QED BY <2>6, <3>3, CallsParts
  <2> QED BY <2>4, <2>5, <2>6
<1> QED BY <1>3, <1>4

LEMMA DrainKeeps ==
    ASSUME NEW x \in ExtType, Whole(x), CallsOf(Drain(x).out) = << >>
    PROVE  TextOf(Drain(x).out) \o Drain(x).buf = TextOf(x.out) \o x.buf
<1> DEFINE n == Enough(x)
<1>1. n \in Nat /\ n <= n /\ 0 \in 0..n /\ n \in 0..n
  BY DEF Enough, ExtType, Txt
<1> HIDE DEF n
<1>2. PICK f : Rounds(x, n, f)
  BY <1>1, RoundsExist
<1>3. Drain(x) = f[n] /\ f[0] = x /\ \A i \in 1..n : f[i] = Round(f[i - 1])
  BY <1>1, <1>2, DrainAt, RoundsAre DEF n
<1>4. \A i \in 0..n : f[i] \in ExtType
  BY <1>1, <1>2, RoundsFacts
\* from the last round back: as long as it holds there is nothing to lose
<1> DEFINE Good(i) == CallsOf(f[i].out) = << >> /\ TextOf(f[i].out) \o f[i].buf = TextOf(f[n].out) \o f[n].buf
           Bad == {k \in 0..n : ~Good(n - k)}
<1>5. Bad = {}
  <2> HIDE DEF Good
  <2> SUFFICES ASSUME Bad # {} PROVE FALSE
    OBVIOUS
  <2>1. PICK k \in Bad : \A j \in Bad : k <= j
    <3>1. Bad \in SUBSET Nat
      BY <1>1
    <3> HIDE DEF Bad
    <3> QED BY LeastOf, <3>1
  <2>2. Good(n - 0)
    <3>1. n - 0 = n
      BY <1>1
    <3>2. CallsOf(f[n].out) = << >>
      BY <1>3
    <3> QED BY <3>1, <3>2 DEF Good
  <2>3. k # 0
    BY <2>1, <2>2
  <2>a. k \in 0..n /\ ~Good(n - k)
    BY <2>1
  <2>b. PICK j \in Nat : j + 1 = k /\ j \in 0..n /\ ~(k <= j)
    <3> HIDE DEF Bad
    <3> QED BY <1>1, <2>3, <2>a
  <2>c. j \notin Bad
    BY <2>1, <2>b
  <2>d. Good(n - j)
    BY <2>b, <2>c
  <2>5. PICK i : i = n - j /\ i \in 1..n /\ i - 1 = n - k /\ i - 1 \in 0..n
    <3> HIDE DEF Bad
    <3> QED BY <1>1, <2>a, <2>b
  <2>6. Good(i)
    BY <2>d, <2>5
  <2>7. f[i] = Round(f[i - 1]) /\ f[i - 1] \in ExtType
    BY <1>3, <1>4, <2>5
  <2>8. Good(i - 1)
    BY <2>6, <2>7, RoundKeeps DEF Good
  <2> QED BY <2>a, <2>5, <2>8
<1>6. Good(n - n)
  BY <1>1, <1>5
<1>7. n - n = 0
  BY <1>1
<1> QED BY <1>3, <1>6, <1>7

-----------------------------------------------------------------------------
\* What is already out makes no difference.
Before(o, x) == [x EXCEPT !.out = o \o @]

LEMMA OutSet ==
    ASSUME NEW x \in ExtType, NEW v
    PROVE  [x EXCEPT !.out = v] = [buf |-> x.buf, capturing |-> x.capturing, out |-> v]
BY DEF ExtType

LEMMA BeforeIs ==
    ASSUME NEW x \in ExtType, NEW o \in Seq(OutType)
    PROVE  /\ Before(o, x) \in ExtType
           /\ Before(o, x) = [buf |-> x.buf, capturing |-> x.capturing, out |-> o \o x.out]
           /\ Before(o, x).buf = x.buf /\ Before(o, x).capturing = x.capturing /\ Before(o, x).out = o \o x.out
<1>1. o \o x.out \in Seq(OutType)
  BY DEF ExtType
<1>2. x = [buf |-> x.buf, capturing |-> x.capturing, out |-> x.out] /\ x.buf \in Txt /\ x.capturing \in BOOLEAN
  BY DEF ExtType
<1> DEFINE a == o \o x.out  z == [buf |-> x.buf, capturing |-> x.capturing, out |-> a]
<1>3. Before(o, x) = z
  <2>1. Before(o, x) = [x EXCEPT !.out = a]
    BY DEF Before
  <2> HIDE DEF a
  <2> QED BY <2>1, OutSet
<1> HIDE DEF a
<1>4. z \in ExtType /\ z.buf = x.buf /\ z.capturing = x.capturing /\ z.out = a
  BY <1>1, <1>2 DEF ExtType, a
<1> QED BY <1>3, <1>4 DEF a

LEMMA CaptureBefore ==
    ASSUME NEW x \in ExtType, NEW o \in Seq(OutType)
    PROVE  Capture(Before(o, x)) = Before(o, Capture(x))
<1> DEFINE b == Before(o, x)  y == Capture(x)
<1>0. x.buf \in Txt /\ x.out \in Seq(OutType) /\ Len(x.buf) \in Nat
  BY DEF ExtType, Txt
<1>1. b \in ExtType /\ b.buf = x.buf /\ b.capturing = x.capturing /\ b.out = o \o x.out
  BY BeforeIs
<1>2. y \in ExtType /\ Before(o, y) = [buf |-> y.buf, capturing |-> y.capturing, out |-> o \o y.out]
  BY CaptureCases, BeforeIs
<1> HIDE DEF b
<1>3. CASE x.capturing
  BY <1>1, <1>3, CaptureCases DEF b
<1>4. CASE ~x.capturing /\ Triggers(x.buf) # {}
  <2>1. PICK i : i = Least(Triggers(x.buf))
    OBVIOUS
  <2> DEFINE a == Atoms(SubSeq(x.buf, 1, i - 1))
  <2>2. i \in 1..Len(x.buf) /\ y.buf = From(x.buf, i) /\ y.out = x.out \o a /\ y.capturing = TRUE
    BY <1>2, <1>4, <2>1, CaptureSome DEF ExtType
  <2>3. Capture(b) = [buf |-> From(x.buf, i), capturing |-> TRUE, out |-> (o \o x.out) \o a]
    BY <1>1, <1>4, <2>1, CaptureSome
  <2>4. a \in Seq(OutType)
    <3>1. i - 1 \in 0..Len(x.buf)
      BY <1>0, <2>2
    <3>2. SubSeq(x.buf, 1, i - 1) \in Txt
      BY <1>0, <3>1, FrontFacts DEF Txt
    <3> QED BY <3>2, AtomsType
  <2> HIDE DEF a
  <2>5. (o \o x.out) \o a = o \o (x.out \o a)
    BY <1>0, <2>4, OutAssociative
  <2> QED BY <1>2, <2>2, <2>3, <2>5 DEF b
<1>5. CASE ~x.capturing /\ Triggers(x.buf) = {}
  <2>1. PICK keep : keep = Len(x.buf) - HeldBack(x.buf)
    OBVIOUS
  <2> DEFINE a == Atoms(SubSeq(x.buf, 1, keep))
  <2>2. keep \in 0..Len(x.buf) /\ y.buf = From(x.buf, keep + 1) /\ y.out = x.out \o a /\ y.capturing = FALSE
    BY <1>2, <1>5, <2>1, CaptureNone DEF ExtType
  <2>3. Capture(b) = [buf |-> From(x.buf, keep + 1), capturing |-> FALSE, out |-> (o \o x.out) \o a]
    BY <1>1, <1>5, <2>1, CaptureNone
  <2>4. a \in Seq(OutType)
    <3>2. SubSeq(x.buf, 1, keep) \in Txt
      BY <1>0, <2>2, FrontFacts DEF Txt
    <3> QED BY <3>2, AtomsType
  <2> HIDE DEF a
  <2>5. (o \o x.out) \o a = o \o (x.out \o a)
    BY <1>0, <2>4, OutAssociative
  <2> QED BY <1>2, <2>2, <2>3, <2>5 DEF b
<1> QED BY <1>3, <1>4, <1>5

LEMMA ReleaseBefore ==
    ASSUME NEW x \in ExtType, NEW o \in Seq(OutType)
    PROVE  Release(Before(o, x)) = Before(o, Release(x))
<1> DEFINE b == Before(o, x)  y == Release(x)
<1>0. x.buf \in Txt /\ x.out \in Seq(OutType) /\ Len(x.buf) \in Nat
  BY DEF ExtType, Txt
<1>1. b \in ExtType /\ b.buf = x.buf /\ b.capturing = x.capturing /\ b.out = o \o x.out
  BY BeforeIs
<1>2. y \in ExtType /\ Before(o, y) = [buf |-> y.buf, capturing |-> y.capturing, out |-> o \o y.out]
  BY ReleaseCases, BeforeIs
<1> HIDE DEF b
<1>3. Released(b) <=> Released(x)
  BY <1>1 DEF Released
<1>4. CASE ~Released(x)
  BY <1>1, <1>3, <1>4, ReleaseCases DEF b
<1>5. CASE Released(x)
  <2> DEFINE e == End(x.buf)  c == Recovered(SubSeq(x.buf, 1, e - 1))
  <2>1. /\ Release(x) = [buf |-> From(x.buf, e), capturing |-> FALSE, out |-> x.out \o c]
        /\ SubSeq(x.buf, 1, e - 1) \in Txt
    BY <1>5, ReleaseCases
  <2>2. Release(b) = [buf |-> From(x.buf, e), capturing |-> FALSE, out |-> (o \o x.out) \o c]
    BY <1>1, <1>3, <1>5, ReleaseCases
  <2>3. c \in Seq(OutType)
    BY <2>1, RecoveredType
  <2> HIDE DEF c, e
  <2>4. (o \o x.out) \o c = o \o (x.out \o c)
    BY <1>0, <2>3, OutAssociative
  <2>5. y.buf = From(x.buf, e) /\ y.capturing = FALSE /\ y.out = x.out \o c
    BY <2>1
  <2> QED BY <1>2, <2>2, <2>4, <2>5 DEF b
<1> QED BY <1>4, <1>5

LEMMA RoundBefore ==
    ASSUME NEW x \in ExtType, NEW o \in Seq(OutType)
    PROVE  Round(Before(o, x)) = Before(o, Round(x))
  BY CaptureBefore, ReleaseBefore, CaptureCases DEF Round

LEMMA DrainBefore ==
    ASSUME NEW x \in ExtType, Whole(x), NEW o \in Seq(OutType)
    PROVE  Drain(Before(o, x)) = Before(o, Drain(x))
<1> DEFINE n == Enough(x)  b == Before(o, x)
<1>1. n \in Nat /\ n <= n /\ 0 \in 0..n /\ n \in 0..n
  BY DEF Enough, ExtType, Txt
<1>2. b \in ExtType /\ Enough(b) = n
  BY BeforeIs DEF Enough
<1> HIDE DEF n, b
<1>3. PICK f : Rounds(x, n, f)
  BY <1>1, RoundsExist
<1>4. Drain(x) = f[n] /\ f[0] = x /\ \A i \in 1..n : f[i] = Round(f[i - 1])
  BY <1>1, <1>3, DrainAt, RoundsAre DEF n
<1>5. \A i \in 0..n : f[i] \in ExtType
  BY <1>1, <1>3, RoundsFacts
<1> DEFINE g == [i \in 0..n |-> Before(o, f[i])]
<1>6. \A i \in 0..n : g[i] = IF i = 0 THEN b ELSE Round(g[i - 1])
  <2> SUFFICES ASSUME NEW i \in 0..n PROVE g[i] = IF i = 0 THEN b ELSE Round(g[i - 1])
    OBVIOUS
  <2>1. CASE i = 0
    BY <2>1, <1>1, <1>4 DEF b
  <2>2. CASE i # 0
    <3>1. i \in 1..n /\ i - 1 \in 0..n
      BY <1>1, <2>2
    <3>2. g[i] = Before(o, Round(f[i - 1])) /\ g[i - 1] = Before(o, f[i - 1])
      BY <1>4, <3>1
    <3>3. Round(Before(o, f[i - 1])) = Before(o, Round(f[i - 1]))
      BY <1>5, <3>1, RoundBefore
    <3> QED BY <2>2, <3>2, <3>3
  <2> QED BY <2>1, <2>2
<1>7. g = [i \in 0..n |-> g[i]] /\ g[n] = Before(o, f[n])
  BY <1>1
<1> HIDE DEF g
<1>8. g = [i \in 0..n |-> IF i = 0 THEN b ELSE Round(g[i - 1])]
  BY <1>6, <1>7
<1>9. Rounds(b, n, g)
  BY <1>8 DEF Rounds
<1>10. Drain(b) = g[n]
  <2>1. Enough(b) <= n
    BY <1>1, <1>2
  <2> QED BY <1>1, <1>2, <1>9, <2>1, DrainAt
<1> QED BY <1>4, <1>7, <1>10 DEF b

-----------------------------------------------------------------------------
(* A text that is cut in two. *)

\* What a text becomes that follows what the extractor x holds: all that is let out, and what is
\* left in the end. The extractor between two pieces of text has let everything out, and has nothing
\* it could do without more.
Emptied(e) == [e EXCEPT !.out = << >>]
Resting(x) == x \in ExtType /\ Whole(x) /\ x.out = << >> /\ Round(x) = x
Result(x, r) == Drain(Plus(x, r)).out \o Atoms(Drain(Plus(x, r)).buf)

LEMMA FeedIs ==
    ASSUME NEW x \in ExtType, x.out = << >>, NEW chunk \in Txt
    PROVE  Feed(x, chunk) = Drain(Plus(x, chunk)) /\ Plus(x, chunk) \in ExtType
<1> DEFINE b == x.buf \o chunk
<1>1. Plus(x, chunk) = [buf |-> b, capturing |-> x.capturing, out |-> x.out] /\ Plus(x, chunk) \in ExtType
  BY PlusType
<1> QED BY <1>1 DEF Feed

LEMMA SameExt ==
    ASSUME NEW x \in ExtType, NEW y \in ExtType, x.buf = y.buf, x.capturing = y.capturing, x.out = y.out
    PROVE  x = y
BY DEF ExtType

\* Letting out what is ready leaves such an extractor.
LEMMA EmptiedFacts ==
    ASSUME NEW e \in ExtType, Whole(e), Round(e) = e
    PROVE  /\ Resting(Emptied(e)) /\ Emptied(e).buf = e.buf /\ Emptied(e).capturing = e.capturing
           /\ e = Before(e.out, Emptied(e))
<1> DEFINE z == Emptied(e)  o == e.out  y == Round(z)
<1>1. z \in ExtType /\ z.buf = e.buf /\ z.capturing = e.capturing /\ z.out = << >>
  <2>1. z = [buf |-> e.buf, capturing |-> e.capturing, out |-> << >>]
    BY OutSet DEF Emptied
  <2>2. e.buf \in Txt /\ e.capturing \in BOOLEAN /\ << >> \in Seq(OutType)
    BY DEF ExtType
  <2> HIDE DEF z
  <2> QED BY <2>1, <2>2 DEF ExtType
<1>2. o \in Seq(OutType)
  BY DEF ExtType
<1>3. Whole(z)
  BY <1>1 DEF Whole
<1> HIDE DEF z
<1>4. o \o << >> = o
  BY <1>2
<1>5. Before(o, z) \in ExtType /\ Before(o, z).buf = z.buf /\ Before(o, z).capturing = z.capturing
      /\ Before(o, z).out = o \o z.out
  BY <1>1, <1>2, BeforeIs
<1>6. Before(o, z) = e
  BY <1>1, <1>4, <1>5, SameExt
<1>7. Round(Before(o, z)) = Before(o, y)
  BY <1>1, <1>2, RoundBefore
<1>8. y \in ExtType
  BY <1>1, <1>3, RoundType
<1> HIDE DEF y
<1>9. /\ Before(o, y).buf = y.buf /\ Before(o, y).capturing = y.capturing
      /\ Before(o, y).out = o \o y.out
  BY <1>2, <1>8, BeforeIs
<1>10. Before(o, y) = e
  BY <1>6, <1>7
<1>11. y.out = << >>
  <2>1. o \o y.out = o /\ y.out \in Seq(OutType)
    BY <1>8, <1>9, <1>10 DEF ExtType
  <2>2. Len(o \o y.out) = Len(o) + Len(y.out) /\ Len(o) \in Nat /\ Len(y.out) \in Nat
    <3> DEFINE v == y.out
    <3>1. v \in Seq(OutType)
      BY <2>1
    <3> HIDE DEF o, v
    <3>2. Len(o \o v) = Len(o) + Len(v) /\ Len(o) \in Nat /\ Len(v) \in Nat
      BY <1>2, <3>1
    <3> QED BY <3>2 DEF v
  <2>3. Len(y.out) = 0
    <3> HIDE DEF o
    <3> QED BY <2>1, <2>2
  <2> QED BY <2>1, <2>3
<1>12. y = z
  BY <1>1, <1>8, <1>9, <1>10, <1>11, SameExt
<1>13. Resting(z)
  BY <1>1, <1>3, <1>12 DEF Resting, y
<1> QED BY <1>1, <1>6, <1>13 DEF z

\* Wherever a text is cut, what comes out of the two pieces is what comes out of the whole: for every
\* text, every cut, and whatever the extractor held before, if the word invoke was not taken too early
\* (feed, tool-xml.ts 26-36).
THEOREM CutsJoin ==
    ASSUME NEW x, Resting(x), NEW r \in Txt, NEW s \in Txt, ~Early(Drain(Plus(x, r)), s)
    PROVE  /\ Drain(Plus(x, r)) \in ExtType /\ Resting(Emptied(Drain(Plus(x, r))))
           /\ Result(x, r \o s) = Drain(Plus(x, r)).out \o Result(Emptied(Drain(Plus(x, r))), s)
<1> DEFINE p == Plus(x, r)  e == Drain(p)  z == Emptied(e)  o == e.out  y == Drain(Plus(z, s))
<1>0. x \in ExtType /\ Whole(x) /\ x.out = << >> /\ x.buf \in Txt /\ r \o s \in Txt
  BY TxtJoin DEF Resting, ExtType
<1>1. p \in ExtType /\ Whole(p) /\ p.buf = x.buf \o r /\ p.capturing = x.capturing /\ p.out = x.out
  BY <1>0, PlusType, WholePlus
<1>2. Plus(p, s) = Plus(x, r \o s)
  <2>1. (x.buf \o r) \o s = x.buf \o (r \o s)
    BY <1>0, TextAssociative, ZenonT(60) DEF Txt
  <2>2. /\ Plus(p, s) \in ExtType /\ Plus(p, s).buf = p.buf \o s
        /\ Plus(p, s).capturing = p.capturing /\ Plus(p, s).out = p.out
    <3> HIDE DEF p
    <3> QED BY <1>1, PlusType
  <2> DEFINE t == r \o s
  <2>3. t \in Txt
    BY <1>0
  <2> HIDE DEF t
  <2>4. /\ Plus(x, t) \in ExtType /\ Plus(x, t).buf = x.buf \o t
        /\ Plus(x, t).capturing = x.capturing /\ Plus(x, t).out = x.out
    BY <1>0, <2>3, PlusType
  <2> HIDE DEF p
  <2>5. x.buf \o t = p.buf \o s
    BY <1>1, <2>1 DEF t
  <2>6. Plus(p, s) = Plus(x, t)
    BY <1>1, <2>2, <2>4, <2>5, SameExt, ZenonT(60)
  <2> QED BY <2>6 DEF t
<1> HIDE DEF p
<1>3. e \in ExtType /\ Whole(e) /\ Round(e) = e
  BY <1>1, DrainFacts
<1>4. Drain(Plus(p, s)) = Drain(Plus(e, s))
  BY <1>1, DrainPlus DEF p
<1> HIDE DEF e
<1>5. Resting(z) /\ e = Before(o, z) /\ o \in Seq(OutType)
  BY <1>3, EmptiedFacts DEF ExtType
<1> HIDE DEF z, o
<1>6. z \in ExtType /\ Whole(z)
  BY <1>5 DEF Resting
<1>7. /\ Plus(z, s) \in ExtType /\ Plus(z, s).buf = z.buf \o s /\ Plus(z, s).capturing = z.capturing
      /\ Plus(z, s).out = z.out /\ Whole(Plus(z, s))
  BY <1>6, PlusType, WholePlus
<1>8. Plus(e, s) = Before(o, Plus(z, s))
  <2> DEFINE q == Plus(z, s)
  <2>1. q \in ExtType
    BY <1>7
  <2>2. /\ Plus(e, s) \in ExtType /\ Plus(e, s).buf = e.buf \o s
        /\ Plus(e, s).capturing = e.capturing /\ Plus(e, s).out = e.out
    BY <1>3, PlusType
  <2>3. e.buf = z.buf /\ e.capturing = z.capturing /\ e.out = o \o z.out
    BY <1>5, <1>6, BeforeIs
  <2>4. /\ Before(o, q) \in ExtType /\ Before(o, q).buf = q.buf
        /\ Before(o, q).capturing = q.capturing /\ Before(o, q).out = o \o q.out
    <3> HIDE DEF q
    <3> QED BY <1>5, <2>1, BeforeIs
  <2> QED BY <1>7, <2>2, <2>3, <2>4, SameExt, ZenonT(60)
<1>9. y \in ExtType /\ Drain(Before(o, Plus(z, s))) = Before(o, y)
  BY <1>5, <1>7, DrainBefore, DrainFacts
<1> HIDE DEF y
<1>10. Before(o, y).out = o \o y.out /\ Before(o, y).buf = y.buf /\ y.out \in Seq(OutType) /\ y.buf \in Txt
  BY <1>5, <1>9, BeforeIs DEF ExtType
<1>11. Drain(Plus(x, r \o s)) = Before(o, y)
  BY <1>2, <1>4, <1>8, <1>9
<1>12. Result(x, r \o s) = (o \o y.out) \o Atoms(y.buf)
  BY <1>10, <1>11 DEF Result
<1>13. Atoms(y.buf) \in Seq(OutType)
  BY <1>10, AtomsType
<1>14. (o \o y.out) \o Atoms(y.buf) = o \o (y.out \o Atoms(y.buf))
  BY <1>5, <1>10, <1>13, OutAssociative
<1>15. Result(z, s) = y.out \o Atoms(y.buf)
  BY DEF Result, y
<1> QED BY <1>3, <1>5, <1>12, <1>14, <1>15 DEF z, o, e, p

LEMMA ResultNothing ==
    ASSUME NEW x, Resting(x)
    PROVE  Result(x, << >>) = Atoms(x.buf)
<1>1. x \in ExtType /\ Whole(x) /\ Round(x) = x /\ x.out = << >> /\ x.buf \in Txt
  BY DEF Resting, ExtType
<1>2. Drain(Plus(x, << >>)) = x
  BY <1>1, PlusNothing, DrainRest
<1>3. Atoms(x.buf) \in Seq(OutType)
  BY <1>1, AtomsType
<1>4. << >> \o Atoms(x.buf) = Atoms(x.buf)
  BY <1>3
<1> QED BY <1>1, <1>2, <1>4 DEF Result

LEMMA ResultType ==
    ASSUME NEW x, Resting(x), NEW r \in Txt
    PROVE  Result(x, r) \in Seq(OutType)
<1>1. x \in ExtType /\ Whole(x)
  BY DEF Resting
<1>2. Plus(x, r) \in ExtType /\ Whole(Plus(x, r))
  BY <1>1, PlusType, WholePlus
<1>3. Drain(Plus(x, r)) \in ExtType
  BY <1>2, DrainFacts
<1>4. Drain(Plus(x, r)).out \in Seq(OutType) /\ Drain(Plus(x, r)).buf \in Txt
  BY <1>3 DEF ExtType
<1>5. Atoms(Drain(Plus(x, r)).buf) \in Seq(OutType)
  BY <1>4, AtomsType
<1> DEFINE a == Drain(Plus(x, r)).out  b == Atoms(Drain(Plus(x, r)).buf)
<1>6. Result(x, r) = a \o b
  BY DEF Result
<1>7. a \in Seq(OutType) /\ b \in Seq(OutType)
  BY <1>4, <1>5
<1> HIDE DEF a, b
<1> QED BY <1>6, <1>7

\* So is the one a response begins with.
LEMMA IdleRests ==
    Resting(Idle)
<1>1. Idle \in ExtType /\ Idle.buf = << >> /\ ~Idle.capturing /\ Idle.out = << >>
  BY DEF Idle, ExtType, Txt
<1>2. Triggers(Idle.buf) = {}
  <2>1. << >> \in Txt /\ Len(<< >>) = 0
    BY DEF Txt
  <2>2. \A i : i \notin Triggers(<< >>)
    BY <2>1, TriggersIs
  <2> QED BY <1>1, <2>2
<1>3. Capture(Idle) = Idle
  <2>1. PICK keep : keep = Len(Idle.buf) - HeldBack(Idle.buf)
    OBVIOUS
  <2>2. /\ keep \in 0..Len(Idle.buf) /\ Capture(Idle).buf = From(Idle.buf, keep + 1) /\ ~Capture(Idle).capturing
        /\ Capture(Idle).out = Idle.out \o Atoms(SubSeq(Idle.buf, 1, keep))
    BY <1>1, <1>2, <2>1, CaptureNone
  <2>3. keep = 0
    BY <1>1, <2>2
  <2>4. From(<< >>, 0 + 1) = << >> /\ SubSeq(<< >>, 1, 0) = << >>
    BY DEF From
  <2>5. Atoms(<< >>) = << >>
    BY DEF Atoms
  <2>6. Capture(Idle).buf = << >> /\ Capture(Idle).out = << >>
    <3>1. Capture(Idle).buf = From(<< >>, 0 + 1) /\ Capture(Idle).out = << >> \o Atoms(SubSeq(<< >>, 1, 0))
      BY <1>1, <2>2, <2>3
    <3>2. << >> \o << >> = << >>
      OBVIOUS
    <3> QED BY <2>4, <2>5, <3>1, <3>2
  <2>7. Capture(Idle) \in ExtType
    BY <1>1, CaptureCases
  <2>8. Capture(Idle).capturing = Idle.capturing
    BY <1>1, <2>2, <2>7 DEF ExtType
  <2> QED BY <1>1, <2>6, <2>7, <2>8, SameExt
<1>4. Release(Idle) = Idle
  BY <1>1, ReleaseCases DEF Released
<1> QED BY <1>1, <1>3, <1>4 DEF Resting, Round, Whole

LEMMA ExtractIs ==
    ASSUME NEW s \in Txt
    PROVE  Extract(s) = Result(Idle, s)
<1>1. Idle \in ExtType /\ Idle.out = << >>
  BY IdleRests DEF Resting
<1>2. Feed(Idle, s) = Drain(Plus(Idle, s))
  BY <1>1, FeedIs
<1> DEFINE y == Drain(Plus(Idle, s))
<1>3. Flush(y).out = Atoms(y.buf)
  BY DEF Flush, Idle
<1>4. Extract(s) = y.out \o Flush(y).out
  BY <1>2 DEF Extract
<1> QED BY <1>3, <1>4 DEF Result

-----------------------------------------------------------------------------
(* What the client has at the end. *)

\* At most one part of a text is there at all.
OnlyPart(ss, k) == \A j \in DOMAIN ss : j # k => ss[j] = << >>
PartAt(ss, k) == IF k \in DOMAIN ss THEN ss[k] ELSE << >>

LEMMA OnePart ==
    ASSUME NEW ss \in Seq(Txt), NEW k, OnlyPart(ss, k)
    PROVE  FlattenSeq(ss) = PartAt(ss, k)
<1> DEFINE Good(v) == \A i : OnlyPart(v, i) => FlattenSeq(v) = PartAt(v, i)
           P == {v \in Seq(Txt) : Good(v)}
<1>1. << >> \in P
  <2>1. << >> \in Seq(Txt) /\ FlattenSeq(<< >>) = << >> /\ DOMAIN << >> = {}
    BY FlattenEmpty
  <2>2. \A i : PartAt(<< >>, i) = << >>
    BY <2>1 DEF PartAt
  <2> QED BY <2>1, <2>2
<1>2. ASSUME NEW v \in P, NEW e \in Txt
      PROVE  Append(v, e) \in P
  <2> DEFINE w == Append(v, e)  m == Len(v) + 1
  <2>1. v \in Seq(Txt) /\ Good(v)
    BY DEF P
  <2>2. w \in Seq(Txt) /\ DOMAIN v = 1..Len(v) /\ DOMAIN w = 1..m /\ w[m] = e /\ m \notin DOMAIN v
        /\ Len(v) \in Nat /\ \A i \in DOMAIN v : i \in DOMAIN w /\ w[i] = v[i]
    BY <2>1
  <2>3. DOMAIN w = DOMAIN v \cup {m}
    BY <2>2
  <2>4. FlattenSeq(w) = FlattenSeq(v) \o e /\ FlattenSeq(v) \in Txt
    BY <2>1, FlattenAppend, FlattenType DEF Txt
  <2> HIDE DEF w, m
  <2>5. ASSUME NEW i, OnlyPart(w, i)
        PROVE  FlattenSeq(w) = PartAt(w, i)
    <3>1. OnlyPart(v, i)
      BY <2>2, <2>5 DEF OnlyPart
    <3>2. FlattenSeq(v) = PartAt(v, i)
      BY <2>1, <3>1
    <3>3. CASE i = m
      <4>1. FlattenSeq(v) = << >>
        BY <2>2, <3>2, <3>3 DEF PartAt
      <4>2. << >> \o e = e
        BY DEF Txt
      <4> QED BY <2>2, <2>3, <2>4, <3>3, <4>1, <4>2 DEF PartAt
    <3>4. CASE i # m
      <4>1. e = << >>
        BY <2>2, <2>3, <2>5, <3>4 DEF OnlyPart
      <4>2. FlattenSeq(v) \o << >> = FlattenSeq(v)
        BY <2>4 DEF Txt
      <4>3. PartAt(w, i) = PartAt(v, i)
        BY <2>2, <2>3, <3>4 DEF PartAt
      <4> QED BY <2>4, <3>2, <4>1, <4>2, <4>3
    <3> QED BY <3>3, <3>4
  <2>6. Good(w)
    BY <2>5
  <2> QED BY <2>2, <2>6 DEF w
<1>3. P \in SUBSET Seq(Txt)
  BY DEF P
<1>4. Seq(Txt) \subseteq P
  <2> HIDE DEF P
  <2> QED BY <1>1, <1>2, <1>3, ByAppending
<1>5. ss \in P
  BY <1>4
<1> QED BY <1>5

\* c has the items of x, with what arrived of them.
SameBodies(x, c) ==
    /\ c \in ClientType /\ Len(c.items) = x.sse.next
    /\ \A j \in 1..x.sse.next : c.items[j].kind = x.got.items[j].kind /\ c.items[j].body = x.got.items[j].body

LEMMA TextDelivered ==
    ASSUME NEW x, NEW u, Sound(x, u), NEW c, SameBodies(x, c)
    PROVE  MessageText(c) = x.sse.all
<1> DEFINE N == x.sse.next
           part(i) == IF c.items[i].kind = "message" THEN c.items[i].body ELSE << >>
           ss == [i \in DOMAIN c.items |-> part(i)]
           k == x.sse.text + 1
<1>1. N \in Nat /\ x.sse.text \in Int /\ TextKept(x) /\ CallsKept(x, u) /\ Owned(x)
  BY Parts
<1>2. c.items \in Seq(ItemType) /\ Len(c.items) = N
  BY DEF SameBodies, ClientType
<1>3. DOMAIN c.items = 1..N
  BY <1>2
<1>4. \A i \in 1..N : c.items[i].kind = x.got.items[i].kind /\ c.items[i].body = x.got.items[i].body
  BY DEF SameBodies
<1>5. ss \in Seq(Txt) /\ DOMAIN ss = 1..N /\ \A i \in 1..N : ss[i] = part(i)
  <2>1. \A i \in 1..N : c.items[i] \in ItemType
    BY <1>2
  <2>2. \A i \in 1..N : part(i) \in Txt
    BY <2>1 DEF ItemType, Txt
  <2> HIDE DEF part, N
  <2>3. ss \in [1..N -> Txt]
    BY <1>3, <2>2
  <2>4. DOMAIN ss = 1..N /\ \A i \in 1..N : ss[i] = part(i)
    BY <1>3
  <2> HIDE DEF ss
  <2>5. ss \in Seq(Txt)
    BY <1>1, <2>3
  <2> QED BY <2>4, <2>5
<1>6. ASSUME NEW i \in 1..N, i # k
      PROVE  part(i) = << >>
  <2>1. PICK n : n = i - 1 /\ n \in 0..(N - 1) /\ n + 1 = i /\ n # x.sse.text
    BY <1>1, <1>6
  <2>2. PICK index \in DOMAIN x.sse.calls : x.sse.calls[index] = n
    BY <1>1, <2>1 DEF Owned
  <2>3. x.got.items[n + 1].kind = "call"
    BY <1>1, <2>2 DEF CallsKept
  <2> QED BY <1>4, <2>1, <2>3
<1>7. MessageText(c) = FlattenSeq(ss)
  BY DEF MessageText
<1> HIDE DEF part
<1>8. OnlyPart(ss, k)
  BY <1>5, <1>6 DEF OnlyPart
<1> HIDE DEF ss
<1>9. FlattenSeq(ss) = PartAt(ss, k)
  <2> HIDE DEF k
  <2> QED BY <1>5, <1>8, OnePart
<1>10. PartAt(ss, k) = x.sse.all
  <2>1. CASE x.sse.text = NoItem
    <3>1. x.sse.all = << >>
      BY <1>1, <2>1 DEF TextKept
    <3>2. k \notin 1..N
      BY <1>1, <2>1 DEF NoItem
    <3> QED BY <1>5, <3>1, <3>2 DEF PartAt
  <2>2. CASE x.sse.text # NoItem
    <3>1. /\ x.sse.text \in 0..(N - 1)
          /\ x.got.items[k].kind = "message" /\ x.got.items[k].body = x.sse.all
      BY <1>1, <2>2 DEF TextKept
    <3>2. k \in 1..N
      BY <1>1, <3>1
    <3>3. part(k) = x.sse.all
      BY <1>4, <3>1, <3>2 DEF part
    <3> QED BY <1>5, <3>2, <3>3 DEF PartAt
  <2> QED BY <2>1, <2>2
<1> QED BY <1>7, <1>9, <1>10

LEMMA CallsDelivered ==
    ASSUME NEW x, NEW u, Sound(x, u), u \subseteq {Native}, NEW n \in Nat, Numbered(x, n), NEW c, SameBodies(x, c)
    PROVE  [i \in 1..n |-> c.items[x.sse.calls[Recovered100 + i - 1] + 1].body] = Heard(x, n)
<1>1. x.sse.next \in Nat /\ CallsKept(x, u)
  BY Parts
<1>2. ASSUME NEW i \in 1..n
      PROVE  c.items[x.sse.calls[Recovered100 + i - 1] + 1].body = Get(x.args, Recovered100 + i - 1)
  <2> DEFINE index == Recovered100 + i - 1
  <2>1. index \in Numbers(n) /\ Native \notin Numbers(n)
    BY NumbersNext
  <2> HIDE DEF index
  <2>2. index \in DOMAIN x.sse.calls /\ index \notin u
    BY <2>1 DEF Numbered
  <2>3. PICK k : k = x.sse.calls[index] /\ k \in 0..(x.sse.next - 1) /\ x.got.items[k + 1].body = Get(x.args, index)
    BY <1>1, <2>2 DEF CallsKept
  <2>4. k + 1 \in 1..x.sse.next
    BY <1>1, <2>3
  <2>5. c.items[k + 1].body = x.got.items[k + 1].body
    BY <2>4 DEF SameBodies
  <2>6. c.items[x.sse.calls[index] + 1].body = Get(x.args, index)
    BY <2>3, <2>5
  <2> QED BY <2>6 DEF index
<1> QED BY <1>2 DEF Heard

-----------------------------------------------------------------------------
(* Steps, and what is still ahead. *)

\* What the worker has sent and what is still to come make up the same whole.
Ahead(x, n, e, r) == x.sse.all \o TextOf(Result(e, r))
CallsAhead(x, n, e, r) == Heard(x, n) \o TailsOf(Result(e, r))
IsFed(e, r, y) == y = Drain(Plus(e, r))
More(n, items, m) == m = n + Len(CallsOf(items))

\* What one piece of text does to the extractor.
LEMMA FedFacts ==
    ASSUME NEW e, Resting(e), NEW r \in Txt, NEW y, IsFed(e, r, y)
    PROVE  /\ y \in ExtType /\ y.out \in Seq(OutType) /\ y.buf \in Txt /\ Resting(Emptied(y))
           /\ Emptied(y).buf = y.buf /\ Emptied(y).capturing = y.capturing
           /\ CallsOf(y.out) = << >> => TextOf(y.out) \o y.buf = e.buf \o r
<1>1. e \in ExtType /\ Whole(e) /\ e.out = << >>
  BY DEF Resting
<1> DEFINE p == Plus(e, r)
<1>2. p \in ExtType /\ Whole(p) /\ p.buf = e.buf \o r /\ p.out = << >>
  BY <1>1, PlusType, WholePlus
<1> HIDE DEF p
<1>3. Drain(p) \in ExtType /\ Whole(Drain(p)) /\ Round(Drain(p)) = Drain(p)
  BY <1>2, DrainFacts
<1>4. y = Drain(p)
  BY DEF IsFed, p
<1>5. y \in ExtType /\ Whole(y) /\ Round(y) = y
  BY <1>3, <1>4
<1>6. ASSUME CallsOf(y.out) = << >>
      PROVE  TextOf(y.out) \o y.buf = e.buf \o r
  <2>1. CallsOf(Drain(p).out) = << >>
    BY <1>4, <1>6
  <2>2. TextOf(Drain(p).out) \o Drain(p).buf = TextOf(p.out) \o p.buf
    BY <1>2, <2>1, DrainKeeps
  <2>3. TextOf(p.out) = << >>
    BY <1>2, NoItems
  <2>4. p.buf \in Txt
    BY <1>2 DEF ExtType
  <2>5. << >> \o p.buf = p.buf
    BY <2>4 DEF Txt
  <2> QED BY <1>2, <1>4, <2>2, <2>3, <2>5
<1> QED BY <1>5, <1>6, EmptiedFacts DEF ExtType

\* One piece of text: it leaves a sound state, and neither loses text nor changes what comes in all,
\* unless the extractor has been early.
ToldOf(x, u, n, e, r, y, m) ==
    LET z == EmitAll(x, ToChunks(y.out, n))
    IN  /\ m \in Nat /\ n <= m /\ (m = n => CallsOf(y.out) = << >>)
        /\ Sound(z, u) /\ GoesOnTo(x, z) /\ Numbered(z, m)
        /\ CallsOf(y.out) = << >> => z.sse.all \o y.buf = x.sse.all \o (e.buf \o r)
        /\ \A s \in Txt : ~Early(y, s) =>
              /\ Ahead(z, m, Emptied(y), s) = Ahead(x, n, e, r \o s)
              /\ CallsAhead(z, m, Emptied(y), s) = CallsAhead(x, n, e, r \o s)

LEMMA ContentTells ==
    ASSUME NEW x, NEW u, Sound(x, u), NEW n \in Nat, Numbered(x, n), NEW e, Resting(e), NEW r \in Txt,
           NEW y, IsFed(e, r, y), NEW m, More(n, y.out, m)
    PROVE  ToldOf(x, u, n, e, r, y, m)
<1> DEFINE z == EmitAll(x, ToChunks(y.out, n))  o == y.out  g == Emptied(y)
<1>1. y \in ExtType /\ o \in Seq(OutType) /\ y.buf \in Txt /\ Resting(g)
  BY FedFacts
<1>2. CallsOf(o) \in Seq(Calls1) /\ TextOf(o) \in Txt /\ TailsOf(o) \in Seq(Txt)
  BY <1>1, PartsType
<1>3. m \in Nat /\ n <= m /\ (m = n => CallsOf(o) = << >>)
  <2> DEFINE c == CallsOf(o)
  <2>1. Len(c) \in Nat /\ (Len(c) = 0 => c = << >>)
    BY <1>2
  <2>2. m = n + Len(c)
    BY DEF More
  <2> HIDE DEF c
  <2>3. m \in Nat /\ n <= m /\ (m = n => c = << >>)
    BY <2>1, <2>2
  <2> QED BY <2>3 DEF c
<1>4. Sound(z, u) /\ GoesOnTo(x, z)
  <2>1. ToChunks(o, n) \in Seq(ChunkType) /\ Announced(ToChunks(o, n))
    BY <1>1, ChunksFacts
  <2> QED BY <2>1, RunSound
<1>5. Tells(x, z, n, o)
  BY <1>1, RunTells
<1>6. z.sse.all = x.sse.all \o TextOf(o) /\ Numbered(z, m) /\ Heard(z, m) = Heard(x, n) \o TailsOf(o)
  BY <1>5 DEF Tells, More
<1>7. x.sse.all \in Txt /\ Heard(x, n) \in Seq(Txt) /\ e.buf \in Txt
  BY Parts, HeardType DEF Resting, ExtType
<1> HIDE DEF z
<1>8. ASSUME CallsOf(o) = << >>
      PROVE  z.sse.all \o y.buf = x.sse.all \o (e.buf \o r)
  <2>1. TextOf(o) \o y.buf = e.buf \o r
    BY <1>8, FedFacts, ZenonT(60)
  <2>2. (x.sse.all \o TextOf(o)) \o y.buf = x.sse.all \o (TextOf(o) \o y.buf)
    BY <1>1, <1>2, <1>7, TextAssociative, ZenonT(60) DEF Txt
  <2> QED BY <1>6, <2>1, <2>2
<1>9. ASSUME NEW s \in Txt, ~Early(y, s)
      PROVE  /\ Ahead(z, m, g, s) = Ahead(x, n, e, r \o s)
             /\ CallsAhead(z, m, g, s) = CallsAhead(x, n, e, r \o s)
  <2> DEFINE w == Result(g, s)
  <2>1. Result(e, r \o s) = o \o w
    <3>1. y = Drain(Plus(e, r))
      BY DEF IsFed
    <3>2. ~Early(Drain(Plus(e, r)), s)
      BY <1>9, <3>1
    <3>3. Result(e, r \o s) = Drain(Plus(e, r)).out \o Result(Emptied(Drain(Plus(e, r))), s)
      BY <3>2, CutsJoin
    <3> QED BY <3>1, <3>3
  <2>2. w \in Seq(OutType)
    BY <1>1, ResultType
  <2> HIDE DEF w
  <2>3. TextOf(w) \in Txt /\ TailsOf(w) \in Seq(Txt)
    BY <2>2, PartsType
  <2>4. TextOf(o \o w) = TextOf(o) \o TextOf(w) /\ TailsOf(o \o w) = TailsOf(o) \o TailsOf(w)
    BY <1>1, <2>2, PartsConcat
  <2>5. (x.sse.all \o TextOf(o)) \o TextOf(w) = x.sse.all \o (TextOf(o) \o TextOf(w))
    <3> DEFINE a == x.sse.all  b == TextOf(o)  c == TextOf(w)
    <3>1. a \in Seq(Alphabet) /\ b \in Seq(Alphabet) /\ c \in Seq(Alphabet)
      BY <1>2, <1>7, <2>3 DEF Txt
    <3> HIDE DEF a, b, c
    <3>2. (a \o b) \o c = a \o (b \o c)
      BY <3>1, TextAssociative
    <3> QED BY <3>2 DEF a, b, c
  <2>6. (Heard(x, n) \o TailsOf(o)) \o TailsOf(w) = Heard(x, n) \o (TailsOf(o) \o TailsOf(w))
    BY <1>2, <1>7, <2>3, BodiesAssociative
  <2>7. Ahead(z, m, g, s) = (x.sse.all \o TextOf(o)) \o TextOf(w)
    BY <1>6 DEF Ahead, w
  <2>8. CallsAhead(z, m, g, s) = (Heard(x, n) \o TailsOf(o)) \o TailsOf(w)
    BY <1>6 DEF CallsAhead, w
  <2>9. Ahead(x, n, e, r \o s) = x.sse.all \o (TextOf(o) \o TextOf(w))
    BY <2>1, <2>4 DEF Ahead
  <2>10. CallsAhead(x, n, e, r \o s) = Heard(x, n) \o (TailsOf(o) \o TailsOf(w))
    BY <2>1, <2>4 DEF CallsAhead
  <2> QED BY <2>5, <2>6, <2>7, <2>8, <2>9, <2>10
<1> QED BY <1>3, <1>4, <1>6, <1>8, <1>9 DEF z, ToldOf

\* What the extractor still holds at the end is text.
LEMMA FlushTells ==
    ASSUME NEW x, NEW u, Sound(x, u), NEW n \in Nat, Numbered(x, n), NEW e, Resting(e)
    PROVE  LET z == EmitAll(x, ToChunks(Flush(e).out, n))
           IN  /\ Sound(z, u) /\ GoesOnTo(x, z) /\ Numbered(z, n)
               /\ z.sse.all = x.sse.all \o e.buf
               /\ z.sse.all = Ahead(x, n, e, << >>)
               /\ Heard(z, n) = CallsAhead(x, n, e, << >>)
<1> DEFINE o == Atoms(e.buf)  z == EmitAll(x, ToChunks(o, n))
<1>1. Flush(e).out = o
  BY DEF Flush, Idle
<1>2. e.buf \in Txt
  BY DEF Resting, ExtType
<1>3. o \in Seq(OutType) /\ TextOf(o) = e.buf /\ CallsOf(o) = << >> /\ TailsOf(o) = << >>
  BY <1>2, AtomsType, AtomsParts
<1>4. Result(e, << >>) = o
  BY ResultNothing
<1> HIDE DEF o
<1>5. Sound(z, u) /\ GoesOnTo(x, z)
  <2>1. ToChunks(o, n) \in Seq(ChunkType) /\ Announced(ToChunks(o, n))
    BY <1>3, ChunksFacts
  <2> QED BY <2>1, RunSound
<1>6. Tells(x, z, n, o)
  BY <1>3, RunTells
<1> HIDE DEF z
<1>7. n + Len(CallsOf(o)) = n
  BY <1>3
<1>8. z.sse.all = x.sse.all \o TextOf(o) /\ Numbered(z, n) /\ Heard(z, n) = Heard(x, n) \o TailsOf(o)
  BY <1>6, <1>7 DEF Tells
<1> QED BY <1>1, <1>3, <1>4, <1>5, <1>8 DEF Ahead, CallsAhead, z

\* Only arguments and starts of calls of Copilot's own come between: they say nothing of text.
LEMMA NativeTells ==
    ASSUME NEW x, NEW u, Sound(x, u), NEW n \in Nat, Numbered(x, n), NEW piece \in Txt
    PROVE  /\ LET z == EmitStart(x, Native)
              IN  z.sse.all = x.sse.all /\ Numbered(z, n) /\ Heard(z, n) = Heard(x, n)
           /\ LET z == EmitArgs(x, Native, piece)
              IN  z.sse.all = x.sse.all /\ Numbered(z, n) /\ Heard(z, n) = Heard(x, n)
<1>0. Native \in Int /\ Native \notin Numbers(n) /\ \A i \in 1..n : Recovered100 + i - 1 # Native
  BY NumbersNext DEF Native
<1>1. LET z == EmitStart(x, Native)
      IN  z.sse.all = x.sse.all /\ Numbered(z, n) /\ Heard(z, n) = Heard(x, n)
  <2> DEFINE z == EmitStart(x, Native)
  <2>1. z.sse.all = x.sse.all /\ DOMAIN z.sse.calls = DOMAIN x.sse.calls \cup {Native} /\ z.args = x.args
    BY <1>0, StartGoesOn
  <2> HIDE DEF z
  <2>2. Numbered(z, n)
    BY <2>1 DEF Numbered
  <2>3. Heard(z, n) = Heard(x, n)
    BY <2>1 DEF Heard
  <2> QED BY <2>1, <2>2, <2>3 DEF z
<1>2. LET z == EmitArgs(x, Native, piece)
      IN  z.sse.all = x.sse.all /\ Numbered(z, n) /\ Heard(z, n) = Heard(x, n)
  <2> DEFINE z == EmitArgs(x, Native, piece)
  <2>1. /\ z.sse.all = x.sse.all
        /\ GoesOnTo(x, z)
        /\ DOMAIN z.sse.calls \subseteq DOMAIN x.sse.calls \cup {Native}
        /\ DOMAIN z.args = DOMAIN x.args \cup {Native}
        /\ \A j : j # Native => Get(z.args, j) = Get(x.args, j)
    BY <1>0, ArgsGoOn
  <2> HIDE DEF z
  <2>2. Numbered(z, n)
    BY <2>1 DEF Numbered, GoesOnTo
  <2>3. Heard(z, n) = Heard(x, n)
    BY <1>0, <2>1 DEF Heard
  <2> QED BY <2>1, <2>2, <2>3 DEF z
<1> QED BY <1>1, <1>2

-----------------------------------------------------------------------------
(* The invariant. *)

Rest == From(speech, pos + 1)
Unheard == IF loose THEN {Native} ELSE {}
\* The parts of the invariant: the types; that text is kept as long as no call was found, and that what
\* was sent and what is ahead are the whole (Parted); and that the worker and the client agree.
Steady ==
    /\ endpoint \in {"chat", "responses"} /\ speech \in Txt /\ pos \in 0..Len(speech) /\ found \in Nat
    /\ early \in BOOLEAN /\ loose \in BOOLEAN /\ short \in BOOLEAN /\ started \subseteq {Native}
Parted ==
    /\ found = 0 => sse.all \o ext.buf = SubSeq(speech, 1, pos)
    /\ ~early => /\ Ahead(Kept, found, ext, Rest) = TextOf(Extract(speech))
                 /\ CallsAhead(Kept, found, ext, Rest) = TailsOf(Extract(speech))
Going ==
    /\ Resting(ext) /\ Sound(Kept, Unheard) /\ Numbered(Kept, found) /\ ~short
    /\ Native \in started => Native \in DOMAIN sse.calls
    /\ Parted
StreamsInv == Steady /\ (Open => Going) /\ ItemsAreComplete /\ NothingSwallowed /\ CutsDoNotMatter

LEMMA KeptIs ==
    ASSUME NEW x, NEW u, Sound(x, u)
    PROVE  x = [sse |-> x.sse, args |-> x.args, got |-> x.got]
BY Parts DEF StateType

LEMMA EndSet ==
    ASSUME NEW c \in ClientType, NEW e \in EndType
    PROVE  LET d == [c EXCEPT !.end = e]
           IN  d \in ClientType /\ d.items = c.items /\ d.bad = c.bad /\ d.end = e
BY DEF ClientType

Consistent(c, u) == \A i \in DOMAIN c.items : c.items[i].done /\ (u # {} \/ c.items[i].final = c.items[i].body)

\* The two ways a response is closed.
LEMMA Completed ==
    ASSUME NEW x, NEW u, Sound(x, u)
    PROVE  /\ SameBodies(x, Finished(x)) /\ ~Finished(x).bad /\ Finished(x).end = "completed"
           /\ Consistent(Finished(x), u)
<1> DEFINE c == Finished(x)
<1>1. /\ c \in ClientType /\ ~c.bad /\ c.end = "completed" /\ Len(c.items) = x.sse.next
      /\ \A j \in 1..x.sse.next :
            /\ c.items[j].kind = x.got.items[j].kind /\ c.items[j].body = x.got.items[j].body
            /\ c.items[j].done /\ (u # {} \/ c.items[j].final = c.items[j].body)
  BY FinishedFacts
<1> HIDE DEF c
<1>2. c.items \in Seq(ItemType)
  BY <1>1 DEF ClientType
<1>3. DOMAIN c.items = 1..x.sse.next
  BY <1>1, <1>2
<1> QED BY <1>1, <1>3 DEF SameBodies, Consistent, c

LEMMA Ended ==
    ASSUME NEW x, NEW u, Sound(x, u), NEW e \in EndType
    PROVE  LET c == [x.got EXCEPT !.end = e] IN SameBodies(x, c) /\ ~c.bad /\ c.end = e
<1> DEFINE c == [x.got EXCEPT !.end = e]
<1>1. x.got \in ClientType /\ x.sse.next = Len(x.got.items) /\ ~x.got.bad
  BY Parts
<1>2. c \in ClientType /\ c.items = x.got.items /\ c.bad = x.got.bad /\ c.end = e
  BY <1>1, EndSet
<1> HIDE DEF c
<1> QED BY <1>1, <1>2 DEF SameBodies, c

\* The loop was left: the response is as complete as it was.
LEMMA AfterCut ==
    ASSUME NEW x, Sound(x, Unheard'), After(x, TRUE), Steady', UNCHANGED endpoint
    PROVE  StreamsInv'
<1>1. got' = Cut(x) /\ short' = TRUE
  BY DEF After
<1>2. ~got'.bad /\ (endpoint = "responses" => Consistent(got', Unheard')) /\ got'.end # "none"
      /\ (endpoint # "responses" => got'.end = "ended")
  <2>1. CASE endpoint = "responses"
    <3>1. got' = Finished(x)
      BY <1>1, <2>1 DEF Cut
    <3>2. ~Finished(x).bad /\ Finished(x).end = "completed" /\ Consistent(Finished(x), Unheard')
      BY Completed
    <3> QED BY <2>1, <3>1, <3>2
  <2>2. CASE endpoint # "responses"
    <3>1. got' = [x.got EXCEPT !.end = "ended"]
      BY <1>1, <2>2 DEF Cut
    <3>2. "ended" \in EndType
      BY DEF EndType
    <3>3. ~[x.got EXCEPT !.end = "ended"].bad /\ [x.got EXCEPT !.end = "ended"].end = "ended"
      BY <3>2, Ended
    <3> QED BY <2>2, <3>1, <3>3
  <2> QED BY <2>1, <2>2
<1>3. ItemsAreComplete'
  <2>1. ~loose' => Unheard' = {}
    BY DEF Unheard
  <2> QED BY <1>2, <2>1 DEF ItemsAreComplete, Consistent
<1>4. NothingSwallowed' /\ CutsDoNotMatter'
  BY <1>1 DEF NothingSwallowed, CutsDoNotMatter
<1>5. ~Open'
  BY <1>2 DEF Open
<1> QED BY <1>3, <1>4, <1>5 DEF StreamsInv

\* It goes on.
LEMMA AfterOn ==
    ASSUME NEW x, Sound(x, Unheard'), After(x, FALSE), x.got.end = "none"
    PROVE  /\ Kept' = x /\ sse' = x.sse /\ short' = short /\ ItemsAreComplete' /\ NothingSwallowed' /\ CutsDoNotMatter'
           /\ Sound(Kept, Unheard)'
<1>1. sse' = x.sse /\ args' = x.args /\ got' = x.got /\ short' = short
  BY DEF After
<1>2. Kept' = x
  BY <1>1, KeptIs DEF Kept
<1>3. ~x.got.bad
  BY Parts
<1> QED BY <1>1, <1>2, <1>3 DEF ItemsAreComplete, NothingSwallowed, CutsDoNotMatter

\* Texts are texts.
LEMMA SpeechType ==
    \A s \in Texts : s \in Txt
<1> SUFFICES ASSUME NEW s \in Texts PROVE s \in Txt
  OBVIOUS
<1>1. PICK n \in 0..MaxLexemes : \E l \in [1..n -> Lexemes] : s = FlattenSeq(l)
  BY DEF Texts
<1>2. PICK l \in [1..n -> Lexemes] : s = FlattenSeq(l)
  BY <1>1
<1>3. n \in Nat /\ Lexemes \subseteq Txt
  BY StreamsAssumption DEF Txt
<1>4. l \in Seq(Txt)
  BY <1>2, <1>3
<1> QED BY <1>2, <1>4, FlattenType DEF Txt

LEMMA WholeRest ==
    ASSUME NEW s \in Txt
    PROVE  From(s, 0 + 1) = s /\ SubSeq(s, 1, 0) = << >> /\ From(s, Len(s) + 1) = << >> /\ SubSeq(s, 1, Len(s)) = s
BY DEF From, Txt

\* Nothing has been sent at the beginning.
StartOf == [sse |-> [next |-> 0, text |-> NoItem, all |-> << >>, calls |-> << >>], args |-> << >>,
            got |-> [items |-> << >>, end |-> "none", bad |-> FALSE]]

LEMMA StartFacts ==
    Sound(StartOf, {}) /\ Numbered(StartOf, 0)
<1> DEFINE x == StartOf
<1>1. /\ x.sse.next = 0 /\ x.sse.text = NoItem /\ x.sse.all = << >> /\ x.sse.calls = << >> /\ x.args = << >>
      /\ x.got.items = << >> /\ x.got.end = "none" /\ ~x.got.bad
  BY DEF StartOf
<1>2. DOMAIN << >> = {} /\ Len(<< >>) = 0
  OBVIOUS
<1>3. \A S : << >> \in MapType(S)
  <2> TAKE S
  <2>1. << >> \in [{} -> S]
    OBVIOUS
  <2>2. {} \in SUBSET Int
    OBVIOUS
  <2> QED BY <2>1, <2>2 DEF MapType
<1>4. x.sse \in SseType
  <2>1. << >> \in Txt
    BY DEF Txt
  <2>2. << >> \in MapType(Nat)
    BY <1>3
  <2>3. x.sse = [next |-> 0, text |-> NoItem, all |-> << >>, calls |-> << >>]
    BY DEF StartOf
  <2> HIDE DEF x
  <2> QED BY <2>1, <2>2, <2>3 DEF SseType, NoItem
<1>5. x.got \in ClientType
  <2>1. << >> \in Seq(ItemType)
    OBVIOUS
  <2>2. x.got = [items |-> << >>, end |-> "none", bad |-> FALSE]
    BY DEF StartOf
  <2> HIDE DEF x
  <2> QED BY <2>1, <2>2 DEF ClientType, EndType
<1>6. x \in StateType
  <2>1. x.args \in MapType(Txt)
    BY <1>1, <1>3
  <2>2. x = [sse |-> x.sse, args |-> x.args, got |-> x.got]
    BY DEF StartOf
  <2> HIDE DEF x
  <2> QED BY <1>4, <1>5, <2>1, <2>2 DEF StateType
<1> HIDE DEF x
<1>7. Aligned(x)
  BY <1>1, <1>2, <1>6 DEF Aligned
<1>8. TextKept(x)
  BY <1>1 DEF TextKept
<1>9. CallsKept(x, {})
  BY <1>1, <1>2 DEF CallsKept
<1>10. Owned(x)
  BY <1>1 DEF Owned
<1>11. Numbered(x, 0)
  <2>1. Numbers(0) = {}
    BY DEF Numbers, Recovered100
  <2> QED BY <1>1, <1>2, <2>1 DEF Numbered
<1> QED BY <1>7, <1>8, <1>9, <1>10, <1>11 DEF Sound, x

\* The invariant holds at first, and after each action.
LEMMA StreamsInvInit ==
    StreamsInit => StreamsInv
<1> SUFFICES ASSUME StreamsInit PROVE StreamsInv
  OBVIOUS
<1>1. Kept = StartOf /\ found = 0 /\ loose = FALSE /\ ext = Idle /\ pos = 0 /\ early = FALSE /\ short = FALSE /\ started = {}
  BY DEF StreamsInit, Kept, StartOf
<1>2. speech \in Txt
  BY SpeechType DEF StreamsInit
<1>3. Steady
  <2>1. Len(speech) \in Nat
    BY <1>2 DEF Txt
  <2>2. endpoint \in {"chat", "responses"}
    BY DEF StreamsInit
  <2>3. pos \in 0..Len(speech) /\ found \in Nat
    BY <1>1, <2>1
  <2> QED BY Zenon, <1>1, <1>2, <2>2, <2>3 DEF Steady
<1>4. Unheard = {}
  BY <1>1 DEF Unheard
<1>5. Sound(Kept, Unheard) /\ Numbered(Kept, found)
  BY <1>1, <1>4, StartFacts
<1>6. sse.all = << >> /\ Kept.sse.all = << >>
  BY DEF StreamsInit, Kept
<1>7. Rest = speech /\ SubSeq(speech, 1, pos) = << >>
  BY <1>1, <1>2, WholeRest DEF Rest
<1>8. Parted
  <2>1. Heard(Kept, 0) = << >>
    <3>1. Heard(Kept, 0) \in Seq(Txt) /\ Len(Heard(Kept, 0)) = 0
      BY <1>5, HeardType
    <3> QED BY <3>1
  <2>2. Extract(speech) = Result(Idle, speech)
    BY <1>2, ExtractIs
  <2>3. Extract(speech) \in Seq(OutType)
    BY <1>2, <2>2, IdleRests, ResultType
  <2>4. TextOf(Extract(speech)) \in Txt /\ TailsOf(Extract(speech)) \in Seq(Txt)
    BY <2>3, PartsType
  <2>5. << >> \o TextOf(Extract(speech)) = TextOf(Extract(speech))
    <3> DEFINE t == TextOf(Extract(speech))
    <3> HIDE DEF t
    <3>1. t \in Txt => << >> \o t = t
      BY DEF Txt
    <3> QED BY <2>4, <3>1 DEF t
  <2>6. << >> \o TailsOf(Extract(speech)) = TailsOf(Extract(speech))
    <3> DEFINE t == TailsOf(Extract(speech))
    <3> HIDE DEF t
    <3>1. t \in Seq(Txt) => << >> \o t = t
      OBVIOUS
    <3> QED BY <2>4, <3>1 DEF t
  <2>7. << >> \o << >> = << >> /\ Idle.buf = << >>
    BY DEF Idle
  <2>8. Ahead(Kept, found, ext, Rest) = TextOf(Extract(speech))
    BY <1>1, <1>6, <1>7, <2>2, <2>5 DEF Ahead
  <2>9. CallsAhead(Kept, found, ext, Rest) = TailsOf(Extract(speech))
    BY <1>1, <1>7, <2>1, <2>2, <2>6 DEF CallsAhead
  <2> QED BY <1>1, <1>6, <1>7, <2>7, <2>8, <2>9 DEF Parted
<1>9. Going
  BY <1>1, <1>5, <1>8, IdleRests DEF Going
<1>10. got.end = "none" /\ ~got.bad
  BY DEF StreamsInit
<1> QED BY <1>3, <1>9, <1>10 DEF StreamsInv, ItemsAreComplete, NothingSwallowed, CutsDoNotMatter

LEMMA StartStep ==
    ASSUME StreamsInv, NativeCall
    PROVE  StreamsInv'
<1> DEFINE x == EmitStart(Kept, Native)
<1>1. Steady /\ Going /\ Kept.got.end = "none"
  BY DEF StreamsInv, NativeCall, Open, Kept
<1>2. started' = {Native} /\ UNCHANGED <<endpoint, speech, pos, ext, found, early, loose>>
  BY DEF NativeCall
<1>3. PICK cut \in BOOLEAN : After(x, cut)
  BY DEF NativeCall
<1>4. Sound(Kept, Unheard) /\ Numbered(Kept, found) /\ found \in Nat /\ Native \in Int
  BY <1>1 DEF Going, Steady, Native
<1>5. Sound(x, Unheard) /\ Native \in DOMAIN x.sse.calls /\ GoesOnTo(Kept, x)
  BY <1>4, StartSound, StartGoesOn
<1>6. x.sse.all = Kept.sse.all /\ Numbered(x, found) /\ Heard(x, found) = Heard(Kept, found)
  <2>1. << >> \in Txt
    BY DEF Txt
  <2> QED BY <1>4, <2>1, NativeTells
<1> HIDE DEF x
<1>7. Unheard' = Unheard
  BY <1>2 DEF Unheard
<1>8. Sound(x, Unheard')
  BY <1>5, <1>7
<1>9. CASE cut = TRUE
  <2>1. short' = TRUE
    BY <1>3, <1>9 DEF After
  <2>2. Steady'
    BY <1>1, <1>2, <2>1 DEF Steady
  <2> QED BY <1>2, <1>3, <1>8, <1>9, <2>2, AfterCut
<1>10. CASE cut = FALSE
  <2>1. x.got.end = "none"
    BY <1>1, <1>5 DEF GoesOnTo
  <2>2. /\ Kept' = x /\ sse' = x.sse /\ short' = short /\ ItemsAreComplete' /\ NothingSwallowed' /\ CutsDoNotMatter'
        /\ Sound(Kept, Unheard)'
    BY <1>3, <1>8, <1>10, <2>1, AfterOn
  <2>3. Steady'
    BY Zenon, <1>1, <1>2, <2>2 DEF Steady
  <2>4. Parted'
    <3>1. Parted
      BY <1>1 DEF Going
    <3>2. Rest' = Rest /\ sse.all = Kept.sse.all
      BY <1>2 DEF Rest, Kept
    <3>3. /\ Ahead(x, found, ext, Rest) = Ahead(Kept, found, ext, Rest)
          /\ CallsAhead(x, found, ext, Rest) = CallsAhead(Kept, found, ext, Rest)
      BY <1>6 DEF Ahead, CallsAhead
    <3>4. sse'.all = sse.all
      BY <1>6, <2>2, <3>2
    <3> QED BY <1>2, <2>2, <3>1, <3>2, <3>3, <3>4 DEF Parted
  <2>5. Going'
    BY <1>1, <1>2, <1>5, <1>6, <2>2, <2>4 DEF Going
  <2> QED BY <2>2, <2>3, <2>5 DEF StreamsInv
<1> QED BY <1>3, <1>9, <1>10

\* A piece cut off the rest of a text, and what remains.
LEMMA CutRest ==
    ASSUME NEW s \in Txt, NEW p \in 0..Len(s), NEW n \in 1..(Len(s) - p)
    PROVE  /\ SubSeq(s, p + 1, p + n) \in Txt /\ From(s, p + n + 1) \in Txt /\ p + n \in 0..Len(s)
           /\ SubSeq(s, p + 1, p + n) \o From(s, p + n + 1) = From(s, p + 1)
           /\ SubSeq(s, 1, p) \o SubSeq(s, p + 1, p + n) = SubSeq(s, 1, p + n)
           /\ SubSeq(s, 1, p) \in Txt
           /\ GoesOn(From(s, p + n + 1)) => p + n < Len(s) /\ s[p + n + 1] \in Words
<1> DEFINE r == SubSeq(s, p + 1, p + n)  t == From(s, p + n + 1)  f == SubSeq(s, 1, p)  v == From(s, p + 1)
           w == SubSeq(s, 1, p + n)
<1>0. s \in Seq(Alphabet) /\ Len(s) \in Nat /\ p + n \in 0..Len(s) /\ p + n + 1 \in 1..(Len(s) + 1) /\ p + 1 \in 1..(Len(s) + 1)
  BY DEF Txt
<1>1. /\ t \in Seq(Alphabet) /\ Len(t) = Len(s) - (p + n + 1) + 1
      /\ \A j \in 1..(Len(s) - (p + n)) : t[j] = s[p + n + j]
  <2>1. /\ t \in Seq(Alphabet) /\ Len(t) = Len(s) - (p + n + 1) + 1
        /\ \A j \in 1..(Len(s) - (p + n + 1) + 1) : t[j] = s[p + n + 1 + j - 1]
    BY <1>0, FromFacts
  <2> DEFINE len == Len(s)
  <2> HIDE DEF t, len
  <2>2. len \in Nat /\ p \in 0..len /\ n \in 1..(len - p)
    BY <1>0 DEF len
  <2>3. len - (p + n + 1) + 1 = len - (p + n)
    BY <2>2
  <2>4. \A j \in 1..(len - (p + n)) : p + n + 1 + j - 1 = p + n + j
    BY <2>2
  <2>5. \A j \in 1..(len - (p + n)) : t[j] = s[p + n + 1 + j - 1]
    BY <2>1, <2>3 DEF len
  <2> QED BY <2>1, <2>4, <2>5 DEF len
<1>2. /\ v \in Seq(Alphabet) /\ Len(v) = Len(s) - (p + 1) + 1
      /\ \A j \in 1..(Len(s) - p) : v[j] = s[p + j]
  <2>1. /\ v \in Seq(Alphabet) /\ Len(v) = Len(s) - (p + 1) + 1
        /\ \A j \in 1..(Len(s) - (p + 1) + 1) : v[j] = s[p + 1 + j - 1]
    BY <1>0, FromFacts
  <2> HIDE DEF v
  <2> QED BY <1>0, <2>1
<1>3. f \in Seq(Alphabet) /\ Len(f) = p /\ \A j \in 1..p : f[j] = s[j]
  BY <1>0, FrontFacts
<1>4. w \in Seq(Alphabet) /\ Len(w) = p + n /\ \A j \in 1..(p + n) : w[j] = s[j]
  BY <1>0, FrontFacts
<1>5. r \in Seq(Alphabet) /\ Len(r) = n /\ \A j \in 1..n : r[j] = s[p + j]
  <2> DEFINE a == p + 1  b == p + n
  <2>1. a \in 1..(Len(s) + 1) /\ b \in (a - 1)..Len(s)
    BY <1>0
  <2> HIDE DEF a, b
  <2>2. /\ SubSeq(s, a, b) \in Seq(Alphabet) /\ Len(SubSeq(s, a, b)) = b - a + 1
        /\ \A j \in 1..(b - a + 1) : SubSeq(s, a, b)[j] = s[a + j - 1]
    BY <1>0, <2>1, SubSeqProperties
  <2>3. r = SubSeq(s, a, b)
    BY DEF a, b
  <2> HIDE DEF r
  <2>4. a <= b /\ b - a + 1 = n
    BY <1>0 DEF a, b
  <2>5. \A j \in 1..n : a + j - 1 = p + j
    BY <1>0 DEF a
  <2> QED BY <2>2, <2>3, <2>4, <2>5
<1> HIDE DEF r, t, f, v, w
<1>a. /\ \A i \in 1..n : i \in 1..(Len(s) - p)
      /\ \A i \in 1..p : i \in 1..(p + n)
      /\ Len(s) - (p + n + 1) + 1 # 0 => p + n < Len(s) /\ 1 \in 1..(Len(s) - (p + n))
  <2> DEFINE len == Len(s)
  <2>1. len \in Nat /\ p \in 0..len /\ n \in 1..(len - p)
    BY <1>0
  <2> HIDE DEF len
  <2>2. \A i \in 1..n : i \in 1..(len - p)
    BY <2>1
  <2>3. \A i \in 1..p : i \in 1..(p + n)
    BY <2>1
  <2>4. len - (p + n + 1) + 1 # 0 => p + n < len /\ 1 \in 1..(len - (p + n))
    BY <2>1
  <2> QED BY <2>2, <2>3, <2>4 DEF len
<1>6. r \o t = v
  <2>1. Len(v) = Len(r) + Len(t)
    BY <1>0, <1>1, <1>2, <1>5
  <2>2. \A i \in 1..Len(r) : v[i] = r[i]
    BY <1>2, <1>5, <1>a
  <2>3. \A i \in 1..Len(t) : v[Len(r) + i] = t[i]
    BY <1>0, <1>1, <1>2, <1>5
  <2> QED BY <1>1, <1>2, <1>5, <2>1, <2>2, <2>3, ConcatIs
<1>7. f \o r = w
  <2>1. Len(w) = Len(f) + Len(r)
    BY <1>3, <1>4, <1>5
  <2>2. \A i \in 1..Len(f) : w[i] = f[i]
    BY <1>3, <1>4, <1>a
  <2>3. \A i \in 1..Len(r) : w[Len(f) + i] = r[i]
    BY <1>0, <1>3, <1>4, <1>5
  <2> QED BY <1>3, <1>4, <1>5, <2>1, <2>2, <2>3, ConcatIs
<1>8. GoesOn(t) => p + n < Len(s) /\ s[p + n + 1] \in Words
  <2> SUFFICES ASSUME GoesOn(t) PROVE p + n < Len(s) /\ s[p + n + 1] \in Words
    OBVIOUS
  <2>1. Len(t) # 0
    BY <1>1 DEF GoesOn
  <2>2. p + n < Len(s) /\ 1 \in 1..(Len(s) - (p + n))
    BY <1>1, <1>a, <2>1
  <2>3. t[1] = s[p + n + 1]
    BY <1>1, <2>2
  <2> QED BY <2>2, <2>3 DEF GoesOn
<1> QED BY <1>0, <1>1, <1>3, <1>5, <1>6, <1>7, <1>8 DEF r, t, f, v, w, Txt

LEMMA ArgsStep ==
    ASSUME StreamsInv, NativeArgs
    PROVE  StreamsInv'
<1> DEFINE piece == <<"w">>  x == EmitArgs(Kept, Native, piece)
<1>0. piece \in Txt
  BY DEF Txt, Alphabet
<1>1. Steady /\ Going /\ Kept.got.end = "none"
  BY DEF StreamsInv, NativeArgs, Open, Kept
<1>2. loose' = (loose \/ Native \notin started) /\ UNCHANGED <<endpoint, speech, pos, ext, started, found, early>>
  BY DEF NativeArgs
<1>3. PICK cut \in BOOLEAN : After(x, cut)
  BY DEF NativeArgs
<1> HIDE DEF piece
<1>4. Sound(Kept, Unheard) /\ Numbered(Kept, found) /\ found \in Nat /\ Native \in Int
  BY <1>1 DEF Going, Steady, Native
<1>5. GoesOnTo(Kept, x)
  BY <1>0, <1>4, ArgsGoOn
<1>6. x.sse.all = Kept.sse.all /\ Numbered(x, found) /\ Heard(x, found) = Heard(Kept, found)
  BY <1>0, <1>4, NativeTells
<1>7. /\ Native \in DOMAIN Kept.sse.calls => Sound(x, Unheard)
      /\ Sound(x, Unheard \cup {Native})
  BY <1>0, <1>4, ArgsSound
<1> HIDE DEF x
<1>8. Sound(x, Unheard')
  <2>1. CASE loose'
    <3>1. Unheard' = Unheard \cup {Native}
      BY <2>1 DEF Unheard
    <3> QED BY <1>7, <3>1
  <2>2. CASE ~loose'
    <3>1. Unheard' = Unheard /\ Native \in started
      BY <1>2, <2>2 DEF Unheard
    <3>2. Native \in DOMAIN Kept.sse.calls
      BY <1>1, <3>1 DEF Going, Kept
    <3> QED BY <1>7, <3>1, <3>2
  <2> QED BY <2>1, <2>2
<1>s. loose' \in BOOLEAN
  BY <1>2
<1>9. CASE cut = TRUE
  <2>1. short' = TRUE
    BY <1>3, <1>9 DEF After
  <2>2. Steady'
    BY Zenon, <1>1, <1>2, <1>s, <2>1 DEF Steady
  <2> QED BY <1>2, <1>3, <1>8, <1>9, <2>2, AfterCut
<1>10. CASE cut = FALSE
  <2>1. x.got.end = "none"
    BY <1>1, <1>5 DEF GoesOnTo
  <2>2. /\ Kept' = x /\ sse' = x.sse /\ short' = short /\ ItemsAreComplete' /\ NothingSwallowed' /\ CutsDoNotMatter'
        /\ Sound(Kept, Unheard)'
    BY <1>3, <1>8, <1>10, <2>1, AfterOn
  <2>3. Steady'
    BY Zenon, <1>1, <1>2, <1>s, <2>2 DEF Steady
  <2>4. Parted'
    <3>1. Parted
      BY <1>1 DEF Going
    <3>2. Rest' = Rest /\ sse.all = Kept.sse.all
      BY <1>2 DEF Rest, Kept
    <3>3. /\ Ahead(x, found, ext, Rest) = Ahead(Kept, found, ext, Rest)
          /\ CallsAhead(x, found, ext, Rest) = CallsAhead(Kept, found, ext, Rest)
      BY <1>6 DEF Ahead, CallsAhead
    <3>4. sse'.all = sse.all
      BY <1>6, <2>2, <3>2
    <3> QED BY <1>2, <2>2, <3>1, <3>2, <3>3, <3>4 DEF Parted
  <2>5. Native \in started' => Native \in DOMAIN sse'.calls
    <3>1. Native \in started => Native \in DOMAIN Kept.sse.calls
      BY <1>1 DEF Going, Kept
    <3> QED BY <1>2, <1>5, <2>2, <3>1 DEF GoesOnTo
  <2>6. Going'
    BY <1>1, <1>2, <1>6, <2>2, <2>4, <2>5 DEF Going
  <2> QED BY <2>2, <2>3, <2>6 DEF StreamsInv
<1> QED BY <1>3, <1>9, <1>10

LEMMA ContentStep ==
    ASSUME StreamsInv, Content
    PROVE  StreamsInv'
<1>1. Steady /\ Going /\ Kept.got.end = "none"
  BY DEF StreamsInv, Content, Open, Kept
<1>2. UNCHANGED <<endpoint, speech, started, loose>>
  BY DEF Content
<1>3. PICK n \in 1..(Len(speech) - pos) :
       \E e \in {Feed(ext, SubSeq(speech, pos + 1, pos + n))} :
       \E chunks \in {ToChunks(e.out, found)} :
            /\ pos' = pos + n
            /\ ext' = [e EXCEPT !.out = << >>]
            /\ found' = found + Len(CallsOf(e.out))
            /\ early' = (early \/ /\ e.capturing /\ e.buf \in Opening(Invoke)
                                  /\ pos + n < Len(speech) /\ speech[pos + n + 1] \in Words)
            /\ \/ After(EmitAll(Kept, chunks), FALSE)
               \/ \E k \in DOMAIN chunks : After(EmitAll(Kept, SubSeq(chunks, 1, k)), TRUE)
  BY DEF Content
<1> DEFINE r == SubSeq(speech, pos + 1, pos + n)  later == From(speech, pos + n + 1)
<1>4. PICK e : /\ e = Feed(ext, r)
               /\ pos' = pos + n
               /\ ext' = Emptied(e)
               /\ found' = found + Len(CallsOf(e.out))
               /\ early' = (early \/ /\ e.capturing /\ e.buf \in Opening(Invoke)
                                     /\ pos + n < Len(speech) /\ speech[pos + n + 1] \in Words)
               /\ \/ After(EmitAll(Kept, ToChunks(e.out, found)), FALSE)
                  \/ \E k \in DOMAIN ToChunks(e.out, found) :
                        After(EmitAll(Kept, SubSeq(ToChunks(e.out, found), 1, k)), TRUE)
  BY <1>3 DEF Emptied
<1>5. /\ speech \in Txt /\ pos \in 0..Len(speech) /\ found \in Nat /\ Resting(ext)
      /\ Sound(Kept, Unheard) /\ Numbered(Kept, found) /\ Parted
  BY <1>1 DEF Steady, Going
<1>6. /\ r \in Txt /\ later \in Txt /\ pos + n \in 0..Len(speech) /\ r \o later = Rest
      /\ SubSeq(speech, 1, pos) \o r = SubSeq(speech, 1, pos + n) /\ SubSeq(speech, 1, pos) \in Txt
      /\ GoesOn(later) => pos + n < Len(speech) /\ speech[pos + n + 1] \in Words
  BY <1>5, CutRest DEF Rest
<1>7. Rest' = later
  BY <1>2, <1>4 DEF Rest
<1> HIDE DEF r, later
<1>8. IsFed(ext, r, e)
  BY <1>4, <1>5, <1>6, FeedIs DEF IsFed, Resting
<1>9. /\ e \in ExtType /\ e.out \in Seq(OutType) /\ e.buf \in Txt /\ Resting(Emptied(e))
      /\ Emptied(e).buf = e.buf
  BY <1>5, <1>6, <1>8, FedFacts
<1> DEFINE m == found + Len(CallsOf(e.out))  cs == ToChunks(e.out, found)  z == EmitAll(Kept, cs)
<1>10. /\ m \in Nat /\ found <= m /\ (m = found => CallsOf(e.out) = << >>)
       /\ Sound(z, Unheard) /\ GoesOnTo(Kept, z) /\ Numbered(z, m)
       /\ CallsOf(e.out) = << >> => z.sse.all \o e.buf = Kept.sse.all \o (ext.buf \o r)
       /\ \A s \in Txt : ~Early(e, s) =>
             /\ Ahead(z, m, Emptied(e), s) = Ahead(Kept, found, ext, r \o s)
             /\ CallsAhead(z, m, Emptied(e), s) = CallsAhead(Kept, found, ext, r \o s)
  <2>1. More(found, e.out, m)
    BY DEF More
  <2> HIDE DEF m
  <2>2. ToldOf(Kept, Unheard, found, ext, r, e, m)
    BY <1>5, <1>6, <1>8, <2>1, ContentTells
  <2> QED BY <2>2 DEF ToldOf
<1>11. cs \in Seq(ChunkType) /\ Announced(cs)
  BY <1>5, <1>9, ChunksFacts
<1> HIDE DEF z, cs, m
<1>12. /\ found' = m /\ pos' = pos + n /\ ext' = Emptied(e)
       /\ early' = (early \/ /\ e.capturing /\ e.buf \in Opening(Invoke)
                             /\ pos + n < Len(speech) /\ speech[pos + n + 1] \in Words)
       /\ After(z, FALSE) \/ \E k \in DOMAIN cs : After(EmitAll(Kept, SubSeq(cs, 1, k)), TRUE)
  BY <1>4 DEF m, cs, z
<1>13. Unheard' = Unheard
  BY <1>2 DEF Unheard
<1>14. /\ early' \in BOOLEAN /\ pos' \in 0..Len(speech') /\ found' \in Nat
  BY <1>1, <1>2, <1>6, <1>10, <1>12 DEF Steady
<1>15. CASE \E k \in DOMAIN cs : After(EmitAll(Kept, SubSeq(cs, 1, k)), TRUE)
  <2>1. PICK k \in DOMAIN cs : After(EmitAll(Kept, SubSeq(cs, 1, k)), TRUE)
    BY <1>15
  <2> DEFINE x == EmitAll(Kept, SubSeq(cs, 1, k))
  <2>2. Sound(x, Unheard)
    BY <1>5, <1>11, AnnouncedFront, RunSound
  <2>3. After(x, TRUE)
    BY <2>1
  <2> HIDE DEF x
  <2>4. short' = TRUE
    BY <2>3 DEF After
  <2>5. Steady'
    BY Zenon, <1>1, <1>2, <1>14, <2>4 DEF Steady
  <2>6. Sound(x, Unheard')
    BY <1>13, <2>2
  <2> QED BY <1>2, <2>3, <2>5, <2>6, AfterCut
<1>16. CASE After(z, FALSE)
  <2>1. z.got.end = "none"
    BY <1>1, <1>10 DEF GoesOnTo
  <2>a. Sound(z, Unheard')
    BY <1>10, <1>13
  <2>2. /\ Kept' = z /\ sse' = z.sse /\ short' = short /\ ItemsAreComplete' /\ NothingSwallowed' /\ CutsDoNotMatter'
        /\ Sound(Kept, Unheard)'
    BY <1>16, <2>1, <2>a, AfterOn
  <2>3. Steady'
    BY Zenon, <1>1, <1>2, <1>14, <2>2 DEF Steady
  <2>4. ASSUME found' = 0
        PROVE  sse'.all \o ext'.buf = SubSeq(speech', 1, pos')
    <3>1. found = 0 /\ CallsOf(e.out) = << >>
      BY <1>5, <1>10, <1>12, <2>4
    <3>2. z.sse.all \o e.buf = sse.all \o (ext.buf \o r)
      BY <1>10, <3>1 DEF Kept
    <3>3. sse.all \in Txt /\ ext.buf \in Txt
      <4>1. Kept.sse.all \in Txt
        BY <1>5, Parts
      <4> QED BY <1>5, <4>1 DEF Kept, Resting, ExtType
    <3>4. (sse.all \o ext.buf) \o r = sse.all \o (ext.buf \o r)
      BY <1>6, <3>3, TextAssociative, ZenonT(60) DEF Txt
    <3>5. sse.all \o ext.buf = SubSeq(speech, 1, pos)
      BY <1>5, <3>1 DEF Parted
    <3>6. z.sse.all \o e.buf = SubSeq(speech, 1, pos + n)
      BY <1>6, <3>2, <3>4, <3>5
    <3> QED BY <1>2, <1>9, <1>12, <2>2, <3>6
  <2>5. ASSUME ~early'
        PROVE  /\ Ahead(z, m, Emptied(e), later) = TextOf(Extract(speech))
               /\ CallsAhead(z, m, Emptied(e), later) = TailsOf(Extract(speech))
    <3>1. ~early /\ ~(e.capturing /\ e.buf \in Opening(Invoke) /\ pos + n < Len(speech) /\ speech[pos + n + 1] \in Words)
      BY <1>12, <2>5
    <3>2. ~Early(e, later)
      BY <1>6, <3>1 DEF Early, Bare
    <3>3. /\ Ahead(z, m, Emptied(e), later) = Ahead(Kept, found, ext, r \o later)
          /\ CallsAhead(z, m, Emptied(e), later) = CallsAhead(Kept, found, ext, r \o later)
      BY <1>6, <1>10, <3>2
    <3>4. /\ Ahead(Kept, found, ext, Rest) = TextOf(Extract(speech))
          /\ CallsAhead(Kept, found, ext, Rest) = TailsOf(Extract(speech))
      BY <1>5, <3>1 DEF Parted
    <3> QED BY <1>6, <3>3, <3>4
  <2>6. Parted'
    <3>1. ~early' => /\ Ahead(Kept', found', ext', Rest') = TextOf(Extract(speech'))
                     /\ CallsAhead(Kept', found', ext', Rest') = TailsOf(Extract(speech'))
      BY <1>2, <1>7, <1>12, <2>2, <2>5
    <3> QED BY <2>4, <3>1 DEF Parted
  <2>7. Native \in started' => Native \in DOMAIN sse'.calls
    <3>1. Native \in started => Native \in DOMAIN Kept.sse.calls
      BY <1>1 DEF Going, Kept
    <3> QED BY <1>2, <1>10, <2>2, <3>1 DEF GoesOnTo
  <2>8. Numbered(Kept', found') /\ Resting(ext') /\ ~short'
    BY <1>1, <1>9, <1>10, <1>12, <2>2 DEF Going
  <2>9. Going'
    BY <2>2, <2>6, <2>7, <2>8 DEF Going
  <2> QED BY <2>2, <2>3, <2>9 DEF StreamsInv
<1> QED BY <1>12, <1>15, <1>16

\* What the extractor held is delivered, and the response completed.
LEMMA CompletedStep ==
    ASSUME StreamsInv, Open, NEW x, x = EmitAll(Kept, ToChunks(Flush(ext).out, found)), Completes(x),
           UNCHANGED <<endpoint, speech, pos, started, found, early, loose>>
    PROVE  StreamsInv'
<1>1. Steady /\ Going
  BY DEF StreamsInv
<1>2. UNCHANGED <<endpoint, speech, pos, started, found, early, loose>> /\ short' = (short \/ pos < Len(speech))
  BY DEF Completes
<1>3. /\ sse' = x.sse /\ args' = x.args
      /\ got' = IF endpoint = "responses" THEN Finished(x) ELSE [x.got EXCEPT !.end = "completed"]
  BY DEF Completes
<1>4. /\ speech \in Txt /\ pos \in 0..Len(speech) /\ found \in Nat /\ Resting(ext)
      /\ Sound(Kept, Unheard) /\ Numbered(Kept, found) /\ Parted
  BY <1>1 DEF Steady, Going
<1>5. /\ Sound(x, Unheard) /\ Numbered(x, found)
      /\ x.sse.all = Kept.sse.all \o ext.buf
      /\ x.sse.all = Ahead(Kept, found, ext, << >>)
      /\ Heard(x, found) = CallsAhead(Kept, found, ext, << >>)
  BY <1>4, FlushTells
<1>6. SameBodies(x, got') /\ ~got'.bad /\ got'.end = "completed" /\ (endpoint = "responses" => Consistent(got', Unheard))
  <2>1. CASE endpoint = "responses"
    BY <1>3, <1>5, <2>1, Completed
  <2>2. CASE endpoint # "responses"
    <3>1. "completed" \in EndType
      BY DEF EndType
    <3>2. got' = [x.got EXCEPT !.end = "completed"]
      BY <1>3, <2>2
    <3>3. LET c == [x.got EXCEPT !.end = "completed"] IN SameBodies(x, c) /\ ~c.bad /\ c.end = "completed"
      BY <1>5, <3>1, Ended
    <3> QED BY <2>2, <3>2, <3>3
  <2> QED BY <2>1, <2>2
<1>7. Unheard \subseteq {Native}
  BY DEF Unheard
<1>8. MessageText(got') = x.sse.all
  BY <1>5, <1>6, TextDelivered
<1>9. [i \in 1..found |-> got'.items[x.sse.calls[Recovered100 + i - 1] + 1].body] = Heard(x, found)
  BY <1>4, <1>5, <1>6, <1>7, CallsDelivered
<1>10. ItemsAreComplete'
  <2>1. ~loose' => Unheard = {}
    BY <1>2 DEF Unheard
  <2> QED BY <1>2, <1>6, <2>1 DEF ItemsAreComplete, Consistent
<1>11. ASSUME ~short'
       PROVE  pos = Len(speech) /\ Rest = << >>
  <2>1. pos = Len(speech)
    <3>1. Len(speech) \in Nat
      BY <1>4 DEF Txt
    <3>2. ~(pos < Len(speech))
      BY Zenon, <1>2, <1>11
    <3> QED BY <1>4, <3>1, <3>2
  <2> QED BY <1>4, <2>1, WholeRest DEF Rest
<1>12. NothingSwallowed'
  <2> SUFFICES ASSUME ~short', found' = 0 PROVE MessageText(got') = speech'
    BY DEF NothingSwallowed
  <2>1. sse.all \o ext.buf = SubSeq(speech, 1, pos)
    BY <1>2, <1>4 DEF Parted
  <2>2. SubSeq(speech, 1, pos) = speech
    BY <1>4, <1>11, WholeRest
  <2> QED BY <1>2, <1>5, <1>8, <2>1, <2>2 DEF Kept
<1>13. CutsDoNotMatter'
  <2> SUFFICES ASSUME ~short', ~early'
               PROVE  LET whole == Extract(speech)'
                          calls == [i \in 1..found' |-> got'.items[sse'.calls[Recovered100 + i - 1] + 1].body]
                      IN  /\ MessageText(got') = TextOf(whole)
                          /\ calls = [i \in DOMAIN CallsOf(whole) |-> Tail(CallsOf(whole)[i])]
    BY DEF CutsDoNotMatter
  <2>1. /\ Ahead(Kept, found, ext, << >>) = TextOf(Extract(speech))
        /\ CallsAhead(Kept, found, ext, << >>) = TailsOf(Extract(speech))
    BY <1>2, <1>4, <1>11 DEF Parted
  <2>2. Extract(speech) \in Seq(OutType)
    BY <1>4, ExtractIs, IdleRests, ResultType
  <2>3. TailsOf(Extract(speech)) = [i \in DOMAIN CallsOf(Extract(speech)) |-> Tail(CallsOf(Extract(speech))[i])]
    BY <2>2, TailsAre
  <2> QED BY <1>2, <1>3, <1>5, <1>8, <1>9, <2>1, <2>3, ZenonT(60)
<1>14. Steady'
  <2>1. short' \in BOOLEAN
    BY <1>2
  <2> QED BY Zenon, <1>1, <1>2, <2>1 DEF Steady
<1>15. ~Open'
  BY <1>6 DEF Open
<1> QED BY <1>10, <1>12, <1>13, <1>14, <1>15 DEF StreamsInv

LEMMA EndStep ==
    ASSUME StreamsInv, EndOfStream
    PROVE  StreamsInv'
<1> DEFINE chunks == ToChunks(Flush(ext).out, found)  x == EmitAll(Kept, chunks)
<1>1. /\ Open /\ UNCHANGED <<endpoint, speech, pos, started, found, early, loose>>
      /\ Completes(x) \/ After(x, TRUE)
  BY DEF EndOfStream
<1>2. Steady /\ Going
  BY <1>1 DEF StreamsInv
<1>3. Sound(x, Unheard)
  BY <1>2, FlushTells DEF Steady, Going
<1>4. x = EmitAll(Kept, ToChunks(Flush(ext).out, found))
  OBVIOUS
<1> HIDE DEF x
<1>5. CASE Completes(x)
  BY <1>1, <1>4, <1>5, CompletedStep
<1>6. CASE After(x, TRUE)
  <2>1. short' = TRUE
    BY <1>6 DEF After
  <2>2. Steady'
    BY Zenon, <1>1, <1>2, <2>1 DEF Steady
  <2>3. Unheard' = Unheard
    BY <1>1 DEF Unheard
  <2> QED BY <1>1, <1>3, <1>6, <2>2, <2>3, AfterCut
<1> QED BY <1>1, <1>5, <1>6

LEMMA BreakStep ==
    ASSUME StreamsInv, Breaks
    PROVE  StreamsInv'
<1>1. Steady /\ Sound(Kept, Unheard)
  BY DEF StreamsInv, Breaks, Going
<1>2. UNCHANGED <<endpoint, speech, pos, ext, started, args, sse, found, early, loose, short>>
  BY DEF Breaks, history
<1>3. got' = [got EXCEPT !.end = "error"]
  BY DEF Breaks
<1>4. got' = [Kept.got EXCEPT !.end = "error"] /\ "error" \in EndType
  BY <1>3 DEF Kept, EndType
<1>5. ~got'.bad /\ got'.end = "error"
  BY <1>1, <1>4, Ended
<1>6. Steady'
  BY Zenon, <1>1, <1>2 DEF Steady
<1> QED BY <1>5, <1>6 DEF StreamsInv, Open, ItemsAreComplete, NothingSwallowed, CutsDoNotMatter

LEMMA StillStep ==
    ASSUME StreamsInv, UNCHANGED streamVars
    PROVE  StreamsInv'
BY DEF streamVars, history, StreamsInv, Steady, Open, Going, Parted, Kept, Unheard, Rest, ItemsAreComplete,
       NothingSwallowed, CutsDoNotMatter

\* The invariant is inductive.
THEOREM StreamsInductive ==
    StreamsSpec => []StreamsInv
<1>1. StreamsInv /\ [StreamsNext]_streamVars => StreamsInv'
  BY StartStep, ArgsStep, ContentStep, EndStep, BreakStep, StillStep DEF StreamsNext
<1> QED BY StreamsInvInit, <1>1, PTL DEF StreamsSpec

\* A completed response is consistent: every item is closed, once, with what was sent of it, however
\* text, recovered calls and Copilot's own follow each other (ResponsesSSE.finish).
THEOREM ItemsComplete ==
    StreamsSpec => []ItemsAreComplete
<1>1. StreamsInv => ItemsAreComplete
  BY DEF StreamsInv
<1> QED BY <1>1, StreamsInductive, PTL

\* Nothing is swallowed: text in which no call was found reaches the client to the letter, also
\* blocks that never end and blocks that hold no call (tool-xml.ts 95-97, 107-111).
THEOREM TextArrives ==
    StreamsSpec => []NothingSwallowed
<1>1. StreamsInv => NothingSwallowed
  BY DEF StreamsInv
<1> QED BY <1>1, StreamsInductive, PTL

\* The client gets the text and the calls of the whole, however it arrived in pieces (ToolXmlExtractor
\* and the adapter that feeds it).
THEOREM CutsMakeNoDifference ==
    StreamsSpec => []CutsDoNotMatter
<1>1. StreamsInv => CutsDoNotMatter
  BY DEF StreamsInv
<1> QED BY <1>1, StreamsInductive, PTL
=============================================================================

------------------------ MODULE ClientConfig_proofs ------------------------
(***************************************************************************)
(* Proofs about ClientConfig, for files of any length and any number of    *)
(* edits.                                                                  *)
(*                                                                         *)
(* Both writers of config.toml select lines and put their own around them. *)
(* The first half is about that: the nth line kept (Nth) is in its place,  *)
(* so the new file is two new lines, what stays of the top, what stays of  *)
(* the tables, and two new lines (Rewritten); and if no header is dropped  *)
(* without its table (Spares), each line is in the table it was in         *)
(* (TablesKept).  From that: every line kept is there (Stays), and there   *)
(* is nothing else, nor anything twice (Comes).                            *)
(*                                                                         *)
(* The four theorems follow, each by an invariant of its own: SafeInv,     *)
(* LeftInv, the types, and ValidInv, which is of the backup as well, since *)
(* `leave` puts that back.                                                 *)
(***************************************************************************)
EXTENDS ClientConfig, FiniteSetTheorems, WellFoundedInduction, NaturalsInduction, TLAPS

-----------------------------------------------------------------------------
(* Selecting lines: the nth kept line is one, in its place.                  *)

\* A set of numbers that is not empty has a least one.
LEMMA LeastOf ==
    ASSUME NEW S \in SUBSET Nat, S # {}
    PROVE  \E x \in S : \A y \in S : x <= y
<1>1. PICK x \in S : \A y \in S : ~(<<y, x>> \in OpToRel(<, Nat))
  BY WFMin, NatLessThanWellFounded
<1>2. \A y \in S : ~(y < x)
  BY <1>1, Zenon DEF OpToRel
<1> QED
  BY <1>2

\* How many kept lines come before this one.
Before(keep, i) == Cardinality({j \in keep : j < i})

\* Some of the first m lines.
Upto(keep, m) == m \in Nat /\ keep \subseteq 1..m

LEMMA Kept ==
    ASSUME NEW m, NEW keep, Upto(keep, m)
    PROVE  /\ IsFiniteSet(keep) /\ Cardinality(keep) \in Nat
           /\ \A i \in keep : i \in Nat /\ 0 < i /\ i < m + 1
<1>1. m \in Nat /\ keep \subseteq 1..m
  BY DEF Upto
<1>2. IsFiniteSet(1..m)
  BY <1>1, FS_Interval, 1 \in Int, m \in Int
<1>3. IsFiniteSet(keep)
  BY <1>1, <1>2, FS_Subset
<1>4. \A i \in keep : i \in Nat /\ 0 < i /\ i < m + 1
  BY <1>1
<1> QED
  BY <1>3, <1>4, FS_CardinalityType

LEMMA BeforeStep ==
    ASSUME NEW m, NEW keep, Upto(keep, m), NEW i \in Nat
    PROVE  /\ IsFiniteSet({j \in keep : j < i}) /\ Before(keep, i) \in Nat
           /\ i \in keep => Before(keep, i + 1) = Before(keep, i) + 1
           /\ i \notin keep => Before(keep, i + 1) = Before(keep, i)
<1> DEFINE S == {j \in keep : j < i}
<1>0. \A j \in keep : j \in Nat
  BY Kept
<1>1. IsFiniteSet(S)
  <2>1. IsFiniteSet(keep) /\ S \in SUBSET keep
    BY Kept
  <2> QED
    BY <2>1, FS_Subset
<1>2. Before(keep, i) = Cardinality(S) /\ Cardinality(S) \in Nat
  BY <1>1, FS_CardinalityType DEF Before
<1>3. ASSUME i \in keep PROVE Before(keep, i + 1) = Before(keep, i) + 1
  <2>0. \A j \in keep : j < i + 1 <=> j < i \/ j = i
    BY <1>0
  <2>1. {j \in keep : j < i + 1} = S \cup {i}
    BY <1>3, <2>0
  <2>2. i \notin S
    OBVIOUS
  <2>3. Cardinality(S \cup {i}) = Cardinality(S) + 1
    BY <1>1, <2>2, FS_AddElement
  <2> QED
    BY <1>2, <2>1, <2>3 DEF Before
<1>4. ASSUME i \notin keep PROVE Before(keep, i + 1) = Before(keep, i)
  <2>1. {j \in keep : j < i + 1} = S
    BY <1>0, <1>4
  <2> QED
    BY <1>2, <2>1 DEF Before
<1> QED
  BY <1>1, <1>2, <1>3, <1>4

LEMMA NthIsKept ==
    ASSUME NEW m, NEW keep, Upto(keep, m), NEW n \in 1..Cardinality(keep)
    PROVE  Nth(keep, n) \in keep /\ Before(keep, Nth(keep, n)) = n - 1
<1>0. Cardinality(keep) \in Nat /\ \A i \in keep : i \in Nat /\ 0 < i /\ i < m + 1
  BY Kept
<1>n. n \in Nat /\ n > 0 /\ n <= Cardinality(keep) /\ m \in Nat
  BY <1>0 DEF Upto
<1> DEFINE S == {i \in Nat : Before(keep, i) >= n}
<1>1. m + 1 \in S
  <2>1. {j \in keep : j < m + 1} = keep
    BY <1>0
  <2>2. Before(keep, m + 1) = Cardinality(keep)
    BY <2>1 DEF Before
  <2> QED
    BY <1>0, <1>n, <2>2
<1>2. PICK x \in S : \A y \in S : x <= y
  <2>1. S \in SUBSET Nat /\ S # {}
    BY <1>1
  <2> QED
    BY <2>1, LeastOf
<1>3. x # 0
  <2>1. {j \in keep : j < 0} = {}
    BY <1>0
  <2>2. Before(keep, 0) = 0
    BY <2>1, FS_EmptySet DEF Before
  <2>3. 0 \notin S
    BY <1>n, <2>2
  <2> QED
    BY <2>3
<1> DEFINE y == x - 1
<1>4. y \in Nat /\ y \notin S /\ x = y + 1 /\ x \in Nat
  BY <1>2, <1>3
<1>5. /\ Before(keep, y) \in Nat
      /\ y \in keep => Before(keep, y + 1) = Before(keep, y) + 1
      /\ y \notin keep => Before(keep, y + 1) = Before(keep, y)
  <2> HIDE DEF y
  <2> QED
    BY <1>4, BeforeStep
<1>6. ~(Before(keep, y) >= n) /\ Before(keep, y + 1) >= n
  BY <1>4
<1>7. y \in keep /\ Before(keep, y) = n - 1
  <2> HIDE DEF y
  <2> QED
    BY <1>n, <1>5, <1>6
<1>8. Nth(keep, n) = CHOOSE i \in keep : Before(keep, i) = n - 1
  BY DEF Nth, Before
<1> QED
  BY <1>7, <1>8, Zenon

LEMMA BeforeGrows ==
    ASSUME NEW m, NEW keep, Upto(keep, m), NEW i \in keep, NEW k \in keep, i < k
    PROVE  Before(keep, i) < Before(keep, k)
<1> DEFINE S == {j \in keep : j < i}
           T == {j \in keep : j < k}
<1>1. i \in Nat /\ k \in Nat /\ \A j \in keep : j \in Nat
  BY Kept
<1>2. IsFiniteSet(S) /\ IsFiniteSet(T)
  BY <1>1, BeforeStep
<1>3. S \in SUBSET T /\ S # T
  <2>1. i \in T /\ i \notin S /\ \A j \in keep : j < i => j < k
    BY <1>1
  <2> QED
    BY <2>1
<1>4. Cardinality(S) <= Cardinality(T) /\ Cardinality(S) # Cardinality(T)
  BY <1>2, <1>3, FS_Subset
<1>5. Cardinality(S) \in Nat /\ Cardinality(T) \in Nat
  BY <1>2, FS_CardinalityType
<1> QED
  BY <1>4, <1>5 DEF Before

\* Each kept line has its place, and the places are in the order of the lines.
LEMMA Placed ==
    ASSUME NEW m, NEW keep, Upto(keep, m), NEW i \in keep
    PROVE  Before(keep, i) + 1 \in 1..Cardinality(keep) /\ Nth(keep, Before(keep, i) + 1) = i
<1>0. IsFiniteSet(keep) /\ Cardinality(keep) \in Nat /\ \A j \in keep : j \in Nat
  BY Kept
<1>1. i \in Nat /\ Before(keep, i) \in Nat
  <2>1. i \in Nat
    BY Kept
  <2> QED
    BY <2>1, BeforeStep
<1>2. Before(keep, i) < Cardinality(keep)
  <2> DEFINE S == {j \in keep : j < i}
  <2>1. S \in SUBSET keep /\ S # keep
    BY <1>0
  <2>2. Cardinality(S) <= Cardinality(keep) /\ Cardinality(S) # Cardinality(keep)
    BY <1>0, <2>1, FS_Subset
  <2> QED
    BY <1>0, <1>1, <2>2 DEF Before
<1>3. Before(keep, i) + 1 \in 1..Cardinality(keep)
  BY <1>0, <1>1, <1>2
<1> DEFINE n == Before(keep, i) + 1
           k == Nth(keep, n)
<1>4. n \in 1..Cardinality(keep) /\ n - 1 = Before(keep, i)
  BY <1>1, <1>3
<1> HIDE DEF n
<1>5. k \in keep /\ Before(keep, k) = n - 1
  BY <1>4, NthIsKept
<1>6. k \in Nat
  BY <1>0, <1>5
<1> HIDE DEF k
<1>7. ~(i < k) /\ ~(k < i)
  BY <1>0, <1>1, <1>4, <1>5, BeforeGrows
<1>8. k = i
  BY <1>1, <1>6, <1>7
<1> QED
  BY <1>3, <1>8 DEF k, n

-----------------------------------------------------------------------------
(* What a line is, and which table it is in.                                 *)

Writers == Providers \cup {"user"}
AnyLine == [kind : {"key", "table"},
            name : {"model", "model_provider", "base_url", "approval"} \cup Writers,
            by : Writers]

\* The header above line i that is the nearest.
HeaderOf(s, i, h) ==
    /\ h \in 1..i /\ s[h].kind = "table"
    /\ \A k \in 1..i : s[k].kind = "table" => k <= h

LEMMA TableIs ==
    ASSUME NEW s, NEW i \in Nat
    PROVE  /\ (\A k \in 1..i : s[k].kind # "table") => TableOf(s, i) = "top"
           /\ \A h : HeaderOf(s, i, h) => TableOf(s, i) = s[h].name
           /\ (\E k \in 1..i : s[k].kind = "table") => \E h : HeaderOf(s, i, h)
<1> DEFINE above == {j \in 1..i : s[j].kind = "table"}
<1>1. ASSUME \A k \in 1..i : s[k].kind # "table" PROVE TableOf(s, i) = "top"
  <2>1. above = {}
    BY <1>1
  <2> QED
    BY <2>1 DEF TableOf
<1>2. ASSUME NEW h, HeaderOf(s, i, h) PROVE TableOf(s, i) = s[h].name
  <2>1. h \in above /\ \A k \in above : k <= h
    BY <1>2 DEF HeaderOf
  <2>2. above # {} /\ \A k \in above : k \in Nat
    BY <2>1
  <2> DEFINE c == CHOOSE j \in above : \A k \in above : k <= j
  <2>3. TableOf(s, i) = s[c].name
    BY <2>2 DEF TableOf
  <2>4. c \in above /\ \A k \in above : k <= c
    BY <2>1
  <2> HIDE DEF c
  <2>5. c = h
    BY <2>1, <2>2, <2>4
  <2> QED
    BY <2>3, <2>5
<1>3. ASSUME NEW k \in 1..i, s[k].kind = "table" PROVE \E h : HeaderOf(s, i, h)
  <2> DEFINE S == {d \in 0..i : i - d \in above}
  <2>1. S \in SUBSET Nat /\ i - k \in S
    BY <1>3
  <2>2. PICK d \in S : \A e \in S : d <= e
    BY <2>1, LeastOf
  <2>3. \A j \in above : i - j \in S /\ j \in Nat
    OBVIOUS
  <2>4. i - d \in above /\ \A j \in above : j <= i - d
    BY <2>2, <2>3
  <2> QED
    BY <2>4 DEF HeaderOf
<1> QED
  BY <1>1, <1>2, <1>3

\* A line is at the top exactly if there is no header above it; otherwise its table is named.
LEMMA TopMeans ==
    ASSUME NEW s \in Seq(AnyLine), NEW i \in 1..Len(s)
    PROVE  /\ TableOf(s, i) = "top" <=> \A k \in 1..i : s[k].kind # "table"
           /\ TableOf(s, i) # "top" => \E h \in 1..i : HeaderOf(s, i, h)
           /\ s[i].kind = "table" => TableOf(s, i) = s[i].name /\ TableOf(s, i) # "top"
<1>1. i \in Nat /\ 1..i \subseteq 1..Len(s)
  OBVIOUS
<1>2. \A k \in 1..i : s[k].name # "top"
  <2>1. \A k \in 1..i : s[k] \in AnyLine
    BY <1>1
  <2> QED
    BY <2>1 DEF AnyLine, Writers, Providers
<1>3. \A h : HeaderOf(s, i, h) => h \in 1..i /\ TableOf(s, i) = s[h].name
  BY <1>1, TableIs DEF HeaderOf
<1>4. (\E k \in 1..i : s[k].kind = "table") => \E h : HeaderOf(s, i, h)
  BY <1>1, TableIs
<1>5. (\A k \in 1..i : s[k].kind # "table") => TableOf(s, i) = "top"
  BY <1>1, TableIs
<1>6. s[i].kind = "table" => HeaderOf(s, i, i)
  BY <1>1 DEF HeaderOf
<1> QED
  BY <1>1, <1>2, <1>3, <1>4, <1>5, <1>6

\* Selecting some of the lines.
LEMMA LinesAre ==
    ASSUME NEW s \in Seq(AnyLine), NEW keep, Upto(keep, Len(s))
    PROVE  /\ Lines(s, keep) \in Seq(AnyLine) /\ Len(Lines(s, keep)) = Cardinality(keep)
           /\ \A n \in 1..Cardinality(keep) : /\ Lines(s, keep)[n] = s[Nth(keep, n)]
                                              /\ Nth(keep, n) \in keep
                                              /\ Before(keep, Nth(keep, n)) = n - 1
<1>1. Cardinality(keep) \in Nat
  BY Kept
<1>2. keep \subseteq 1..Len(s)
  BY DEF Upto
<1>3. \A n \in 1..Cardinality(keep) : /\ Nth(keep, n) \in keep
                                      /\ Before(keep, Nth(keep, n)) = n - 1
  BY NthIsKept
<1>4. \A n \in 1..Cardinality(keep) : s[Nth(keep, n)] \in AnyLine
  <2>1. \A i \in 1..Len(s) : s[i] \in AnyLine
    OBVIOUS
  <2> QED
    BY <1>2, <1>3, <2>1
<1>5. Lines(s, keep) = [n \in 1..Cardinality(keep) |-> s[Nth(keep, n)]]
  BY DEF Lines
<1>6. Lines(s, keep) \in Seq(AnyLine) /\ Len(Lines(s, keep)) = Cardinality(keep)
  BY <1>1, <1>4, <1>5
<1> QED
  BY <1>3, <1>5, <1>6

\* One piece after the other.
IsJoin(r, A, B) ==
    /\ r \in Seq(AnyLine) /\ Len(r) = Len(A) + Len(B)
    /\ \A n \in 1..Len(A) : r[n] = A[n]
    /\ \A n \in 1..Len(B) : r[Len(A) + n] = B[n]

LEMMA Joined ==
    ASSUME NEW A \in Seq(AnyLine), NEW B \in Seq(AnyLine)
    PROVE  IsJoin(A \o B, A, B)
<1>1. A \o B \in Seq(AnyLine)
  OBVIOUS
<1>2. Len(A \o B) = Len(A) + Len(B)
  OBVIOUS
<1>3. \A n \in 1..Len(A) : (A \o B)[n] = A[n]
  OBVIOUS
<1>4. \A n \in 1..Len(B) : (A \o B)[Len(A) + n] = B[n]
  OBVIOUS
<1> QED
  BY <1>1, <1>2, <1>3, <1>4 DEF IsJoin

\* Four pieces, the first and the last of two lines.
IsWhole(r, P, A, B, Q) ==
    /\ r \in Seq(AnyLine) /\ Len(r) = Len(A) + Len(B) + 4
    /\ r[1] = P[1] /\ r[2] = P[2]
    /\ \A n \in 1..Len(A) : r[2 + n] = A[n]
    /\ \A n \in 1..Len(B) : r[2 + Len(A) + n] = B[n]
    /\ r[Len(A) + Len(B) + 3] = Q[1] /\ r[Len(A) + Len(B) + 4] = Q[2]

LEMMA Pieces ==
    ASSUME NEW P \in Seq(AnyLine), NEW A \in Seq(AnyLine), NEW B \in Seq(AnyLine),
           NEW Q \in Seq(AnyLine), Len(P) = 2, Len(Q) = 2
    PROVE  IsWhole(P \o A \o B \o Q, P, A, B, Q)
<1> DEFINE PA == P \o A
           PB == PA \o B
           r == PB \o Q
<1>0. Len(A) \in Nat /\ Len(B) \in Nat
  OBVIOUS
<1>1. /\ PA \in Seq(AnyLine) /\ Len(PA) = 2 + Len(A)
      /\ \A n \in 1..2 : PA[n] = P[n]
      /\ \A n \in 1..Len(A) : PA[2 + n] = A[n]
  <2>1. IsJoin(PA, P, A)
    BY Joined, Zenon
  <2> HIDE DEF PA
  <2> QED
    BY <2>1 DEF IsJoin
<1> HIDE DEF PA
<1>2. /\ PB \in Seq(AnyLine) /\ Len(PB) = 2 + Len(A) + Len(B)
      /\ \A n \in 1..Len(PA) : PB[n] = PA[n]
      /\ \A n \in 1..Len(B) : PB[Len(PA) + n] = B[n]
  <2>1. IsJoin(PB, PA, B)
    BY <1>1, Joined, Zenon
  <2> HIDE DEF PB
  <2> QED
    BY <1>1, <2>1 DEF IsJoin
<1> HIDE DEF PB
<1>3. /\ r \in Seq(AnyLine) /\ Len(r) = 2 + Len(A) + Len(B) + 2
      /\ \A n \in 1..Len(PB) : r[n] = PB[n]
      /\ \A n \in 1..2 : r[Len(PB) + n] = Q[n]
  <2>1. IsJoin(r, PB, Q)
    BY <1>2, Joined, Zenon
  <2> HIDE DEF r
  <2> QED
    BY <1>2, <2>1 DEF IsJoin
<1> HIDE DEF r
<1>4. r[1] = P[1] /\ r[2] = P[2]
  BY <1>0, <1>1, <1>2, <1>3
<1>5. ASSUME NEW n \in 1..Len(A) PROVE r[2 + n] = A[n]
  <2>1. 2 + n \in 1..Len(PA) /\ 2 + n \in 1..Len(PB)
    BY <1>0, <1>1, <1>2
  <2>2. r[2 + n] = PB[2 + n] /\ PB[2 + n] = PA[2 + n]
    BY <1>2, <1>3, <2>1
  <2> QED
    BY <1>1, <2>2
<1>6. ASSUME NEW n \in 1..Len(B) PROVE r[2 + Len(A) + n] = B[n]
  <2>1. 2 + Len(A) + n \in 1..Len(PB)
    BY <1>0, <1>2
  <2>2. r[2 + Len(A) + n] = PB[2 + Len(A) + n]
    BY <1>3, <2>1
  <2> QED
    BY <1>1, <1>2, <2>2
<1>7. Len(PB) + 1 = Len(A) + Len(B) + 3 /\ Len(PB) + 2 = Len(A) + Len(B) + 4
  BY <1>0, <1>2
<1>8. r[Len(A) + Len(B) + 3] = Q[1] /\ r[Len(A) + Len(B) + 4] = Q[2]
  BY <1>3, <1>7
<1>9. r \in Seq(AnyLine) /\ Len(r) = Len(A) + Len(B) + 4
  BY <1>0, <1>3
<1> QED
  BY <1>4, <1>5, <1>6, <1>8, <1>9 DEF IsWhole, r, PB, PA

-----------------------------------------------------------------------------
(* What a rewrite makes of a file.                                           *)

KeptTop(s, drop) == Top(s) \ drop
KeptBelow(s, drop) == DOMAIN s \ (Top(s) \cup drop)

\* r is the new keys, what stays at the top, what stays below, and the new table.
Rewritten(r, s, drop, who) ==
    LET top == KeptTop(s, drop)
        below == KeptBelow(s, drop)
        a == Cardinality(top)
        b == Cardinality(below)
    IN  /\ r \in Seq(AnyLine) /\ a \in Nat /\ b \in Nat /\ Len(r) = a + b + 4
        /\ r[1] = Key("model", who) /\ r[2] = Key("model_provider", who)
        /\ \A n \in 1..a : r[2 + n] = s[Nth(top, n)] /\ Nth(top, n) \in top
        /\ \A n \in 1..b : r[2 + a + n] = s[Nth(below, n)] /\ Nth(below, n) \in below
        /\ r[a + b + 3] = Header(who) /\ r[a + b + 4] = Key("base_url", who)

LEMMA KeptAre ==
    ASSUME NEW s \in Seq(AnyLine), NEW drop
    PROVE  Upto(KeptTop(s, drop), Len(s)) /\ Upto(KeptBelow(s, drop), Len(s))
<1>1. Len(s) \in Nat /\ DOMAIN s = 1..Len(s)
  OBVIOUS
<1> QED
  BY <1>1 DEF Upto, KeptTop, KeptBelow, Top

LEMMA OursAre ==
    ASSUME NEW who \in Writers
    PROVE  /\ Ours(who)[1] \in Seq(AnyLine) /\ Len(Ours(who)[1]) = 2
           /\ Ours(who)[2] \in Seq(AnyLine) /\ Len(Ours(who)[2]) = 2
           /\ Ours(who)[1][1] = Key("model", who) /\ Ours(who)[1][2] = Key("model_provider", who)
           /\ Ours(who)[2][1] = Header(who) /\ Ours(who)[2][2] = Key("base_url", who)
<1>1. /\ Key("model", who) \in AnyLine /\ Key("model_provider", who) \in AnyLine
      /\ Key("base_url", who) \in AnyLine /\ Header(who) \in AnyLine
  BY DEF AnyLine, Key, Header
<1> QED
  BY <1>1 DEF Ours

LEMMA RewriteIs ==
    ASSUME NEW s \in Seq(AnyLine), NEW drop, NEW who \in Writers
    PROVE  Rewritten(Rewrite(s, drop, who), s, drop, who)
<1> DEFINE top == KeptTop(s, drop)
           below == KeptBelow(s, drop)
           a == Cardinality(top)
           b == Cardinality(below)
           P == Ours(who)[1]
           A == Lines(s, top)
           B == Lines(s, below)
           Q == Ours(who)[2]
           r == P \o A \o B \o Q
<1>1. Rewrite(s, drop, who) = r
  BY DEF Rewrite, KeptTop, KeptBelow
<1>2. Upto(top, Len(s)) /\ Upto(below, Len(s))
  BY KeptAre
<1>3. a \in Nat /\ b \in Nat
  BY <1>2, Kept
<1>4. /\ A \in Seq(AnyLine) /\ Len(A) = a
      /\ \A n \in 1..a : A[n] = s[Nth(top, n)] /\ Nth(top, n) \in top
  <2> HIDE DEF top
  <2> QED
    BY <1>2, LinesAre
<1>5. /\ B \in Seq(AnyLine) /\ Len(B) = b
      /\ \A n \in 1..b : B[n] = s[Nth(below, n)] /\ Nth(below, n) \in below
  <2> HIDE DEF below
  <2> QED
    BY <1>2, LinesAre
<1>6. /\ P \in Seq(AnyLine) /\ Len(P) = 2 /\ Q \in Seq(AnyLine) /\ Len(Q) = 2
      /\ P[1] = Key("model", who) /\ P[2] = Key("model_provider", who)
      /\ Q[1] = Header(who) /\ Q[2] = Key("base_url", who)
  BY OursAre
<1> HIDE DEF P, Q, A, B
<1>7. IsWhole(r, P, A, B, Q)
  BY <1>4, <1>5, <1>6, Pieces, Zenon
<1> HIDE DEF r, a, b, top, below
<1>8. /\ r \in Seq(AnyLine) /\ Len(r) = a + b + 4
      /\ r[1] = Key("model", who) /\ r[2] = Key("model_provider", who)
      /\ \A n \in 1..a : r[2 + n] = s[Nth(top, n)] /\ Nth(top, n) \in top
      /\ \A n \in 1..b : r[2 + a + n] = s[Nth(below, n)] /\ Nth(below, n) \in below
      /\ r[a + b + 3] = Header(who) /\ r[a + b + 4] = Key("base_url", who)
  BY <1>4, <1>5, <1>6, <1>7 DEF IsWhole
<1>9. Rewritten(r, s, drop, who)
  BY <1>3, <1>8 DEF Rewritten, a, b, top, below
<1> QED
  BY <1>1, <1>9

\* Whatever is dropped with a header is dropped with all of its table.
Spares(s, drop) ==
    \A i \in DOMAIN s, h \in DOMAIN s : HeaderOf(s, i, h) /\ h \in drop => i \in drop

\* The selected lines stay in their order.
LEMMA NthGrows ==
    ASSUME NEW m, NEW keep, Upto(keep, m), NEW p \in 1..Cardinality(keep),
           NEW n \in 1..Cardinality(keep), p < n
    PROVE  Nth(keep, p) < Nth(keep, n)
<1> DEFINE x == Nth(keep, p)
           y == Nth(keep, n)
<1>1. x \in keep /\ y \in keep /\ Before(keep, x) = p - 1 /\ Before(keep, y) = n - 1
  BY NthIsKept
<1> HIDE DEF x, y
<1>2. \A i \in keep : i \in Nat
  BY Kept
<1>3. x \in Nat /\ y \in Nat
  BY <1>1, <1>2
<1>4. Cardinality(keep) \in Nat
  BY Kept
<1>5. p \in Nat /\ n \in Nat
  BY <1>4
<1>6. y < x => Before(keep, y) < Before(keep, x)
  BY <1>1, BeforeGrows
<1>7. x < y
  BY <1>1, <1>3, <1>5, <1>6
<1> QED
  BY <1>7 DEF x, y

\* Above the new table the tables are the old ones, if no header is dropped alone.
TablesKept(r, s, drop, who) ==
    LET below == KeptBelow(s, drop)
        a == Cardinality(KeptTop(s, drop))
        b == Cardinality(below)
    IN  /\ \A j \in 1..(2 + a) : TableOf(r, j) = "top"
        /\ \A n \in 1..b : TableOf(r, 2 + a + n) = TableOf(s, Nth(below, n))
        /\ TableOf(r, a + b + 3) = who /\ TableOf(r, a + b + 4) = who

LEMMA TablesAreKept ==
    ASSUME NEW s \in Seq(AnyLine), NEW drop, Spares(s, drop), NEW who \in Writers,
           NEW r, Rewritten(r, s, drop, who)
    PROVE  TablesKept(r, s, drop, who)
<1> DEFINE top == KeptTop(s, drop)
           below == KeptBelow(s, drop)
           a == Cardinality(top)
           b == Cardinality(below)
<1>1. /\ r \in Seq(AnyLine) /\ a \in Nat /\ b \in Nat /\ Len(r) = a + b + 4
      /\ r[1] = Key("model", who) /\ r[2] = Key("model_provider", who)
      /\ \A n \in 1..a : r[2 + n] = s[Nth(top, n)] /\ Nth(top, n) \in top
      /\ \A n \in 1..b : r[2 + a + n] = s[Nth(below, n)] /\ Nth(below, n) \in below
      /\ r[a + b + 3] = Header(who) /\ r[a + b + 4] = Key("base_url", who)
  BY DEF Rewritten
<1>2. Upto(top, Len(s)) /\ Upto(below, Len(s))
  BY KeptAre
<1>3. /\ \A i \in top : i \in 1..Len(s) /\ TableOf(s, i) = "top"
      /\ \A i \in 1..Len(s) : i \in below <=> TableOf(s, i) # "top" /\ i \notin drop
      /\ below \subseteq 1..Len(s)
  <2>1. DOMAIN s = 1..Len(s)
    OBVIOUS
  <2> QED
    BY <2>1 DEF KeptTop, KeptBelow, Top
<1> HIDE DEF top, below, a, b
<1>4. ASSUME NEW j \in 1..(2 + a) PROVE r[j].kind = "key"
  <2>1. CASE j \in {1, 2}
    BY <1>1, <2>1 DEF Key
  <2>2. CASE j \notin {1, 2}
    <3>1. j - 2 \in 1..a /\ 2 + (j - 2) = j
      BY <1>1, <2>2
    <3>2. PICK n \in 1..a : 2 + n = j
      BY <3>1
    <3> DEFINE i == Nth(top, n)
    <3>3. r[j] = s[i] /\ i \in top
      BY <1>1, <3>2
    <3> HIDE DEF i
    <3>4. i \in 1..Len(s) /\ TableOf(s, i) = "top"
      BY <1>3, <3>3
    <3>5. s[i].kind # "table"
      BY <3>4, TopMeans
    <3>6. s[i].kind \in {"key", "table"}
      <4>1. s[i] \in AnyLine
        BY <3>4
      <4> QED
        BY <4>1 DEF AnyLine
    <3> QED
      BY <3>3, <3>5, <3>6
  <2> QED
    BY <2>1, <2>2
<1>5. ASSUME NEW j \in 1..(2 + a) PROVE TableOf(r, j) = "top"
  <2>1. j \in Nat /\ \A k \in 1..j : k \in 1..(2 + a)
    BY <1>1
  <2>2. \A k \in 1..j : r[k].kind # "table"
    BY <1>4, <2>1
  <2> QED
    BY <2>1, <2>2, TableIs
<1>6. ASSUME NEW n \in 1..b PROVE TableOf(r, 2 + a + n) = TableOf(s, Nth(below, n))
  <2> DEFINE i == Nth(below, n)
  <2>1. i \in below /\ Before(below, i) = n - 1
    BY <1>2, NthIsKept DEF b
  <2> HIDE DEF i
  <2>2. i \in 1..Len(s) /\ i \notin drop /\ TableOf(s, i) # "top" /\ Len(s) \in Nat
    BY <1>3, <2>1
  <2>3. PICK h \in 1..i : HeaderOf(s, i, h)
    BY <2>2, TopMeans
  <2>4. /\ s[h].kind = "table" /\ h \in 1..Len(s) /\ h <= i /\ h \in Nat /\ i \in Nat
        /\ \A k \in 1..i : s[k].kind = "table" => k <= h
    BY <2>2, <2>3 DEF HeaderOf
  <2>5. TableOf(s, i) = s[h].name
    BY <2>3, <2>4, TableIs
  <2>6. h \in below
    <3>1. TableOf(s, h) # "top"
      BY <2>4, TopMeans
    <3>2. h \notin drop
      BY <2>2, <2>3, <2>4 DEF Spares
    <3> QED
      BY <1>3, <2>4, <3>1, <3>2
  <2>7. PICK q \in 1..b : Nth(below, q) = h
    BY <1>2, <2>6, Placed DEF b
  <2>8. /\ n \in Nat /\ q \in Nat
        /\ \A p \in 1..b : p \in Nat /\ p > 0
    BY <1>1
  <2>9. q <= n
    <3>1. n < q => i < h
      BY <1>2, <2>7, NthGrows DEF b, i
    <3> QED
      BY <2>4, <2>8, <3>1
  <2>10. ASSUME NEW k \in 1..(2 + a + n), r[k].kind = "table" PROVE k <= 2 + a + q
    <3>1. ~(k \in 1..(2 + a))
      BY <1>4, <2>10
    <3>2. /\ k \in Nat /\ k > 2 + a /\ k <= 2 + a + n
          /\ k - (2 + a) \in 1..n
      <4>1. a \in Nat /\ n \in Nat /\ k \in Nat /\ 1 <= k /\ k <= 2 + a + n
        BY <1>1, <2>8
      <4>2. k > 2 + a
        BY <3>1, <4>1
      <4> QED
        BY <4>1, <4>2
    <3>3. PICK p \in 1..n : 2 + a + p = k
      BY <1>1, <3>2
    <3>4. p \in 1..b /\ p \in Nat
      BY <1>1, <2>8, <3>3
    <3> DEFINE x == Nth(below, p)
    <3>5. r[k] = s[x] /\ x \in below
      BY <1>1, <3>3, <3>4
    <3>6. p < n => x < i
      BY <1>2, <3>4, NthGrows DEF b, i
    <3>7. p = n => x = i
      BY DEF i
    <3>8. q < p => h < x
      BY <1>2, <2>7, <3>4, NthGrows DEF b
    <3> HIDE DEF x
    <3>9. x \in Nat /\ x > 0 /\ p <= n
      BY <1>2, <2>8, <3>5, <3>3, Kept
    <3>10. x \in 1..i
      BY <2>4, <2>8, <3>4, <3>6, <3>7, <3>9
    <3>11. x <= h
      BY <2>4, <2>10, <3>5, <3>10
    <3>12. p <= q
      BY <2>4, <2>8, <3>4, <3>8, <3>9, <3>11
    <3> QED
      BY <1>1, <2>8, <3>3, <3>4, <3>12
  <2>11. r[2 + a + q] = s[h]
    BY <1>1, <2>7
  <2>12. 2 + a + n \in Nat /\ 2 + a + q \in 1..(2 + a + n)
    BY <1>1, <2>8, <2>9
  <2>13. HeaderOf(r, 2 + a + n, 2 + a + q)
    BY <2>4, <2>10, <2>11, <2>12 DEF HeaderOf
  <2>14. TableOf(r, 2 + a + n) = r[2 + a + q].name
    BY <2>12, <2>13, TableIs
  <2> QED
    BY <2>5, <2>11, <2>14 DEF i
<1>7. TableOf(r, a + b + 3) = who /\ TableOf(r, a + b + 4) = who
  <2> DEFINE z == a + b + 3
  <2>1. z \in Nat /\ z + 1 \in Nat /\ z \in 1..z /\ z \in 1..(z + 1) /\ a + b + 4 = z + 1
    BY <1>1
  <2>2. r[z].kind = "table" /\ r[z].name = who /\ r[z + 1].kind = "key"
    BY <1>1, <2>1 DEF Header, Key
  <2> HIDE DEF z
  <2>3. HeaderOf(r, z, z)
    BY <2>1, <2>2 DEF HeaderOf
  <2>4. HeaderOf(r, z + 1, z)
    <3>1. \A k \in 1..(z + 1) : k <= z \/ k = z + 1
      BY <2>1
    <3> QED
      BY <2>1, <2>2, <3>1 DEF HeaderOf
  <2>5. TableOf(r, z) = who /\ TableOf(r, z + 1) = who
    BY <2>1, <2>2, <2>3, <2>4, TableIs
  <2> QED
    BY <2>1, <2>5 DEF z
<1> QED
  BY <1>5, <1>6, <1>7 DEF TablesKept, a, b, top, below

\* Every line that is not dropped is still there, in its table.
LEMMA Stays ==
    ASSUME NEW s \in Seq(AnyLine), NEW drop, Spares(s, drop), NEW who \in Writers,
           NEW r, Rewritten(r, s, drop, who), NEW i \in DOMAIN s, i \notin drop
    PROVE  \E j \in DOMAIN r : r[j] = s[i] /\ TableOf(r, j) = TableOf(s, i)
<1> DEFINE top == KeptTop(s, drop)
           below == KeptBelow(s, drop)
           a == Cardinality(top)
           b == Cardinality(below)
<1>0. DOMAIN r = 1..Len(r)
  <2>1. r \in Seq(AnyLine)
    BY DEF Rewritten
  <2> QED
    BY <2>1
<1>1. /\ a \in Nat /\ b \in Nat /\ Len(r) = a + b + 4
      /\ \A n \in 1..a : r[2 + n] = s[Nth(top, n)]
      /\ \A n \in 1..b : r[2 + a + n] = s[Nth(below, n)]
  BY DEF Rewritten
<1>2. /\ \A j \in 1..(2 + a) : TableOf(r, j) = "top"
      /\ \A n \in 1..b : TableOf(r, 2 + a + n) = TableOf(s, Nth(below, n))
  BY TablesAreKept DEF TablesKept
<1>3. Upto(top, Len(s)) /\ Upto(below, Len(s))
  BY KeptAre
<1>4. /\ TableOf(s, i) = "top" => i \in top
      /\ TableOf(s, i) # "top" => i \in below
  BY DEF KeptTop, KeptBelow, Top
<1> HIDE DEF top, below, a, b
<1>5. CASE TableOf(s, i) = "top"
  <2>1. PICK n \in 1..a : Nth(top, n) = i
    BY <1>3, <1>4, <1>5, Placed DEF a
  <2>2. 2 + n \in 1..(2 + a) /\ 2 + n \in DOMAIN r
    BY <1>0, <1>1
  <2>3. r[2 + n] = s[i] /\ TableOf(r, 2 + n) = "top"
    BY <1>1, <1>2, <2>1, <2>2
  <2> QED
    BY <1>5, <2>2, <2>3
<1>6. CASE TableOf(s, i) # "top"
  <2>1. PICK n \in 1..b : Nth(below, n) = i
    BY <1>3, <1>4, <1>6, Placed DEF b
  <2>2. 2 + a + n \in DOMAIN r
    BY <1>0, <1>1
  <2>3. r[2 + a + n] = s[i] /\ TableOf(r, 2 + a + n) = TableOf(s, i)
    BY <1>1, <1>2, <2>1
  <2> QED
    BY <2>2, <2>3
<1> QED
  BY <1>5, <1>6

\* Of the lines of r all but two at each end come from s, each from another.
Comes(r, s, drop, f) ==
    \A j \in 3..(Len(r) - 2) :
      /\ f[j] \in DOMAIN s /\ f[j] \notin drop
      /\ r[j] = s[f[j]] /\ TableOf(r, j) = TableOf(s, f[j])
      /\ \A k \in 3..(Len(r) - 2) : f[j] = f[k] => j = k

LEMMA AllCome ==
    ASSUME NEW s \in Seq(AnyLine), NEW drop, Spares(s, drop), NEW who \in Writers,
           NEW r, Rewritten(r, s, drop, who)
    PROVE  \E f : Comes(r, s, drop, f)
<1> DEFINE top == KeptTop(s, drop)
           below == KeptBelow(s, drop)
           a == Cardinality(top)
           b == Cardinality(below)
           N == 3..(Len(r) - 2)
           f == [j \in N |-> IF j <= 2 + a THEN Nth(top, j - 2) ELSE Nth(below, j - (2 + a))]
<1>1. /\ a \in Nat /\ b \in Nat /\ Len(r) = a + b + 4
      /\ \A n \in 1..a : r[2 + n] = s[Nth(top, n)]
      /\ \A n \in 1..b : r[2 + a + n] = s[Nth(below, n)]
  BY DEF Rewritten
<1>2. /\ \A j \in 1..(2 + a) : TableOf(r, j) = "top"
      /\ \A n \in 1..b : TableOf(r, 2 + a + n) = TableOf(s, Nth(below, n))
  BY TablesAreKept DEF TablesKept
<1>3. Upto(top, Len(s)) /\ Upto(below, Len(s))
  BY KeptAre
<1>4. /\ \A i \in top : i \in DOMAIN s /\ i \notin drop /\ TableOf(s, i) = "top"
      /\ \A i \in below : i \in DOMAIN s /\ i \notin drop /\ TableOf(s, i) # "top"
  BY DEF KeptTop, KeptBelow, Top
<1>5. \A n \in 1..a : Nth(top, n) \in top /\ Before(top, Nth(top, n)) = n - 1
  BY <1>3, NthIsKept
<1>6. \A n \in 1..b : Nth(below, n) \in below /\ Before(below, Nth(below, n)) = n - 1
  BY <1>3, NthIsKept
<1> HIDE DEF top, below, a, b
<1>7. ASSUME NEW j \in N, j <= 2 + a
      PROVE  /\ f[j] \in top /\ Before(top, f[j]) = j - 3
             /\ r[j] = s[f[j]] /\ TableOf(r, j) = "top"
  <2>1. j - 2 \in 1..a /\ 2 + (j - 2) = j /\ j \in 1..(2 + a)
    BY <1>1, <1>7
  <2>2. PICK n \in 1..a : n = j - 2 /\ 2 + n = j
    BY <2>1
  <2>3. f[j] = Nth(top, n)
    BY <1>7, <2>2
  <2>4. n - 1 = j - 3
    BY <1>1, <2>2
  <2> HIDE DEF f
  <2>5. r[j] = s[f[j]] /\ TableOf(r, j) = "top"
    BY <1>1, <1>2, <2>1, <2>2, <2>3
  <2> QED
    BY <1>5, <2>3, <2>4, <2>5
<1>8. ASSUME NEW j \in N, ~(j <= 2 + a)
      PROVE  /\ f[j] \in below /\ Before(below, f[j]) = j - (2 + a) - 1
             /\ r[j] = s[f[j]] /\ TableOf(r, j) = TableOf(s, f[j])
  <2>1. j - (2 + a) \in 1..b /\ 2 + a + (j - (2 + a)) = j
    BY <1>1, <1>8
  <2>2. PICK n \in 1..b : n = j - (2 + a) /\ 2 + a + n = j
    BY <2>1
  <2>3. f[j] = Nth(below, n)
    BY <1>8, <2>2
  <2> HIDE DEF f
  <2>5. r[j] = s[f[j]] /\ TableOf(r, j) = TableOf(s, f[j])
    BY <1>1, <1>2, <2>2, <2>3
  <2> QED
    BY <1>6, <2>2, <2>3, <2>5
<1> HIDE DEF f
<1>9. ASSUME NEW j \in N
      PROVE  /\ f[j] \in DOMAIN s /\ f[j] \notin drop
             /\ r[j] = s[f[j]] /\ TableOf(r, j) = TableOf(s, f[j])
  BY <1>4, <1>7, <1>8
<1>10. ASSUME NEW j \in N, NEW k \in N, f[j] = f[k] PROVE j = k
  <2>1. j \in Int /\ k \in Int
    BY <1>1
  <2>2. CASE j <= 2 + a /\ k <= 2 + a
    BY <1>7, <1>10, <2>1, <2>2
  <2>3. CASE ~(j <= 2 + a) /\ ~(k <= 2 + a)
    BY <1>1, <1>8, <1>10, <2>1, <2>3
  <2>4. CASE (j <= 2 + a) # (k <= 2 + a)
    BY <1>4, <1>7, <1>8, <1>10, <2>4
  <2> QED
    BY <2>2, <2>3, <2>4
<1>11. Comes(r, s, drop, f)
  BY <1>9, <1>10 DEF Comes
<1> QED
  BY <1>11

\* The two new lines at each end.
LEMMA Ends ==
    ASSUME NEW s \in Seq(AnyLine), NEW drop, Spares(s, drop), NEW who \in Writers,
           NEW r, Rewritten(r, s, drop, who), NEW N, N = Len(r)
    PROVE  /\ r \in Seq(AnyLine) /\ N \in Nat /\ N >= 4 /\ DOMAIN r = 1..N
           /\ r[1] = Key("model", who) /\ r[2] = Key("model_provider", who)
           /\ r[N - 1] = Header(who) /\ r[N] = Key("base_url", who)
           /\ TableOf(r, 1) = "top" /\ TableOf(r, 2) = "top"
           /\ TableOf(r, N - 1) = who /\ TableOf(r, N) = who
<1> DEFINE a == Cardinality(KeptTop(s, drop))
           b == Cardinality(KeptBelow(s, drop))
<1>1. /\ r \in Seq(AnyLine) /\ a \in Nat /\ b \in Nat /\ N = a + b + 4
      /\ r[1] = Key("model", who) /\ r[2] = Key("model_provider", who)
      /\ r[a + b + 3] = Header(who) /\ r[a + b + 4] = Key("base_url", who)
  BY DEF Rewritten
<1>2. /\ \A j \in 1..(2 + a) : TableOf(r, j) = "top"
      /\ TableOf(r, a + b + 3) = who /\ TableOf(r, a + b + 4) = who
  BY TablesAreKept DEF TablesKept
<1> HIDE DEF a, b
<1>3. N - 1 = a + b + 3 /\ 1 \in 1..(2 + a) /\ 2 \in 1..(2 + a) /\ N >= 4 /\ N \in Nat
  BY <1>1
<1>4. DOMAIN r = 1..N
  <2>1. r \in Seq(AnyLine)
    BY <1>1
  <2> QED
    BY <2>1
<1> QED
  BY <1>1, <1>2, <1>3, <1>4

\* No table twice, and no key twice in a table.
NoDup(s) ==
    \A i, j \in DOMAIN s :
        i # j /\ s[i].kind = s[j].kind /\ s[i].name = s[j].name =>
          s[i].kind = "key" /\ TableOf(s, i) # TableOf(s, j)
\* The providers chosen at the top are defined.
Chosen(s) ==
    \A i \in Top(s) \cap Of(s, {"model_provider"}) : \E j \in DOMAIN s : s[j] = Header(s[i].by)

\* What a writer drops: its own table, and the managed keys at the top.
Drops(s, drop, who) ==
    /\ Spares(s, drop)
    /\ \A i \in DOMAIN s \ drop :
         /\ TableOf(s, i) # who
         /\ s[i].kind = "key" /\ s[i].name \in Managed => TableOf(s, i) # "top"

LEMMA RewriteIsValid ==
    ASSUME NEW s \in Seq(AnyLine), NEW drop, NEW who \in Providers, Drops(s, drop, who),
           NoDup(s), NEW r, Rewritten(r, s, drop, who)
    PROVE  NoDup(r) /\ Chosen(r)
<1> DEFINE N == Len(r)
<1>0. who \in Writers /\ who # "top" /\ Spares(s, drop)
  BY DEF Writers, Providers, Drops
<1>1. PICK f : Comes(r, s, drop, f)
  BY <1>0, AllCome
<1>2. /\ r \in Seq(AnyLine) /\ N \in Nat /\ N >= 4 /\ DOMAIN r = 1..N
      /\ r[1] = Key("model", who) /\ r[2] = Key("model_provider", who)
      /\ r[N - 1] = Header(who) /\ r[N] = Key("base_url", who)
      /\ TableOf(r, 1) = "top" /\ TableOf(r, 2) = "top"
      /\ TableOf(r, N - 1) = who /\ TableOf(r, N) = who
  BY <1>0, Ends
<1> HIDE DEF N
<1> DEFINE Mid == 3..(N - 2)
<1>3. \A j \in Mid : /\ f[j] \in DOMAIN s /\ f[j] \notin drop
                     /\ r[j] = s[f[j]] /\ TableOf(r, j) = TableOf(s, f[j])
                     /\ \A k \in Mid : f[j] = f[k] => j = k
  BY <1>1 DEF Comes, N
<1>4. \A j \in 1..N : j = 1 \/ j = 2 \/ j \in Mid \/ j = N - 1 \/ j = N
  BY <1>2
<1> HIDE DEF Mid
<1>5. \A j \in Mid : /\ TableOf(r, j) # who
                     /\ r[j].kind = "key" /\ r[j].name \in Managed => TableOf(r, j) # "top"
                     /\ r[j].kind = "table" => r[j].name # who
  <2> TAKE j \in Mid
  <2>1. /\ f[j] \in DOMAIN s \ drop
        /\ r[j] = s[f[j]] /\ TableOf(r, j) = TableOf(s, f[j])
    BY <1>3
  <2>2. /\ TableOf(r, j) # who
        /\ r[j].kind = "key" /\ r[j].name \in Managed => TableOf(r, j) # "top"
    BY <2>1 DEF Drops
  <2>3. r[j].kind = "table" => r[j].name # who
    <3>1. f[j] \in 1..Len(s)
      BY <2>1
    <3>2. s[f[j]].kind = "table" => TableOf(s, f[j]) = s[f[j]].name
      BY <3>1, TopMeans
    <3> QED
      BY <2>1, <2>2, <3>2
  <2> QED
    BY <2>2, <2>3
<1>6. \A i, j \in Mid :
        i # j /\ r[i].kind = r[j].kind /\ r[i].name = r[j].name =>
          r[i].kind = "key" /\ TableOf(r, i) # TableOf(r, j)
  <2> TAKE i, j \in Mid
  <2>1. /\ f[i] \in DOMAIN s /\ r[i] = s[f[i]] /\ TableOf(r, i) = TableOf(s, f[i])
        /\ f[j] \in DOMAIN s /\ r[j] = s[f[j]] /\ TableOf(r, j) = TableOf(s, f[j])
        /\ f[i] = f[j] => i = j
    BY <1>3
  <2> QED
    BY <2>1 DEF NoDup
<1>7. /\ r[1].kind = "key" /\ r[1].name = "model"
      /\ r[2].kind = "key" /\ r[2].name = "model_provider" /\ r[2].by = who
      /\ r[N - 1].kind = "table" /\ r[N - 1].name = who
      /\ r[N].kind = "key" /\ r[N].name = "base_url"
  BY <1>2 DEF Key, Header
<1>8. ASSUME NEW i \in 1..N, NEW j \in 1..N,
             i # j, r[i].kind = r[j].kind, r[i].name = r[j].name
      PROVE  r[i].kind = "key" /\ TableOf(r, i) # TableOf(r, j)
  <2>1. CASE i \in Mid
    <3>1. j = 1 \/ j = 2 \/ j \in Mid \/ j = N - 1 \/ j = N
      BY <1>4
    <3> QED
      BY <1>0, <1>2, <1>5, <1>6, <1>7, <1>8, <2>1, <3>1 DEF Managed
  <2>2. CASE j \in Mid
    <3>1. i = 1 \/ i = 2 \/ i \in Mid \/ i = N - 1 \/ i = N
      BY <1>4
    <3> QED
      BY <1>0, <1>2, <1>5, <1>6, <1>7, <1>8, <2>2, <3>1 DEF Managed
  <2>3. CASE i \notin Mid /\ j \notin Mid
    <3>1. /\ i = 1 \/ i = 2 \/ i = N - 1 \/ i = N
          /\ j = 1 \/ j = 2 \/ j = N - 1 \/ j = N
      BY <1>4, <2>3
    <3> QED
      BY <1>7, <1>8, <3>1
  <2> QED
    BY <2>1, <2>2, <2>3
<1>9. NoDup(r)
  BY <1>2, <1>8 DEF NoDup
<1>10. ASSUME NEW i \in 1..N, TableOf(r, i) = "top", r[i].kind = "key",
              r[i].name = "model_provider"
       PROVE  i = 2
  <2>1. i = 1 \/ i = 2 \/ i \in Mid \/ i = N - 1 \/ i = N
    BY <1>4
  <2> QED
    BY <1>5, <1>7, <1>10, <2>1 DEF Managed
<1>11. Chosen(r)
  <2>1. N - 1 \in DOMAIN r
    BY <1>2
  <2> QED
    BY <1>2, <1>7, <1>10, <2>1 DEF Chosen, Top, Of
<1> QED
  BY <1>9, <1>11

\* A writer other than the fleet brings nothing of the fleet in.
LEMMA RewriteIsClean ==
    ASSUME NEW s \in Seq(AnyLine), NEW drop, NEW who \in Writers, who # "cc-fleet",
           Spares(s, drop), NEW r, Rewritten(r, s, drop, who),
           \A i \in DOMAIN s : s[i].by # "cc-fleet"
    PROVE  \A j \in DOMAIN r : r[j].by # "cc-fleet"
<1> DEFINE N == Len(r)
<1>1. PICK f : Comes(r, s, drop, f)
  BY AllCome
<1>2. /\ N \in Nat /\ N >= 4 /\ DOMAIN r = 1..N
      /\ r[1] = Key("model", who) /\ r[2] = Key("model_provider", who)
      /\ r[N - 1] = Header(who) /\ r[N] = Key("base_url", who)
  BY Ends
<1>3. \A j \in 3..(N - 2) : f[j] \in DOMAIN s /\ r[j] = s[f[j]]
  BY <1>1 DEF Comes
<1> HIDE DEF N
<1>4. \A j \in 1..N : j = 1 \/ j = 2 \/ j \in 3..(N - 2) \/ j = N - 1 \/ j = N
  BY <1>2
<1>5. r[1].by = who /\ r[2].by = who /\ r[N - 1].by = who /\ r[N].by = who
  BY <1>2 DEF Key, Header
<1>6. \A j \in 3..(N - 2) : r[j].by # "cc-fleet"
  BY <1>3
<1> QED
  BY <1>2, <1>4, <1>5, <1>6

-----------------------------------------------------------------------------
(* The two writers.                                                          *)

FleetDrops(s) == Within(s, Providers) \cup (Top(s) \cap Of(s, Managed))
LocalDrops(s) == Within(s, {"copilot-reverse"}) \cup Of(s, Managed)

\* All of a table has the table of its header.
LEMMA HeaderRules ==
    ASSUME NEW s \in Seq(AnyLine), NEW i \in DOMAIN s, NEW h \in DOMAIN s, HeaderOf(s, i, h)
    PROVE  TableOf(s, h) = TableOf(s, i) /\ s[h].kind = "table" /\ TableOf(s, i) # "top"
<1>1. i \in 1..Len(s) /\ h \in 1..Len(s) /\ i \in Nat
  OBVIOUS
<1>2. s[h].kind = "table" /\ TableOf(s, i) = s[h].name
  BY <1>1, TableIs DEF HeaderOf
<1> QED
  BY <1>1, <1>2, TopMeans

LEMMA WritersDrop ==
    ASSUME NEW s \in Seq(AnyLine)
    PROVE  /\ Drops(s, FleetDrops(s), "cc-fleet")
           /\ Drops(s, LocalDrops(s), "copilot-reverse")
<1>1. ASSUME NEW i \in DOMAIN s, NEW h \in DOMAIN s, HeaderOf(s, i, h)
      PROVE  /\ h \in FleetDrops(s) => i \in FleetDrops(s)
             /\ h \in LocalDrops(s) => i \in LocalDrops(s)
  <2>1. TableOf(s, h) = TableOf(s, i) /\ s[h].kind = "table" /\ TableOf(s, i) # "top"
    BY <1>1, HeaderRules
  <2> QED
    BY <2>1 DEF FleetDrops, LocalDrops, Within, Of
<1>2. ASSUME NEW i \in DOMAIN s
      PROVE  /\ i \notin FleetDrops(s) =>
                  /\ TableOf(s, i) # "cc-fleet"
                  /\ s[i].kind = "key" /\ s[i].name \in Managed => TableOf(s, i) # "top"
             /\ i \notin LocalDrops(s) =>
                  /\ TableOf(s, i) # "copilot-reverse"
                  /\ s[i].kind = "key" /\ s[i].name \in Managed => TableOf(s, i) # "top"
  BY DEF FleetDrops, LocalDrops, Within, Of, Top, Providers
<1> QED
  BY <1>1, <1>2 DEF Drops, Spares

LEMMA WritersRewrite ==
    ASSUME NEW s \in Seq(AnyLine)
    PROVE  /\ Rewritten(FleetToml(s), s, FleetDrops(s), "cc-fleet")
           /\ Rewritten(LocalToml(s), s, LocalDrops(s), "copilot-reverse")
           /\ "cc-fleet" \in Writers /\ "copilot-reverse" \in Writers
           /\ Spares(s, FleetDrops(s)) /\ Spares(s, LocalDrops(s))
<1>1. "cc-fleet" \in Writers /\ "copilot-reverse" \in Writers
  BY DEF Writers, Providers
<1>2. /\ FleetToml(s) = Rewrite(s, FleetDrops(s), "cc-fleet")
      /\ LocalToml(s) = Rewrite(s, LocalDrops(s), "copilot-reverse")
  BY DEF FleetToml, LocalToml, FleetDrops, LocalDrops
<1>3. Spares(s, FleetDrops(s)) /\ Spares(s, LocalDrops(s))
  BY WritersDrop DEF Drops
<1> QED
  BY <1>1, <1>2, <1>3, RewriteIs

\* What the user's own edits do to the tables: a key put first, and a table put last.
KeyFirst(r, s, k) ==
    /\ r \in Seq(AnyLine) /\ DOMAIN r = 1..(Len(s) + 1) /\ r[1] = k
    /\ TableOf(r, 1) = "top"
    /\ \A i \in 1..Len(s) : r[i + 1] = s[i] /\ TableOf(r, i + 1) = TableOf(s, i)

LEMMA FirstKey ==
    ASSUME NEW s \in Seq(AnyLine), NEW k \in AnyLine, k.kind = "key", NEW r, r = <<k>> \o s
    PROVE  KeyFirst(r, s, k)
<1>1. r \in Seq(AnyLine) /\ Len(r) = Len(s) + 1 /\ Len(s) \in Nat
  OBVIOUS
<1>2. r[1] = k /\ \A i \in 1..Len(s) : r[i + 1] = s[i]
  OBVIOUS
<1>3. DOMAIN r = 1..(Len(s) + 1)
  BY <1>1
<1>4. TableOf(r, 1) = "top"
  <2>1. \A j \in 1..1 : r[j].kind # "table"
    BY <1>2
  <2> QED
    BY <2>1, TableIs
<1>5. ASSUME NEW i \in 1..Len(s) PROVE TableOf(r, i + 1) = TableOf(s, i)
  <2>1. i \in Nat /\ i + 1 \in Nat /\ \A j \in 1..i : j \in 1..Len(s) /\ j + 1 \in 1..(i + 1)
    BY <1>1
  <2>2. \A j \in 1..(i + 1) : j = 1 \/ \E x \in 1..i : j = x + 1
    <3> TAKE j \in 1..(i + 1)
    <3>1. j # 1 => j - 1 \in 1..i /\ j = (j - 1) + 1
      BY <2>1
    <3> QED
      BY <3>1
  <2>3. CASE \A j \in 1..i : s[j].kind # "table"
    <3>1. \A j \in 1..(i + 1) : r[j].kind # "table"
      BY <1>2, <2>1, <2>2, <2>3
    <3>2. TableOf(r, i + 1) = "top" /\ TableOf(s, i) = "top"
      BY <2>1, <2>3, <3>1, TableIs
    <3> QED
      BY <3>2
  <2>4. CASE \E j \in 1..i : s[j].kind = "table"
    <3>1. PICK h : HeaderOf(s, i, h)
      BY <2>1, <2>4, TableIs
    <3>2. /\ h \in 1..i /\ s[h].kind = "table"
          /\ \A j \in 1..i : s[j].kind = "table" => j <= h
      BY <3>1 DEF HeaderOf
    <3>3. h + 1 \in 1..(i + 1) /\ r[h + 1] = s[h]
      BY <1>2, <2>1, <3>2
    <3>4. ASSUME NEW j \in 1..(i + 1), r[j].kind = "table" PROVE j <= h + 1
      <4>1. PICK x \in 1..i : j = x + 1
        BY <1>2, <2>2, <3>4
      <4>2. s[x].kind = "table"
        BY <1>2, <2>1, <3>4, <4>1
      <4> QED
        BY <2>1, <3>2, <4>1, <4>2
    <3>5. HeaderOf(r, i + 1, h + 1)
      BY <3>2, <3>3, <3>4 DEF HeaderOf
    <3>6. TableOf(r, i + 1) = r[h + 1].name /\ TableOf(s, i) = s[h].name
      BY <2>1, <3>1, <3>5, TableIs
    <3> QED
      BY <3>3, <3>6
  <2> QED
    BY <2>3, <2>4
<1> QED
  BY <1>1, <1>2, <1>3, <1>4, <1>5 DEF KeyFirst

TableLast(r, s, n) ==
    /\ r \in Seq(AnyLine) /\ DOMAIN r = 1..(n + 2) /\ DOMAIN s = 1..n /\ n \in Nat
    /\ r[n + 1] = Header("user") /\ r[n + 2] = Key("model", "user")
    /\ TableOf(r, n + 1) = "user" /\ TableOf(r, n + 2) = "user"
    /\ \A i \in 1..n : r[i] = s[i] /\ TableOf(r, i) = TableOf(s, i)

LEMMA LastTable ==
    ASSUME NEW s \in Seq(AnyLine)
    PROVE  TableLast(s \o UserTable, s, Len(s))
<1> DEFINE r == s \o UserTable
           n == Len(s)
<1>1. UserTable \in Seq(AnyLine) /\ Len(UserTable) = 2
  BY DEF UserTable, AnyLine, Writers, Key, Header
<1>2. IsJoin(r, s, UserTable)
  BY <1>1, Joined, Zenon
<1>3. n \in Nat /\ DOMAIN s = 1..n
  OBVIOUS
<1>r. r \in Seq(AnyLine) /\ Len(r) = Len(s) + 2
  BY <1>1, <1>2 DEF IsJoin
<1> HIDE DEF r
<1>4. /\ r \in Seq(AnyLine) /\ Len(r) = n + 2
      /\ \A i \in 1..n : r[i] = s[i]
      /\ r[n + 1] = UserTable[1] /\ r[n + 2] = UserTable[2]
  BY <1>1, <1>2, <1>r DEF IsJoin
<1>5. DOMAIN r = 1..(n + 2)
  <2>1. r \in Seq(AnyLine) /\ Len(r) = n + 2
    BY <1>4
  <2> QED
    BY <2>1
<1>6. r[n + 1] = Header("user") /\ r[n + 2] = Key("model", "user")
  BY <1>4 DEF UserTable
<1>7. ASSUME NEW i \in 1..n PROVE TableOf(r, i) = TableOf(s, i)
  <2>1. i \in Nat /\ \A j \in 1..i : r[j] = s[j]
    BY <1>3, <1>4
  <2>2. {j \in 1..i : r[j].kind = "table"} = {j \in 1..i : s[j].kind = "table"}
    BY <2>1
  <2>3. CASE \A j \in 1..i : s[j].kind # "table"
    BY <2>1, <2>3, TableIs
  <2>4. CASE \E j \in 1..i : s[j].kind = "table"
    <3>1. PICK h : HeaderOf(s, i, h)
      BY <2>1, <2>4, TableIs
    <3>2. h \in 1..i /\ HeaderOf(r, i, h)
      BY <2>1, <3>1 DEF HeaderOf
    <3>3. TableOf(r, i) = r[h].name /\ TableOf(s, i) = s[h].name
      BY <2>1, <3>1, <3>2, TableIs
    <3> QED
      BY <2>1, <3>2, <3>3
  <2> QED
    BY <2>3, <2>4
<1>8. TableOf(r, n + 1) = "user" /\ TableOf(r, n + 2) = "user"
  <2>1. /\ r[n + 1].kind = "table" /\ r[n + 1].name = "user" /\ r[n + 2].kind = "key"
    BY <1>6 DEF Key, Header
  <2>2. /\ n + 1 \in 1..(n + 1) /\ n + 1 \in 1..(n + 2) /\ n + 1 \in Nat /\ n + 2 \in Nat
        /\ \A j \in 1..(n + 1) : j <= n + 1
        /\ \A j \in 1..(n + 2) : j <= n + 1 \/ j = n + 2
    BY <1>3
  <2>3. HeaderOf(r, n + 1, n + 1) /\ HeaderOf(r, n + 2, n + 1)
    BY <2>1, <2>2 DEF HeaderOf
  <2> QED
    BY <2>1, <2>2, <2>3, TableIs
<1> QED
  BY <1>3, <1>4, <1>5, <1>6, <1>7, <1>8 DEF TableLast, r

-----------------------------------------------------------------------------
(* What the variables hold.                                                  *)

ClaudeFiles == {f \in [state : {"absent", "ok", "broken"},
                       owner : {"none", "user", "fleet", "local"},
                       notes : SUBSET Notes] : f.state # "ok" => f.notes = {}}
CodexFiles == [state : {"absent", "ok", "torn"}, lines : Seq(AnyLine)]

ConfigTypes ==
    /\ claude \in ClaudeFiles /\ codex \in CodexFiles
    /\ backup \in [meta : {"none", "torn", "whole"}, claude : ClaudeFiles, codex : CodexFiles]
    /\ agent \in {"down", "idle", "copy", "meta", "claude", "codex"}

LEMMA EditsAreLines ==
    ASSUME NEW s \in Seq(AnyLine)
    PROVE  /\ FleetToml(s) \in Seq(AnyLine) /\ LocalToml(s) \in Seq(AnyLine)
           /\ SubSeq(FleetToml(s), 1, 2) \in Seq(AnyLine)
           /\ Len(SubSeq(FleetToml(s), 1, 2)) = 2
           /\ SubSeq(FleetToml(s), 1, 2)[1] = Key("model", "cc-fleet")
           /\ SubSeq(FleetToml(s), 1, 2)[2] = Key("model_provider", "cc-fleet")
           /\ <<Key("approval", "user")>> \o s \in Seq(AnyLine)
           /\ s \o UserTable \in Seq(AnyLine)
<1> DEFINE r == FleetToml(s)
<1>1. /\ r \in Seq(AnyLine) /\ Len(r) >= 4 /\ Len(r) \in Nat
      /\ r[1] = Key("model", "cc-fleet") /\ r[2] = Key("model_provider", "cc-fleet")
  <2>1. /\ Rewritten(r, s, FleetDrops(s), "cc-fleet") /\ Spares(s, FleetDrops(s))
        /\ "cc-fleet" \in Writers
    BY WritersRewrite
  <2> HIDE DEF r
  <2> QED
    BY <2>1, Ends
<1>2. LocalToml(s) \in Seq(AnyLine)
  <2>1. Rewritten(LocalToml(s), s, LocalDrops(s), "copilot-reverse")
    BY WritersRewrite
  <2> QED
    BY <2>1 DEF Rewritten
<1> HIDE DEF r
<1>3. /\ SubSeq(r, 1, 2) \in Seq(AnyLine) /\ Len(SubSeq(r, 1, 2)) = 2
      /\ SubSeq(r, 1, 2)[1] = r[1] /\ SubSeq(r, 1, 2)[2] = r[2]
  BY <1>1
<1>4. Key("approval", "user") \in AnyLine
  BY DEF AnyLine, Key, Writers
<1>5. <<Key("approval", "user")>> \o s \in Seq(AnyLine)
  BY <1>4
<1>6. s \o UserTable \in Seq(AnyLine)
  BY LastTable DEF TableLast
<1> QED
  BY <1>1, <1>2, <1>3, <1>5, <1>6 DEF r

\* The file as the user may have it in the beginning.
Plain == <<Key("model", "user"), Key("approval", "user")>>

LEMMA FirstLines ==
    /\ Plain \in Seq(AnyLine) /\ Plain \o UserTable \in Seq(AnyLine) /\ Misplaced \in Seq(AnyLine)
    /\ << >> \in Seq(AnyLine)
<1>1. Plain \in Seq(AnyLine)
  BY DEF Plain, AnyLine, Key, Writers
<1>2. Misplaced \in Seq(AnyLine)
  <2>1. /\ Key("approval", "user") \in AnyLine /\ Header("user") \in AnyLine
        /\ Key("model", "copilot-reverse") \in AnyLine
        /\ Key("model_provider", "copilot-reverse") \in AnyLine
        /\ Header("copilot-reverse") \in AnyLine /\ Key("base_url", "copilot-reverse") \in AnyLine
    BY DEF AnyLine, Key, Header, Writers, Providers
  <2> QED
    BY <2>1 DEF Misplaced
<1>3. Plain \o UserTable \in Seq(AnyLine)
  BY <1>1, EditsAreLines
<1>4. << >> \in Seq(AnyLine)
  OBVIOUS
<1> QED
  BY <1>1, <1>2, <1>3, <1>4

LEMMA FirstFiles ==
    /\ NoClaude \in ClaudeFiles /\ [NoClaude EXCEPT !.state = "broken"] \in ClaudeFiles
    /\ [NoClaude EXCEPT !.state = "ok", !.owner = "user", !.notes = Notes] \in ClaudeFiles
    /\ NoCodex \in CodexFiles
<1>1. NoCodex \in CodexFiles
  BY FirstLines DEF NoCodex, CodexFiles
<1> QED
  BY <1>1 DEF NoClaude, ClaudeFiles

LEMMA TomlFile == ASSUME NEW s \in Seq(AnyLine) PROVE Toml(s) \in CodexFiles
  BY DEF Toml, CodexFiles

LEMMA TypesInit == Init => ConfigTypes
<1> SUFFICES ASSUME Init PROVE ConfigTypes
  OBVIOUS
<1>1. claude \in ClaudeFiles
  BY FirstFiles DEF Init
<1>2. codex \in CodexFiles
  <2>1. codex \in {NoCodex, Toml(Plain \o UserTable), Toml(Misplaced)}
    BY DEF Init, Plain
  <2> QED
    BY <2>1, FirstFiles, FirstLines, TomlFile
<1>3. backup \in [meta : {"none", "torn", "whole"}, claude : ClaudeFiles, codex : CodexFiles]
  BY FirstFiles DEF Init
<1> QED
  BY <1>1, <1>2, <1>3 DEF ConfigTypes, Init

\* What each writer makes of settings.json.
LEMMA ClaudeEdits ==
    ASSUME NEW f \in ClaudeFiles
    PROVE  /\ \A who \in {"fleet", "local"} :
                 /\ MergeEnv(f, who) \in ClaudeFiles /\ f.notes \subseteq MergeEnv(f, who).notes
                 /\ MergeEnv(f, who).owner = who
           /\ ResetEnv(f) \in ClaudeFiles /\ f.notes \subseteq ResetEnv(f).notes
           /\ ResetEnv(f).owner \in {f.owner, "none"}
           /\ \A n \in Notes : LET g == [f EXCEPT !.state = "ok", !.notes = @ \cup {n}]
                               IN  g \in ClaudeFiles /\ g.owner = f.owner
<1>1. /\ f.state \in {"absent", "ok", "broken"} /\ f.owner \in {"none", "user", "fleet", "local"}
      /\ f.notes \in SUBSET Notes /\ f = [state |-> f.state, owner |-> f.owner, notes |-> f.notes]
      /\ f.state # "ok" => f.notes = {}
  BY DEF ClaudeFiles
<1>2. \A who \in {"fleet", "local"} :
         /\ MergeEnv(f, who) \in ClaudeFiles /\ f.notes \subseteq MergeEnv(f, who).notes
         /\ MergeEnv(f, who).owner = who
  BY <1>1 DEF MergeEnv, ClaudeFiles
<1>3. /\ ResetEnv(f) \in ClaudeFiles /\ f.notes \subseteq ResetEnv(f).notes
      /\ ResetEnv(f).owner \in {f.owner, "none"}
  BY <1>1 DEF ResetEnv, ClaudeFiles
<1>4. \A n \in Notes : LET g == [f EXCEPT !.state = "ok", !.notes = @ \cup {n}]
                       IN  g \in ClaudeFiles /\ g.owner = f.owner
  BY <1>1 DEF ClaudeFiles
<1> QED
  BY <1>2, <1>3, <1>4

LEMMA TypesStep == ConfigTypes /\ [Next]_vars => ConfigTypes'
<1> SUFFICES ASSUME ConfigTypes, [Next]_vars PROVE ConfigTypes'
  OBVIOUS
<1> DEFINE s == codex.lines
<1>1. /\ claude \in ClaudeFiles /\ codex \in CodexFiles
      /\ s \in Seq(AnyLine) /\ codex.state \in {"absent", "ok", "torn"}
      /\ codex = [state |-> codex.state, lines |-> codex.lines]
      /\ backup.meta \in {"none", "torn", "whole"}
      /\ backup.claude \in ClaudeFiles /\ backup.codex \in CodexFiles
      /\ backup = [meta |-> backup.meta, claude |-> backup.claude, codex |-> backup.codex]
      /\ agent \in {"down", "idle", "copy", "meta", "claude", "codex"}
  BY DEF ConfigTypes, CodexFiles
<1>2. CASE UNCHANGED <<files, backup>> /\ agent' \in {"down", "idle", "copy", "meta", "claude", "codex"}
  BY <1>1, <1>2 DEF ConfigTypes, files
<1>3. CASE Copy
  BY <1>1, <1>3 DEF Copy, ConfigTypes, files
<1>4. CASE WriteMeta
  BY <1>1, <1>4 DEF WriteMeta, ConfigTypes, files
<1>5. CASE FleetClaude
  <2>1. MergeEnv(claude, "fleet") \in ClaudeFiles
    BY <1>1, ClaudeEdits
  <2>2. claude' \in ClaudeFiles
    BY <1>1, <1>5, <2>1 DEF FleetClaude
  <2> QED
    BY <1>1, <1>5, <2>2 DEF FleetClaude, ConfigTypes
<1>6. CASE FleetCodex
  <2>1. Toml(FleetToml(s)) \in CodexFiles
    BY <1>1, EditsAreLines, TomlFile
  <2>2. codex' \in CodexFiles
    BY <1>1, <1>6, <2>1 DEF FleetCodex
  <2> QED
    BY <1>1, <1>6, <2>2 DEF FleetCodex, ConfigTypes
<1>7. CASE Crash
  <2>1. [NoClaude EXCEPT !.state = "broken"] \in ClaudeFiles
    BY FirstFiles
  <2>2. [state |-> "torn", lines |-> SubSeq(FleetToml(s), 1, 2)] \in CodexFiles
    BY <1>1, EditsAreLines DEF CodexFiles
  <2>3. claude' \in ClaudeFiles
    BY <1>1, <1>7, <2>1 DEF Crash, files
  <2>4. codex' \in CodexFiles
    BY <1>1, <1>7, <2>2 DEF Crash, files
  <2>5. backup' = backup \/ backup' = [backup EXCEPT !.meta = "torn"]
    BY <1>7 DEF Crash
  <2>6. agent' = "down"
    BY <1>7 DEF Crash
  <2> QED
    BY <1>1, <2>3, <2>4, <2>5, <2>6 DEF ConfigTypes
<1>8. CASE Leaves
  <2>1. /\ claude' \in {claude, backup.claude, [NoClaude EXCEPT !.state = "broken"]}
        /\ codex' \in {codex, backup.codex, [NoCodex EXCEPT !.state = "torn"]}
    BY <1>8 DEF Leaves, Leave, LeaveClaude, LeaveCodex, LeaveCreds, LeaveCut, files
  <2>2. [NoCodex EXCEPT !.state = "torn"] \in CodexFiles
    BY FirstLines DEF NoCodex, CodexFiles
  <2>3. UNCHANGED <<backup, agent>>
    BY <1>8 DEF Leaves, Leave, LeaveClaude, LeaveCodex, LeaveCreds, LeaveCut
  <2>4. claude' \in ClaudeFiles /\ codex' \in CodexFiles
    BY <1>1, <2>1, <2>2, FirstFiles
  <2> QED
    BY <1>1, <2>3, <2>4 DEF ConfigTypes
<1>9. CASE LocalClaude
  <2>1. MergeEnv(claude, "local") \in ClaudeFiles
    BY <1>1, ClaudeEdits
  <2> QED
    BY <1>1, <1>9, <2>1 DEF LocalClaude, ConfigTypes
<1>10. CASE LocalCodex
  <2>1. Toml(LocalToml(s)) \in CodexFiles
    BY <1>1, EditsAreLines, TomlFile
  <2> QED
    BY <1>1, <1>10, <2>1 DEF LocalCodex, ConfigTypes
<1>11. CASE ResetClaude
  <2>1. ResetEnv(claude) \in ClaudeFiles
    BY <1>1, ClaudeEdits
  <2> QED
    BY <1>1, <1>11, <2>1 DEF ResetClaude, ConfigTypes
<1>12. CASE UserEdits
  <2>1. ASSUME NEW l \in Seq(AnyLine) PROVE Typed(l) \in CodexFiles
    BY <1>1 DEF Typed, CodexFiles
  <2>2. /\ <<Key("approval", "user")>> \o s \in Seq(AnyLine) /\ s \o UserTable \in Seq(AnyLine)
    BY <1>1, EditsAreLines
  <2>3. \A n \in Notes : [claude EXCEPT !.state = "ok", !.notes = @ \cup {n}] \in ClaudeFiles
    BY <1>1, ClaudeEdits
  <2>4. claude' \in ClaudeFiles /\ codex' \in CodexFiles
    <3>1. Typed(<<Key("approval", "user")>> \o s) \in CodexFiles /\ Typed(s \o UserTable) \in CodexFiles
      BY <2>1, <2>2
    <3> QED
      BY <1>1, <1>12, <2>3, <3>1 DEF UserEdits
  <2>5. backup' = backup /\ agent' = agent
    BY <1>12 DEF UserEdits
  <2> QED
    BY <1>1, <2>4, <2>5 DEF ConfigTypes
<1>13. ASSUME Join \/ Start \/ HubChanges \/ Receive \/ UNCHANGED vars
       PROVE  UNCHANGED <<files, backup>> /\ agent' \in {"down", "idle", "copy", "meta", "claude", "codex"}
  BY <1>1, <1>13 DEF Join, Start, HubChanges, Receive, vars, files
<1> QED
  BY <1>2, <1>3, <1>4, <1>5, <1>6, <1>7, <1>8, <1>9, <1>10, <1>11, <1>12, <1>13
     DEF Next, Agent, Local

-----------------------------------------------------------------------------
(* Nothing of the fleet where it should not be.                              *)

\* Nothing of the fleet in what other writers make of files that have nothing of it.
LEMMA OthersAreClean ==
    ASSUME ConfigTypes, ~FleetIn(claude, codex.lines),
           LocalClaude \/ LocalCodex \/ ResetClaude \/ UserEdits
    PROVE  ~FleetIn(claude', codex'.lines)
<1> DEFINE s == codex.lines
<1>1. /\ claude \in ClaudeFiles /\ s \in Seq(AnyLine)
      /\ claude.owner # "fleet" /\ \A i \in DOMAIN s : s[i].by # "cc-fleet"
  BY DEF ConfigTypes, CodexFiles, FleetIn
<1>2. CASE LocalClaude
  <2>1. claude'.owner = "local" /\ codex' = codex
    BY <1>1, <1>2, ClaudeEdits DEF LocalClaude
  <2> QED
    BY <1>1, <2>1 DEF FleetIn
<1>3. CASE LocalCodex
  <2>1. claude' = claude /\ codex'.lines = LocalToml(s)
    BY <1>3 DEF LocalCodex, Toml
  <2> DEFINE r == LocalToml(s)
  <2>2. /\ Rewritten(r, s, LocalDrops(s), "copilot-reverse") /\ Spares(s, LocalDrops(s))
        /\ "copilot-reverse" \in Writers
    BY <1>1, WritersRewrite
  <2> HIDE DEF r
  <2>3. \A j \in DOMAIN r : r[j].by # "cc-fleet"
    BY <1>1, <2>2, RewriteIsClean
  <2> QED
    BY <1>1, <2>1, <2>3 DEF FleetIn, r
<1>4. CASE ResetClaude
  <2>1. claude'.owner \in {claude.owner, "none"} /\ codex' = codex
    BY <1>1, <1>4, ClaudeEdits DEF ResetClaude
  <2> QED
    BY <1>1, <2>1 DEF FleetIn
<1>5. CASE UserEdits
  <2>1. CASE \E n \in Notes : claude' = [claude EXCEPT !.state = "ok", !.notes = @ \cup {n}]
             /\ UNCHANGED codex
    <3>1. PICK n \in Notes : claude' = [claude EXCEPT !.state = "ok", !.notes = @ \cup {n}]
      BY <2>1
    <3>2. claude'.owner = claude.owner /\ codex' = codex
      BY <1>1, <2>1, <3>1 DEF ClaudeFiles
    <3> QED
      BY <1>1, <3>2 DEF FleetIn
  <2>2. CASE codex' = Typed(<<Key("approval", "user")>> \o s) /\ UNCHANGED claude
    <3> DEFINE k == Key("approval", "user")
               r == <<k>> \o s
    <3>1. codex'.lines = r
      BY <2>2 DEF Typed, ConfigTypes, CodexFiles
    <3>2. k \in AnyLine /\ k.kind = "key" /\ k.by = "user"
      BY DEF Key, AnyLine, Writers
    <3> HIDE DEF k
    <3>3. /\ DOMAIN r = 1..(Len(s) + 1) /\ r[1] = k
          /\ \A i \in 1..Len(s) : r[i + 1] = s[i]
      <4>1. KeyFirst(r, s, k)
        BY <1>1, <3>2, FirstKey, Zenon
      <4> QED
        BY <4>1 DEF KeyFirst
    <3> HIDE DEF r
    <3>4. \A j \in DOMAIN r : j = 1 \/ \E i \in DOMAIN s : j = i + 1 /\ i \in 1..Len(s)
      <4>1. Len(s) \in Nat /\ DOMAIN s = 1..Len(s)
        BY <1>1
      <4>2. \A j \in 1..(Len(s) + 1) : j # 1 => j - 1 \in 1..Len(s) /\ j = (j - 1) + 1
        BY <4>1
      <4> QED
        BY <3>3, <4>1, <4>2
    <3>5. \A j \in DOMAIN r : r[j].by # "cc-fleet"
      BY <1>1, <3>2, <3>3, <3>4
    <3> QED
      BY <1>1, <2>2, <3>1, <3>5 DEF FleetIn
  <2>3. CASE codex' = Typed(s \o UserTable) /\ UNCHANGED claude
    <3> DEFINE r == s \o UserTable
               n == Len(s)
    <3>1. codex'.lines = r
      BY <2>3 DEF Typed, ConfigTypes, CodexFiles
    <3>2. TableLast(r, s, n)
      BY <1>1, LastTable, Zenon
    <3> HIDE DEF r, n
    <3>3. /\ DOMAIN r = 1..(n + 2) /\ DOMAIN s = 1..n /\ n \in Nat
          /\ r[n + 1] = Header("user") /\ r[n + 2] = Key("model", "user")
          /\ \A i \in 1..n : r[i] = s[i]
      BY <3>2 DEF TableLast
    <3>4. \A j \in DOMAIN r : j \in 1..n \/ j = n + 1 \/ j = n + 2
      BY <3>3
    <3>5. \A j \in DOMAIN r : r[j].by # "cc-fleet"
      BY <1>1, <3>3, <3>4 DEF Header, Key
    <3> QED
      BY <1>1, <2>3, <3>1, <3>5 DEF FleetIn
  <2> QED
    BY <1>5, <2>1, <2>2, <2>3 DEF UserEdits
<1> QED
  BY <1>2, <1>3, <1>4, <1>5

\* The fleet writes only after meta.json is there, and meta.json is written only over originals:
\* an agent that copies has none, and once there is one the copies are what was copied.  Who is
\* leaving has found one.
SafeInv ==
    /\ agent \in {"copy", "meta"} => backup.meta = "none"
    /\ agent = "meta" => /\ <<backup.claude, backup.codex>> = copied
                         /\ ~FleetIn(backup.claude, backup.codex.lines)
    /\ agent \in {"claude", "codex"} \/ leaving # "no" => backup.meta # "none"
    /\ backup.meta = "none" => ~touched /\ ~FleetIn(claude, codex.lines)
    /\ backup.meta # "none" => /\ <<backup.claude, backup.codex>> = copied
                               /\ ~FleetIn(backup.claude, backup.codex.lines)

LEMMA SafeInit == Init => SafeInv
<1> SUFFICES ASSUME Init PROVE SafeInv
  OBVIOUS
<1>1. claude.owner # "fleet"
  <2>1. claude \in {NoClaude, [NoClaude EXCEPT !.state = "broken"],
                    [NoClaude EXCEPT !.state = "ok", !.owner = "user", !.notes = Notes]}
    BY DEF Init
  <2>2. /\ NoClaude.owner = "none" /\ [NoClaude EXCEPT !.state = "broken"].owner = "none"
        /\ [NoClaude EXCEPT !.state = "ok", !.owner = "user", !.notes = Notes].owner = "user"
    BY DEF NoClaude
  <2>3. claude.owner \in {"none", "user"}
    BY <2>1, <2>2, Zenon
  <2> QED
    BY <2>3
<1>2. \A i \in DOMAIN codex.lines : codex.lines[i].by # "cc-fleet"
  <2>1. \A i \in DOMAIN NoCodex.lines : NoCodex.lines[i].by # "cc-fleet"
    BY DEF NoCodex
  <2>2. \A i \in DOMAIN Misplaced : Misplaced[i].by # "cc-fleet"
    BY DEF Misplaced, Key, Header
  <2>3. \A i \in DOMAIN (Plain \o UserTable) : (Plain \o UserTable)[i].by # "cc-fleet"
    <3> DEFINE r == Plain \o UserTable
               n == Len(Plain)
    <3>1. TableLast(r, Plain, n)
      BY FirstLines, LastTable, Zenon
    <3> HIDE DEF r, n
    <3>2. \A j \in DOMAIN r : j \in 1..n \/ j = n + 1 \/ j = n + 2
      BY <3>1 DEF TableLast
    <3>3. \A i \in DOMAIN Plain : Plain[i].by # "cc-fleet"
      BY DEF Plain, Key
    <3>4. \A i \in DOMAIN r : r[i].by # "cc-fleet"
      BY <3>1, <3>2, <3>3 DEF TableLast, Header, Key
    <3> QED
      BY <3>4 DEF r
  <2>4. codex \in {NoCodex, Toml(Plain \o UserTable), Toml(Misplaced)}
    BY DEF Init, Plain
  <2>5. codex.lines \in {NoCodex.lines, Misplaced, Plain \o UserTable}
    <3>1. \A l : Toml(l).lines = l
      BY DEF Toml
    <3> QED
      BY <2>4, <3>1
  <2> QED
    BY <2>1, <2>2, <2>3, <2>5, Zenon
<1>3. ~FleetIn(claude, codex.lines)
  BY <1>1, <1>2 DEF FleetIn
<1> QED
  BY <1>3 DEF SafeInv, Init

LEMMA SafeStep == ConfigTypes /\ SafeInv /\ [Next]_vars => SafeInv'
<1> SUFFICES ASSUME ConfigTypes, SafeInv, [Next]_vars PROVE SafeInv'
  OBVIOUS
<1>1. backup = [meta |-> backup.meta, claude |-> backup.claude, codex |-> backup.codex]
  BY DEF ConfigTypes
<1>2. CASE UNCHANGED <<files, backup, leaving, copied, touched>> /\ agent' \in {"down", "idle", agent}
  BY <1>2 DEF SafeInv, files
<1>3. CASE Receive
  BY <1>3 DEF Receive, SafeInv, files, history
<1>4. CASE Copy
  <2>1. /\ agent = "copy" /\ backup.meta = "none" /\ UNCHANGED <<files, leaving, touched>>
        /\ ~touched /\ ~FleetIn(claude, codex.lines) /\ leaving = "no"
    BY <1>4 DEF Copy, SafeInv
  <2>2. CASE agent' = "meta" /\ backup' = [backup EXCEPT !.claude = claude, !.codex = codex]
             /\ copied' = files
    <3>1. backup'.meta = "none" /\ backup'.claude = claude /\ backup'.codex = codex
      BY <1>1, <2>1, <2>2
    <3> QED
      BY <2>1, <2>2, <3>1 DEF SafeInv, files
  <2>3. CASE agent' = "idle" /\ UNCHANGED <<backup, copied>>
    BY <2>1, <2>3 DEF SafeInv, files
  <2> QED
    BY <1>4, <2>2, <2>3 DEF Copy
<1>5. CASE WriteMeta
  <2>1. /\ backup'.meta = "whole" /\ backup'.claude = backup.claude
        /\ backup'.codex = backup.codex /\ agent' = "claude" /\ UNCHANGED <<copied, leaving>>
        /\ agent = "meta"
    BY <1>1, <1>5 DEF WriteMeta, history
  <2> QED
    BY <2>1 DEF SafeInv
<1>6. CASE FleetClaude \/ FleetCodex
  <2>1. /\ backup.meta # "none" /\ UNCHANGED <<backup, leaving, copied>> /\ agent' \in {"codex", "idle"}
    BY <1>6 DEF FleetClaude, FleetCodex, SafeInv
  <2> QED
    BY <2>1 DEF SafeInv
<1>7. CASE Crash
  <2>1. UNCHANGED <<copied, leaving>> /\ agent' = "down"
    BY <1>7 DEF Crash
  <2>2. CASE UNCHANGED <<files, backup, touched>>
    BY <2>1, <2>2 DEF SafeInv, files
  <2>3. CASE agent = "meta" /\ backup' = [backup EXCEPT !.meta = "torn"]
    <3>1. backup'.meta = "torn" /\ backup'.claude = backup.claude /\ backup'.codex = backup.codex
      BY <1>1, <2>3
    <3> QED
      BY <2>1, <2>3, <3>1 DEF SafeInv
  <2>4. CASE agent \in {"claude", "codex"} /\ UNCHANGED backup
    BY <2>1, <2>4 DEF SafeInv
  <2> QED
    BY <1>7, <2>2, <2>3, <2>4 DEF Crash
<1>8. CASE Leaves
  <2>1. UNCHANGED <<backup, agent, copied, touched>> /\ backup.meta # "none"
    BY <1>8 DEF Leaves, Leave, LeaveClaude, LeaveCodex, LeaveCreds, LeaveCut, SafeInv, history
  <2> QED
    BY <2>1 DEF SafeInv
<1>9. CASE LocalClaude \/ LocalCodex \/ ResetClaude \/ UserEdits
  <2>1. UNCHANGED <<backup, agent, leaving, copied, touched>>
    BY <1>9 DEF LocalClaude, LocalCodex, ResetClaude, UserEdits, history
  <2>2. ~FleetIn(claude, codex.lines) => ~FleetIn(claude', codex'.lines)
    BY <1>9, OthersAreClean
  <2> QED
    BY <2>1, <2>2 DEF SafeInv
<1>10. ASSUME Join \/ Start \/ HubChanges \/ UNCHANGED vars
       PROVE  UNCHANGED <<files, backup, leaving, copied, touched>> /\ agent' \in {"down", "idle", agent}
  BY <1>10 DEF Join, Start, HubChanges, vars, files, history
<1> QED
  BY <1>2, <1>3, <1>4, <1>5, <1>6, <1>7, <1>8, <1>9, <1>10 DEF Next, Agent, Local

\* The files are kept whole before the fleet first writes, whatever crashes, and the copies are
\* never replaced by the fleet's own (client-config.ts 22-32).
THEOREM OriginalsSafe == Spec => []OriginalsAreSafe
<1>1. SafeInv => OriginalsAreSafe
  BY DEF SafeInv, OriginalsAreSafe
<1> QED
  BY <1>1, TypesInit, TypesStep, SafeInit, SafeStep, PTL DEF Spec

\* A machine outside the fleet whose agent was down while it left has no agent and no trace; what
\* a leave has put back so far has no trace either.
LeftInv ==
    /\ leaving # "no" => creds
    /\ ~relapsed => /\ ~creds \/ leaving # "no" => agent = "down"
                    /\ leaving \in {"codex", "creds"} => claude.owner # "fleet"
                    /\ ~creds \/ leaving = "creds" => ~FleetIn(claude, codex.lines)

\* Nobody but the agent makes settings.json name the fleet.
LEMMA OthersAreNotTheFleet ==
    ASSUME ConfigTypes, claude.owner # "fleet",
           LocalClaude \/ LocalCodex \/ ResetClaude \/ UserEdits
    PROVE  claude'.owner # "fleet"
<1>1. claude \in ClaudeFiles
  BY DEF ConfigTypes
<1>2. CASE LocalClaude
  BY <1>1, <1>2, ClaudeEdits DEF LocalClaude
<1>3. CASE LocalCodex
  BY <1>3 DEF LocalCodex
<1>4. CASE ResetClaude
  BY <1>1, <1>4, ClaudeEdits DEF ResetClaude
<1>5. CASE UserEdits
  <2>1. claude' = claude \/ \E n \in Notes : claude' = [claude EXCEPT !.state = "ok", !.notes = @ \cup {n}]
    BY <1>5 DEF UserEdits
  <2>2. \A n \in Notes : [claude EXCEPT !.state = "ok", !.notes = @ \cup {n}].owner = claude.owner
    BY <1>1 DEF ClaudeFiles
  <2> QED
    BY <2>1, <2>2
<1> QED
  BY <1>2, <1>3, <1>4, <1>5

\* One step of leaving after the other.
LEMMA LeavesClean == ASSUME ConfigTypes, SafeInv, LeftInv, Leaves PROVE LeftInv'
<1>1. agent' = agent /\ backup.meta # "none"
  BY DEF Leaves, Leave, LeaveClaude, LeaveCodex, LeaveCreds, LeaveCut, SafeInv
<1>2. backup.claude.owner # "fleet" /\ \A i \in DOMAIN backup.codex.lines : backup.codex.lines[i].by # "cc-fleet"
  BY <1>1 DEF SafeInv, FleetIn
<1>3. CASE Leave
  BY <1>1, <1>3, Zenon DEF Leave, LeftInv
<1>4. CASE LeaveClaude
  <2>1. /\ leaving = "claude" /\ leaving' = "codex" /\ claude'.owner # "fleet"
        /\ creds' = creds /\ relapsed' = relapsed
    BY <1>2, <1>4 DEF LeaveClaude, history
  <2> QED
    BY <1>1, <2>1 DEF LeftInv
<1>5. CASE LeaveCodex
  <2>1. /\ leaving = "codex" /\ leaving' = "creds" /\ claude' = claude
        /\ creds' = creds /\ relapsed' = relapsed /\ codex' = backup.codex
    BY <1>5 DEF LeaveCodex, history
  <2>2. claude.owner # "fleet" => ~FleetIn(claude', codex'.lines)
    BY <1>2, <2>1 DEF FleetIn
  <2> QED
    BY <1>1, <2>1, <2>2 DEF LeftInv
<1>6. CASE LeaveCreds
  <2>1. leaving = "creds" /\ leaving' = "no" /\ UNCHANGED <<claude, codex, relapsed>> /\ ~creds'
    BY <1>6 DEF LeaveCreds, files, history
  <2> QED
    BY <1>1, <2>1 DEF LeftInv
<1>7. CASE LeaveCut
  <2>1. leaving # "no" /\ leaving' = "no" /\ UNCHANGED <<creds, relapsed>>
    BY <1>7 DEF LeaveCut, history
  <2> QED
    BY <1>1, <2>1 DEF LeftInv
<1> QED
  BY <1>3, <1>4, <1>5, <1>6, <1>7 DEF Leaves

LEMMA LeftStep == ConfigTypes /\ SafeInv /\ LeftInv /\ [Next]_vars => LeftInv'
<1> SUFFICES ASSUME ConfigTypes, SafeInv, LeftInv, [Next]_vars PROVE LeftInv'
  OBVIOUS
<1>1. CASE Join
  <2>1. creds' = TRUE /\ leaving = "no" /\ leaving' = "no"
    BY <1>1 DEF Join, LeftInv
  <2> QED
    BY <2>1 DEF LeftInv
<1>2. CASE Leaves
  BY <1>2, LeavesClean
<1>3. CASE LocalClaude \/ LocalCodex \/ ResetClaude \/ UserEdits
  <2>1. UNCHANGED <<creds, agent, leaving, relapsed>>
    BY <1>3 DEF LocalClaude, LocalCodex, ResetClaude, UserEdits, history
  <2>2. ~FleetIn(claude, codex.lines) => ~FleetIn(claude', codex'.lines)
    BY <1>3, OthersAreClean
  <2>3. claude.owner # "fleet" => claude'.owner # "fleet"
    BY <1>3, OthersAreNotTheFleet
  <2> QED
    BY <2>1, <2>2, <2>3 DEF LeftInv
<1>4. CASE Start
  <2>1. creds /\ creds' = creds /\ leaving' = leaving /\ (~relapsed' => leaving = "no")
    BY <1>4 DEF Start
  <2> QED
    BY <2>1 DEF LeftInv
<1>5. CASE Agent \/ Crash
  <2>1. UNCHANGED <<creds, leaving, relapsed>> /\ agent # "down"
    BY <1>5 DEF Agent, Receive, Copy, WriteMeta, FleetClaude, FleetCodex, Crash, history
  <2>2. relapsed \/ (creds /\ leaving = "no")
    BY <2>1 DEF LeftInv
  <2> QED
    BY <2>1, <2>2 DEF LeftInv
<1>6. CASE HubChanges \/ UNCHANGED vars
  BY <1>6 DEF HubChanges, vars, files, history, LeftInv
<1> QED
  BY <1>1, <1>2, <1>3, <1>4, <1>5, <1>6 DEF Next, Local

\* After leaving with its agent down, in however many attempts, a machine carries nothing of the
\* fleet until it joins again (control.ts 384-392, client-config.ts restore).
THEOREM LeftForGood == Spec => []LeftIsLeft
<1>1. Init => LeftInv
  BY SafeInit DEF Init, SafeInv, LeftInv
<1>2. LeftInv => LeftIsLeft
  BY DEF LeftInv, LeftIsLeft
<1> QED
  BY <1>1, <1>2, TypesInit, TypesStep, SafeInit, SafeStep, LeftStep, PTL DEF Spec

-----------------------------------------------------------------------------
(* What the user wrote.                                                      *)

\* The three parts of the action property, each from what a rewrite keeps.
LEMMA StepKeeps ==
    ASSUME ConfigTypes, [Next]_vars
    PROVE  /\ FleetClaude \/ Local => claude.notes \subseteq claude'.notes
           /\ FleetCodex => \A i \in DOMAIN codex.lines :
                 /\ TableOf(codex.lines, i) \notin Providers
                 /\ TableOf(codex.lines, i) = "top" => codex.lines[i].name \notin Managed
                 => \E j \in DOMAIN codex'.lines : /\ codex'.lines[j] = codex.lines[i]
                                                   /\ TableOf(codex'.lines, j) = TableOf(codex.lines, i)
           /\ LocalCodex => \A t \in {"top", "user"} :
                 Names(codex.lines, t) \ Managed \subseteq Names(codex'.lines, t)
<1> DEFINE s == codex.lines
<1>1. claude \in ClaudeFiles /\ s \in Seq(AnyLine)
  BY DEF ConfigTypes, CodexFiles
<1>2. ASSUME FleetClaude \/ Local PROVE claude.notes \subseteq claude'.notes
  <2>1. /\ claude.notes \subseteq MergeEnv(claude, "fleet").notes
        /\ claude.notes \subseteq MergeEnv(claude, "local").notes
        /\ claude.notes \subseteq ResetEnv(claude).notes
    BY <1>1, ClaudeEdits
  <2>2. claude' \in {claude, MergeEnv(claude, "fleet"), MergeEnv(claude, "local"), ResetEnv(claude)}
    BY <1>2 DEF FleetClaude, Local, LocalClaude, LocalCodex, ResetClaude
  <2> QED
    BY <2>1, <2>2
<1>3. ASSUME FleetCodex, NEW i \in DOMAIN s, TableOf(s, i) \notin Providers,
             TableOf(s, i) = "top" => s[i].name \notin Managed
      PROVE  \E j \in DOMAIN codex'.lines : /\ codex'.lines[j] = s[i]
                                            /\ TableOf(codex'.lines, j) = TableOf(s, i)
  <2>1. CASE codex' = codex
    BY <2>1
  <2>2. CASE codex' = Toml(FleetToml(s))
    <3> DEFINE r == FleetToml(s)
    <3>1. codex'.lines = r
      BY <2>2 DEF Toml
    <3>2. i \notin FleetDrops(s)
      BY <1>3 DEF FleetDrops, Within, Top, Of
    <3>3. /\ Rewritten(r, s, FleetDrops(s), "cc-fleet") /\ Spares(s, FleetDrops(s))
          /\ "cc-fleet" \in Writers
      BY <1>1, WritersRewrite
    <3> HIDE DEF r, s
    <3>4. \E j \in DOMAIN r : r[j] = s[i] /\ TableOf(r, j) = TableOf(s, i)
      BY <1>1, <3>2, <3>3, Stays
    <3> QED
      BY <3>1, <3>4
  <2> QED
    BY <1>3, <2>1, <2>2 DEF FleetCodex
<1>4. ASSUME LocalCodex, NEW t \in {"top", "user"}, NEW x \in Names(s, t) \ Managed
      PROVE  x \in Names(codex'.lines, t)
  <2> DEFINE r == LocalToml(s)
  <2>1. codex'.lines = r
    BY <1>4 DEF LocalCodex, Toml
  <2>2. PICK i \in DOMAIN s : s[i].kind = "key" /\ TableOf(s, i) = t /\ s[i].name = x
    BY DEF Names
  <2>3. i \notin LocalDrops(s)
    BY <2>2 DEF LocalDrops, Within, Of
  <2>4. /\ Rewritten(r, s, LocalDrops(s), "copilot-reverse") /\ Spares(s, LocalDrops(s))
        /\ "copilot-reverse" \in Writers
    BY <1>1, WritersRewrite
  <2> HIDE DEF r, s
  <2>5. PICK j \in DOMAIN r : r[j] = s[i] /\ TableOf(r, j) = TableOf(s, i)
    BY <1>1, <2>3, <2>4, Stays
  <2>6. x \in Names(r, t)
    BY <2>2, <2>5 DEF Names
  <2> QED
    BY <2>1, <2>6
<1> QED
  BY <1>2, <1>3, <1>4

\* Rewriting the files keeps what is the user's: settings.json entry by entry, config.toml line by
\* line in its table (client-config.ts 72-91), by name in the terminal's setup (codex-toml.ts 32).
THEOREM UserContentKept == Spec => UserContentSurvives
<1>1. ConfigTypes /\ [Next]_vars =>
        [/\ FleetClaude \/ Local => claude.notes \subseteq claude'.notes
         /\ FleetCodex => \A i \in DOMAIN codex.lines :
               /\ TableOf(codex.lines, i) \notin Providers
               /\ TableOf(codex.lines, i) = "top" => codex.lines[i].name \notin Managed
               => \E j \in DOMAIN codex'.lines : /\ codex'.lines[j] = codex.lines[i]
                                                 /\ TableOf(codex'.lines, j) = TableOf(codex.lines, i)
         /\ LocalCodex => \A t \in {"top", "user"} :
               Names(codex.lines, t) \ Managed \subseteq Names(codex'.lines, t)]_vars
  BY StepKeeps, Zenon
<1> QED
  BY <1>1, TypesInit, TypesStep, PTL DEF Spec, UserContentSurvives

-----------------------------------------------------------------------------
(* config.toml is valid.                                                     *)

\* The file, and the copy that `leave` puts back; a torn file need not define its provider.
ValidFile(c) == NoDup(c.lines) /\ (c.state # "torn" => Chosen(c.lines))
ValidInv == ValidFile(codex) /\ ValidFile(backup.codex)

\* The table of a line is the top or is named by a header.
LEMMA TableIsThere ==
    ASSUME NEW s \in Seq(AnyLine), NEW i \in DOMAIN s
    PROVE  \/ TableOf(s, i) = "top"
           \/ \E h \in DOMAIN s : s[h].kind = "table" /\ s[h].name = TableOf(s, i)
<1> SUFFICES ASSUME TableOf(s, i) # "top"
             PROVE  \E h \in DOMAIN s : s[h].kind = "table" /\ s[h].name = TableOf(s, i)
  OBVIOUS
<1>1. i \in 1..Len(s) /\ i \in Nat /\ DOMAIN s = 1..Len(s) /\ Len(s) \in Nat
  OBVIOUS
<1>2. PICK h \in 1..i : HeaderOf(s, i, h)
  BY <1>1, TopMeans
<1>3. h \in DOMAIN s /\ s[h].kind = "table"
  BY <1>1, <1>2 DEF HeaderOf
<1>4. TableOf(s, i) = s[h].name
  BY <1>1, <1>2, TableIs
<1> QED
  BY <1>3, <1>4

\* A key put first that is nowhere yet, and is not the choice of a provider.
LEMMA FirstKeyIsValid ==
    ASSUME NEW s \in Seq(AnyLine), NEW k \in AnyLine, k.kind = "key", k.name # "model_provider",
           k.name \notin {s[i].name : i \in DOMAIN s}, NEW r, r = <<k>> \o s, NoDup(s)
    PROVE  NoDup(r) /\ (Chosen(s) => Chosen(r))
<1> DEFINE n == Len(s)
<1>0. KeyFirst(r, s, k)
  BY FirstKey, Zenon
<1>1. /\ DOMAIN r = 1..(n + 1) /\ r[1] = k
      /\ \A i \in 1..n : r[i + 1] = s[i] /\ TableOf(r, i + 1) = TableOf(s, i)
  BY <1>0 DEF KeyFirst
<1>2. n \in Nat /\ DOMAIN s = 1..n
  OBVIOUS
<1> HIDE DEF n
<1>3. \A j \in DOMAIN r : j = 1 \/ \E i \in 1..n : j = i + 1
  <2>1. \A j \in 1..(n + 1) : j # 1 => j - 1 \in 1..n /\ j = (j - 1) + 1
    BY <1>2
  <2> QED
    BY <1>1, <2>1
<1>4. \A i \in 1..n : s[i].name # k.name
  BY <1>2
<1>5. ASSUME NEW i \in DOMAIN r, NEW j \in DOMAIN r,
             i # j, r[i].kind = r[j].kind, r[i].name = r[j].name
      PROVE  r[i].kind = "key" /\ TableOf(r, i) # TableOf(r, j)
  <2>1. i # 1 /\ j # 1
    BY <1>1, <1>3, <1>4, <1>5
  <2>2. PICK x \in 1..n : i = x + 1
    BY <1>3, <2>1
  <2>3. PICK y \in 1..n : j = y + 1
    BY <1>3, <2>1
  <2>4. /\ r[i] = s[x] /\ r[j] = s[y] /\ x # y
        /\ TableOf(r, i) = TableOf(s, x) /\ TableOf(r, j) = TableOf(s, y)
    BY <1>1, <1>5, <2>2, <2>3
  <2> QED
    BY <1>2, <1>5, <2>4 DEF NoDup
<1>6. NoDup(r)
  BY <1>5 DEF NoDup
<1>7. ASSUME Chosen(s), NEW j \in DOMAIN r, TableOf(r, j) = "top", r[j].kind = "key",
             r[j].name = "model_provider"
      PROVE  \E z \in DOMAIN r : r[z] = Header(r[j].by)
  <2>1. PICK x \in 1..n : j = x + 1
    BY <1>1, <1>3, <1>7
  <2>2. r[j] = s[x] /\ TableOf(s, x) = "top"
    BY <1>1, <1>7, <2>1
  <2>3. PICK y \in DOMAIN s : s[y] = Header(s[x].by)
    BY <1>2, <1>7, <2>2 DEF Chosen, Top, Of
  <2>4. y + 1 \in DOMAIN r /\ r[y + 1] = s[y]
    BY <1>1, <1>2
  <2> QED
    BY <2>2, <2>3, <2>4
<1> QED
  BY <1>6, <1>7 DEF Chosen, Top, Of

\* A table put last whose name is nowhere yet.
LEMMA LastTableIsValid ==
    ASSUME NEW s \in Seq(AnyLine), "user" \notin {s[i].name : i \in DOMAIN s}, NoDup(s),
           NEW r, r = s \o UserTable
    PROVE  NoDup(r) /\ (Chosen(s) => Chosen(r))
<1> DEFINE n == Len(s)
<1>1. TableLast(r, s, n)
  BY LastTable, Zenon
<1> HIDE DEF n
<1>2. /\ DOMAIN r = 1..(n + 2) /\ DOMAIN s = 1..n /\ n \in Nat
      /\ r[n + 1] = Header("user") /\ r[n + 2] = Key("model", "user")
      /\ TableOf(r, n + 1) = "user" /\ TableOf(r, n + 2) = "user"
      /\ \A i \in 1..n : r[i] = s[i] /\ TableOf(r, i) = TableOf(s, i)
  BY <1>1 DEF TableLast
<1>3. \A i \in DOMAIN r : i \in 1..n \/ i = n + 1 \/ i = n + 2
  BY <1>2
<1>4. \A i \in 1..n : s[i].name # "user" /\ TableOf(s, i) # "user"
  <2>1. \A i \in DOMAIN s : s[i].name # "user"
    OBVIOUS
  <2>2. ASSUME NEW i \in DOMAIN s PROVE TableOf(s, i) # "user"
    <3>1. \/ TableOf(s, i) = "top"
          \/ \E h \in DOMAIN s : s[h].kind = "table" /\ s[h].name = TableOf(s, i)
      BY TableIsThere
    <3> QED
      BY <2>1, <3>1
  <2> QED
    BY <1>2, <2>1, <2>2
<1>5. /\ r[n + 1].kind = "table" /\ r[n + 1].name = "user"
      /\ r[n + 2].kind = "key" /\ r[n + 2].name = "model"
  BY <1>2 DEF Header, Key
<1>6. ASSUME NEW i \in DOMAIN r, NEW j \in DOMAIN r,
             i # j, r[i].kind = r[j].kind, r[i].name = r[j].name
      PROVE  r[i].kind = "key" /\ TableOf(r, i) # TableOf(r, j)
  <2>1. CASE i \in 1..n /\ j \in 1..n
    BY <1>2, <1>6, <2>1 DEF NoDup
  <2>2. CASE i = n + 1 \/ j = n + 1
    BY <1>2, <1>3, <1>4, <1>5, <1>6, <2>2
  <2>3. CASE (i = n + 2 /\ j \in 1..n) \/ (j = n + 2 /\ i \in 1..n)
    BY <1>2, <1>4, <1>5, <1>6, <2>3
  <2> QED
    BY <1>3, <1>6, <2>1, <2>2, <2>3
<1>7. NoDup(r)
  BY <1>6 DEF NoDup
<1>8. ASSUME Chosen(s), NEW j \in DOMAIN r, TableOf(r, j) = "top", r[j].kind = "key",
             r[j].name = "model_provider"
      PROVE  \E z \in DOMAIN r : r[z] = Header(r[j].by)
  <2>1. j \in 1..n
    BY <1>2, <1>3, <1>8
  <2>2. r[j] = s[j] /\ TableOf(s, j) = "top"
    BY <1>2, <1>8, <2>1
  <2>3. PICK y \in DOMAIN s : s[y] = Header(s[j].by)
    BY <1>2, <1>8, <2>1, <2>2 DEF Chosen, Top, Of
  <2>4. y \in DOMAIN r /\ r[y] = s[y]
    BY <1>2
  <2> QED
    BY <2>2, <2>3, <2>4
<1> QED
  BY <1>7, <1>8 DEF Chosen, Top, Of

LEMMA ValidInit == Init => ValidInv
<1> SUFFICES ASSUME Init PROVE ValidInv
  OBVIOUS
<1>1. NoDup(<< >>) /\ Chosen(<< >>)
  BY DEF NoDup, Chosen, Top, Of
<1>2. NoDup(Plain) /\ Chosen(Plain)
  BY DEF Plain, NoDup, Chosen, Top, Of, Key
<1>3. NoDup(Plain \o UserTable) /\ Chosen(Plain \o UserTable)
  <2>1. "user" \notin {Plain[i].name : i \in DOMAIN Plain} /\ Plain \in Seq(AnyLine)
    BY FirstLines DEF Plain, Key
  <2> QED
    BY <1>2, <2>1, LastTableIsValid
<1>4. NoDup(Misplaced) /\ Chosen(Misplaced)
  <2>1. /\ DOMAIN Misplaced = 1..6 /\ Len(Misplaced) = 6
        /\ Misplaced[1] = Key("approval", "user") /\ Misplaced[2] = Header("user")
        /\ Misplaced[3] = Key("model", "copilot-reverse")
        /\ Misplaced[4] = Key("model_provider", "copilot-reverse")
        /\ Misplaced[5] = Header("copilot-reverse")
        /\ Misplaced[6] = Key("base_url", "copilot-reverse")
    BY DEF Misplaced
  <2>2. NoDup(Misplaced)
    BY <2>1 DEF NoDup, Key, Header
  <2>3. \A i \in 1..6 : Misplaced[i].kind = "key" /\ Misplaced[i].name = "model_provider" => i = 4
    BY <2>1 DEF Key, Header
  <2>4. TableOf(Misplaced, 4) # "top"
    <3>1. Misplaced[2].kind = "table" /\ 2 \in 1..4 /\ 4 \in 1..Len(Misplaced)
      BY <2>1 DEF Header
    <3> QED
      BY <3>1, FirstLines, TopMeans
  <2>5. Top(Misplaced) \cap Of(Misplaced, {"model_provider"}) = {}
    BY <2>1, <2>3, <2>4 DEF Top, Of
  <2> QED
    BY <2>2, <2>5 DEF Chosen
<1>5. \A l : NoDup(l) /\ Chosen(l) => ValidFile(Toml(l))
  BY DEF ValidFile, Toml
<1>6. ValidFile(NoCodex)
  BY <1>1 DEF ValidFile, NoCodex
<1>7. codex \in {NoCodex, Toml(Plain \o UserTable), Toml(Misplaced)}
  BY DEF Init, Plain
<1>8. ValidFile(codex)
  BY <1>3, <1>4, <1>5, <1>6, <1>7, Zenon
<1>9. backup.codex = NoCodex
  BY DEF Init
<1> QED
  BY <1>6, <1>8, <1>9 DEF ValidInv

LEMMA ValidStep == ConfigTypes /\ ValidInv /\ [Next]_vars => ValidInv'
<1> SUFFICES ASSUME ConfigTypes, ValidInv, [Next]_vars PROVE ValidInv'
  OBVIOUS
<1> DEFINE s == codex.lines
<1>1. /\ s \in Seq(AnyLine) /\ codex.state \in {"absent", "ok", "torn"}
      /\ backup = [meta |-> backup.meta, claude |-> backup.claude, codex |-> backup.codex]
      /\ ValidFile(codex) /\ ValidFile(backup.codex)
      /\ NoDup(s) /\ (codex.state # "torn" => Chosen(s))
  BY DEF ConfigTypes, CodexFiles, ValidInv, ValidFile
<1>2. \A l : NoDup(l) /\ Chosen(l) => ValidFile(Toml(l))
  BY DEF ValidFile, Toml
<1>3. ASSUME NEW l, NoDup(l), Chosen(s) => Chosen(l) PROVE ValidFile(Typed(l))
  <2>1. Typed(l).lines = l /\ (Typed(l).state # "torn" => codex.state # "torn")
    BY <1>1 DEF Typed, ConfigTypes, CodexFiles
  <2> QED
    BY <1>1, <1>3, <2>1 DEF ValidFile
<1>4. ValidFile(Toml(FleetToml(s))) /\ NoDup(FleetToml(s))
  <2>1. Rewritten(FleetToml(s), s, FleetDrops(s), "cc-fleet") /\ Drops(s, FleetDrops(s), "cc-fleet")
    BY <1>1, WritersRewrite, WritersDrop
  <2>2. "cc-fleet" \in Providers
    BY DEF Providers
  <2> HIDE DEF s
  <2>3. NoDup(FleetToml(s)) /\ Chosen(FleetToml(s))
    BY <1>1, <2>1, <2>2, RewriteIsValid
  <2> QED
    BY <1>2, <2>3
<1>5. ValidFile(Toml(LocalToml(s)))
  <2>1. /\ Rewritten(LocalToml(s), s, LocalDrops(s), "copilot-reverse")
        /\ Drops(s, LocalDrops(s), "copilot-reverse")
    BY <1>1, WritersRewrite, WritersDrop
  <2>2. "copilot-reverse" \in Providers
    BY DEF Providers
  <2> HIDE DEF s
  <2>3. NoDup(LocalToml(s)) /\ Chosen(LocalToml(s))
    BY <1>1, <2>1, <2>2, RewriteIsValid
  <2> QED
    BY <1>2, <2>3
<1>6. CASE Crash
  <2>1. backup'.codex = backup.codex
    BY <1>1, <1>6 DEF Crash
  <2>2. ValidFile([state |-> "torn", lines |-> SubSeq(FleetToml(s), 1, 2)])
    <3> DEFINE t == SubSeq(FleetToml(s), 1, 2)
    <3>1. /\ t \in Seq(AnyLine) /\ Len(t) = 2
          /\ t[1] = Key("model", "cc-fleet") /\ t[2] = Key("model_provider", "cc-fleet")
      BY <1>1, EditsAreLines
    <3> HIDE DEF t
    <3>2. DOMAIN t = 1..2
      BY <3>1
    <3>3. NoDup(t)
      BY <3>1, <3>2 DEF NoDup, Key
    <3>4. ValidFile([state |-> "torn", lines |-> t])
      BY <3>3 DEF ValidFile
    <3> QED
      BY <3>4 DEF t
  <2>3. codex' = codex \/ codex' = [state |-> "torn", lines |-> SubSeq(FleetToml(s), 1, 2)]
    BY <1>6 DEF Crash, files
  <2>4. ValidFile(codex')
    BY <1>1, <2>2, <2>3, Zenon
  <2> QED
    BY <1>1, <2>1, <2>4 DEF ValidInv
<1>7. CASE UserEdits
  <2>1. backup' = backup
    BY <1>7 DEF UserEdits
  <2>2. CASE codex' = codex
    BY <1>1, <2>1, <2>2 DEF ValidInv
  <2>3. CASE /\ "approval" \notin {s[i].name : i \in DOMAIN s}
             /\ codex' = Typed(<<Key("approval", "user")>> \o s)
    <3> DEFINE k == Key("approval", "user")
               r == <<k>> \o s
    <3>1. k \in AnyLine /\ k.kind = "key" /\ k.name = "approval"
      BY DEF Key, AnyLine, Writers
    <3> HIDE DEF k, s
    <3>2. NoDup(r) /\ (Chosen(s) => Chosen(r))
      BY <1>1, <2>3, <3>1, FirstKeyIsValid
    <3> HIDE DEF r
    <3>3. ValidFile(Typed(r))
      BY <1>3, <3>2
    <3> QED
      BY <1>1, <2>1, <2>3, <3>3 DEF ValidInv, r, k
  <2>4. CASE "user" \notin {s[i].name : i \in DOMAIN s} /\ codex' = Typed(s \o UserTable)
    <3> DEFINE r == s \o UserTable
    <3> HIDE DEF s
    <3>1. NoDup(r) /\ (Chosen(s) => Chosen(r))
      BY <1>1, <2>4, LastTableIsValid
    <3> HIDE DEF r
    <3>2. ValidFile(Typed(r))
      BY <1>3, <3>1
    <3> QED
      BY <1>1, <2>1, <2>4, <3>2 DEF ValidInv, r
  <2> QED
    BY <1>7, <2>2, <2>3, <2>4 DEF UserEdits
<1>8. CASE Copy
  <2>1. codex' = codex /\ backup'.codex \in {codex, backup.codex}
    BY <1>1, <1>8 DEF Copy, files
  <2> QED
    BY <1>1, <2>1 DEF ValidInv
<1>9. CASE WriteMeta
  <2>1. codex' = codex /\ backup'.codex = backup.codex
    BY <1>1, <1>9 DEF WriteMeta, files
  <2> QED
    BY <1>1, <2>1 DEF ValidInv
<1>10. CASE FleetCodex \/ LocalCodex
  <2>1. /\ backup' = backup
        /\ codex' \in {codex, Toml(FleetToml(s)), Toml(LocalToml(s))}
    BY <1>10 DEF FleetCodex, LocalCodex
  <2> QED
    BY <1>1, <1>4, <1>5, <2>1 DEF ValidInv
<1>11. CASE Leaves
  <2>1. /\ codex' \in {codex, backup.codex, [NoCodex EXCEPT !.state = "torn"]}
        /\ backup' = backup
    BY <1>11 DEF Leaves, Leave, LeaveClaude, LeaveCodex, LeaveCreds, LeaveCut, files
  <2>2. ValidFile([NoCodex EXCEPT !.state = "torn"])
    BY DEF ValidFile, NoCodex, NoDup
  <2> QED
    BY <1>1, <2>1, <2>2 DEF ValidInv
<1>12. CASE UNCHANGED <<codex, backup>>
  BY <1>12 DEF ValidInv
<1>13. Join \/ Start \/ HubChanges \/ Receive \/ FleetClaude \/ LocalClaude \/ ResetClaude
         \/ UNCHANGED vars => UNCHANGED <<codex, backup>>
  BY DEF Join, Start, HubChanges, Receive, FleetClaude, LocalClaude, ResetClaude, vars, files
<1> QED
  BY <1>6, <1>7, <1>8, <1>9, <1>10, <1>11, <1>12, <1>13 DEF Next, Agent, Local

\* However the writers alternate config.toml is valid: no table and no key of a table twice, and the
\* chosen provider defined (client-config.ts 72-91, codex-toml.ts).
THEOREM CodexStaysValid == Spec => []CodexIsValid
<1>1. ConfigTypes /\ ValidInv => CodexIsValid
  BY DEF ValidInv, ValidFile, NoDup, Chosen, CodexIsValid
<1> QED
  BY <1>1, TypesInit, TypesStep, ValidInit, ValidStep, PTL DEF Spec

=============================================================================

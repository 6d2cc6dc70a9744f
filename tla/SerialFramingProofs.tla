------------------------- MODULE SerialFramingProofs -------------------------
(***************************************************************************)
(* Proofs about the envelope's two readers, for every stream of bytes,     *)
(* every chunking of it and every bound on a payload's length.             *)
(*                                                                         *)
(* What the readers do is recursive, so the proofs need induction and that *)
(* a recursive function satisfies its own equation.  Both are derived here *)
(* once, for any set with a size, from the least element of a set of       *)
(* natural numbers.                                                        *)
(***************************************************************************)
EXTENDS SerialFraming, SequenceTheorems, WellFoundedInduction, TLAPS

-----------------------------------------------------------------------------
(* Induction and recursion on a size *)

Less == OpToRel(<, Nat)

\* Every set of natural numbers that has a member has a least one.
LEMMA LeastNatural ==
  ASSUME NEW T, T \subseteq Nat, T # {}
  PROVE  \E n \in T : \A m \in T : n <= m
<1>1. IsWellFoundedOn(Less, Nat)
  BY NatLessThanWellFounded DEF Less
<1>2. PICK n \in T : \A m \in T : ~(<<m, n>> \in Less)
  BY <1>1, WFMin
<1>3. \A m \in T : m < n => <<m, n>> \in Less
  BY DEF Less, OpToRel
<1>4. \A m \in T : ~(m < n)
  BY <1>2, <1>3
<1> HIDE <1>2, <1>3
<1> QED BY <1>4

\* What holds of a thing whenever it holds of all smaller ones holds of all.
LEMMA Induction ==
  ASSUME NEW S, NEW size \in [S -> Nat], NEW T,
         \A s \in S : (\A r \in S : size[r] < size[s] => r \in T) => s \in T
  PROVE  S \subseteq T
<1> SUFFICES ASSUME S \ T # {} PROVE FALSE OBVIOUS
<1> DEFINE Sizes == {size[s] : s \in S \ T}
<1>0. Sizes \subseteq Nat /\ Sizes # {} OBVIOUS
<1> HIDE DEF Sizes
<1>1. PICK n \in Sizes : \A m \in Sizes : n <= m
  BY <1>0, LeastNatural
<1> USE DEF Sizes
<1>2. PICK s \in S \ T : size[s] = n
  OBVIOUS
<1>4. \A r \in S \ T : size[r] \in Sizes OBVIOUS
<1>3. ASSUME NEW r \in S, size[r] < size[s] PROVE r \in T
  <2>1. size[r] \in Nat /\ size[s] \in Nat OBVIOUS
  <2>2. ~(size[s] <= size[r]) BY <2>1, <1>3
  <2> QED BY <2>2, <1>1, <1>2, <1>4
<1> QED BY <1>2, <1>3

\* D gives f[s] from s and from what f is on the things smaller than s.
Causal(D, S, T, size) ==
  \A s \in S : \A g, h \in [S -> T] :
    (\A r \in S : size[r] < size[s] => g[r] = h[r]) => D[<<s, g>>] = D[<<s, h>>]

Soluble(D, S, T) == \E f \in [S -> T] : \A s \in S : f[s] = D[<<s, f>>]

LEMMA Arith == \A a, b, n \in Nat : /\ a < b /\ b < n => a < n
                                    /\ a < b /\ b < n + 1 => a < n
                                    /\ ~(a < 0) /\ a < a + 1
                                    /\ \A c \in Nat : a < b + 1 /\ b < c => a < c + 1
                                    /\ a < b + 1 => a < b \/ a = b
OBVIOUS

\* Then there is such an f.
LEMMA Recursion ==
  ASSUME NEW S, NEW size \in [S -> Nat], NEW T, T # {}, NEW D \in [S \X [S -> T] -> T],
         Causal(D, S, T, size)
  PROVE  Soluble(D, S, T)
<1> DEFINE Solves(f, n) == \A s \in S : size[s] < n => f[s] = D[<<s, f>>]
           Solvable == {n \in Nat : \E f \in [S -> T] : Solves(f, n)}
\* two solutions agree
<1>1. ASSUME NEW n \in Nat, NEW f \in [S -> T], NEW g \in [S -> T], Solves(f, n), Solves(g, n)
      PROVE  \A s \in S : size[s] < n => f[s] = g[s]
  <2> DEFINE Agree == {s \in S : size[s] < n => f[s] = g[s]}
  <2>1. \A s \in S : (\A r \in S : size[r] < size[s] => r \in Agree) => s \in Agree
    <3> SUFFICES ASSUME NEW s \in S, \A r \in S : size[r] < size[s] => r \in Agree, size[s] < n
                 PROVE  f[s] = g[s]
        OBVIOUS
    <3>0. size[s] \in Nat /\ \A r \in S : size[r] \in Nat OBVIOUS
    <3>1. \A r \in S : size[r] < size[s] => f[r] = g[r]
      <4> SUFFICES ASSUME NEW r \in S, size[r] < size[s] PROVE f[r] = g[r] OBVIOUS
      <4>1. r \in Agree OBVIOUS
      <4>2. size[r] < n BY <3>0, Arith
      <4> QED BY <4>1, <4>2
    <3>2. D[<<s, f>>] = D[<<s, g>>] BY <3>1 DEF Causal
    <3> QED BY <3>2, <1>1
  <2> HIDE DEF Agree
  <2>2. S \subseteq Agree BY <2>1, Induction
  <2> QED BY <2>2 DEF Agree
<1>2. 0 \in Solvable
  <2>1. PICK t \in T : TRUE OBVIOUS
  <2>2. [s \in S |-> t] \in [S -> T] OBVIOUS
  <2>3. \A s \in S : ~(size[s] < 0)
    BY Arith
  <2> QED BY <2>2, <2>3
<1>3. ASSUME NEW n \in Nat, n \in Solvable PROVE n + 1 \in Solvable
  <2>1. PICK f \in [S -> T] : Solves(f, n) BY <1>3
  <2> DEFINE g == [s \in S |-> D[<<s, f>>]]
  <2>2. g \in [S -> T] OBVIOUS
  <2>3. \A s \in S : size[s] < n => g[s] = f[s] BY <2>1
  <2>4. ASSUME NEW s \in S, size[s] < n + 1 PROVE g[s] = D[<<s, g>>]
    <3>1. \A r \in S : size[r] < size[s] => f[r] = g[r]
      <4> SUFFICES ASSUME NEW r \in S, size[r] < size[s] PROVE size[r] < n BY <2>3
      <4> size[r] \in Nat /\ size[s] \in Nat OBVIOUS
      <4> QED BY <2>4, Arith
    <3> HIDE DEF g
    <3>2. D[<<s, f>>] = D[<<s, g>>] BY <3>1, <2>2 DEF Causal
    <3> QED BY <3>2 DEF g
  <2> HIDE DEF g
  <2>5. n + 1 \in Nat OBVIOUS
  <2>6. Solves(g, n + 1) BY <2>4
  <2> QED BY <2>2, <2>5, <2>6
<1>4. Nat \subseteq Solvable
  <2> DEFINE id == [n \in Nat |-> n]
  <2>1. id \in [Nat -> Nat] OBVIOUS
  <2>2. ASSUME NEW n \in Nat, \A m \in Nat : id[m] < id[n] => m \in Solvable
        PROVE  n \in Solvable
    <3>1. CASE n = 0 BY <3>1, <1>2
    <3>2. CASE n # 0
      <4>1. n - 1 \in Nat /\ id[n - 1] < id[n] BY <3>2
      <4>2. n - 1 \in Solvable BY <2>2, <4>1
      <4>3. (n - 1) + 1 \in Solvable BY <4>2, <1>3
      <4>4. (n - 1) + 1 = n OBVIOUS
      <4> HIDE DEF Solvable
      <4> QED BY <4>3, <4>4
    <3> QED BY <3>1, <3>2
  <2> HIDE DEF id, Solvable
  <2> QED BY <2>1, <2>2, Induction
<1> DEFINE sol(s) == CHOOSE f \in [S -> T] : Solves(f, size[s] + 1)
           F == [s \in S |-> sol(s)[s]]
<1>5. \A s \in S : sol(s) \in [S -> T] /\ Solves(sol(s), size[s] + 1)
  <2> TAKE s \in S
  <2>1. size[s] + 1 \in Nat OBVIOUS
  <2>2. \E f \in [S -> T] : Solves(f, size[s] + 1) BY <2>1, <1>4
  <2> HIDE DEF Solves
  <2> QED BY <2>2
<1> HIDE DEF sol
<1>6. F \in [S -> T] BY <1>5
<1>7. ASSUME NEW s \in S PROVE F[s] = D[<<s, F>>]
  <2>1. sol(s)[s] = D[<<s, sol(s)>>]
    <3>1. size[s] < size[s] + 1 BY Arith
    <3> QED BY <1>5, <3>1
  <2>2. ASSUME NEW r \in S, size[r] < size[s] PROVE F[r] = sol(s)[r]
    <3> size[r] \in Nat /\ size[s] \in Nat OBVIOUS
    <3>1. Solves(sol(r), size[r] + 1) BY <1>5
    <3>2. Solves(sol(s), size[r] + 1)
      <4> SUFFICES ASSUME NEW q \in S, size[q] < size[r] + 1 PROVE sol(s)[q] = D[<<q, sol(s)>>] OBVIOUS
      <4>1. size[q] < size[s] + 1 BY <2>2, Arith
      <4> QED BY <4>1, <1>5
    <3> HIDE DEF Solves
    <3>4. size[r] + 1 \in Nat OBVIOUS
    <3>5. sol(r) \in [S -> T] /\ sol(s) \in [S -> T] BY <1>5
    <3>6. r \in S /\ size[r] < size[r] + 1 BY Arith
    <3>3. \A q \in S : size[q] < size[r] + 1 => sol(r)[q] = sol(s)[q]
      BY <3>1, <3>2, <3>4, <3>5, <1>1
    <3> QED BY <3>3, <3>6
  <2> HIDE DEF F
  <2>3. D[<<s, F>>] = D[<<s, sol(s)>>] BY <2>2, <1>5, <1>6 DEF Causal
  <2> QED BY <2>1, <2>3 DEF F
<1> HIDE DEF F
<1> QED BY <1>6, <1>7 DEF Soluble

-----------------------------------------------------------------------------
(* Sequences *)

LEMMA SuffixProperties ==
  ASSUME NEW S, NEW s \in Seq(S), NEW k \in 0 .. Len(s)
  PROVE  /\ SubSeq(s, k + 1, Len(s)) \in Seq(S)
         /\ Len(SubSeq(s, k + 1, Len(s))) = Len(s) - k
         /\ \A i \in 1 .. Len(s) - k : SubSeq(s, k + 1, Len(s))[i] = s[k + i]
<1>1. Len(s) \in Nat /\ k \in Nat BY LenProperties
<1>2. \A i \in k + 1 .. Len(s) : s[i] \in S BY <1>1, LenProperties
<1>3. k + 1 \in Int /\ Len(s) \in Int BY <1>1
<1> DEFINE v == SubSeq(s, k + 1, Len(s))
<1>4. /\ v \in Seq(S)
      /\ Len(v) = IF k + 1 <= Len(s) THEN Len(s) - (k + 1) + 1 ELSE 0
      /\ \A i \in 1 .. Len(s) - (k + 1) + 1 : v[i] = s[(k + 1) + i - 1]
  BY <1>2, <1>3, SubSeqProperties
<1>5. \A i \in 1 .. Len(s) - k : (k + 1) + i - 1 = k + i BY <1>1
<1>6. Len(s) - (k + 1) + 1 = Len(s) - k BY <1>1
<1> HIDE DEF v
<1>7. Len(v) = Len(s) - k BY <1>1, <1>4
<1>8. \A i \in 1 .. Len(s) - k : v[i] = s[k + i] BY <1>4, <1>5, <1>6
<1> QED BY <1>4, <1>7, <1>8 DEF v

LEMMA PrefixProperties ==
  ASSUME NEW S, NEW s \in Seq(S), NEW k \in 0 .. Len(s)
  PROVE  /\ SubSeq(s, 1, k) \in Seq(S)
         /\ Len(SubSeq(s, 1, k)) = k
         /\ \A i \in 1 .. k : SubSeq(s, 1, k)[i] = s[i]
<1>1. Len(s) \in Nat /\ k \in Nat BY LenProperties
<1>2. \A i \in 1 .. k : s[i] \in S BY <1>1, LenProperties
<1> DEFINE v == SubSeq(s, 1, k)
<1>4. /\ v \in Seq(S)
      /\ Len(v) = IF 1 <= k THEN k - 1 + 1 ELSE 0
      /\ \A i \in 1 .. k - 1 + 1 : v[i] = s[1 + i - 1]
  BY <1>1, <1>2, SubSeqProperties
<1>5. \A i \in 1 .. k : 1 + i - 1 = i BY <1>1
<1>6. k - 1 + 1 = k BY <1>1
<1> QED BY <1>1, <1>4, <1>5, <1>6

LEMMA SuffixOfSuffix ==
  ASSUME NEW S, NEW s \in Seq(S), NEW k \in 0 .. Len(s),
         NEW v, v = SubSeq(s, k + 1, Len(s)), NEW j \in 0 .. Len(s) - k
  PROVE  SubSeq(v, j + 1, Len(v)) = SubSeq(s, k + j + 1, Len(s))
<1>1. Len(s) \in Nat /\ k \in Nat /\ j \in Nat /\ k + j \in 0 .. Len(s) BY LenProperties
<1>2. v \in Seq(S) /\ Len(v) = Len(s) - k /\ \A i \in 1 .. Len(s) - k : v[i] = s[k + i]
  BY SuffixProperties
<1>3. j \in 0 .. Len(v) BY <1>2
<1> DEFINE a == SubSeq(v, j + 1, Len(v))
           b == SubSeq(s, (k + j) + 1, Len(s))
<1>4. a \in Seq(S) /\ Len(a) = Len(v) - j /\ \A i \in 1 .. Len(v) - j : a[i] = v[j + i]
  BY <1>2, <1>3, SuffixProperties
<1>5. b \in Seq(S) /\ Len(b) = Len(s) - (k + j)
      /\ \A i \in 1 .. Len(s) - (k + j) : b[i] = s[(k + j) + i]
  BY <1>1, SuffixProperties
<1> HIDE DEF a, b
<1>6. Len(a) = Len(b) BY <1>1, <1>2, <1>4, <1>5
<1>7. ASSUME NEW i \in 1 .. Len(a) PROVE a[i] = b[i]
  <2>1. i \in 1 .. Len(v) - j /\ j + i \in 1 .. Len(s) - k /\ i \in 1 .. Len(s) - (k + j)
    BY <1>1, <1>2, <1>4
  <2>2. a[i] = s[k + (j + i)] BY <2>1, <1>4, <1>2
  <2>3. b[i] = s[(k + j) + i] BY <2>1, <1>5
  <2> QED BY <2>1, <2>2, <2>3, <1>1
<1>8. a = b BY <1>4, <1>5, <1>6, <1>7, SeqEqual
<1> QED BY <1>8 DEF a, b

\* The rest of a concatenation, from inside its first part on.
LEMMA SuffixOfConcat ==
  ASSUME NEW S, NEW s \in Seq(S), NEW u \in Seq(S), NEW k \in 0 .. Len(s)
  PROVE  SubSeq(s \o u, k + 1, Len(s \o u)) = SubSeq(s, k + 1, Len(s)) \o u
<1>1. Len(s) \in Nat /\ Len(u) \in Nat /\ k \in Nat BY LenProperties
<1>2. s \o u \in Seq(S) /\ Len(s \o u) = Len(s) + Len(u)
      /\ \A i \in 1 .. Len(s) + Len(u) :
           (s \o u)[i] = IF i <= Len(s) THEN s[i] ELSE u[i - Len(s)]
  BY ConcatProperties
<1>3. k \in 0 .. Len(s \o u) BY <1>1, <1>2
<1> DEFINE a == SubSeq(s \o u, k + 1, Len(s \o u))
           v == SubSeq(s, k + 1, Len(s))
           b == v \o u
<1>4. a \in Seq(S) /\ Len(a) = Len(s \o u) - k
      /\ \A i \in 1 .. Len(s \o u) - k : a[i] = (s \o u)[k + i]
  BY <1>2, <1>3, SuffixProperties
<1>5. v \in Seq(S) /\ Len(v) = Len(s) - k /\ \A i \in 1 .. Len(s) - k : v[i] = s[k + i]
  BY SuffixProperties
<1>6. b \in Seq(S) /\ Len(b) = Len(v) + Len(u)
      /\ \A i \in 1 .. Len(v) + Len(u) : b[i] = IF i <= Len(v) THEN v[i] ELSE u[i - Len(v)]
  BY <1>5, ConcatProperties
<1> HIDE DEF a, b, v
<1>7. Len(a) = Len(b) BY <1>1, <1>2, <1>4, <1>5, <1>6
<1>8. ASSUME NEW i \in 1 .. Len(a) PROVE a[i] = b[i]
  <2>1. i \in Int /\ 1 <= i /\ k + i \in 1 .. Len(s) + Len(u)
        /\ i \in 1 .. Len(s \o u) - k /\ i \in 1 .. Len(v) + Len(u)
    BY <1>1, <1>2, <1>4, <1>5
  <2>2. a[i] = (s \o u)[k + i] BY <2>1, <1>4
  <2>3. a[i] = IF k + i <= Len(s) THEN s[k + i] ELSE u[(k + i) - Len(s)]
    BY <2>1, <2>2, <1>2
  <2>4. b[i] = IF i <= Len(s) - k THEN v[i] ELSE u[i - (Len(s) - k)]
    BY <2>1, <1>5, <1>6
  <2>5. k + i <= Len(s) <=> i <= Len(s) - k BY <2>1, <1>1
  <2>6. (k + i) - Len(s) = i - (Len(s) - k) BY <2>1, <1>1
  <2>7. CASE i <= Len(s) - k BY <2>7, <2>3, <2>4, <2>5, <2>1, <1>5
  <2>8. CASE ~(i <= Len(s) - k) BY <2>8, <2>3, <2>4, <2>5, <2>6
  <2> QED BY <2>7, <2>8
<1>9. a = b BY <1>4, <1>6, <1>7, <1>8, SeqEqual
<1> QED BY <1>9 DEF a, b, v

-----------------------------------------------------------------------------
(* Finding the next header *)

LEMMA ByteFacts == Sync0 \in Byte /\ Sync1 \in Byte /\ Lengths \subseteq Byte /\ Lengths \subseteq Nat
<1>1. Sync0 \in Byte /\ Sync1 \in Byte /\ Lengths \subseteq Byte BY DEF Byte
<1>2. Lengths \subseteq Nat BY LengthsAssumption DEF Lengths
<1> QED BY <1>1, <1>2

LEMMA SyncsAreIndices ==
  ASSUME NEW s \in Seq(Byte)
  PROVE  Syncs(s) \subseteq Nat /\ \A i \in Syncs(s) : i - 1 \in 0 .. Len(s) /\ i + 1 \in 1 .. Len(s)
<1>1. Len(s) \in Nat BY LenProperties
<1> QED BY <1>1 DEF Syncs

LEMMA FromSyncAt ==
  ASSUME NEW s \in Seq(Byte), NEW i \in Syncs(s), \A j \in Syncs(s) : i <= j
  PROVE  FromSync(s) = SubSeq(s, i, Len(s))
<1> DEFINE Least(k) == \A j \in Syncs(s) : k <= j
<1>1. Syncs(s) # {} OBVIOUS
<1>2. Syncs(s) \subseteq Nat BY SyncsAreIndices
<1>3. \A k \in Syncs(s) : Least(k) => k = i BY <1>2
<1>4. (CHOOSE k \in Syncs(s) : Least(k)) = i BY <1>3
<1>5. FromSync(s) = SubSeq(s, CHOOSE k \in Syncs(s) : Least(k), Len(s))
  BY <1>1 DEF FromSync
<1> QED BY <1>4, <1>5

LEMMA FromSyncNone ==
  ASSUME NEW s \in Seq(Byte), Syncs(s) = {}
  PROVE  FromSync(s) = IF s # <<>> /\ s[Len(s)] = Sync0 THEN <<Sync0>> ELSE <<>>
BY DEF FromSync, Last

LEMMA LeastSync ==
  ASSUME NEW s \in Seq(Byte), Syncs(s) # {}
  PROVE  \E i \in Syncs(s) : \A j \in Syncs(s) : i <= j
BY SyncsAreIndices, LeastNatural

\* What is discarded in front is discarded byte for byte: k bytes, none of which
\* begins a sync pair or is a last half of one, make no difference.
LEMMA SkipPrefix ==
  ASSUME NEW s \in Seq(Byte), NEW k \in 0 .. Len(s),
         \A i \in Syncs(s) : k < i,
         k < Len(s) \/ s = <<>> \/ s[Len(s)] # Sync0
  PROVE  FromSync(SubSeq(s, k + 1, Len(s))) = FromSync(s)
<1> DEFINE v == SubSeq(s, k + 1, Len(s))
<1>1. Len(s) \in Nat /\ k \in Nat /\ k <= Len(s) BY LenProperties
<1>2. v \in Seq(Byte) /\ Len(v) = Len(s) - k /\ \A i \in 1 .. Len(s) - k : v[i] = s[k + i]
  BY SuffixProperties
<1>d. v = SubSeq(s, k + 1, Len(s)) OBVIOUS
<1> HIDE DEF v
<1>3. \A i \in Syncs(v) : k + i \in Syncs(s)
  <2> TAKE i \in Syncs(v)
  <2>1. i \in 1 .. Len(v) - 1 /\ v[i] = Sync0 /\ v[i + 1] = Sync1 BY DEF Syncs
  <2>2. i \in 1 .. Len(s) - k /\ i + 1 \in 1 .. Len(s) - k /\ k + i \in 1 .. Len(s) - 1
        /\ k + (i + 1) = (k + i) + 1
    BY <2>1, <1>1, <1>2
  <2> QED BY <2>1, <2>2, <1>2 DEF Syncs
<1>4. \A i \in Syncs(s) : i - k \in Syncs(v)
  <2> TAKE i \in Syncs(s)
  <2>1. i \in 1 .. Len(s) - 1 /\ s[i] = Sync0 /\ s[i + 1] = Sync1 /\ k < i BY DEF Syncs
  <2>2. i - k \in 1 .. Len(s) - k /\ (i - k) + 1 \in 1 .. Len(s) - k /\ i - k \in 1 .. Len(v) - 1
        /\ k + (i - k) = i /\ k + ((i - k) + 1) = i + 1
    BY <2>1, <1>1, <1>2
  <2> QED BY <2>1, <2>2, <1>2 DEF Syncs
<1>5. CASE Syncs(s) # {}
  <2>1. PICK i \in Syncs(s) : \A j \in Syncs(s) : i <= j BY <1>5, LeastSync
  <2>2. i \in Nat /\ k < i /\ i <= Len(s) BY <1>1 DEF Syncs
  <2>3. i - k \in Syncs(v) BY <1>4
  <2>4. \A j \in Syncs(v) : i - k <= j
    <3> TAKE j \in Syncs(v)
    <3>1. j \in Nat BY <1>2, SyncsAreIndices
    <3>2. i <= k + j BY <2>1, <1>3
    <3> QED BY <3>1, <3>2, <2>2, <1>1
  <2>5. FromSync(v) = SubSeq(v, i - k, Len(v)) BY <2>3, <2>4, <1>2, FromSyncAt
  <2>6. FromSync(s) = SubSeq(s, i, Len(s)) BY <2>1, FromSyncAt
  <2> DEFINE j == i - k - 1
  <2>7. j \in 0 .. Len(s) - k /\ j + 1 = i - k /\ k + j + 1 = i BY <2>2, <1>1
  <2>8. SubSeq(v, j + 1, Len(v)) = SubSeq(s, k + j + 1, Len(s))
    BY <2>7, <1>d, SuffixOfSuffix
  <2> QED BY <2>5, <2>6, <2>7, <2>8, <1>d
<1>6. CASE Syncs(s) = {}
  <2>1. Syncs(v) = {} BY <1>3, <1>6
  <2>2. FromSync(s) = IF s # <<>> /\ s[Len(s)] = Sync0 THEN <<Sync0>> ELSE <<>>
    BY <1>6, FromSyncNone
  <2>3. FromSync(v) = IF v # <<>> /\ v[Len(v)] = Sync0 THEN <<Sync0>> ELSE <<>>
    BY <2>1, <1>2, FromSyncNone
  <2>4. CASE k < Len(s)
    <3>1. s # <<>> /\ v # <<>> BY <2>4, <1>1, <1>2, EmptySeq
    <3>2. Len(v) \in 1 .. Len(s) - k /\ k + Len(v) = Len(s) BY <2>4, <1>1, <1>2
    <3>3. v[Len(v)] = s[Len(s)] BY <3>2, <1>2
    <3> QED BY <3>1, <3>3, <2>2, <2>3, <1>d
  <2>5. CASE ~(k < Len(s))
    <3>1. v = <<>> BY <2>5, <1>1, <1>2, EmptySeq
    <3> QED BY <3>1, <2>5, <2>2, <2>3, <1>d
  <2> QED BY <2>4, <2>5
<1> QED BY <1>5, <1>6

\* What is left is the end of what there was, and nothing in front of it mattered.
LEMMA FromSyncIsSuffix ==
  ASSUME NEW s \in Seq(Byte)
  PROVE  \E k \in 0 .. Len(s) :
           /\ FromSync(s) = SubSeq(s, k + 1, Len(s))
           /\ \A i \in Syncs(s) : k < i
           /\ k < Len(s) \/ s = <<>> \/ s[Len(s)] # Sync0
<1>1. Len(s) \in Nat BY LenProperties
<1>2. CASE Syncs(s) # {}
  <2>1. PICK i \in Syncs(s) : \A j \in Syncs(s) : i <= j BY <1>2, LeastSync
  <2>2. FromSync(s) = SubSeq(s, i, Len(s)) BY <2>1, FromSyncAt
  <2>3. i \in Nat /\ i - 1 \in 0 .. Len(s) /\ i - 1 < Len(s) /\ (i - 1) + 1 = i
    BY <1>1 DEF Syncs
  <2>4. \A j \in Syncs(s) : i - 1 < j BY <2>1, <2>3, SyncsAreIndices
  <2> QED BY <2>2, <2>3, <2>4
<1>3. CASE Syncs(s) = {} /\ s # <<>> /\ s[Len(s)] = Sync0
  <2>1. FromSync(s) = <<Sync0>> BY <1>3, FromSyncNone
  <2>2. Len(s) # 0 BY <1>3, EmptySeq
  <2> DEFINE k == Len(s) - 1
             v == SubSeq(s, k + 1, Len(s))
  <2>3. k \in 0 .. Len(s) /\ k < Len(s) /\ Len(s) - k = 1 /\ k + 1 = Len(s) BY <2>2, <1>1
  <2>4. v \in Seq(Byte) /\ Len(v) = 1 /\ v[1] = s[k + 1]
    <3>1. v \in Seq(Byte) /\ Len(v) = Len(s) - k /\ \A i \in 1 .. Len(s) - k : v[i] = s[k + i]
      BY <2>3, SuffixProperties
    <3> HIDE DEF v
    <3> QED BY <3>1, <2>3
  <2> HIDE DEF v
  <2>5. <<Sync0>> \in Seq(Byte) /\ Len(<<Sync0>>) = 1 /\ <<Sync0>>[1] = Sync0 BY ByteFacts
  <2>6. \A i \in 1 .. Len(v) : v[i] = <<Sync0>>[i] BY <2>3, <2>4, <2>5, <1>3
  <2>7. v = <<Sync0>> BY <2>4, <2>5, <2>6, SeqEqual
  <2> QED BY <2>1, <2>3, <2>7, <1>3 DEF v
<1>4. CASE Syncs(s) = {} /\ ~(s # <<>> /\ s[Len(s)] = Sync0)
  <2>1. FromSync(s) = <<>> BY <1>4, FromSyncNone
  <2>2. Len(s) \in 0 .. Len(s) BY <1>1
  <2>3. SubSeq(s, Len(s) + 1, Len(s)) = <<>> BY <1>1, SubSeqEmpty
  <2> QED BY <2>1, <2>2, <2>3, <1>4
<1> QED BY <1>2, <1>3, <1>4

LEMMA FromSyncType ==
  ASSUME NEW s \in Seq(Byte)
  PROVE  /\ FromSync(s) \in Seq(Byte)
         /\ Len(FromSync(s)) \in Nat /\ Len(s) \in Nat /\ Len(FromSync(s)) <= Len(s)
         /\ FromSync(FromSync(s)) = FromSync(s)
<1>1. PICK k \in 0 .. Len(s) :
           /\ FromSync(s) = SubSeq(s, k + 1, Len(s))
           /\ \A i \in Syncs(s) : k < i
           /\ k < Len(s) \/ s = <<>> \/ s[Len(s)] # Sync0
  BY FromSyncIsSuffix
<1>2. FromSync(s) \in Seq(Byte) /\ Len(FromSync(s)) = Len(s) - k BY <1>1, SuffixProperties
<1>3. FromSync(FromSync(s)) = FromSync(s) BY <1>1, SkipPrefix
<1>4. Len(s) \in Nat BY LenProperties
<1>5. Len(FromSync(s)) \in Nat /\ Len(FromSync(s)) <= Len(s) BY <1>2, <1>4
<1> QED BY <1>2, <1>3, <1>4, <1>5

\* Bytes that come later are looked at behind what is left, as if nothing had been
\* discarded.
LEMMA FromSyncConcat ==
  ASSUME NEW s \in Seq(Byte), NEW u \in Seq(Byte)
  PROVE  FromSync(s \o u) = FromSync(FromSync(s) \o u)
<1>1. PICK k \in 0 .. Len(s) :
           /\ FromSync(s) = SubSeq(s, k + 1, Len(s))
           /\ \A i \in Syncs(s) : k < i
           /\ k < Len(s) \/ s = <<>> \/ s[Len(s)] # Sync0
  BY FromSyncIsSuffix
<1>2. Len(s) \in Nat /\ Len(u) \in Nat /\ k \in Nat /\ k <= Len(s) BY LenProperties
<1> DEFINE x == s \o u
<1>3. x \in Seq(Byte) /\ Len(x) = Len(s) + Len(u)
      /\ \A i \in 1 .. Len(s) + Len(u) : x[i] = IF i <= Len(s) THEN s[i] ELSE u[i - Len(s)]
  BY ConcatProperties
<1>4. SubSeq(x, k + 1, Len(x)) = FromSync(s) \o u BY <1>1, SuffixOfConcat
<1>e. u = <<>> => x = s BY ConcatEmptySeq
<1> HIDE DEF x
<1>5. k \in 0 .. Len(x) BY <1>2, <1>3
<1>6. \A i \in Syncs(x) : k < i
  <2> SUFFICES ASSUME NEW i \in Syncs(x), ~(k < i) PROVE FALSE OBVIOUS
  <2>1. i \in 1 .. Len(x) - 1 /\ x[i] = Sync0 /\ x[i + 1] = Sync1 BY DEF Syncs
  <2>2. i \in Nat /\ 1 <= i /\ i <= k BY <2>1, <1>2, <1>3
  <2>3. i \in 1 .. Len(s) + Len(u) /\ i + 1 \in 1 .. Len(s) + Len(u) /\ i <= Len(s)
    BY <2>1, <2>2, <1>2, <1>3
  <2>4. s[i] = Sync0 BY <2>1, <2>3, <1>3
  <2>5. CASE i < Len(s)
    <3>1. s[i + 1] = Sync1 /\ i \in 1 .. Len(s) - 1 BY <2>1, <2>2, <2>3, <2>5, <1>2, <1>3
    <3>2. i \in Syncs(s) BY <3>1, <2>4 DEF Syncs
    <3>3. k < i BY <3>2, <1>1
    <3> QED BY <3>3, <2>2, <1>2
  <2>6. CASE ~(i < Len(s))
    <3>1. i = Len(s) /\ k = Len(s) BY <2>2, <2>3, <2>6, <1>2
    <3>2. s # <<>> BY <3>1, <2>2, EmptySeq
    <3>3. ~(k < Len(s)) BY <3>1, <1>2
    <3>4. s[Len(s)] = Sync0 BY <3>1, <2>4
    <3> QED BY <3>2, <3>3, <3>4, <1>1
  <2> QED BY <2>5, <2>6
<1>7. k < Len(x) \/ x = <<>> \/ x[Len(x)] # Sync0
  <2>1. CASE u = <<>> BY <2>1, <1>e, <1>1
  <2>2. CASE u # <<>>
    <3>1. Len(u) # 0 BY <2>2, EmptySeq
    <3> QED BY <3>1, <1>2, <1>3
  <2> QED BY <2>1, <2>2
<1>8. FromSync(SubSeq(x, k + 1, Len(x))) = FromSync(x) BY <1>3, <1>5, <1>6, <1>7, SkipPrefix
<1> QED BY <1>4, <1>8 DEF x

\* What is left and has two bytes begins with a sync pair; what does stays.
Headed(t) == Len(t) >= 2 /\ t[1] = Sync0 /\ t[2] = Sync1

LEMMA LeftIsHeaded ==
  ASSUME NEW s \in Seq(Byte), Len(FromSync(s)) >= 2
  PROVE  Headed(FromSync(s))
<1>1. Len(s) \in Nat BY LenProperties
<1>2. Syncs(s) # {}
  <2> SUFFICES ASSUME Syncs(s) = {} PROVE FALSE OBVIOUS
  <2>1. FromSync(s) = <<Sync0>> \/ FromSync(s) = <<>> BY FromSyncNone
  <2>2. CASE FromSync(s) = <<Sync0>>
    <3>1. Len(FromSync(s)) = 1 BY <2>2
    <3> QED BY <3>1
  <2>3. CASE FromSync(s) = <<>>
    <3>1. Len(FromSync(s)) = 0 BY <2>3
    <3> QED BY <3>1
  <2> QED BY <2>1, <2>2, <2>3
<1>3. PICK i \in Syncs(s) : \A j \in Syncs(s) : i <= j BY <1>2, LeastSync
<1>4. FromSync(s) = SubSeq(s, i, Len(s)) BY <1>3, FromSyncAt
<1>5. i \in 1 .. Len(s) - 1 /\ s[i] = Sync0 /\ s[i + 1] = Sync1 BY DEF Syncs
<1> DEFINE k == i - 1
<1>6. k \in 0 .. Len(s) /\ k + 1 = i /\ k + 2 = i + 1 /\ 1 \in 1 .. Len(s) - k
      /\ 2 \in 1 .. Len(s) - k
  BY <1>1, <1>5
<1>7. \A j \in 1 .. Len(s) - k : SubSeq(s, k + 1, Len(s))[j] = s[k + j]
  BY <1>6, SuffixProperties
<1> HIDE DEF k
<1> QED BY <1>4, <1>5, <1>6, <1>7 DEF Headed

LEMMA HeadedStays ==
  ASSUME NEW t \in Seq(Byte), Headed(t)
  PROVE  FromSync(t) = t
<1>1. Len(t) \in Nat BY LenProperties
<1>2. 1 \in Syncs(t) BY <1>1 DEF Headed, Syncs
<1>3. \A j \in Syncs(t) : 1 <= j BY <1>1 DEF Syncs
<1>4. FromSync(t) = SubSeq(t, 1, Len(t)) BY <1>2, <1>3, FromSyncAt
<1> QED BY <1>4, SubSeqFull

-----------------------------------------------------------------------------
(* What the two readers compute *)

Result == [rest : Seq(Byte), out : Seq(Seq(Byte)), discarded : Nat]

LEMMA SkippingResult ==
  ASSUME NEW r \in Result, NEW n \in Nat
  PROVE  /\ Skipping(r, n) \in Result
         /\ Skipping(r, n).rest = r.rest
         /\ Skipping(r, n).out = r.out
         /\ Skipping(r, n).discarded = r.discarded + n
BY DEF Skipping, Result

LEMMA ResultEqual ==
  ASSUME NEW r \in Result, NEW q \in Result,
         r.rest = q.rest, r.out = q.out, r.discarded = q.discarded
  PROVE  r = q
BY DEF Result

\* The result of a frame p found in front of the rest of the scan.
Found(p, r, n) == [Skipping(r, n) EXCEPT !.out = <<p>> \o @]

LEMMA FoundResult ==
  ASSUME NEW r \in Result, NEW n \in Nat, NEW p \in Seq(Byte)
  PROVE  /\ Found(p, r, n) \in Result
         /\ Found(p, r, n).rest = r.rest
         /\ Found(p, r, n).out = <<p>> \o r.out
         /\ Found(p, r, n).discarded = r.discarded + n
<1>1. Skipping(r, n) \in Result /\ Skipping(r, n).rest = r.rest
      /\ Skipping(r, n).out = r.out /\ Skipping(r, n).discarded = r.discarded + n
  BY SkippingResult
<1> DEFINE q == Skipping(r, n)
<1> HIDE DEF q
<1>2. r.out \in Seq(Seq(Byte)) BY DEF Result
<1>3. <<p>> \o r.out \in Seq(Seq(Byte)) BY <1>2
<1>4. [q EXCEPT !.out = <<p>> \o @] = [q EXCEPT !.out = <<p>> \o r.out] BY <1>1 DEF q
<1>5. q \in Result BY <1>1 DEF q
<1>6. [q EXCEPT !.out = <<p>> \o r.out] \in Result
      /\ [q EXCEPT !.out = <<p>> \o r.out].rest = q.rest
      /\ [q EXCEPT !.out = <<p>> \o r.out].out = <<p>> \o r.out
      /\ [q EXCEPT !.out = <<p>> \o r.out].discarded = q.discarded
  BY <1>3, <1>5 DEF Result
<1> QED BY <1>1, <1>4, <1>6 DEF q, Found

\* The three parts of what is left: its first byte, or a frame and what is behind.
LEMMA BehindABadLength ==
  ASSUME NEW t \in Seq(Byte), BadLength(t)
  PROVE  Tail(t) \in Seq(Byte) /\ Len(Tail(t)) = Len(t) - 1 /\ Len(t) \in Nat /\ Len(t) >= 3
<1>1. Len(t) \in Nat /\ Len(t) >= 3 BY DEF BadLength, Overhead
<1>2. t # <<>> BY <1>1
<1> QED BY <1>1, <1>2, HeadTailProperties

LEMMA BehindAFrame ==
  ASSUME NEW t \in Seq(Byte), Whole(t)
  PROVE  /\ t[3] \in Lengths /\ t[3] \in Nat /\ Len(t) \in Nat /\ Len(t) >= Overhead + t[3]
         /\ Behind(t) \in Seq(Byte) /\ Len(Behind(t)) = Len(t) - (Overhead + t[3])
         /\ \A i \in 1 .. Len(t) - (Overhead + t[3]) : Behind(t)[i] = t[(Overhead + t[3]) + i]
         /\ PayloadOf(t) \in Seq(Byte) /\ Len(PayloadOf(t)) = t[3]
         /\ \A i \in 1 .. t[3] : PayloadOf(t)[i] = t[Overhead + i]
<1>a. t[3] \in Lengths /\ Len(t) >= Overhead + t[3] BY DEF Whole
<1>b. t[3] \in Nat BY <1>a, ByteFacts
<1>c. Len(t) \in Nat BY LenProperties
<1>1. t[3] \in Lengths /\ t[3] \in Nat /\ Len(t) \in Nat /\ Len(t) >= Overhead + t[3]
  BY <1>a, <1>b, <1>c
<1> DEFINE k == Overhead + t[3]
           p == PayloadOf(t)
<1>2. k \in 0 .. Len(t) BY <1>1 DEF Overhead
<1>3. /\ SubSeq(t, k + 1, Len(t)) \in Seq(Byte)
      /\ Len(SubSeq(t, k + 1, Len(t))) = Len(t) - k
      /\ \A i \in 1 .. Len(t) - k : SubSeq(t, k + 1, Len(t))[i] = t[k + i]
  BY <1>2, SuffixProperties
<1>4. Behind(t) = SubSeq(t, k + 1, Len(t)) BY DEF Behind
<1>5. \A i \in Overhead + 1 .. k : t[i] \in Byte BY <1>1, LenProperties DEF Overhead
<1>6. /\ p \in Seq(Byte)
      /\ Len(p) = IF Overhead + 1 <= k THEN k - (Overhead + 1) + 1 ELSE 0
      /\ \A i \in 1 .. k - (Overhead + 1) + 1 : p[i] = t[(Overhead + 1) + i - 1]
  <2>1. Overhead + 1 \in Int /\ k \in Int BY <1>1 DEF Overhead
  <2>2. p = SubSeq(t, Overhead + 1, k) BY DEF PayloadOf
  <2> HIDE DEF k, p
  <2> QED BY <2>1, <2>2, <1>5, SubSeqProperties
<1>7. Len(p) = t[3] /\ k - (Overhead + 1) + 1 = t[3] BY <1>1, <1>6 DEF Overhead
<1>8. \A i \in 1 .. t[3] : (Overhead + 1) + i - 1 = Overhead + i BY <1>1 DEF Overhead
<1>9. \A i \in 1 .. t[3] : p[i] = t[Overhead + i] BY <1>6, <1>7, <1>8
<1> HIDE DEF p
<1>10. p \in Seq(Byte) /\ Len(p) = t[3] BY <1>6, <1>7
<1> USE DEF k
<1> QED BY <1>1, <1>3, <1>4, <1>9, <1>10 DEF p

BoardAt(s, f) ==
  LET t == FromSync(s)
      skipped == Len(s) - Len(t)
  IN  CASE BadLength(t) -> Skipping(f[AfterBad(t)], skipped + Len(t) - Len(AfterBad(t)))
        [] Whole(t) -> [rest |-> Behind(t), out |-> <<PayloadOf(t)>>, discarded |-> skipped]
        [] OTHER -> [rest |-> t, out |-> <<>>, discarded |-> skipped]

DaemonAt(s, f) ==
  LET t == FromSync(s)
      skipped == Len(s) - Len(t)
  IN  CASE BadLength(t) -> Skipping(f[Tail(t)], skipped + 1)
        [] Whole(t) -> LET more == f[Behind(t)]
                       IN  [Skipping(more, skipped) EXCEPT !.out = <<PayloadOf(t)>> \o @]
        [] OTHER -> [rest |-> t, out |-> <<>>, discarded |-> skipped]

\* One of the three holds of what is left, and only one.
LEMMA OneOfThree ==
  ASSUME NEW t
  PROVE  ~(BadLength(t) /\ Whole(t))
BY DEF BadLength, Whole

LEMMA BoardEquation ==
  ASSUME NEW s \in Seq(Byte), NEW f, NEW t, t = FromSync(s)
  PROVE  /\ BadLength(t) => BoardAt(s, f) = Skipping(f[Tail(t)], Len(s) - Len(t) + 1)
         /\ Whole(t) => BoardAt(s, f) = [rest |-> Behind(t), out |-> <<PayloadOf(t)>>,
                                         discarded |-> Len(s) - Len(t)]
         /\ ~BadLength(t) /\ ~Whole(t) =>
              BoardAt(s, f) = [rest |-> t, out |-> <<>>, discarded |-> Len(s) - Len(t)]
<1>1. Len(s) \in Nat /\ Len(t) \in Nat /\ t \in Seq(Byte) BY FromSyncType
<1>2. BadLength(t) => BoardAt(s, f) = Skipping(f[Tail(t)], Len(s) - Len(t) + Len(t) - Len(Tail(t)))
  BY OneOfThree DEF BoardAt, AfterBad
<1>3. BadLength(t) => Len(s) - Len(t) + Len(t) - Len(Tail(t)) = Len(s) - Len(t) + 1
  <2> SUFFICES ASSUME BadLength(t) PROVE Len(s) - Len(t) + Len(t) - Len(Tail(t)) = Len(s) - Len(t) + 1
      OBVIOUS
  <2>1. Len(Tail(t)) = Len(t) - 1 BY <1>1, BehindABadLength
  <2>2. \A a, b \in Nat : a - b + b - (b - 1) = a - b + 1 OBVIOUS
  <2>3. Len(s) - Len(t) + Len(t) - (Len(t) - 1) = Len(s) - Len(t) + 1 BY <1>1, <2>2
  <2> QED BY <2>1, <2>3, Zenon
<1>4. Whole(t) => BoardAt(s, f) = [rest |-> Behind(t), out |-> <<PayloadOf(t)>>,
                                   discarded |-> Len(s) - Len(t)]
  BY OneOfThree DEF BoardAt
<1>5. ~BadLength(t) /\ ~Whole(t) =>
        BoardAt(s, f) = [rest |-> t, out |-> <<>>, discarded |-> Len(s) - Len(t)]
  BY DEF BoardAt
<1> QED BY <1>2, <1>3, <1>4, <1>5

LEMMA DaemonEquation ==
  ASSUME NEW s \in Seq(Byte), NEW f, NEW t, t = FromSync(s)
  PROVE  /\ BadLength(t) => DaemonAt(s, f) = Skipping(f[Tail(t)], Len(s) - Len(t) + 1)
         /\ Whole(t) => DaemonAt(s, f) = Found(PayloadOf(t), f[Behind(t)], Len(s) - Len(t))
         /\ ~BadLength(t) /\ ~Whole(t) =>
              DaemonAt(s, f) = [rest |-> t, out |-> <<>>, discarded |-> Len(s) - Len(t)]
<1>1. BadLength(t) => DaemonAt(s, f) = Skipping(f[Tail(t)], Len(s) - Len(t) + 1)
  BY OneOfThree DEF DaemonAt
<1>2. Whole(t) => DaemonAt(s, f) = Found(PayloadOf(t), f[Behind(t)], Len(s) - Len(t))
  BY OneOfThree DEF DaemonAt, Found
<1>3. ~BadLength(t) /\ ~Whole(t) =>
        DaemonAt(s, f) = [rest |-> t, out |-> <<>>, discarded |-> Len(s) - Len(t)]
  BY DEF DaemonAt
<1> QED BY <1>1, <1>2, <1>3

\* Only shorter sequences are scanned again.
LEMMA ShorterLeft ==
  ASSUME NEW s \in Seq(Byte), NEW t, t = FromSync(s)
  PROVE  /\ t \in Seq(Byte) /\ Len(s) - Len(t) \in Nat /\ Len(s) - Len(t) + 1 \in Nat
         /\ BadLength(t) => Tail(t) \in Seq(Byte) /\ Len(Tail(t)) < Len(s)
         /\ Whole(t) => Behind(t) \in Seq(Byte) /\ Len(Behind(t)) < Len(s)
<1>1. Len(s) \in Nat /\ Len(t) \in Nat /\ t \in Seq(Byte) /\ Len(t) <= Len(s) BY FromSyncType
<1>2. \A a, b \in Nat : b <= a => a - b \in Nat /\ a - b + 1 \in Nat OBVIOUS
<1>3. ASSUME BadLength(t) PROVE Tail(t) \in Seq(Byte) /\ Len(Tail(t)) < Len(s)
  <2>1. Tail(t) \in Seq(Byte) /\ Len(Tail(t)) = Len(t) - 1 BY <1>1, <1>3, BehindABadLength
  <2>2. \A a, b \in Nat : b <= a => b - 1 < a OBVIOUS
  <2> QED BY <2>1, <2>2, <1>1
<1>4. ASSUME Whole(t) PROVE Behind(t) \in Seq(Byte) /\ Len(Behind(t)) < Len(s)
  <2>1. Behind(t) \in Seq(Byte) /\ Len(Behind(t)) = Len(t) - (Overhead + t[3]) /\ t[3] \in Nat
    BY <1>1, <1>4, BehindAFrame
  <2>2. \A a, b, c \in Nat : b <= a => b - (Overhead + c) < a BY DEF Overhead
  <2> QED BY <2>1, <2>2, <1>1
<1> QED BY <1>1, <1>2, <1>3, <1>4

LEMMA AtResult ==
  ASSUME NEW s \in Seq(Byte), NEW f,
         \A r \in Seq(Byte) : Len(r) < Len(s) => f[r] \in Result
  PROVE  DaemonAt(s, f) \in Result /\ BoardAt(s, f) \in Result
<1> DEFINE t == FromSync(s)
<1>1. /\ t \in Seq(Byte) /\ Len(s) - Len(t) \in Nat /\ Len(s) - Len(t) + 1 \in Nat
      /\ BadLength(t) => Tail(t) \in Seq(Byte) /\ Len(Tail(t)) < Len(s)
      /\ Whole(t) => Behind(t) \in Seq(Byte) /\ Len(Behind(t)) < Len(s)
  BY ShorterLeft
<1>2. /\ BadLength(t) => DaemonAt(s, f) = Skipping(f[Tail(t)], Len(s) - Len(t) + 1)
      /\ Whole(t) => DaemonAt(s, f) = Found(PayloadOf(t), f[Behind(t)], Len(s) - Len(t))
      /\ ~BadLength(t) /\ ~Whole(t) =>
              DaemonAt(s, f) = [rest |-> t, out |-> <<>>, discarded |-> Len(s) - Len(t)]
  BY DaemonEquation
<1>3. /\ BadLength(t) => BoardAt(s, f) = Skipping(f[Tail(t)], Len(s) - Len(t) + 1)
      /\ Whole(t) => BoardAt(s, f) = [rest |-> Behind(t), out |-> <<PayloadOf(t)>>,
                                         discarded |-> Len(s) - Len(t)]
      /\ ~BadLength(t) /\ ~Whole(t) =>
              BoardAt(s, f) = [rest |-> t, out |-> <<>>, discarded |-> Len(s) - Len(t)]
  BY BoardEquation
<1> HIDE DEF t
<1>4. CASE BadLength(t)
  <2>1. f[Tail(t)] \in Result BY <1>1, <1>4
  <2> QED BY <2>1, <1>1, <1>2, <1>3, <1>4, SkippingResult
<1>5. CASE Whole(t)
  <2>1. f[Behind(t)] \in Result /\ PayloadOf(t) \in Seq(Byte) BY <1>1, <1>5, BehindAFrame
  <2> DEFINE n == Len(s) - Len(t)
  <2>2. n \in Nat /\ Behind(t) \in Seq(Byte) BY <1>1, <1>5
  <2>3. DaemonAt(s, f) = Found(PayloadOf(t), f[Behind(t)], n)
        /\ BoardAt(s, f) = [rest |-> Behind(t), out |-> <<PayloadOf(t)>>, discarded |-> n]
    BY <1>2, <1>3, <1>5
  <2> HIDE DEF n
  <2>4. Found(PayloadOf(t), f[Behind(t)], n) \in Result BY <2>1, <2>2, FoundResult
  <2>5. <<PayloadOf(t)>> \in Seq(Seq(Byte)) BY <2>1
  <2>6. [rest |-> Behind(t), out |-> <<PayloadOf(t)>>, discarded |-> n] \in Result
    BY <2>2, <2>5 DEF Result
  <2> QED BY <2>3, <2>4, <2>6
<1>6. CASE ~BadLength(t) /\ ~Whole(t)
  <2>1. <<>> \in Seq(Seq(Byte)) OBVIOUS
  <2>2. [rest |-> t, out |-> <<>>, discarded |-> Len(s) - Len(t)] \in Result
    BY <2>1, <1>1 DEF Result
  <2> QED BY <2>2, <1>2, <1>3, <1>6
<1> QED BY <1>4, <1>5, <1>6

LEMMA AtCausal ==
  ASSUME NEW s \in Seq(Byte), NEW g, NEW h,
         \A r \in Seq(Byte) : Len(r) < Len(s) => g[r] = h[r]
  PROVE  DaemonAt(s, g) = DaemonAt(s, h) /\ BoardAt(s, g) = BoardAt(s, h)
<1> DEFINE t == FromSync(s)
<1>1. /\ BadLength(t) => Tail(t) \in Seq(Byte) /\ Len(Tail(t)) < Len(s)
      /\ Whole(t) => Behind(t) \in Seq(Byte) /\ Len(Behind(t)) < Len(s)
  BY ShorterLeft
<1>2. \A f :
      /\ BadLength(t) => DaemonAt(s, f) = Skipping(f[Tail(t)], Len(s) - Len(t) + 1)
      /\ Whole(t) => DaemonAt(s, f) = Found(PayloadOf(t), f[Behind(t)], Len(s) - Len(t))
      /\ ~BadLength(t) /\ ~Whole(t) =>
              DaemonAt(s, f) = [rest |-> t, out |-> <<>>, discarded |-> Len(s) - Len(t)]
  BY DaemonEquation
<1>3. \A f :
      /\ BadLength(t) => BoardAt(s, f) = Skipping(f[Tail(t)], Len(s) - Len(t) + 1)
      /\ Whole(t) => BoardAt(s, f) = [rest |-> Behind(t), out |-> <<PayloadOf(t)>>,
                                         discarded |-> Len(s) - Len(t)]
      /\ ~BadLength(t) /\ ~Whole(t) =>
              BoardAt(s, f) = [rest |-> t, out |-> <<>>, discarded |-> Len(s) - Len(t)]
  BY BoardEquation
<1> HIDE DEF t
<1>4. CASE BadLength(t)
  <2>1. g[Tail(t)] = h[Tail(t)] BY <1>1, <1>4
  <2> QED BY <2>1, <1>2, <1>3, <1>4
<1>5. CASE Whole(t)
  <2>1. g[Behind(t)] = h[Behind(t)] BY <1>1, <1>5
  <2> QED BY <2>1, <1>2, <1>3, <1>5
<1>6. CASE ~BadLength(t) /\ ~Whole(t) BY <1>2, <1>3, <1>6
<1> QED BY <1>4, <1>5, <1>6

\* What holds of a sequence of bytes when it holds of all shorter ones holds of all.
LEMMA LengthInduction ==
  ASSUME NEW T,
         \A s \in Seq(Byte) : (\A r \in Seq(Byte) : Len(r) < Len(s) => r \in T) => s \in T
  PROVE  Seq(Byte) \subseteq T
<1> DEFINE S == Seq(Byte)
           size == [s \in S |-> Len(s)]
<1>1. size \in [S -> Nat] BY LenProperties
<1>2. \A s \in S : (\A r \in S : size[r] < size[s] => r \in T) => s \in T OBVIOUS
<1> HIDE DEF S, size
<1>3. S \subseteq T BY <1>1, <1>2, Induction
<1> QED BY <1>3 DEF S

LEMMA LengthRecursion ==
  ASSUME NEW R, R # {}, NEW D \in [Seq(Byte) \X [Seq(Byte) -> R] -> R],
         \A s \in Seq(Byte) : \A g, h \in [Seq(Byte) -> R] :
           (\A r \in Seq(Byte) : Len(r) < Len(s) => g[r] = h[r]) => D[<<s, g>>] = D[<<s, h>>]
  PROVE  Soluble(D, Seq(Byte), R)
<1> DEFINE S == Seq(Byte)
           size == [s \in S |-> Len(s)]
<1>1. size \in [S -> Nat] BY LenProperties
<1>2. Causal(D, S, R, size) BY DEF Causal
<1>3. D \in [S \X [S -> R] -> R] OBVIOUS
<1> HIDE DEF S, size
<1>4. Soluble(D, S, R) BY <1>1, <1>2, <1>3, Recursion
<1> QED BY <1>4 DEF S

\* Both scans are functions, and satisfy their own equations.
LEMMA DaemonScanDef ==
  /\ DaemonScan \in [Seq(Byte) -> Result]
  /\ \A s \in Seq(Byte) : DaemonScan[s] = DaemonAt(s, DaemonScan)
<1> DEFINE R == Result
           D == [a \in Seq(Byte) \X [Seq(Byte) -> R] |-> DaemonAt(a[1], a[2])]
           Fix(f) == f = [s \in Seq(Byte) |-> DaemonAt(s, f)]
<1>1. R # {}
  <2>1. [rest |-> <<>>, out |-> <<>>, discarded |-> 0] \in Result BY DEF Result
  <2> QED BY <2>1
<1>2. D \in [Seq(Byte) \X [Seq(Byte) -> R] -> R]
  <2>1. \A s \in Seq(Byte) : \A f \in [Seq(Byte) -> R] : DaemonAt(s, f) \in R
    BY AtResult
  <2> HIDE DEF R
  <2> QED BY <2>1
<1>3. \A s \in Seq(Byte) : \A f \in [Seq(Byte) -> R] : D[<<s, f>>] = DaemonAt(s, f) OBVIOUS
<1> HIDE DEF D, R
<1>4. \A s \in Seq(Byte) : \A g, h \in [Seq(Byte) -> R] :
        (\A r \in Seq(Byte) : Len(r) < Len(s) => g[r] = h[r]) => D[<<s, g>>] = D[<<s, h>>]
  BY <1>3, AtCausal
<1>s. Soluble(D, Seq(Byte), R) BY <1>1, <1>2, <1>4, LengthRecursion
<1>5. PICK f \in [Seq(Byte) -> R] : \A s \in Seq(Byte) : f[s] = D[<<s, f>>]
  BY <1>s DEF Soluble
<1>6. \A s \in Seq(Byte) : f[s] = DaemonAt(s, f) BY <1>5, <1>3
<1>7. Fix(f) BY <1>6
<1>8. DaemonScan = CHOOSE g : Fix(g) BY DEF DaemonScan, DaemonAt
<1>9. Fix(DaemonScan) BY <1>7, <1>8
<1>10. \A s \in Seq(Byte) : DaemonScan[s] = DaemonAt(s, DaemonScan) BY <1>9
<1>11. \A s \in Seq(Byte) : DaemonScan[s] \in Result
  <2> DEFINE T == {s \in Seq(Byte) : DaemonScan[s] \in Result}
  <2>1. ASSUME NEW s \in Seq(Byte), \A r \in Seq(Byte) : Len(r) < Len(s) => r \in T
        PROVE  s \in T
    <3>1. \A r \in Seq(Byte) : Len(r) < Len(s) => DaemonScan[r] \in Result BY <2>1
    <3>2. DaemonAt(s, DaemonScan) \in Result BY <3>1, AtResult
    <3> QED BY <3>2, <1>10
  <2> HIDE DEF T
  <2>2. Seq(Byte) \subseteq T BY <2>1, LengthInduction
  <2> QED BY <2>2 DEF T
<1>12. DaemonScan = [s \in Seq(Byte) |-> DaemonScan[s]]
  <2>1. DaemonScan = [s \in Seq(Byte) |-> DaemonAt(s, DaemonScan)] BY <1>9
  <2> HIDE DEF Fix
  <2> QED BY <2>1
<1> QED BY <1>10, <1>11, <1>12

LEMMA BoardScanDef ==
  /\ BoardScan \in [Seq(Byte) -> Result]
  /\ \A s \in Seq(Byte) : BoardScan[s] = BoardAt(s, BoardScan)
<1> DEFINE R == Result
           D == [a \in Seq(Byte) \X [Seq(Byte) -> R] |-> BoardAt(a[1], a[2])]
           Fix(f) == f = [s \in Seq(Byte) |-> BoardAt(s, f)]
<1>1. R # {}
  <2>1. [rest |-> <<>>, out |-> <<>>, discarded |-> 0] \in Result BY DEF Result
  <2> QED BY <2>1
<1>2. D \in [Seq(Byte) \X [Seq(Byte) -> R] -> R]
  <2>1. \A s \in Seq(Byte) : \A f \in [Seq(Byte) -> R] : BoardAt(s, f) \in R
    BY AtResult
  <2> HIDE DEF R
  <2> QED BY <2>1
<1>3. \A s \in Seq(Byte) : \A f \in [Seq(Byte) -> R] : D[<<s, f>>] = BoardAt(s, f) OBVIOUS
<1> HIDE DEF D, R
<1>4. \A s \in Seq(Byte) : \A g, h \in [Seq(Byte) -> R] :
        (\A r \in Seq(Byte) : Len(r) < Len(s) => g[r] = h[r]) => D[<<s, g>>] = D[<<s, h>>]
  BY <1>3, AtCausal
<1>s. Soluble(D, Seq(Byte), R) BY <1>1, <1>2, <1>4, LengthRecursion
<1>5. PICK f \in [Seq(Byte) -> R] : \A s \in Seq(Byte) : f[s] = D[<<s, f>>]
  BY <1>s DEF Soluble
<1>6. \A s \in Seq(Byte) : f[s] = BoardAt(s, f) BY <1>5, <1>3
<1>7. Fix(f) BY <1>6
<1>8. BoardScan = CHOOSE g : Fix(g) BY DEF BoardScan, BoardAt
<1>9. Fix(BoardScan) BY <1>7, <1>8
<1>10. \A s \in Seq(Byte) : BoardScan[s] = BoardAt(s, BoardScan) BY <1>9
<1>11. \A s \in Seq(Byte) : BoardScan[s] \in Result
  <2> DEFINE T == {s \in Seq(Byte) : BoardScan[s] \in Result}
  <2>1. ASSUME NEW s \in Seq(Byte), \A r \in Seq(Byte) : Len(r) < Len(s) => r \in T
        PROVE  s \in T
    <3>1. \A r \in Seq(Byte) : Len(r) < Len(s) => BoardScan[r] \in Result BY <2>1
    <3>2. BoardAt(s, BoardScan) \in Result BY <3>1, AtResult
    <3> QED BY <3>2, <1>10
  <2> HIDE DEF T
  <2>2. Seq(Byte) \subseteq T BY <2>1, LengthInduction
  <2> QED BY <2>2 DEF T
<1>12. BoardScan = [s \in Seq(Byte) |-> BoardScan[s]]
  <2>1. BoardScan = [s \in Seq(Byte) |-> BoardAt(s, BoardScan)] BY <1>9
  <2> HIDE DEF Fix
  <2> QED BY <2>1
<1> QED BY <1>10, <1>11, <1>12

\* What each scan does with what is left, t, of the bytes s it is given.
DaemonStep(s, t) ==
  LET r == DaemonScan[s]
      n == Len(s) - Len(t)
  IN  /\ r \in Result
      /\ BadLength(t) => LET q == DaemonScan[Tail(t)]
                         IN  /\ q \in Result /\ r.rest = q.rest /\ r.out = q.out
                             /\ r.discarded = q.discarded + (n + 1)
      /\ Whole(t) => LET q == DaemonScan[Behind(t)]
                     IN  /\ q \in Result /\ r.rest = q.rest
                         /\ r.out = <<PayloadOf(t)>> \o q.out
                         /\ r.discarded = q.discarded + n
      /\ ~BadLength(t) /\ ~Whole(t) => r.rest = t /\ r.out = <<>> /\ r.discarded = n

BoardStep(s, t) ==
  LET r == BoardScan[s]
      n == Len(s) - Len(t)
  IN  /\ r \in Result
      /\ BadLength(t) => LET q == BoardScan[Tail(t)]
                         IN  /\ q \in Result /\ r.rest = q.rest /\ r.out = q.out
                             /\ r.discarded = q.discarded + (n + 1)
      /\ Whole(t) => /\ r.rest = Behind(t) /\ r.out = <<PayloadOf(t)>>
                     /\ r.discarded = n
      /\ ~BadLength(t) /\ ~Whole(t) => r.rest = t /\ r.out = <<>> /\ r.discarded = n

LEMMA DaemonScanStep ==
  ASSUME NEW s \in Seq(Byte), NEW t, t = FromSync(s)
  PROVE  DaemonStep(s, t)
<1> DEFINE n == Len(s) - Len(t)
           r == DaemonScan[s]
<1>1. /\ t \in Seq(Byte) /\ n \in Nat /\ n + 1 \in Nat
      /\ BadLength(t) => Tail(t) \in Seq(Byte)
      /\ Whole(t) => Behind(t) \in Seq(Byte)
  BY ShorterLeft
<1>2. DaemonScan \in [Seq(Byte) -> Result] /\ r = DaemonAt(s, DaemonScan) BY DaemonScanDef
<1>3. /\ BadLength(t) => r = Skipping(DaemonScan[Tail(t)], n + 1)
      /\ Whole(t) => r = Found(PayloadOf(t), DaemonScan[Behind(t)], n)
      /\ ~BadLength(t) /\ ~Whole(t) => r = [rest |-> t, out |-> <<>>, discarded |-> n]
  BY <1>2, DaemonEquation
<1>4. r \in Result BY <1>2
<1>5. ASSUME BadLength(t)
      PROVE  LET q == DaemonScan[Tail(t)]
             IN  /\ q \in Result /\ r.rest = q.rest /\ r.out = q.out
                 /\ r.discarded = q.discarded + (n + 1)
  <2> DEFINE q == DaemonScan[Tail(t)]
  <2>1. q \in Result /\ r = Skipping(q, n + 1) BY <1>1, <1>2, <1>3, <1>5
  <2> DEFINE m == n + 1
  <2>2. m \in Nat BY <1>1
  <2>3. r = Skipping(q, m) BY <2>1
  <2> HIDE DEF q, m
  <2>4. /\ Skipping(q, m).rest = q.rest /\ Skipping(q, m).out = q.out
        /\ Skipping(q, m).discarded = q.discarded + m
    BY <2>1, <2>2, SkippingResult, Zenon
  <2>5. r.rest = q.rest /\ r.out = q.out /\ r.discarded = q.discarded + m
    BY <2>3, <2>4, Zenon
  <2> QED BY <2>1, <2>5 DEF q, m
<1>6. ASSUME Whole(t)
      PROVE  LET q == DaemonScan[Behind(t)]
             IN  /\ q \in Result /\ r.rest = q.rest
                 /\ r.out = <<PayloadOf(t)>> \o q.out
                 /\ r.discarded = q.discarded + n
  <2> DEFINE q == DaemonScan[Behind(t)]
  <2>1. q \in Result /\ r = Found(PayloadOf(t), q, n) BY <1>1, <1>2, <1>3, <1>6
  <2>2. PayloadOf(t) \in Seq(Byte) BY <1>1, <1>6, BehindAFrame
  <2> HIDE DEF q
  <2>3. LET f == Found(PayloadOf(t), q, n)
        IN  f.rest = q.rest /\ f.out = <<PayloadOf(t)>> \o q.out /\ f.discarded = q.discarded + n
    BY <2>1, <2>2, <1>1, FoundResult, Zenon
  <2>4. r.rest = q.rest /\ r.out = <<PayloadOf(t)>> \o q.out /\ r.discarded = q.discarded + n
    BY <2>1, <2>3, Zenon
  <2> QED BY <2>1, <2>4 DEF q
<1>7. ~BadLength(t) /\ ~Whole(t) => r.rest = t /\ r.out = <<>> /\ r.discarded = n BY <1>3
<1> QED BY <1>4, <1>5, <1>6, <1>7 DEF DaemonStep

LEMMA BoardScanStep ==
  ASSUME NEW s \in Seq(Byte), NEW t, t = FromSync(s)
  PROVE  BoardStep(s, t)
<1> DEFINE n == Len(s) - Len(t)
           r == BoardScan[s]
<1>1. /\ t \in Seq(Byte) /\ n \in Nat /\ n + 1 \in Nat
      /\ BadLength(t) => Tail(t) \in Seq(Byte)
  BY ShorterLeft
<1>2. BoardScan \in [Seq(Byte) -> Result] /\ r = BoardAt(s, BoardScan) BY BoardScanDef
<1>3. /\ BadLength(t) => r = Skipping(BoardScan[Tail(t)], n + 1)
      /\ Whole(t) => r = [rest |-> Behind(t), out |-> <<PayloadOf(t)>>, discarded |-> n]
      /\ ~BadLength(t) /\ ~Whole(t) => r = [rest |-> t, out |-> <<>>, discarded |-> n]
  BY <1>2, BoardEquation
<1>4. r \in Result BY <1>2
<1>5. ASSUME BadLength(t)
      PROVE  LET q == BoardScan[Tail(t)]
             IN  /\ q \in Result /\ r.rest = q.rest /\ r.out = q.out
                 /\ r.discarded = q.discarded + (n + 1)
  <2> DEFINE q == BoardScan[Tail(t)]
  <2>1. q \in Result /\ r = Skipping(q, n + 1) BY <1>1, <1>2, <1>3, <1>5
  <2> DEFINE m == n + 1
  <2>2. m \in Nat BY <1>1
  <2>3. r = Skipping(q, m) BY <2>1
  <2> HIDE DEF q, m
  <2>4. /\ Skipping(q, m).rest = q.rest /\ Skipping(q, m).out = q.out
        /\ Skipping(q, m).discarded = q.discarded + m
    BY <2>1, <2>2, SkippingResult, Zenon
  <2>5. r.rest = q.rest /\ r.out = q.out /\ r.discarded = q.discarded + m
    BY <2>3, <2>4, Zenon
  <2> QED BY <2>1, <2>5 DEF q, m
<1>6. /\ Whole(t) => r.rest = Behind(t) /\ r.out = <<PayloadOf(t)>> /\ r.discarded = n
      /\ ~BadLength(t) /\ ~Whole(t) => r.rest = t /\ r.out = <<>> /\ r.discarded = n
  BY <1>3
<1> QED BY <1>4, <1>5, <1>6 DEF BoardStep

-----------------------------------------------------------------------------
(* Bytes that come later *)

\* A frame, or a bad length, is seen the same with more bytes behind it.
LEMMA MoreBehind ==
  ASSUME NEW t \in Seq(Byte), NEW u \in Seq(Byte), Headed(t)
  PROVE  LET x == t \o u IN
         /\ x \in Seq(Byte) /\ FromSync(x) = x /\ Len(x) = Len(t) + Len(u)
         /\ BadLength(t) => BadLength(x) /\ Tail(x) = Tail(t) \o u
         /\ Whole(t) => /\ Whole(x) /\ PayloadOf(x) = PayloadOf(t)
                        /\ Behind(x) = Behind(t) \o u
<1> DEFINE x == t \o u
<1>1. Len(t) \in Nat /\ Len(u) \in Nat BY LenProperties
<1>2. x \in Seq(Byte) /\ Len(x) = Len(t) + Len(u)
      /\ \A i \in 1 .. Len(t) + Len(u) : x[i] = IF i <= Len(t) THEN t[i] ELSE u[i - Len(t)]
  BY ConcatProperties
<1>e. x = t \o u OBVIOUS
<1> HIDE DEF x
<1>3. \A i \in 1 .. Len(t) : x[i] = t[i]
  <2> TAKE i \in 1 .. Len(t)
  <2>1. i \in 1 .. Len(t) + Len(u) /\ i <= Len(t) BY <1>1
  <2> QED BY <2>1, <1>2
<1>4. Headed(x)
  <2>1. 1 \in 1 .. Len(t) /\ 2 \in 1 .. Len(t) /\ Len(x) >= 2 BY <1>1, <1>2 DEF Headed
  <2> QED BY <2>1, <1>3 DEF Headed
<1>5. FromSync(x) = x BY <1>2, <1>4, HeadedStays
<1>6. ASSUME BadLength(t) PROVE BadLength(x) /\ Tail(x) = Tail(t) \o u
  <2>1. 3 \in 1 .. Len(t) /\ Len(t) >= 1 /\ Len(x) >= 3 /\ Len(x) >= 1 /\ 1 \in 0 .. Len(t)
    BY <1>6, <1>1, <1>2 DEF BadLength, Overhead
  <2>2. BadLength(x) BY <2>1, <1>3, <1>6 DEF BadLength, Overhead
  <2>3. Tail(x) = SubSeq(x, 2, Len(x)) /\ Tail(t) = SubSeq(t, 2, Len(t))
    BY <2>1, <1>2, TailIsSubSeq
  <2>4. SubSeq(t \o u, 1 + 1, Len(t \o u)) = SubSeq(t, 1 + 1, Len(t)) \o u
    BY <2>1, SuffixOfConcat
  <2>5. 1 + 1 = 2 OBVIOUS
  <2> QED BY <1>e, <2>2, <2>3, <2>4, <2>5
<1>7. ASSUME Whole(t)
      PROVE  Whole(x) /\ PayloadOf(x) = PayloadOf(t) /\ Behind(x) = Behind(t) \o u
  <2>1. /\ t[3] \in Lengths /\ t[3] \in Nat /\ Len(t) >= Overhead + t[3]
        /\ PayloadOf(t) \in Seq(Byte) /\ Len(PayloadOf(t)) = t[3]
        /\ \A i \in 1 .. t[3] : PayloadOf(t)[i] = t[Overhead + i]
    BY <1>7, BehindAFrame
  <2>2. 3 \in 1 .. Len(t) BY <2>1, <1>1 DEF Overhead
  <2>3. x[3] = t[3] BY <2>2, <1>3
  <2>4. Len(x) >= Overhead /\ Len(x) >= Overhead + x[3] BY <2>1, <2>3, <1>1, <1>2 DEF Overhead
  <2>5. Whole(x) BY <2>1, <2>3, <2>4 DEF Whole
  <2>6. /\ PayloadOf(x) \in Seq(Byte) /\ Len(PayloadOf(x)) = t[3]
        /\ \A i \in 1 .. t[3] : PayloadOf(x)[i] = x[Overhead + i]
    BY <2>5, <2>3, <1>2, BehindAFrame
  <2>7. \A i \in 1 .. t[3] : Overhead + i \in 1 .. Len(t) BY <2>1, <1>1 DEF Overhead
  <2>8. \A i \in 1 .. t[3] : PayloadOf(x)[i] = PayloadOf(t)[i] BY <2>1, <2>6, <2>7, <1>3
  <2>9. PayloadOf(x) = PayloadOf(t) BY <2>1, <2>6, <2>8, SeqEqual
  <2> DEFINE k == Overhead + t[3]
  <2>10. k \in 0 .. Len(t) BY <2>1, <1>1 DEF Overhead
  <2>11. Behind(x) = SubSeq(x, k + 1, Len(x)) /\ Behind(t) = SubSeq(t, k + 1, Len(t))
    BY <2>3 DEF Behind
  <2>12. SubSeq(t \o u, k + 1, Len(t \o u)) = SubSeq(t, k + 1, Len(t)) \o u
    BY <2>10, SuffixOfConcat
  <2> HIDE DEF k
  <2> QED BY <1>e, <2>5, <2>9, <2>11, <2>12
<1> QED BY <1>2, <1>5, <1>6, <1>7 DEF x

\* Sequences with the same left of them are scanned the same, but for what is
\* discarded in front.
LEMMA SameLeft ==
  ASSUME NEW x \in Seq(Byte), NEW y \in Seq(Byte),
         NEW t, t = FromSync(x), t = FromSync(y)
  PROVE  /\ DaemonScan[x].rest = DaemonScan[y].rest /\ DaemonScan[x].out = DaemonScan[y].out
         /\ DaemonScan[x].discarded = DaemonScan[y].discarded + (Len(x) - Len(y))
<1> DEFINE m == Len(x) - Len(t)
           n == Len(y) - Len(t)
           a == DaemonScan[x]
           b == DaemonScan[y]
<1>2. Len(x) \in Nat /\ Len(y) \in Nat /\ Len(t) \in Nat BY FromSyncType
<1>3. m \in Int /\ n \in Int /\ m = n + (Len(x) - Len(y)) BY <1>2
<1>4. DaemonStep(x, t) /\ DaemonStep(y, t) BY DaemonScanStep
<1>5. \A q \in Result : q.discarded \in Nat BY DEF Result
<1>7. CASE BadLength(t)
  <2> DEFINE q == DaemonScan[Tail(t)]
  <2>1. q \in Result /\ a.rest = q.rest /\ a.out = q.out /\ a.discarded = q.discarded + (m + 1)
    BY <1>4, <1>7 DEF DaemonStep
  <2>2. b.rest = q.rest /\ b.out = q.out /\ b.discarded = q.discarded + (n + 1)
    BY <1>4, <1>7 DEF DaemonStep
  <2> HIDE DEF q, m, n, a, b
  <2>3. q.discarded \in Nat BY <2>1, <1>5
  <2>4. a.discarded = b.discarded + (Len(x) - Len(y)) BY <2>1, <2>2, <2>3, <1>2, <1>3
  <2> QED BY <2>1, <2>2, <2>4 DEF a, b
<1>8. CASE Whole(t)
  <2> DEFINE q == DaemonScan[Behind(t)]
  <2>1. q \in Result /\ a.rest = q.rest /\ a.out = <<PayloadOf(t)>> \o q.out
        /\ a.discarded = q.discarded + m
    BY <1>4, <1>8 DEF DaemonStep
  <2>2. b.rest = q.rest /\ b.out = <<PayloadOf(t)>> \o q.out /\ b.discarded = q.discarded + n
    BY <1>4, <1>8 DEF DaemonStep
  <2> HIDE DEF q, m, n, a, b
  <2>3. q.discarded \in Nat BY <2>1, <1>5
  <2>4. a.discarded = b.discarded + (Len(x) - Len(y)) BY <2>1, <2>2, <2>3, <1>2, <1>3
  <2> QED BY <2>1, <2>2, <2>4 DEF a, b
<1>9. CASE ~BadLength(t) /\ ~Whole(t)
  <2>1. a.rest = t /\ a.out = <<>> /\ a.discarded = m BY <1>4, <1>9 DEF DaemonStep
  <2>2. b.rest = t /\ b.out = <<>> /\ b.discarded = n BY <1>4, <1>9 DEF DaemonStep
  <2> HIDE DEF m, n, a, b
  <2>3. a.discarded = b.discarded + (Len(x) - Len(y)) BY <2>1, <2>2, <1>3, Zenon
  <2> QED BY <2>1, <2>2, <2>3 DEF a, b
<1> QED BY <1>7, <1>8, <1>9

Joined(a, b) == a \o b

LEMMA JoinedRegroups ==
  \A a, b, c \in Seq(Seq(Byte)) : Joined(a, Joined(b, c)) = Joined(Joined(a, b), c)
<1> TAKE a, b, c \in Seq(Seq(Byte))
<1> QED BY SMT DEF Joined

LEMMA BytesRegroup ==
  \A a, b, c \in Seq(Byte) : Joined(a, Joined(b, c)) = Joined(Joined(a, b), c)
<1> TAKE a, b, c \in Seq(Byte)
<1> QED BY SMT DEF Joined

\* Result w is result r followed by result q.
Continues(w, r, q) ==
  /\ w.rest = q.rest
  /\ w.out = r.out \o q.out
  /\ w.discarded = r.discarded + q.discarded

\* The daemon's reader may be given its bytes in one chunk or in two.
LEMMA ChunkByChunk ==
  ASSUME NEW s0 \in Seq(Byte), NEW u \in Seq(Byte)
  PROVE  Continues(DaemonScan[s0 \o u], DaemonScan[s0], DaemonScan[DaemonScan[s0].rest \o u])
<1> DEFINE Good(s) == Continues(DaemonScan[s \o u], DaemonScan[s], DaemonScan[DaemonScan[s].rest \o u])
           T == {s \in Seq(Byte) : Good(s)}
<1>r. \A s \in Seq(Byte) : DaemonScan[s] \in Result BY DaemonScanDef
<1>t. \A q \in Result : q.rest \in Seq(Byte) /\ q.out \in Seq(Seq(Byte)) /\ q.discarded \in Nat
  BY DEF Result
<1>c. \A s \in Seq(Byte) : s \o u \in Seq(Byte) /\ Len(s \o u) = Len(s) + Len(u)
                           /\ Len(s) \in Nat /\ Len(u) \in Nat
  BY ConcatProperties, LenProperties
<1>1. ASSUME NEW s \in Seq(Byte), \A r \in Seq(Byte) : Len(r) < Len(s) => r \in T
      PROVE  Good(s)
  <2> DEFINE t == FromSync(s)
             n == Len(s) - Len(t)
             r == DaemonScan[s]
             w == DaemonScan[s \o u]
             v == DaemonScan[t \o u]
  <2>1. /\ t \in Seq(Byte) /\ n \in Nat
        /\ BadLength(t) => Tail(t) \in Seq(Byte) /\ Len(Tail(t)) < Len(s)
        /\ Whole(t) => Behind(t) \in Seq(Byte) /\ Len(Behind(t)) < Len(s)
    BY ShorterLeft
  <2>2. DaemonStep(s, t) BY DaemonScanStep
  <2>3. s \o u \in Seq(Byte) /\ t \o u \in Seq(Byte) /\ r \in Result /\ w \in Result /\ v \in Result
    BY <2>1, <1>c, <1>r
  <2>4. FromSync(s \o u) = FromSync(t \o u) BY FromSyncConcat
  <2>5. w.rest = v.rest /\ w.out = v.out /\ w.discarded = v.discarded + (Len(s \o u) - Len(t \o u))
    BY <2>3, <2>4, SameLeft
  <2>6. w.discarded = v.discarded + n
    <3>1. Len(s \o u) = Len(s) + Len(u) /\ Len(t \o u) = Len(t) + Len(u) /\ Len(s) \in Nat
          /\ Len(u) \in Nat /\ Len(t) \in Nat
      BY <2>1, <1>c
    <3>2. \A a, b, c \in Nat : (a + c) - (b + c) = a - b OBVIOUS
    <3>3. Len(s \o u) - Len(t \o u) = n BY <3>1, <3>2
    <3> QED BY <3>3, <2>5
  <2>h. Len(t) >= 3 => Headed(t) BY <2>1, LeftIsHeaded
  <2>7. CASE BadLength(t)
    <3> DEFINE a == DaemonScan[Tail(t)]
               b == DaemonScan[a.rest \o u]
               c == DaemonScan[Tail(t) \o u]
    <3>1. Tail(t) \in T BY <2>1, <2>7, <1>1
    <3>2. Continues(c, a, b) /\ Tail(t) \in Seq(Byte) BY <3>1
    <3>3. a \in Result /\ r.rest = a.rest /\ r.out = a.out /\ r.discarded = a.discarded + (n + 1)
      BY <2>2, <2>7 DEF DaemonStep
    <3>4. Headed(t) BY <2>h, <2>7 DEF BadLength, Overhead
    <3> DEFINE x == t \o u
    <3>5. FromSync(x) = x /\ BadLength(x) /\ Tail(x) = Tail(t) \o u /\ x \in Seq(Byte)
      BY <3>4, <2>1, <2>7, MoreBehind
    <3>6. DaemonStep(x, x) BY <3>5, DaemonScanStep
    <3>7. v.rest = c.rest /\ v.out = c.out /\ v.discarded = c.discarded + ((Len(x) - Len(x)) + 1)
          /\ c \in Result
      BY <3>5, <3>6 DEF DaemonStep
    <3>8. Len(x) - Len(x) = 0 BY <3>5, LenProperties
    <3>9. b \in Result BY <3>2, <3>3, <1>r, <1>t, <1>c
    <3>10. DaemonScan[r.rest \o u] = b BY <3>3
    <3> HIDE DEF a, b, c, x, n, r, w, v
    <3>11. w.rest = b.rest BY <2>5, <3>7, <3>2 DEF Continues
    <3>12. w.out = r.out \o b.out BY <2>5, <3>7, <3>2, <3>3 DEF Continues
    <3>13. w.discarded = ((a.discarded + b.discarded) + (0 + 1)) + n
      BY <2>6, <3>7, <3>2, <3>8 DEF Continues
    <3>14. a.discarded \in Nat /\ b.discarded \in Nat BY <3>3, <3>9, <1>t
    <3>15. \A i, j, k \in Nat : ((i + j) + (0 + 1)) + k = (i + (k + 1)) + j OBVIOUS
    <3>i. ((a.discarded + b.discarded) + (0 + 1)) + n = (a.discarded + (n + 1)) + b.discarded
      BY <3>14, <3>15, <2>1, Zenon
    <3>16. w.discarded = r.discarded + b.discarded BY <3>13, <3>i, <3>3, Zenon
    <3>17. Continues(w, r, b) BY <3>11, <3>12, <3>16 DEF Continues
    <3> QED BY <3>10, <3>17 DEF w, r
  <2>8. CASE Whole(t)
    <3> DEFINE p == PayloadOf(t)
               a == DaemonScan[Behind(t)]
               b == DaemonScan[a.rest \o u]
               c == DaemonScan[Behind(t) \o u]
    <3>1. Behind(t) \in T BY <2>1, <2>8, <1>1
    <3>2. Continues(c, a, b) /\ Behind(t) \in Seq(Byte) BY <3>1
    <3>3. a \in Result /\ r.rest = a.rest /\ r.out = <<p>> \o a.out /\ r.discarded = a.discarded + n
      BY <2>2, <2>8 DEF DaemonStep
    <3>4. Headed(t)
      <4>1. Len(t) >= 3 BY <2>8 DEF Whole, Overhead
      <4> QED BY <4>1, <2>h
    <3> DEFINE x == t \o u
    <3>5. FromSync(x) = x /\ Whole(x) /\ Behind(x) = Behind(t) \o u /\ x \in Seq(Byte)
          /\ PayloadOf(x) = p
      BY <3>4, <2>1, <2>8, MoreBehind
    <3>6. DaemonStep(x, x) BY <3>5, DaemonScanStep
    <3>7. v.rest = c.rest /\ v.out = <<p>> \o c.out /\ v.discarded = c.discarded + (Len(x) - Len(x))
          /\ c \in Result
      BY <3>5, <3>6 DEF DaemonStep
    <3>8. Len(x) - Len(x) = 0 BY <3>5, LenProperties
    <3>9. b \in Result BY <3>2, <3>3, <1>r, <1>t, <1>c
    <3>10. DaemonScan[r.rest \o u] = b BY <3>3
    <3>p. p \in Seq(Byte) BY <2>1, <2>8, BehindAFrame
    <3> HIDE DEF a, b, c, x, n, r, w, v, p
    <3>11. w.rest = b.rest BY <2>5, <3>7, <3>2 DEF Continues
    <3>12. w.out = <<p>> \o (a.out \o b.out) BY <2>5, <3>7, <3>2 DEF Continues
    <3>13. w.discarded = ((a.discarded + b.discarded) + 0) + n
      BY <2>6, <3>7, <3>2, <3>8 DEF Continues
    <3>14. a.discarded \in Nat /\ b.discarded \in Nat /\ a.out \in Seq(Seq(Byte))
           /\ b.out \in Seq(Seq(Byte)) /\ <<p>> \in Seq(Seq(Byte))
      BY <3>3, <3>9, <1>t, <3>p
    <3>15. \A i, j, k \in Nat : ((i + j) + 0) + k = (i + k) + j OBVIOUS
    <3>i. ((a.discarded + b.discarded) + 0) + n = (a.discarded + n) + b.discarded
      BY <3>14, <3>15, <2>1, Zenon
    <3>16. w.discarded = r.discarded + b.discarded BY <3>13, <3>i, <3>3, Zenon
    <3>17. <<p>> \o (a.out \o b.out) = (<<p>> \o a.out) \o b.out 
      <4> DEFINE e == <<p>>
                 f == a.out
                 g == b.out
      <4>1. e \in Seq(Seq(Byte)) /\ f \in Seq(Seq(Byte)) /\ g \in Seq(Seq(Byte)) BY <3>14
      <4> HIDE DEF e, f, g
      <4>2. Joined(e, Joined(f, g)) = Joined(Joined(e, f), g) BY <4>1, JoinedRegroups
      <4> QED BY <4>2 DEF e, f, g, Joined
    <3>18. w.out = r.out \o b.out BY <3>12, <3>17, <3>3
    <3>19. Continues(w, r, b) BY <3>11, <3>18, <3>16 DEF Continues
    <3> QED BY <3>10, <3>19 DEF w, r
  <2>9. CASE ~BadLength(t) /\ ~Whole(t)
    <3>1. r.rest = t /\ r.out = <<>> /\ r.discarded = n BY <2>2, <2>9 DEF DaemonStep
    <3>2. DaemonScan[r.rest \o u] = v BY <3>1
    <3>3. v.out \in Seq(Seq(Byte)) /\ v.discarded \in Nat BY <2>3, <1>t
    <3> HIDE DEF n, r, w, v
    <3>4. <<>> \o v.out = v.out BY <3>3, ConcatEmptySeq
    <3>5. v.discarded + n = n + v.discarded BY <3>3, <2>1
    <3>6. Continues(w, r, v) BY <3>1, <3>4, <3>5, <2>5, <2>6 DEF Continues
    <3> QED BY <3>2, <3>6 DEF w, r
  <2> QED BY <2>7, <2>8, <2>9
<1> HIDE DEF Good
<1>2. \A s \in Seq(Byte) : (\A r \in Seq(Byte) : Len(r) < Len(s) => r \in T) => s \in T
  BY <1>1
<1> HIDE DEF T
<1>3. Seq(Byte) \subseteq T BY <1>2, LengthInduction
<1> QED BY <1>3 DEF T, Good

-----------------------------------------------------------------------------
(* What a reader holds between two calls *)

Waiting(t) == t \in Seq(Byte) /\ FromSync(t) = t /\ ~BadLength(t) /\ ~Whole(t)

LEMMA EmptyScan ==
  /\ Waiting(<<>>)
  /\ DaemonScan[<<>>].rest = <<>> /\ DaemonScan[<<>>].out = <<>> /\ DaemonScan[<<>>].discarded = 0
<1>1. <<>> \in Seq(Byte) /\ Len(<<>>) = 0 OBVIOUS
<1>2. Syncs(<<>>) = {} BY <1>1 DEF Syncs
<1>3. FromSync(<<>>) = <<>> BY <1>1, <1>2, FromSyncNone
<1>4. ~BadLength(<<>>) /\ ~Whole(<<>>) BY <1>1 DEF BadLength, Whole, Overhead
<1>5. DaemonStep(<<>>, <<>>) BY <1>1, <1>3, DaemonScanStep
<1> QED BY <1>1, <1>3, <1>4, <1>5 DEF DaemonStep, Waiting

LEMMA WaitingIsShort ==
  ASSUME NEW t, Waiting(t)
  PROVE  Len(t) \in Nat /\ Len(t) < Overhead + MaxLen
<1>1. t \in Seq(Byte) /\ Len(t) \in Nat BY LenProperties DEF Waiting
<1>2. MaxLen \in Nat BY LengthsAssumption
<1>3. CASE Len(t) < 3 BY <1>1, <1>2, <1>3 DEF Overhead
<1>4. CASE ~(Len(t) < 3)
  <2>1. Len(t) >= Overhead BY <1>1, <1>4 DEF Overhead
  <2>2. t[3] \in Lengths BY <2>1 DEF Waiting, BadLength
  <2>3. t[3] \in Nat /\ t[3] <= MaxLen BY <2>2, LengthsAssumption DEF Lengths
  <2>4. ~(Len(t) >= Overhead + t[3]) BY <2>1, <2>2 DEF Waiting, Whole
  <2> QED BY <2>3, <2>4, <1>1, <1>2 DEF Overhead
<1> QED BY <1>1, <1>3, <1>4

\* Whatever the chunk, what the daemon's reader holds behind it is not yet a frame.
LEMMA RestWaits ==
  ASSUME NEW s0 \in Seq(Byte)
  PROVE  Waiting(DaemonScan[s0].rest)
<1> DEFINE T == {s \in Seq(Byte) : Waiting(DaemonScan[s].rest)}
<1>1. ASSUME NEW s \in Seq(Byte), \A r \in Seq(Byte) : Len(r) < Len(s) => r \in T
      PROVE  Waiting(DaemonScan[s].rest)
  <2> DEFINE t == FromSync(s)
  <2>1. /\ t \in Seq(Byte)
        /\ BadLength(t) => Tail(t) \in Seq(Byte) /\ Len(Tail(t)) < Len(s)
        /\ Whole(t) => Behind(t) \in Seq(Byte) /\ Len(Behind(t)) < Len(s)
    BY ShorterLeft
  <2>2. DaemonStep(s, t) BY DaemonScanStep
  <2>3. FromSync(t) = t BY FromSyncType
  <2> HIDE DEF t
  <2>4. CASE BadLength(t)
    <3>1. Tail(t) \in T BY <2>1, <2>4, <1>1
    <3>2. DaemonScan[s].rest = DaemonScan[Tail(t)].rest BY <2>2, <2>4 DEF DaemonStep
    <3> QED BY <3>1, <3>2
  <2>5. CASE Whole(t)
    <3>1. Behind(t) \in T BY <2>1, <2>5, <1>1
    <3>2. DaemonScan[s].rest = DaemonScan[Behind(t)].rest BY <2>2, <2>5 DEF DaemonStep
    <3> QED BY <3>1, <3>2
  <2>6. CASE ~BadLength(t) /\ ~Whole(t)
    <3>1. DaemonScan[s].rest = t BY <2>2, <2>6 DEF DaemonStep
    <3> QED BY <3>1, <2>1, <2>3, <2>6 DEF Waiting
  <2> QED BY <2>4, <2>5, <2>6
<1>2. \A s \in Seq(Byte) : (\A r \in Seq(Byte) : Len(r) < Len(s) => r \in T) => s \in T
  BY <1>1
<1> HIDE DEF T
<1>3. Seq(Byte) \subseteq T BY <1>2, LengthInduction
<1> QED BY <1>3 DEF T

\* The board's loop and the daemon's differ only in what they do behind a frame.
LEMMA NothingBehind ==
  ASSUME NEW s0 \in Seq(Byte), BoardScan[s0].out = <<>> \/ BoardScan[s0].rest = <<>>
  PROVE  BoardScan[s0] = DaemonScan[s0]
<1> DEFINE Ends(s) == BoardScan[s].out = <<>> \/ BoardScan[s].rest = <<>>
           T == {s \in Seq(Byte) : Ends(s) => BoardScan[s] = DaemonScan[s]}
<1>r. \A s \in Seq(Byte) : BoardScan[s] \in Result /\ DaemonScan[s] \in Result
  BY DaemonScanDef, BoardScanDef
<1>1. ASSUME NEW s \in Seq(Byte), \A r \in Seq(Byte) : Len(r) < Len(s) => r \in T, Ends(s)
      PROVE  BoardScan[s] = DaemonScan[s]
  <2> DEFINE t == FromSync(s)
             n == Len(s) - Len(t)
             a == BoardScan[s]
             b == DaemonScan[s]
  <2>1. /\ t \in Seq(Byte) /\ n \in Nat
        /\ BadLength(t) => Tail(t) \in Seq(Byte) /\ Len(Tail(t)) < Len(s)
    BY ShorterLeft
  <2>2. DaemonStep(s, t) /\ BoardStep(s, t) BY DaemonScanStep, BoardScanStep
  <2>3. a \in Result /\ b \in Result BY <1>r
  <2>4. CASE BadLength(t)
    <3> DEFINE c == BoardScan[Tail(t)]
               d == DaemonScan[Tail(t)]
    <3>1. a.rest = c.rest /\ a.out = c.out /\ a.discarded = c.discarded + (n + 1)
      BY <2>2, <2>4 DEF BoardStep
    <3>2. b.rest = d.rest /\ b.out = d.out /\ b.discarded = d.discarded + (n + 1)
      BY <2>2, <2>4 DEF DaemonStep
    <3>3. Tail(t) \in T BY <2>1, <2>4, <1>1
    <3>4. Ends(Tail(t)) BY <3>1, <1>1
    <3>5. c = d BY <3>3, <3>4
    <3> HIDE DEF a, b, c, d
    <3>6. a.rest = b.rest /\ a.out = b.out /\ a.discarded = b.discarded
      BY <3>1, <3>2, <3>5, Zenon
    <3>7. a = b BY <3>6, <2>3, ResultEqual
    <3> QED BY <3>7 DEF a, b
  <2>5. CASE Whole(t)
    <3> DEFINE p == PayloadOf(t)
               d == DaemonScan[Behind(t)]
    <3>1. a.rest = Behind(t) /\ a.out = <<p>> /\ a.discarded = n BY <2>2, <2>5 DEF BoardStep
    <3>2. b.rest = d.rest /\ b.out = <<p>> \o d.out /\ b.discarded = d.discarded + n
      BY <2>2, <2>5 DEF DaemonStep
    <3>p. p \in Seq(Byte) BY <2>1, <2>5, BehindAFrame
    <3>3. a.out # <<>>
      <4>1. <<p>> # <<>> OBVIOUS
      <4> QED BY <4>1, <3>1
    <3>4. Behind(t) = <<>> BY <3>1, <3>3, <1>1
    <3>5. d.rest = <<>> /\ d.out = <<>> /\ d.discarded = 0 BY <3>4, EmptyScan
    <3>6. <<p>> \o <<>> = <<p>> BY <3>p
    <3>7. 0 + n = n BY <2>1
    <3> HIDE DEF a, b, d, p, n
    <3>8. a.rest = b.rest /\ a.out = b.out /\ a.discarded = b.discarded
      BY <3>1, <3>2, <3>4, <3>5, <3>6, <3>7, Zenon
    <3>9. a = b BY <3>8, <2>3, ResultEqual
    <3> QED BY <3>9 DEF a, b
  <2>6. CASE ~BadLength(t) /\ ~Whole(t)
    <3>1. a.rest = t /\ a.out = <<>> /\ a.discarded = n BY <2>2, <2>6 DEF BoardStep
    <3>2. b.rest = t /\ b.out = <<>> /\ b.discarded = n BY <2>2, <2>6 DEF DaemonStep
    <3> HIDE DEF a, b, n
    <3>3. a = b BY <3>1, <3>2, <2>3, ResultEqual
    <3> QED BY <3>3 DEF a, b
  <2> QED BY <2>4, <2>5, <2>6
<1>2. \A s \in Seq(Byte) : (\A r \in Seq(Byte) : Len(r) < Len(s) => r \in T) => s \in T
  BY <1>1
<1> HIDE DEF T
<1>3. Seq(Byte) \subseteq T BY <1>2, LengthInduction
<1> QED BY <1>3 DEF T

LEMMA TooShort ==
  ASSUME NEW s \in Seq(Byte), Len(s) <= 2
  PROVE  BoardScan[s].out = <<>>
<1> DEFINE t == FromSync(s)
<1>1. Len(t) \in Nat /\ Len(s) \in Nat /\ Len(t) <= Len(s) BY FromSyncType
<1>2. ~(Len(t) >= Overhead) BY <1>1 DEF Overhead
<1>3. ~BadLength(t) /\ ~Whole(t) BY <1>2 DEF BadLength, Whole
<1>4. BoardStep(s, t) BY BoardScanStep
<1> QED BY <1>3, <1>4 DEF BoardStep

\* One more byte completes at most the frame that was waited for, and leaves
\* nothing behind it: fed by the byte, the board's reader does what the daemon's does.
LEMMA ByteByByte ==
  ASSUME NEW w, Waiting(w), NEW b \in Byte
  PROVE  BoardScan[Append(w, b)] = DaemonScan[Append(w, b)]
<1> DEFINE x == Append(w, b)
           r == BoardScan[x]
<1>1. w \in Seq(Byte) /\ FromSync(w) = w /\ ~BadLength(w) /\ ~Whole(w) /\ Len(w) \in Nat
  BY LenProperties DEF Waiting
<1>2. x \in Seq(Byte) /\ Len(x) = Len(w) + 1 /\ \A i \in 1 .. Len(w) : x[i] = w[i]
  BY <1>1, AppendProperties
<1>3. Headed(w) => FromSync(x) = x
  <2>1. x = w \o <<b>> BY <1>1, AppendIsConcat
  <2>2. <<b>> \in Seq(Byte) OBVIOUS
  <2>3. Headed(w) => FromSync(w \o <<b>>) = w \o <<b>> BY <2>2, <1>1, MoreBehind
  <2> HIDE DEF x
  <2> QED BY <2>1, <2>3
<1>4. Len(w) >= 2 => Headed(w) BY <1>1, LeftIsHeaded
<1> HIDE DEF x
<1>5. CASE Len(w) < 2
  <2>1. Len(x) <= 2 BY <1>5, <1>1, <1>2
  <2> QED BY <2>1, <1>2, TooShort, NothingBehind DEF x
<1>6. CASE Len(w) = 2
  <2>1. FromSync(x) = x /\ Len(x) = 3 BY <1>6, <1>3, <1>4, <1>2
  <2>2. BoardStep(x, x) BY <2>1, <1>2, BoardScanStep
  <2>3. CASE BadLength(x)
    <3>1. Tail(x) \in Seq(Byte) /\ Len(Tail(x)) = Len(x) - 1 BY <2>3, <1>2, BehindABadLength
    <3>a. \A n : n = 3 - 1 => n <= 2 OBVIOUS
    <3>2. Len(Tail(x)) <= 2 BY <3>1, <3>a, <2>1, Zenon
    <3>3. BoardScan[Tail(x)].out = <<>> BY <3>1, <3>2, TooShort
    <3>4. r.out = <<>> BY <2>2, <2>3, <3>3 DEF BoardStep
    <3> QED BY <3>4, <1>2, NothingBehind DEF x
  <2>4. CASE ~BadLength(x)
    <3>1. ~Whole(x)
      <4> SUFFICES ASSUME Whole(x) PROVE FALSE OBVIOUS
      <4>1. x[3] \in Lengths /\ Len(x) >= Overhead + x[3] BY DEF Whole
      <4>2. x[3] \in Nat /\ x[3] >= 1 BY <4>1, LengthsAssumption DEF Lengths
      <4> QED BY <4>1, <4>2, <2>1 DEF Overhead
    <3>2. r.out = <<>> BY <2>2, <2>4, <3>1 DEF BoardStep
    <3> QED BY <3>2, <1>2, NothingBehind DEF x
  <2> QED BY <2>3, <2>4
<1>7. CASE Len(w) > 2
  <2>1. FromSync(x) = x BY <1>7, <1>1, <1>3, <1>4
  <2>2. 3 \in 1 .. Len(w) /\ Len(w) >= Overhead BY <1>7, <1>1 DEF Overhead
  <2>3. x[3] = w[3] BY <2>2, <1>2
  <2>4. w[3] \in Lengths BY <2>2, <1>1 DEF BadLength
  <2>5. ~BadLength(x) BY <2>3, <2>4 DEF BadLength
  <2>6. BoardStep(x, x) BY <2>1, <1>2, BoardScanStep
  <2>7. CASE Whole(x)
    <3>1. Behind(x) \in Seq(Byte) /\ Len(Behind(x)) = Len(x) - (Overhead + x[3]) /\ x[3] \in Nat
          /\ Len(x) >= Overhead + x[3]
      BY <2>7, <1>2, BehindAFrame
    <3>2. ~(Len(w) >= Overhead + w[3]) BY <2>2, <2>4, <1>1 DEF Whole
    <3>3. Len(Behind(x)) = 0 BY <3>1, <3>2, <2>3, <1>1, <1>2 DEF Overhead
    <3>4. Behind(x) = <<>> BY <3>1, <3>3, EmptySeq
    <3>5. r.rest = <<>> BY <2>6, <2>7, <3>4 DEF BoardStep
    <3> QED BY <3>5, <1>2, NothingBehind DEF x
  <2>8. CASE ~Whole(x)
    <3>1. r.out = <<>> BY <2>5, <2>6, <2>8 DEF BoardStep
    <3> QED BY <3>1, <1>2, NothingBehind DEF x
  <2> QED BY <2>7, <2>8
<1>8. Len(w) < 2 \/ Len(w) = 2 \/ Len(w) > 2
  <2>1. \A n \in Nat : n < 2 \/ n = 2 \/ n > 2 OBVIOUS
  <2> QED BY <1>1, <2>1, Zenon
<1> QED BY <1>5, <1>6, <1>7, <1>8

\* No byte is counted twice or forgotten.
LEMMA BoardConserves ==
  ASSUME NEW s0 \in Seq(Byte)
  PROVE  LET r == BoardScan[s0]
         IN  \/ r.out = <<>> /\ Len(s0) = Len(r.rest) + r.discarded
             \/ \E p \in Seq(Byte) :
                  r.out = <<p>> /\ Len(s0) = Len(r.rest) + r.discarded + (Overhead + Len(p))
<1> DEFINE Kept(s, r) ==
             \/ r.out = <<>> /\ Len(s) = Len(r.rest) + r.discarded
             \/ \E p \in Seq(Byte) :
                  r.out = <<p>> /\ Len(s) = Len(r.rest) + r.discarded + (Overhead + Len(p))
           T == {s \in Seq(Byte) : Kept(s, BoardScan[s])}
<1>1. ASSUME NEW s \in Seq(Byte), \A r \in Seq(Byte) : Len(r) < Len(s) => r \in T
      PROVE  Kept(s, BoardScan[s])
  <2> DEFINE t == FromSync(s)
             n == Len(s) - Len(t)
             a == BoardScan[s]
  <2>1. /\ t \in Seq(Byte) /\ n \in Nat
        /\ BadLength(t) => Tail(t) \in Seq(Byte) /\ Len(Tail(t)) < Len(s)
    BY ShorterLeft
  <2>2. BoardStep(s, t) BY BoardScanStep
  <2>3. Len(s) \in Nat /\ Len(t) \in Nat BY FromSyncType
  <2>n. n = Len(s) - Len(t) OBVIOUS
  <2>4. CASE BadLength(t)
    <3> DEFINE c == BoardScan[Tail(t)]
    <3>1. c \in Result /\ a.rest = c.rest /\ a.out = c.out /\ a.discarded = c.discarded + (n + 1)
      BY <2>2, <2>4 DEF BoardStep
    <3>2. Tail(t) \in T BY <2>1, <2>4, <1>1
    <3>3. Kept(Tail(t), c) BY <3>2
    <3>4. Len(Tail(t)) = Len(t) - 1 BY <2>1, <2>4, BehindABadLength
    <3>5. c.discarded \in Nat /\ Len(c.rest) \in Nat
      <4>1. c.discarded \in Nat /\ c.rest \in Seq(Byte) BY <3>1 DEF Result
      <4> HIDE DEF c
      <4> QED BY <4>1, LenProperties
    <3> HIDE DEF a, c, n, t
    <3>6. ASSUME NEW k \in Nat, Len(Tail(t)) = Len(c.rest) + c.discarded + k
          PROVE  Len(s) = Len(a.rest) + a.discarded + k
      <4>1. \A i, j, l, m \in Nat : l - 1 = i + j + k /\ n = m - l => m = i + (j + (n + 1)) + k
        BY <2>1
      <4>2. Len(t) - 1 = Len(c.rest) + c.discarded + k BY <3>6, <3>4, Zenon
      <4>3. Len(s) = Len(c.rest) + (c.discarded + (n + 1)) + k
        BY <4>1, <4>2, <2>n, <2>3, <3>5, Zenon
      <4> QED BY <4>3, <3>1, Zenon
    <3>7. CASE c.out = <<>> /\ Len(Tail(t)) = Len(c.rest) + c.discarded
      <4>1. Len(Tail(t)) = Len(c.rest) + c.discarded + 0 BY <3>7, <3>5
      <4>2. Len(s) = Len(a.rest) + a.discarded + 0 BY <4>1, <3>6
      <4>3. Len(a.rest) \in Nat /\ a.discarded \in Nat
        BY <3>1, <3>5, <2>1
      <4>4. Len(s) = Len(a.rest) + a.discarded BY <4>2, <4>3
      <4> QED BY <4>4, <3>1, <3>7 DEF a
    <3>8. CASE \E p \in Seq(Byte) :
                  c.out = <<p>> /\ Len(Tail(t)) = Len(c.rest) + c.discarded + (Overhead + Len(p))
      <4>1. PICK p \in Seq(Byte) :
                  c.out = <<p>> /\ Len(Tail(t)) = Len(c.rest) + c.discarded + (Overhead + Len(p))
        BY <3>8
      <4>2. Overhead + Len(p) \in Nat BY LenProperties DEF Overhead
      <4>3. Len(s) = Len(a.rest) + a.discarded + (Overhead + Len(p)) BY <4>1, <4>2, <3>6
      <4> QED BY <4>1, <4>3, <3>1 DEF a
    <3> QED BY <3>3, <3>7, <3>8
  <2>5. CASE Whole(t)
    <3> DEFINE p == PayloadOf(t)
    <3>1. a.rest = Behind(t) /\ a.out = <<p>> /\ a.discarded = n BY <2>2, <2>5 DEF BoardStep
    <3>2. p \in Seq(Byte) /\ Len(p) = t[3] /\ t[3] \in Nat
          /\ Len(Behind(t)) = Len(t) - (Overhead + t[3])
      BY <2>1, <2>5, BehindAFrame
    <3> HIDE DEF p, a, n, t
    <3>3. \A i, j, k \in Nat : i = (j - (Overhead + k)) + (i - j) + (Overhead + k)
      BY DEF Overhead
    <3>4. Len(s) = (Len(t) - (Overhead + t[3])) + (Len(s) - Len(t)) + (Overhead + t[3])
      BY <3>3, <3>2, <2>3, Zenon
    <3>5. Len(s) = Len(a.rest) + a.discarded + (Overhead + Len(p))
      BY <3>4, <3>1, <3>2, <2>n, Zenon
    <3> QED BY <3>1, <3>2, <3>5 DEF a
  <2>6. CASE ~BadLength(t) /\ ~Whole(t)
    <3>1. a.rest = t /\ a.out = <<>> /\ a.discarded = n BY <2>2, <2>6 DEF BoardStep
    <3>2. Len(s) = Len(t) + n BY <2>3
    <3> HIDE DEF a, n, t
    <3>3. Len(s) = Len(a.rest) + a.discarded BY <3>1, <3>2, Zenon
    <3> QED BY <3>1, <3>3 DEF a
  <2> QED BY <2>4, <2>5, <2>6
<1> HIDE DEF Kept
<1>2. \A s \in Seq(Byte) : (\A r \in Seq(Byte) : Len(r) < Len(s) => r \in T) => s \in T
  BY <1>1
<1> HIDE DEF T
<1>3. Seq(Byte) \subseteq T BY <1>2, LengthInduction
<1> QED BY <1>3 DEF T, Kept

-----------------------------------------------------------------------------
(* The bytes of the frames emitted *)

BytesOf(q) == FoldLeft(LAMBDA n, p : n + Overhead + Len(p), 0, q)

LEMMA GreatestOfSome ==
  ASSUME NEW n \in Nat, NEW s \in SUBSET (1 .. n), s # {}
  PROVE  Max(s) \in s /\ \A y \in s : y <= Max(s)
<1> DEFINE T == {n - y : y \in s}
<1>1. T # {} /\ T \subseteq Nat
  <2>1. \A y \in 1 .. n : n - y \in Nat OBVIOUS
  <2> QED BY <2>1
<1> HIDE DEF T
<1>2. PICK d \in T : \A e \in T : d <= e BY <1>1, LeastNatural
<1>3. PICK x \in s : d = n - x BY DEF T
<1>4. \A y \in s : x >= y
  <2> TAKE y \in s
  <2>1. x \in 1 .. n /\ y \in 1 .. n OBVIOUS
  <2>2. n - y \in T BY DEF T
  <2>3. n - x <= n - y BY <2>2, <1>2, <1>3
  <2> QED BY <2>1, <2>3
<1>5. Max(s) \in s /\ \A y \in s : Max(s) >= y BY <1>4 DEF Max
<1>6. \A y \in s : y \in Int BY <1>1
<1> HIDE DEF Max
<1>7. \A a, b \in 1 .. n : a >= b => b <= a OBVIOUS
<1> QED BY <1>5, <1>7

\* The fold's own iteration, over the indices of q.
IterAt(q, s, f) == IF s = {} THEN 0 ELSE f[s \ {Max(s)}] + Overhead + Len(q[Max(s)])
Iter(q) == CHOOSE f : f = [s \in SUBSET (DOMAIN q) |-> IterAt(q, s, f)]

LEMMA IterDef ==
  ASSUME NEW q \in Seq(Seq(Byte))
  PROVE  /\ Iter(q) \in [SUBSET (DOMAIN q) -> Nat]
         /\ \A s \in SUBSET (DOMAIN q) : Iter(q)[s] = IterAt(q, s, Iter(q))
<1> DEFINE n == Len(q)
           S == SUBSET (1 .. n)
           size == [s \in S |-> IF s = {} THEN 0 ELSE Max(s)]
           Fix(f) == f = [s \in S |-> IterAt(q, s, f)]
<1>1. n \in Nat /\ DOMAIN q = 1 .. n BY LenProperties
<1>2. \A s \in S : s # {} => Max(s) \in s /\ \A y \in s : y <= Max(s) BY <1>1, GreatestOfSome
<1>3. size \in [S -> Nat]
  <2>1. \A s \in S : s # {} => Max(s) \in 1 .. n BY <1>2
  <2> HIDE DEF n
  <2>2. 1 .. n \subseteq Nat OBVIOUS
  <2> QED BY <2>1, <2>2
<1>4. ASSUME NEW s \in S, s # {}
      PROVE  s \ {Max(s)} \in S /\ size[s \ {Max(s)}] < size[s] /\ Max(s) \in 1 .. n
  <2> DEFINE m == Max(s)
             r == s \ {m}
  <2>1. m \in s /\ (\A y \in s : y <= m) BY <1>2, <1>4
  <2>2. r \in S /\ m \in 1 .. n BY <2>1
  <2>3. size[s] = m BY <1>4
  <2> HIDE DEF m
  <2>4. CASE r = {}
    <3>1. size[r] = 0 BY <2>4, <2>2
    <3> QED BY <3>1, <2>2, <2>3 DEF m
  <2>5. CASE r # {}
    <3>1. size[r] = Max(r) /\ Max(r) \in r BY <2>2, <2>5, <1>2
    <3>2. Max(r) <= m /\ Max(r) # m /\ Max(r) \in 1 .. n BY <3>1, <2>1, <2>2
    <3> HIDE DEF r, size
    <3>3. size[r] < size[s] BY <3>1, <3>2, <2>2, <2>3, <1>1
    <3> QED BY <3>3, <2>2 DEF r, m
  <2> QED BY <2>4, <2>5
<1>5. \A i \in 1 .. n : Len(q[i]) \in Nat BY <1>1, LenProperties
<1> HIDE DEF size, n, S
<1>6. ASSUME NEW s \in S, NEW f, \A r \in S : size[r] < size[s] => f[r] \in Nat
      PROVE  IterAt(q, s, f) \in Nat
  <2>1. CASE s = {} BY <2>1 DEF IterAt
  <2>2. CASE s # {}
    <3>1. f[s \ {Max(s)}] \in Nat /\ Len(q[Max(s)]) \in Nat BY <2>2, <1>4, <1>5, <1>6
    <3>2. f[s \ {Max(s)}] + Overhead + Len(q[Max(s)]) \in Nat BY <3>1 DEF Overhead
    <3> QED BY <2>2, <3>2 DEF IterAt
  <2> QED BY <2>1, <2>2
<1>7. ASSUME NEW s \in S, NEW g, NEW h, \A r \in S : size[r] < size[s] => g[r] = h[r]
      PROVE  IterAt(q, s, g) = IterAt(q, s, h)
  <2>1. CASE s = {} BY <2>1 DEF IterAt
  <2>2. CASE s # {}
    <3>1. g[s \ {Max(s)}] = h[s \ {Max(s)}] BY <2>2, <1>4, <1>7
    <3> QED BY <2>2, <3>1 DEF IterAt
  <2> QED BY <2>1, <2>2
<1> DEFINE D == [a \in S \X [S -> Nat] |-> IterAt(q, a[1], a[2])]
<1>8. D \in [S \X [S -> Nat] -> Nat]
  <2>1. \A s \in S : \A f \in [S -> Nat] : IterAt(q, s, f) \in Nat BY <1>6
  <2> QED BY <2>1
<1>9. \A s \in S : \A f \in [S -> Nat] : D[<<s, f>>] = IterAt(q, s, f) OBVIOUS
<1> HIDE DEF D
<1>10. Causal(D, S, Nat, size) BY <1>7, <1>9 DEF Causal
<1>11. Soluble(D, S, Nat)
  <2> DEFINE N == Nat
  <2>1. N # {} /\ D \in [S \X [S -> N] -> N] /\ Causal(D, S, N, size) BY <1>8, <1>10
  <2>2. size \in [S -> Nat] BY <1>3
  <2> HIDE DEF N
  <2>3. Soluble(D, S, N) BY <2>1, <2>2, Recursion
  <2> QED BY <2>3 DEF N
<1>12. PICK f \in [S -> Nat] : \A s \in S : f[s] = D[<<s, f>>] BY <1>11 DEF Soluble
<1>13. Fix(f) BY <1>9, <1>12
<1>14. Iter(q) = CHOOSE g : Fix(g) BY <1>1 DEF Iter, S
<1>15. Fix(Iter(q)) BY <1>13, <1>14
<1>16. \A s \in S : Iter(q)[s] = IterAt(q, s, Iter(q)) BY <1>15
<1>17. \A s \in S : Iter(q)[s] \in Nat
  <2> DEFINE T == {s \in S : Iter(q)[s] \in Nat}
  <2>1. ASSUME NEW s \in S, \A r \in S : size[r] < size[s] => r \in T PROVE s \in T
    <3>1. \A r \in S : size[r] < size[s] => Iter(q)[r] \in Nat BY <2>1
    <3>2. IterAt(q, s, Iter(q)) \in Nat BY <3>1, <1>6
    <3> QED BY <3>2, <1>16
  <2> HIDE DEF T
  <2>2. S \subseteq T BY <2>1, <1>3, Induction
  <2> QED BY <2>2 DEF T
<1>18. Iter(q) = [s \in S |-> Iter(q)[s]]
  <2>1. Iter(q) = [s \in S |-> IterAt(q, s, Iter(q))] BY <1>15
  <2> HIDE DEF Fix
  <2> QED BY <2>1
<1>19. Iter(q) \in [S -> Nat] BY <1>17, <1>18
<1>20. S = SUBSET (DOMAIN q) BY <1>1 DEF S
<1> HIDE DEF Fix
<1> QED BY <1>16, <1>19, <1>20

LEMMA BytesOfNothing == BytesOf(<<>>) = 0
<1>1. <<>> \in Seq(Seq(Byte)) /\ DOMAIN <<>> = {} OBVIOUS
<1>2. BytesOf(<<>>) = Iter(<<>>)[DOMAIN <<>>]
  BY DEF BytesOf, Iter, IterAt, FoldLeft, MapThenFoldSet
<1>3. {} \in SUBSET (DOMAIN <<>>) OBVIOUS
<1>4. Iter(<<>>)[{}] = IterAt(<<>>, {}, Iter(<<>>)) BY <1>1, <1>3, IterDef
<1>5. IterAt(<<>>, {}, Iter(<<>>)) = 0 BY DEF IterAt
<1> QED BY <1>1, <1>2, <1>4, <1>5, Zenon

LEMMA BytesOfAppend ==
  ASSUME NEW q \in Seq(Seq(Byte)), NEW p \in Seq(Byte)
  PROVE  /\ BytesOf(q) \in Nat
         /\ BytesOf(Append(q, p)) = BytesOf(q) + (Overhead + Len(p))
<1> DEFINE n == Len(q)
           a == Append(q, p)
           S == SUBSET (1 .. n)
           size == [s \in S |-> IF s = {} THEN 0 ELSE Max(s)]
<1>1. n \in Nat /\ DOMAIN q = 1 .. n BY LenProperties
<1>2. a \in Seq(Seq(Byte)) /\ Len(a) = n + 1 /\ (\A i \in 1 .. n : a[i] = q[i]) /\ a[n + 1] = p
  BY AppendProperties
<1>3. DOMAIN a = 1 .. n + 1 BY <1>2, LenProperties
<1>4. BytesOf(q) = Iter(q)[DOMAIN q] /\ BytesOf(a) = Iter(a)[DOMAIN a]
  BY DEF BytesOf, Iter, IterAt, FoldLeft, MapThenFoldSet
<1> HIDE DEF a
<1>5. /\ Iter(q) \in [S -> Nat]
      /\ \A s \in S : Iter(q)[s] = IterAt(q, s, Iter(q))
  BY <1>1, IterDef
<1>6. \A s \in SUBSET (1 .. n + 1) : Iter(a)[s] = IterAt(a, s, Iter(a))
  BY <1>2, <1>3, IterDef
<1>7. \A s \in S : s \in SUBSET (1 .. n + 1)
  <2>1. 1 .. n \subseteq 1 .. n + 1 BY <1>1
  <2> QED BY <2>1
<1>8. \A s \in S : s # {} => Max(s) \in s /\ \A y \in s : y <= Max(s) BY <1>1, GreatestOfSome
<1>9. ASSUME NEW s \in S, s # {}
      PROVE  s \ {Max(s)} \in S /\ size[s \ {Max(s)}] < size[s] /\ Max(s) \in 1 .. n
  <2> DEFINE m == Max(s)
             r == s \ {m}
  <2>1. m \in s /\ (\A y \in s : y <= m) BY <1>8, <1>9
  <2>2. r \in S /\ m \in 1 .. n BY <2>1
  <2>3. size[s] = m BY <1>9
  <2> HIDE DEF m
  <2>4. CASE r = {}
    <3>1. size[r] = 0 BY <2>4, <2>2
    <3> QED BY <3>1, <2>2, <2>3 DEF m
  <2>5. CASE r # {}
    <3>1. size[r] = Max(r) /\ Max(r) \in r BY <2>2, <2>5, <1>8
    <3>2. Max(r) <= m /\ Max(r) # m /\ Max(r) \in 1 .. n BY <3>1, <2>1, <2>2
    <3> HIDE DEF r, size
    <3>3. size[r] < size[s] BY <3>1, <3>2, <2>2, <2>3, <1>1
    <3> QED BY <3>3, <2>2 DEF r, m
  <2> QED BY <2>4, <2>5
<1>10. size \in [S -> Nat]
  <2>1. \A s \in S : s # {} => Max(s) \in 1 .. n BY <1>8
  <2> HIDE DEF n
  <2>2. 1 .. n \subseteq Nat OBVIOUS
  <2> QED BY <2>1, <2>2
<1>n. 1 .. n \in S BY DEF S
<1>d. BytesOf(q) = Iter(q)[1 .. n] BY <1>1, <1>4
<1> HIDE DEF size, S, n
<1>11. ASSUME NEW s \in S, \A r \in S : size[r] < size[s] => Iter(a)[r] = Iter(q)[r]
       PROVE  Iter(a)[s] = Iter(q)[s]
  <2>1. Iter(a)[s] = IterAt(a, s, Iter(a)) /\ Iter(q)[s] = IterAt(q, s, Iter(q))
    BY <1>5, <1>6, <1>7
  <2>2. CASE s = {} BY <2>1, <2>2 DEF IterAt
  <2>3. CASE s # {}
    <3>1. Iter(a)[s \ {Max(s)}] = Iter(q)[s \ {Max(s)}] /\ a[Max(s)] = q[Max(s)]
      BY <2>3, <1>2, <1>9, <1>11
    <3> QED BY <2>1, <2>3, <3>1 DEF IterAt
  <2> QED BY <2>2, <2>3
<1>12. \A s \in S : Iter(a)[s] = Iter(q)[s]
  <2> DEFINE T == {s \in S : Iter(a)[s] = Iter(q)[s]}
  <2>1. ASSUME NEW s \in S, \A r \in S : size[r] < size[s] => r \in T PROVE s \in T
    <3>1. \A r \in S : size[r] < size[s] => Iter(a)[r] = Iter(q)[r] BY <2>1
    <3> QED BY <3>1, <1>11
  <2> HIDE DEF T
  <2>2. S \subseteq T BY <2>1, <1>10, Induction
  <2> QED BY <2>2 DEF T
<1>13. Max(1 .. n + 1) = n + 1 /\ (1 .. n + 1) \ {n + 1} = 1 .. n
  <2>a. n + 1 \in Nat BY <1>1
  <2>b. n + 1 \in 1 .. n + 1 BY <1>1
  <2>1. n + 1 \in Nat /\ 1 .. n + 1 # {} /\ n + 1 \in 1 .. n + 1 BY <2>a, <2>b
  <2>2. Max(1 .. n + 1) \in 1 .. n + 1 /\ \A y \in 1 .. n + 1 : y <= Max(1 .. n + 1)
    <3> DEFINE m == n + 1
    <3>1. m \in Nat /\ 1 .. m \in SUBSET (1 .. m) /\ 1 .. m # {} BY <2>1
    <3> HIDE DEF m
    <3>2. Max(1 .. m) \in 1 .. m /\ \A y \in 1 .. m : y <= Max(1 .. m) BY <3>1, GreatestOfSome
    <3> QED BY <3>2 DEF m
  <2>3. Max(1 .. n + 1) <= n + 1 /\ n + 1 <= Max(1 .. n + 1) BY <2>1, <2>2
  <2>4. Max(1 .. n + 1) = n + 1 BY <2>1, <2>2, <2>3
  <2>5. (1 .. n + 1) \ {n + 1} = 1 .. n BY <1>1
  <2> QED BY <2>4, <2>5
<1>14. BytesOf(a) = Iter(a)[1 .. n] + Overhead + Len(a[n + 1])
  <2>a. n + 1 \in 1 .. n + 1 BY <1>1
  <2>1. 1 .. n + 1 # {} BY <2>a
  <2>2. BytesOf(a) = IterAt(a, 1 .. n + 1, Iter(a)) BY <1>3, <1>4, <1>6
  <2> QED BY <2>1, <2>2, <1>13 DEF IterAt
<1>15. Iter(q)[1 .. n] \in Nat BY <1>5, <1>n
<1>16. BytesOf(a) = BytesOf(q) + Overhead + Len(p) BY <1>2, <1>12, <1>14, <1>d, <1>n
<1>17. Len(p) \in Nat BY LenProperties
<1>18. \A i, j \in Nat : i + Overhead + j = i + (Overhead + j) BY DEF Overhead
<1>19. BytesOf(a) = BytesOf(q) + (Overhead + Len(p)) BY <1>15, <1>16, <1>17, <1>18, <1>d, Zenon
<1> QED BY <1>15, <1>19, <1>d DEF a

-----------------------------------------------------------------------------
(* The two readers on one stream *)

Types ==
  /\ payload \in Seq(Byte) /\ left \in Seq(Byte)
  /\ written \in Nat /\ lost \in Nat
  /\ held \in Seq(Byte) /\ emitted \in Seq(Seq(Byte)) /\ discarded \in Nat
  /\ port \in Seq(Byte)
  /\ buf \in Seq(Byte) /\ yielded \in Seq(Seq(Byte)) /\ discardedPy \in Nat

\* If the daemon's reader were now given all that is in the port, it would be where
\* the board's is.
Behindhand ==
  LET r == DaemonScan[buf \o port]
  IN  /\ held = r.rest
      /\ emitted = yielded \o r.out
      /\ discarded = discardedPy + r.discarded

Accounted == written = Len(held) + discarded + BytesOf(emitted)

Agreement == Types /\ Waiting(held) /\ Waiting(buf) /\ Behindhand /\ Accounted

LEMMA WaitingScan ==
  ASSUME NEW t, Waiting(t)
  PROVE  DaemonScan[t].rest = t /\ DaemonScan[t].out = <<>> /\ DaemonScan[t].discarded = 0
<1>1. t \in Seq(Byte) /\ FromSync(t) = t /\ ~BadLength(t) /\ ~Whole(t) BY DEF Waiting
<1>2. DaemonStep(t, t) BY <1>1, DaemonScanStep
<1>3. DaemonScan[t].rest = t /\ DaemonScan[t].out = <<>> /\ DaemonScan[t].discarded = Len(t) - Len(t)
  BY <1>1, <1>2 DEF DaemonStep
<1>4. Len(t) - Len(t) = 0
  <2>1. \A n \in Nat : n - n = 0 OBVIOUS
  <2>2. Len(t) \in Nat BY <1>1, LenProperties
  <2> QED BY <2>1, <2>2
<1> QED BY <1>3, <1>4, Zenon

LEMMA AgreementSuffices == Agreement => ReadersAgree
<1> SUFFICES ASSUME Agreement PROVE ReadersAgree OBVIOUS
<1>1. Types /\ Waiting(held) /\ Waiting(buf) /\ Behindhand /\ Accounted BY DEF Agreement
<1>2. ASSUME port = <<>>
      PROVE  yielded = emitted /\ buf = held /\ discardedPy = discarded
  <2>1. buf \o port = buf
    <3>1. buf \in Seq(Byte) BY <1>1 DEF Types
    <3> QED BY <3>1, <1>2, ConcatEmptySeq
  <2>2. DaemonScan[buf].rest = buf /\ DaemonScan[buf].out = <<>> /\ DaemonScan[buf].discarded = 0
    BY <1>1, WaitingScan
  <2>3. held = buf /\ emitted = yielded \o <<>> /\ discarded = discardedPy + 0
    BY <1>1, <2>1, <2>2, Zenon DEF Behindhand
  <2>4. yielded \in Seq(Seq(Byte)) /\ discardedPy \in Nat BY <1>1 DEF Types
  <2>5. yielded \o <<>> = yielded /\ discardedPy + 0 = discardedPy BY <2>4, ConcatEmptySeq
  <2> QED BY <2>3, <2>5
<1>3. written = Len(held) + discarded
                + FoldLeft(LAMBDA n, p : n + Overhead + Len(p), 0, emitted)
  BY <1>1 DEF Accounted, BytesOf
<1>4. Len(held) < Overhead + MaxLen /\ Len(buf) < Overhead + MaxLen BY <1>1, WaitingIsShort
<1> QED BY <1>2, <1>3, <1>4 DEF ReadersAgree

LEMMA AgreementInit == Init => Agreement
<1> SUFFICES ASSUME Init PROVE Agreement OBVIOUS
<1>1. <<>> \in Seq(Byte) /\ <<>> \in Seq(Seq(Byte)) OBVIOUS
<1>2. Types BY <1>1 DEF Init, Types
<1>3. Waiting(held) /\ Waiting(buf) BY EmptyScan DEF Init
<1>4. Behindhand
  <2>1. buf \o port = <<>> BY <1>1, ConcatEmptySeq DEF Init
  <2>2. <<>> \o <<>> = <<>> BY <1>1, ConcatEmptySeq
  <2>3. 0 + 0 = 0 OBVIOUS
  <2>4. held = <<>> /\ emitted = <<>> /\ yielded = <<>> /\ discarded = 0 /\ discardedPy = 0
    BY DEF Init
  <2>5. DaemonScan[buf \o port].rest = <<>> /\ DaemonScan[buf \o port].out = <<>>
        /\ DaemonScan[buf \o port].discarded = 0
    BY <2>1, EmptyScan, Zenon
  <2> QED BY <2>2, <2>3, <2>4, <2>5, Zenon DEF Behindhand
<1>5. Accounted
  <2>1. Len(held) = 0 /\ discarded = 0 /\ written = 0 BY DEF Init
  <2>2. BytesOf(emitted) = 0 BY BytesOfNothing DEF Init
  <2>3. 0 = 0 + 0 + 0 OBVIOUS
  <2> QED BY <2>1, <2>2, <2>3, Zenon DEF Accounted
<1> QED BY <1>2, <1>3, <1>4, <1>5 DEF Agreement

\* A byte on the wire.
LEMMA ArriveAgrees ==
  ASSUME Agreement, NEW b \in Byte, Arrive(b), UNCHANGED daemonReader,
         payload' \in Seq(Byte), left' \in Seq(Byte), lost' \in Nat
  PROVE  Agreement'
<1> DEFINE r == DaemonScan[buf \o port]
           x == Append(held, b)
           q == DaemonScan[x]
<1>1. Types /\ Waiting(held) /\ Waiting(buf) /\ Behindhand /\ Accounted BY DEF Agreement
<1>2. q = BoardScan[x] BY <1>1, ByteByByte
<1>3. held' = q.rest /\ emitted' = emitted \o q.out /\ discarded' = discarded + q.discarded
      /\ port' = Append(port, b) /\ written' = written + 1
  BY <1>2 DEF Arrive
<1>4. buf' = buf /\ yielded' = yielded /\ discardedPy' = discardedPy BY DEF daemonReader
<1>5. held \in Seq(Byte) /\ buf \in Seq(Byte) /\ port \in Seq(Byte) /\ <<b>> \in Seq(Byte)
      /\ buf \o port \in Seq(Byte) /\ x \in Seq(Byte)
  BY <1>1 DEF Types
<1>6. Continues(DaemonScan[(buf \o port) \o <<b>>], r, DaemonScan[r.rest \o <<b>>])
  BY <1>5, ChunkByChunk
<1>7. (buf \o port) \o <<b>> = buf \o port'
  <2>1. port' = port \o <<b>> BY <1>3, <1>5, AppendIsConcat
  <2> HIDE <1>6, <1>3
  <2>2. (buf \o port) \o <<b>> = buf \o (port \o <<b>>) BY <1>5
  <2> QED BY <2>1, <2>2
<1>8. r.rest \o <<b>> = x
  <2>1. r.rest = held BY <1>1 DEF Behindhand
  <2>2. held \o <<b>> = x BY <1>5, AppendIsConcat
  <2> HIDE DEF r, x
  <2> QED BY <2>1, <2>2
<1>9. Continues(DaemonScan[buf \o port'], r, q) BY <1>6, <1>7, <1>8
<1>10. r \in Result /\ q \in Result BY <1>5, DaemonScanDef
<1>11. emitted = yielded \o r.out /\ discarded = discardedPy + r.discarded
  BY <1>1 DEF Behindhand
<1>12. /\ \/ q.out = <<>> /\ Len(x) = Len(q.rest) + q.discarded
          \/ \E p \in Seq(Byte) :
               q.out = <<p>> /\ Len(x) = Len(q.rest) + q.discarded + (Overhead + Len(p))
       /\ Len(x) = Len(held) + 1
  <2>1. LET c == BoardScan[x]
        IN  \/ c.out = <<>> /\ Len(x) = Len(c.rest) + c.discarded
            \/ \E p \in Seq(Byte) :
                 c.out = <<p>> /\ Len(x) = Len(c.rest) + c.discarded + (Overhead + Len(p))
    BY <1>5, BoardConserves
  <2>2. Len(x) = Len(held) + 1 BY <1>5, AppendProperties
  <2> HIDE DEF x, q
  <2> QED BY <2>1, <2>2, <1>2
<1>w. Waiting(q.rest) BY <1>5, RestWaits
<1> HIDE DEF r, q, x
<1>13. /\ q.rest \in Seq(Byte) /\ q.out \in Seq(Seq(Byte)) /\ q.discarded \in Nat
       /\ r.rest \in Seq(Byte) /\ r.out \in Seq(Seq(Byte)) /\ r.discarded \in Nat
       /\ Len(q.rest) \in Nat /\ Len(held) \in Nat
  <2>1. /\ q.rest \in Seq(Byte) /\ q.out \in Seq(Seq(Byte)) /\ q.discarded \in Nat
        /\ r.rest \in Seq(Byte) /\ r.out \in Seq(Seq(Byte)) /\ r.discarded \in Nat
    BY <1>10 DEF Result
  <2> QED BY <2>1, <1>5, LenProperties
<1>14. Types'
  <2>1. emitted' \in Seq(Seq(Byte)) BY <1>1, <1>3, <1>13 DEF Types
  <2>2. discarded' \in Nat /\ written' \in Nat
    <3>1. \A i, j \in Nat : i + j \in Nat /\ i + 1 \in Nat OBVIOUS
    <3>2. discarded \in Nat /\ written \in Nat BY <1>1 DEF Types
    <3>3. discarded + q.discarded \in Nat /\ written + 1 \in Nat BY <3>1, <3>2, <1>13, Zenon
    <3> QED BY <3>3, <1>3
  <2>3. port' \in Seq(Byte) BY <1>3, <1>5
  <2>4. held' \in Seq(Byte) BY <1>3, <1>13
  <2> QED BY <2>1, <2>2, <2>3, <2>4, <1>1, <1>4 DEF Types
<1>15. Behindhand'
  <2> DEFINE v == DaemonScan[buf \o port']
  <2>1. v.rest = q.rest /\ v.out = r.out \o q.out /\ v.discarded = r.discarded + q.discarded
    BY <1>9 DEF Continues
  <2>2. yielded \in Seq(Seq(Byte)) /\ discardedPy \in Nat BY <1>1 DEF Types
  <2> HIDE DEF v
  <2>3. emitted' = yielded \o v.out
    <3>1. emitted' = (yielded \o r.out) \o q.out BY <1>3, <1>11
    <3> DEFINE e == yielded
               f == r.out
               g == q.out
    <3>2. e \in Seq(Seq(Byte)) /\ f \in Seq(Seq(Byte)) /\ g \in Seq(Seq(Byte)) BY <1>13, <2>2
    <3> HIDE DEF e, f, g
    <3>3. Joined(e, Joined(f, g)) = Joined(Joined(e, f), g) BY <3>2, JoinedRegroups
    <3> QED BY <3>1, <3>3, <2>1 DEF e, f, g, Joined
  <2>4. discarded' = discardedPy + v.discarded
    <3>1. \A i, j, k \in Nat : (i + j) + k = i + (j + k) OBVIOUS
    <3>2. (discardedPy + r.discarded) + q.discarded = discardedPy + (r.discarded + q.discarded)
      BY <3>1, <2>2, <1>13
    <3> QED BY <3>2, <2>1, <1>3, <1>11
  <2>5. held' = v.rest BY <2>1, <1>3
  <2>6. v = (DaemonScan[buf \o port])' BY <1>4 DEF v
  <2> QED BY <2>3, <2>4, <2>5, <2>6, <1>4 DEF Behindhand
<1>16. Waiting(held') /\ Waiting(buf') BY <1>w, <1>3, <1>4, <1>1
<1>17. Accounted'
  <2>1. emitted \in Seq(Seq(Byte)) /\ BytesOf(emitted) \in Nat /\ discarded \in Nat
    <3>1. emitted \in Seq(Seq(Byte)) /\ discarded \in Nat BY <1>1 DEF Types
    <3>2. <<>> \in Seq(Byte) OBVIOUS
    <3> QED BY <3>1, <3>2, BytesOfAppend
  <2>2. written = Len(held) + discarded + BytesOf(emitted) BY <1>1 DEF Accounted
  <2>4. CASE q.out = <<>> /\ Len(x) = Len(q.rest) + q.discarded
    <3>1. emitted' = emitted BY <2>4, <1>3, <2>1, ConcatEmptySeq
    <3>2. Len(held) + 1 = Len(q.rest) + q.discarded BY <2>4, <1>12
    <3>4. Len(held) + discarded + BytesOf(emitted) + 1
          = Len(q.rest) + (discarded + q.discarded) + BytesOf(emitted)
      <4> DEFINE i == Len(held)
                 j == discarded
                 k == BytesOf(emitted)
                 l == Len(q.rest)
                 m == q.discarded
      <4>1. i \in Nat /\ j \in Nat /\ k \in Nat /\ l \in Nat /\ m \in Nat /\ i + 1 = l + m
        BY <3>2, <2>1, <1>13
      <4> HIDE DEF i, j, k, l, m
      <4>2. i + j + k + 1 = l + (j + m) + k BY <4>1
      <4> QED BY <4>2 DEF i, j, k, l, m
    <3>5. written' = Len(held') + discarded' + BytesOf(emitted')
      BY <3>1, <3>4, <2>2, <1>3
    <3> QED BY <3>5 DEF Accounted
  <2>5. CASE \E p \in Seq(Byte) :
               q.out = <<p>> /\ Len(x) = Len(q.rest) + q.discarded + (Overhead + Len(p))
    <3>0. PICK p \in Seq(Byte) :
               q.out = <<p>> /\ Len(x) = Len(q.rest) + q.discarded + (Overhead + Len(p))
      BY <2>5
    <3>1. emitted' = Append(emitted, p)
      <4>1. Append(emitted, p) = emitted \o <<p>> BY <2>1, AppendIsConcat
      <4> QED BY <4>1, <3>0, <1>3
    <3>2. Len(held) + 1 = Len(q.rest) + q.discarded + (Overhead + Len(p)) BY <3>0, <1>12
    <3>3. Overhead + Len(p) \in Nat BY LenProperties DEF Overhead
    <3>4. Len(held) + discarded + BytesOf(emitted) + 1
          = Len(q.rest) + (discarded + q.discarded) + (BytesOf(emitted) + (Overhead + Len(p)))
      <4> DEFINE i == Len(held)
                 j == discarded
                 k == BytesOf(emitted)
                 l == Len(q.rest)
                 m == q.discarded
                 o == Overhead + Len(p)
      <4>1. i \in Nat /\ j \in Nat /\ k \in Nat /\ l \in Nat /\ m \in Nat /\ o \in Nat
            /\ i + 1 = l + m + o
        BY <3>2, <3>3, <2>1, <1>13
      <4> HIDE DEF i, j, k, l, m, o
      <4>2. i + j + k + 1 = l + (j + m) + (k + o) BY <4>1
      <4> QED BY <4>2 DEF i, j, k, l, m, o
    <3>5. BytesOf(Append(emitted, p)) = BytesOf(emitted) + (Overhead + Len(p))
      BY <2>1, BytesOfAppend
    <3>6. written' = Len(held') + discarded' + BytesOf(emitted')
      BY <3>1, <3>4, <3>5, <2>2, <1>3, Zenon
    <3> QED BY <3>6 DEF Accounted
  <2> QED BY <2>4, <2>5, <1>12
<1> QED BY <1>14, <1>15, <1>16, <1>17 DEF Agreement

\* The daemon reads some of what is there.
LEMMA ReadChunkAgrees ==
  ASSUME Agreement, ReadChunk
  PROVE  Agreement'
<1>1. Types /\ Waiting(held) /\ Waiting(buf) /\ Behindhand /\ Accounted BY DEF Agreement
<1>2. PICK k \in 1 .. Len(port) :
        LET r == DaemonScan[buf \o SubSeq(port, 1, k)]
        IN  /\ buf' = r.rest
            /\ yielded' = yielded \o r.out
            /\ discardedPy' = discardedPy + r.discarded
            /\ port' = SubSeq(port, k + 1, Len(port))
  BY DEF ReadChunk
<1>3. UNCHANGED <<writer, boardReader>> BY DEF ReadChunk
<1>4. /\ payload' = payload /\ left' = left /\ written' = written /\ lost' = lost
      /\ held' = held /\ emitted' = emitted /\ discarded' = discarded
  BY <1>3 DEF writer, boardReader
<1> DEFINE c == SubSeq(port, 1, k)
           y == buf \o c
           r == DaemonScan[y]
           q == DaemonScan[r.rest \o port']
<1>5. buf' = r.rest /\ yielded' = yielded \o r.out /\ discardedPy' = discardedPy + r.discarded
      /\ port' = SubSeq(port, k + 1, Len(port))
  BY <1>2
<1>6. buf \in Seq(Byte) /\ port \in Seq(Byte) /\ Len(port) \in Nat BY <1>1, LenProperties DEF Types
<1>7. k \in 0 .. Len(port) BY <1>6
<1>8. c \in Seq(Byte) /\ port' \in Seq(Byte) BY <1>5, <1>6, <1>7, PrefixProperties, SuffixProperties
<1>9. y \o port' = buf \o port
  <2>1. c \o port' = port
    <3>1. SubSeq(port, 1, k) \o SubSeq(port, k + 1, Len(port)) = SubSeq(port, 1, Len(port))
      <4>1. 1 \in 1 .. Len(port) + 1 /\ k \in 1 - 1 .. Len(port) /\ Len(port) \in k .. Len(port)
        BY <1>6, <1>7
      <4> QED BY <4>1, <1>6, ConcatAdjacentSubSeq
    <3>2. SubSeq(port, 1, Len(port)) = port BY <1>6, SubSeqFull
    <3> QED BY <3>1, <3>2, <1>5
  <2> DEFINE e == buf
             f == c
             g == port'
  <2>2. e \in Seq(Byte) /\ f \in Seq(Byte) /\ g \in Seq(Byte) BY <1>6, <1>8
  <2>3. y = e \o f /\ f \o g = port BY <2>1
  <2> HIDE DEF e, f, g, y
  <2>4. Joined(e, Joined(f, g)) = Joined(Joined(e, f), g) BY <2>2, BytesRegroup
  <2>5. e \o (f \o g) = (e \o f) \o g BY <2>4 DEF Joined
  <2> QED BY <2>3, <2>5 DEF e, g
<1>10. y \in Seq(Byte) BY <1>6, <1>8
<1>11. Continues(DaemonScan[buf \o port], r, q) BY <1>8, <1>9, <1>10, ChunkByChunk
<1>12. r \in Result /\ Waiting(r.rest) BY <1>10, DaemonScanDef, RestWaits
<1>13. q \in Result /\ q = (DaemonScan[buf \o port])'
  <2>1. r.rest \in Seq(Byte) BY <1>12 DEF Result
  <2>2. r.rest \o port' \in Seq(Byte) BY <2>1, <1>8
  <2> QED BY <2>2, <1>5, DaemonScanDef
<1> DEFINE v == DaemonScan[buf \o port]
<1>14. held = v.rest /\ emitted = yielded \o v.out /\ discarded = discardedPy + v.discarded
  BY <1>1 DEF Behindhand
<1>15. v.rest = q.rest /\ v.out = r.out \o q.out /\ v.discarded = r.discarded + q.discarded
  BY <1>11 DEF Continues
<1> HIDE DEF c, y, r, q, v
<1>16. /\ q.rest \in Seq(Byte) /\ q.out \in Seq(Seq(Byte)) /\ q.discarded \in Nat
       /\ r.rest \in Seq(Byte) /\ r.out \in Seq(Seq(Byte)) /\ r.discarded \in Nat
  BY <1>12, <1>13 DEF Result
<1>17. yielded \in Seq(Seq(Byte)) /\ discardedPy \in Nat BY <1>1 DEF Types
<1>18. Types'
  <2>1. yielded' \in Seq(Seq(Byte)) BY <1>5, <1>16, <1>17
  <2>2. discardedPy' \in Nat
    <3>1. \A i, j \in Nat : i + j \in Nat OBVIOUS
    <3>2. discardedPy + r.discarded \in Nat BY <3>1, <1>16, <1>17, Zenon
    <3> QED BY <3>2, <1>5
  <2>3. buf' \in Seq(Byte) BY <1>5, <1>16
  <2> QED BY <2>1, <2>2, <2>3, <1>1, <1>4, <1>8 DEF Types
<1>19. Behindhand'
  <2>1. emitted' = yielded' \o q.out
    <3>1. emitted' = yielded \o (r.out \o q.out) BY <1>4, <1>14, <1>15
    <3> DEFINE e == yielded
               f == r.out
               g == q.out
    <3>2. e \in Seq(Seq(Byte)) /\ f \in Seq(Seq(Byte)) /\ g \in Seq(Seq(Byte)) BY <1>16, <1>17
    <3> HIDE DEF e, f, g
    <3>3. Joined(e, Joined(f, g)) = Joined(Joined(e, f), g) BY <3>2, JoinedRegroups
    <3> QED BY <3>1, <3>3, <1>5 DEF e, f, g, Joined
  <2>2. discarded' = discardedPy' + q.discarded
    <3>1. \A i, j, k1 \in Nat : i + (j + k1) = (i + j) + k1 OBVIOUS
    <3>2. discardedPy + (r.discarded + q.discarded) = (discardedPy + r.discarded) + q.discarded
      BY <3>1, <1>16, <1>17
    <3> QED BY <3>2, <1>4, <1>5, <1>14, <1>15
  <2>3. held' = q.rest BY <1>4, <1>14, <1>15
  <2> QED BY <2>1, <2>2, <2>3, <1>13 DEF Behindhand
<1>20. Waiting(held') /\ Waiting(buf') BY <1>1, <1>4, <1>5, <1>12
<1>21. Accounted' BY <1>1, <1>4 DEF Accounted
<1> QED BY <1>18, <1>19, <1>20, <1>21 DEF Agreement

LEMMA FramedBytes ==
  ASSUME NEW p \in Payloads, Framable(p)
  PROVE  /\ p \in Seq(Byte) /\ Len(p) \in Lengths /\ Framed(p) \in Seq(Byte)
         /\ Len(Framed(p)) = Overhead + Len(p)
<1>1. p \in Seq(Byte) /\ Len(p) \in Lengths BY PayloadsAssumption DEF Framable
<1>2. <<Sync0, Sync1, Len(p)>> \in Seq(Byte)
  <2>1. Sync0 \in Byte /\ Sync1 \in Byte /\ Len(p) \in Byte BY <1>1, ByteFacts
  <2> QED BY <2>1
<1> DEFINE h == <<Sync0, Sync1, Len(p)>>
<1>3. Len(h) = 3 OBVIOUS
<1> HIDE DEF h
<1>4. h \o p \in Seq(Byte) /\ Len(h \o p) = 3 + Len(p) BY <1>1, <1>2, <1>3, ConcatProperties DEF h
<1> QED BY <1>1, <1>4 DEF Framed, Overhead, h

LEMMA AgreementStep ==
  ASSUME Agreement, [Next]_vars
  PROVE  Agreement'
<1>1. Types /\ Waiting(held) /\ Waiting(buf) /\ Behindhand /\ Accounted BY DEF Agreement
<1>2. CASE StartFrame
  <2>1. PICK p \in Payloads : Framable(p) /\ payload' = p /\ left' = Framed(p)
    BY <1>2 DEF StartFrame
  <2>2. payload' \in Seq(Byte) /\ left' \in Seq(Byte) BY <2>1, FramedBytes
  <2>3. UNCHANGED <<written, lost, held, emitted, discarded, port, buf, yielded, discardedPy>>
    BY <1>2 DEF StartFrame, boardReader, daemonReader
  <2>4. Types' BY <2>2, <2>3, <1>1 DEF Types
  <2>5. Behindhand' BY <2>3, <1>1 DEF Behindhand
  <2>6. Accounted' /\ Waiting(held') /\ Waiting(buf') BY <2>3, <1>1 DEF Accounted
  <2> QED BY <2>4, <2>5, <2>6 DEF Agreement
<1>3. CASE WriteByte
  <2>1. left # <<>> /\ Arrive(Head(left)) /\ left' = Tail(left) /\ payload' = payload
        /\ UNCHANGED daemonReader
    BY <1>3 DEF WriteByte
  <2>2. left \in Seq(Byte) /\ lost \in Nat /\ payload \in Seq(Byte) BY <1>1 DEF Types
  <2>3. Head(left) \in Byte /\ Tail(left) \in Seq(Byte) BY <2>1, <2>2, HeadTailProperties
  <2>4. lost' \in Nat BY <1>3, <2>2 DEF WriteByte
  <2> QED BY <2>1, <2>2, <2>3, <2>4, ArriveAgrees
<1>4. CASE WriteNoise
  <2>1. PICK b \in Chatter : Arrive(b) BY <1>4 DEF WriteNoise
  <2>2. UNCHANGED <<payload, left, lost, daemonReader>> BY <1>4 DEF WriteNoise
  <2>3. b \in Byte BY DEF Byte
  <2>4. payload' \in Seq(Byte) /\ left' \in Seq(Byte) /\ lost' \in Nat BY <2>2, <1>1 DEF Types
  <2> QED BY <2>1, <2>2, <2>3, <2>4, ArriveAgrees
<1>5. CASE Reset
  <2>1. left' = <<>> /\ lost' = 0
        /\ UNCHANGED <<payload, written, held, emitted, discarded, port, buf, yielded, discardedPy>>
    BY <1>5 DEF Reset, boardReader, daemonReader
  <2>2. <<>> \in Seq(Byte) OBVIOUS
  <2>3. Types' BY <2>1, <2>2, <1>1 DEF Types
  <2>4. Behindhand' BY <2>1, <1>1 DEF Behindhand
  <2>5. Accounted' /\ Waiting(held') /\ Waiting(buf') BY <2>1, <1>1 DEF Accounted
  <2> QED BY <2>3, <2>4, <2>5 DEF Agreement
<1>6. CASE ReadChunk BY <1>6, ReadChunkAgrees
<1>7. CASE UNCHANGED vars
  <2>1. UNCHANGED <<payload, left, written, lost, held, emitted, discarded, port, buf, yielded,
                    discardedPy>>
    BY <1>7 DEF vars, writer, boardReader, daemonReader
  <2>3. Types' BY <2>1, <1>1 DEF Types
  <2>4. Behindhand' BY <2>1, <1>1 DEF Behindhand
  <2>5. Accounted' /\ Waiting(held') /\ Waiting(buf') BY <2>1, <1>1 DEF Accounted
  <2> QED BY <2>3, <2>4, <2>5 DEF Agreement
<1> QED BY <1>2, <1>3, <1>4, <1>5, <1>6, <1>7 DEF Next

\* However the stream is cut into reads, the daemon's framer and the board's reader,
\* two implementations of the one envelope, extract the same candidates, hold the
\* same bytes and count the same bytes as discarded once they have read the same
\* stream; every byte written is held, discarded or in a candidate; and the board's
\* buffer never reaches the length at which it would be cleared
\* (gateway/soundings_gateway/framing.py feed, serial_framing.cpp feed).
THEOREM TheReadersAgree == Spec => []ReadersAgree
<1>1. Spec => []Agreement
  <2>1. Init => Agreement BY AgreementInit
  <2>2. Agreement /\ [Next]_vars => Agreement' BY AgreementStep
  <2> QED BY <2>1, <2>2, PTL DEF Spec
<1>2. Agreement => ReadersAgree BY AgreementSuffices
<1> QED BY <1>1, <1>2, PTL

-----------------------------------------------------------------------------
(* What the board's reader does with the bytes around a frame cut short *)

LEMMA ScanWaits ==
  ASSUME NEW s \in Seq(Byte), NEW t, t = FromSync(s), Len(t) <= 2
  PROVE  BoardScan[s].rest = t /\ BoardScan[s].out = <<>>
<1>1. t \in Seq(Byte) /\ Len(t) \in Nat BY FromSyncType
<1>2. ~(Len(t) >= Overhead) BY <1>1 DEF Overhead
<1>3. ~BadLength(t) /\ ~Whole(t) BY <1>2 DEF BadLength, Whole
<1>4. BoardStep(s, t) BY BoardScanStep
<1> QED BY <1>3, <1>4 DEF BoardStep

LEMMA ScanOne ==
  ASSUME NEW b \in Byte
  PROVE  /\ BoardScan[<<b>>].out = <<>>
         /\ BoardScan[<<b>>].rest = IF b = Sync0 THEN <<Sync0>> ELSE <<>>
<1> DEFINE s == <<b>>
           t == IF b = Sync0 THEN <<Sync0>> ELSE <<>>
<1>1. s \in Seq(Byte) /\ Len(s) = 1 /\ s # <<>> /\ s[1] = b OBVIOUS
<1> HIDE DEF s
<1>2. Syncs(s) = {} BY <1>1 DEF Syncs
<1>3. FromSync(s) = t BY <1>1, <1>2, FromSyncNone
<1>4. Len(t) <= 2
  <2>1. Len(<<Sync0>>) = 1 /\ Len(<<>>) = 0 OBVIOUS
  <2> QED BY <2>1
<1> HIDE DEF t
<1>5. BoardScan[s].rest = t /\ BoardScan[s].out = <<>> BY <1>1, <1>3, <1>4, ScanWaits
<1> QED BY <1>5 DEF s, t

LEMMA ScanTwo ==
  ASSUME NEW a \in Byte, NEW b \in Byte
  PROVE  /\ BoardScan[<<a, b>>].out = <<>>
         /\ BoardScan[<<a, b>>].rest =
              IF a = Sync0 /\ b = Sync1 THEN <<a, b>>
              ELSE IF b = Sync0 THEN <<Sync0>> ELSE <<>>
<1> DEFINE s == <<a, b>>
           t == IF a = Sync0 /\ b = Sync1 THEN s ELSE IF b = Sync0 THEN <<Sync0>> ELSE <<>>
<1>1. s \in Seq(Byte) /\ Len(s) = 2 /\ s # <<>> /\ s[1] = a /\ s[2] = b OBVIOUS
<1>2. Len(<<Sync0>>) = 1 /\ Len(<<>>) = 0 OBVIOUS
<1> HIDE DEF s
<1>3. CASE a = Sync0 /\ b = Sync1
  <2>1. Headed(s) BY <1>1, <1>3 DEF Headed
  <2>2. FromSync(s) = s BY <1>1, <2>1, HeadedStays
  <2>a. Len(s) <= 2 BY <1>1
  <2>3. BoardScan[s].rest = s /\ BoardScan[s].out = <<>> BY <1>1, <2>a, <2>2, ScanWaits
  <2> QED BY <1>3, <2>3 DEF s
<1>4. CASE ~(a = Sync0 /\ b = Sync1)
  <2>1. Syncs(s) = {}
    <3>1. \A i \in 1 .. Len(s) - 1 : i = 1 BY <1>1
    <3>2. \A i \in 1 .. Len(s) - 1 : ~(s[i] = Sync0 /\ s[i + 1] = Sync1)
      <4> TAKE i \in 1 .. Len(s) - 1
      <4>1. i = 1 /\ i + 1 = 2 BY <3>1
      <4> QED BY <4>1, <1>1, <1>4
    <3> QED BY <3>2 DEF Syncs
  <2>2. FromSync(s) = t BY <1>1, <1>4, <2>1, FromSyncNone
  <2>3. Len(t) <= 2 BY <1>2, <1>4
  <2> HIDE DEF t
  <2>4. BoardScan[s].rest = t /\ BoardScan[s].out = <<>> BY <1>1, <2>2, <2>3, ScanWaits
  <2> QED BY <2>4, <1>4 DEF s, t
<1> QED BY <1>3, <1>4

\* A header that turns out to be none is given up one byte at a time.
LEMMA ScanBadHeader ==
  ASSUME NEW b \in Byte, b \notin Lengths
  PROVE  /\ BoardScan[<<Sync0, Sync1, b>>].out = <<>>
         /\ BoardScan[<<Sync0, Sync1, b>>].rest = IF b = Sync0 THEN <<Sync0>> ELSE <<>>
<1> DEFINE s == <<Sync0, Sync1, b>>
           u == <<Sync1, b>>
<1>1. s \in Seq(Byte) /\ Len(s) = 3 /\ s[1] = Sync0 /\ s[2] = Sync1 /\ s[3] = b /\ Tail(s) = u
  <2>1. Sync0 \in Byte /\ Sync1 \in Byte BY ByteFacts
  <2> QED BY <2>1
<1>2. /\ BoardScan[u].out = <<>>
      /\ BoardScan[u].rest = IF b = Sync0 THEN <<Sync0>> ELSE <<>>
  <2>1. Sync1 \in Byte BY ByteFacts
  <2>2. ~(Sync1 = Sync0 /\ b = Sync1) BY SyncAssumption
  <2> QED BY <2>1, <2>2, ScanTwo
<1> HIDE DEF s, u
<1>3. Headed(s) BY <1>1 DEF Headed
<1>4. FromSync(s) = s BY <1>1, <1>3, HeadedStays
<1>5. BadLength(s) BY <1>1 DEF BadLength, Overhead
<1>6. BoardStep(s, s) BY <1>1, <1>4, BoardScanStep
<1>7. BoardScan[s].rest = BoardScan[u].rest /\ BoardScan[s].out = BoardScan[u].out
  BY <1>1, <1>5, <1>6 DEF BoardStep
<1> QED BY <1>2, <1>7 DEF s

\* A frame under way is held until its last byte, and then nothing is.
LEMMA ScanFrame ==
  ASSUME NEW x \in Seq(Byte), Headed(x), Len(x) >= Overhead, x[3] \in Lengths
  PROVE  /\ Len(x) < Overhead + x[3] => BoardScan[x].rest = x /\ BoardScan[x].out = <<>>
         /\ Len(x) = Overhead + x[3] => BoardScan[x].rest = <<>> /\ BoardScan[x].out = <<PayloadOf(x)>>
<1>1. FromSync(x) = x BY HeadedStays
<1>2. BoardStep(x, x) BY <1>1, BoardScanStep
<1>3. ~BadLength(x) BY DEF BadLength
<1>4. Len(x) \in Nat /\ x[3] \in Nat BY ByteFacts, LenProperties
<1>5. ASSUME Len(x) < Overhead + x[3] PROVE BoardScan[x].rest = x /\ BoardScan[x].out = <<>>
  <2>1. ~(Len(x) >= Overhead + x[3]) BY <1>4, <1>5 DEF Overhead
  <2>2. ~Whole(x) BY <2>1 DEF Whole
  <2> QED BY <2>2, <1>2, <1>3 DEF BoardStep
<1>6. ASSUME Len(x) = Overhead + x[3]
      PROVE  BoardScan[x].rest = <<>> /\ BoardScan[x].out = <<PayloadOf(x)>>
  <2>1. Len(x) >= Overhead + x[3] BY <1>4, <1>6 DEF Overhead
  <2>2. Whole(x) BY <2>1 DEF Whole
  <2>3. Behind(x) \in Seq(Byte) /\ Len(Behind(x)) = Len(x) - (Overhead + x[3]) BY <2>2, BehindAFrame
  <2>4. Len(Behind(x)) = 0
    <3>1. \A n \in Nat : n - n = 0 OBVIOUS
    <3> QED BY <2>3, <3>1, <1>4, <1>6
  <2>5. Behind(x) = <<>> BY <2>3, <2>4, EmptySeq
  <2> QED BY <2>2, <2>5, <1>2 DEF BoardStep
<1> QED BY <1>5, <1>6

LEMMA FrameParts ==
  ASSUME NEW p \in Payloads, Framable(p)
  PROVE  LET f == Framed(p) IN
         /\ p \in Seq(Byte) /\ Len(p) \in Lengths /\ Len(p) \in Nat /\ Len(p) >= MinLen
         /\ f \in Seq(Byte) /\ Len(f) = Overhead + Len(p) /\ Len(f) \in Nat /\ Len(f) >= 4
         /\ f[1] = Sync0 /\ f[2] = Sync1 /\ f[3] = Len(p)
         /\ \A i \in 1 .. Len(p) : f[Overhead + i] = p[i]
<1> DEFINE f == Framed(p)
           h == <<Sync0, Sync1, Len(p)>>
<1>1. p \in Seq(Byte) /\ Len(p) \in Lengths /\ f \in Seq(Byte) /\ Len(f) = Overhead + Len(p)
  BY FramedBytes
<1>2. Len(p) \in Nat /\ Len(p) >= MinLen /\ MinLen >= 1 BY <1>1, LengthsAssumption DEF Lengths
<1>3. h \in Seq(Byte) /\ Len(h) = 3 /\ h[1] = Sync0 /\ h[2] = Sync1 /\ h[3] = Len(p)
  <2>1. Sync0 \in Byte /\ Sync1 \in Byte /\ Len(p) \in Byte BY <1>1, ByteFacts
  <2> QED BY <2>1
<1>e. f = h \o p BY DEF Framed
<1> HIDE DEF f, h
<1>4. \A i \in 1 .. Len(h) + Len(p) : f[i] = IF i <= Len(h) THEN h[i] ELSE p[i - Len(h)]
  BY <1>1, <1>3, <1>e, ConcatProperties
<1>5. f[1] = Sync0 /\ f[2] = Sync1 /\ f[3] = Len(p)
  <2>1. 1 \in 1 .. Len(h) + Len(p) /\ 2 \in 1 .. Len(h) + Len(p) /\ 3 \in 1 .. Len(h) + Len(p)
    BY <1>2, <1>3
  <2>2. 1 <= Len(h) /\ 2 <= Len(h) /\ 3 <= Len(h) BY <1>3
  <2> QED BY <2>1, <2>2, <1>3, <1>4
<1>6. \A i \in 1 .. Len(p) : f[Overhead + i] = p[i]
  <2> TAKE i \in 1 .. Len(p)
  <2>1. Overhead + i \in 1 .. Len(h) + Len(p) /\ ~(Overhead + i <= Len(h))
        /\ (Overhead + i) - Len(h) = i
    BY <1>2, <1>3 DEF Overhead
  <2> QED BY <2>1, <1>4
<1>7. Len(f) \in Nat /\ Len(f) >= 4
  <2>1. MinLen \in Nat BY LengthsAssumption
  <2>2. Len(p) >= 1 BY <2>1, <1>2
  <2> QED BY <2>2, <1>1, <1>2 DEF Overhead
<1> QED BY <1>1, <1>2, <1>5, <1>6, <1>7 DEF f

LEMMA NextOfPrefix ==
  ASSUME NEW S, NEW f \in Seq(S), NEW w \in Nat, w + 1 <= Len(f)
  PROVE  Append(SubSeq(f, 1, w), f[w + 1]) = SubSeq(f, 1, w + 1)
<1>1. Len(f) \in Nat /\ w \in 0 .. Len(f) /\ w + 1 \in 0 .. Len(f) /\ w + 1 \in 1 .. Len(f)
  BY LenProperties
<1> DEFINE a == SubSeq(f, 1, w)
           b == SubSeq(f, 1, w + 1)
           c == Append(a, f[w + 1])
<1>2. a \in Seq(S) /\ Len(a) = w /\ \A i \in 1 .. w : a[i] = f[i] BY <1>1, PrefixProperties
<1>3. b \in Seq(S) /\ Len(b) = w + 1 /\ \A i \in 1 .. w + 1 : b[i] = f[i]
  <2> DEFINE v == w + 1
  <2>1. v \in 0 .. Len(f) BY <1>1
  <2> HIDE DEF v
  <2>2. SubSeq(f, 1, v) \in Seq(S) /\ Len(SubSeq(f, 1, v)) = v
        /\ \A i \in 1 .. v : SubSeq(f, 1, v)[i] = f[i]
    BY <2>1, PrefixProperties
  <2> QED BY <2>2 DEF v
<1>4. f[w + 1] \in S BY <1>1, LenProperties
<1> HIDE DEF a, b
<1>5. c \in Seq(S) /\ Len(c) = w + 1 /\ (\A i \in 1 .. w : c[i] = a[i]) /\ c[w + 1] = f[w + 1]
  BY <1>2, <1>4, AppendProperties
<1> HIDE DEF c
<1>6. ASSUME NEW i \in 1 .. Len(c) PROVE c[i] = b[i]
  <2>1. i \in 1 .. w + 1 /\ (i \in 1 .. w \/ i = w + 1) BY <1>1, <1>5
  <2> QED BY <2>1, <1>2, <1>3, <1>5
<1>7. c = b BY <1>3, <1>5, <1>6, SeqEqual
<1> QED BY <1>7 DEF a, b, c

\* A reader in step holds what has been written of the frame until it is complete.
LEMMA ScanPrefix ==
  ASSUME NEW p \in Payloads, Framable(p), NEW w \in 1 .. Len(Framed(p))
  PROVE  LET x == SubSeq(Framed(p), 1, w) IN
         /\ x \in Seq(Byte)
         /\ w < Len(Framed(p)) => BoardScan[x].rest = x /\ BoardScan[x].out = <<>>
         /\ w = Len(Framed(p)) => BoardScan[x].rest = <<>> /\ BoardScan[x].out = <<p>>
         /\ w >= 2 => Headed(x)
         /\ w = 1 => x = <<Sync0>>
         /\ w = 2 => x = <<Sync0, Sync1>>
         /\ w >= 3 => x[3] = Len(p)
         /\ Len(x) = w
<1> DEFINE f == Framed(p)
           x == SubSeq(f, 1, w)
<1>1. /\ p \in Seq(Byte) /\ Len(p) \in Lengths /\ Len(p) \in Nat
      /\ f \in Seq(Byte) /\ Len(f) = Overhead + Len(p) /\ Len(f) \in Nat /\ Len(f) >= 4
      /\ f[1] = Sync0 /\ f[2] = Sync1 /\ f[3] = Len(p)
      /\ \A i \in 1 .. Len(p) : f[Overhead + i] = p[i]
  BY FrameParts
<1>w. w \in 1 .. Len(f) OBVIOUS
<1> HIDE DEF f
<1>2. w \in 0 .. Len(f) /\ w \in Nat /\ w >= 1 /\ w <= Len(f) BY <1>1, <1>w
<1>3. x \in Seq(Byte) /\ Len(x) = w /\ \A i \in 1 .. w : x[i] = f[i]
  BY <1>1, <1>2, PrefixProperties
<1> HIDE DEF x
<1>4. x[1] = Sync0 /\ (w >= 2 => x[2] = Sync1) /\ (w >= 3 => x[3] = Len(p))
  <2>1. 1 \in 1 .. w /\ (w >= 2 => 2 \in 1 .. w) /\ (w >= 3 => 3 \in 1 .. w) BY <1>2
  <2> QED BY <2>1, <1>1, <1>3
<1>5. w >= 2 => Headed(x) BY <1>3, <1>4 DEF Headed
<1>6. w = 1 => x = <<Sync0>>
  <2> SUFFICES ASSUME w = 1 PROVE x = <<Sync0>> OBVIOUS
  <2> DEFINE y == <<Sync0>>
  <2>1. y \in Seq(Byte) /\ Len(y) = 1 /\ y[1] = Sync0 BY ByteFacts
  <2> HIDE DEF y
  <2>2. \A i \in 1 .. Len(x) : x[i] = y[i] BY <2>1, <1>3, <1>4
  <2>3. x = y BY <2>1, <2>2, <1>3, SeqEqual
  <2> QED BY <2>3 DEF y
<1>7. w = 2 => x = <<Sync0, Sync1>>
  <2> SUFFICES ASSUME w = 2 PROVE x = <<Sync0, Sync1>> OBVIOUS
  <2> DEFINE y == <<Sync0, Sync1>>
  <2>1. y \in Seq(Byte) /\ Len(y) = 2 /\ y[1] = Sync0 /\ y[2] = Sync1 BY ByteFacts
  <2> HIDE DEF y
  <2>2. \A i \in 1 .. Len(x) : i = 1 \/ i = 2 BY <1>3
  <2>3. \A i \in 1 .. Len(x) : x[i] = y[i] BY <2>1, <2>2, <1>4
  <2>4. x = y BY <2>1, <2>3, <1>3, SeqEqual
  <2> QED BY <2>4 DEF y
<1>8. CASE w < 3
  <2>1. FromSync(x) = x
    <3>1. CASE w = 1
      <4>1. x # <<>> /\ x[Len(x)] = Sync0 /\ Syncs(x) = {}
        <5>1. x = <<Sync0>> BY <3>1, <1>6
        <5>2. \A i \in 1 .. Len(x) - 1 : FALSE BY <3>1, <1>3
        <5> QED BY <5>1, <5>2, <3>1, <1>3, <1>4 DEF Syncs
      <4> QED BY <4>1, <3>1, <1>3, <1>6, FromSyncNone
    <3>2. CASE w # 1
      <4>1. w >= 2 BY <3>2, <1>2
      <4> QED BY <4>1, <1>3, <1>5, HeadedStays
    <3> QED BY <3>1, <3>2
  <2>2. Len(x) <= 2 BY <1>8, <1>2, <1>3
  <2>3. BoardScan[x].rest = x /\ BoardScan[x].out = <<>> BY <2>1, <2>2, <1>3, ScanWaits
  <2>4. w < Len(f) BY <1>8, <1>1, <1>2
  <2> QED BY <2>3, <2>4, <1>1, <1>3, <1>4, <1>5, <1>6, <1>7 DEF x, f
<1>9. CASE w >= 3
  <2>1. Headed(x) /\ Len(x) >= Overhead /\ x[3] \in Lengths /\ x[3] = Len(p)
    <3>1. w >= 2 /\ Len(x) >= Overhead BY <1>9, <1>2, <1>3 DEF Overhead
    <3> QED BY <3>1, <1>1, <1>4, <1>5, <1>9
  <2>2. w < Len(f) => BoardScan[x].rest = x /\ BoardScan[x].out = <<>>
    BY <2>1, <1>1, <1>3, ScanFrame
  <2>3. ASSUME w = Len(f) PROVE BoardScan[x].rest = <<>> /\ BoardScan[x].out = <<p>>
    <3>1. Len(x) = Overhead + x[3] BY <2>1, <2>3, <1>1, <1>3
    <3>2. BoardScan[x].rest = <<>> /\ BoardScan[x].out = <<PayloadOf(x)>>
      BY <2>1, <3>1, <1>3, ScanFrame
    <3>3. Whole(x)
      <4>1. Len(x) >= Overhead + x[3] BY <3>1, <1>2, <1>3
      <4> QED BY <4>1, <2>1 DEF Whole
    <3> DEFINE o == PayloadOf(x)
    <3>4. o \in Seq(Byte) /\ Len(o) = Len(p) /\ \A i \in 1 .. Len(p) : o[i] = x[Overhead + i]
      BY <3>3, <2>1, <1>3, BehindAFrame
    <3>5. \A i \in 1 .. Len(p) : Overhead + i \in 1 .. w BY <2>3, <1>1 DEF Overhead
    <3> HIDE DEF o
    <3>6. \A i \in 1 .. Len(o) : o[i] = p[i] BY <3>4, <3>5, <1>1, <1>3
    <3>7. o = p BY <3>4, <3>6, <1>1, SeqEqual
    <3> QED BY <3>2, <3>7 DEF o
  <2> QED BY <2>1, <2>2, <2>3, <1>1, <1>3, <1>4, <1>5, <1>6, <1>7 DEF x, f
<1>10. w < 3 \/ w >= 3 BY <1>2
<1> QED BY <1>8, <1>9, <1>10

-----------------------------------------------------------------------------
(* How far a frame cut short reaches *)

\* Bytes of the current frame that have been written.
Position == IF left = <<>> THEN 0 ELSE Len(Framed(payload)) - Len(left)

InFrame ==
  left # <<>> =>
    /\ payload \in Payloads /\ Framable(payload)
    /\ plain => Sync0 \notin Range(payload)
    /\ \E w \in 0 .. Len(Framed(payload)) - 1 :
         left = SubSeq(Framed(payload), w + 1, Len(Framed(payload)))

\* The reader holds what has been written of the current frame,
InStep == held = SubSeq(Framed(payload), 1, Position)

\* or less than a header, of the frame that was cut,
Stub == lost = 0 /\ Position = 0 /\ held \in {<<Sync0>>, <<Sync0, Sync1>>}

\* or waits for m more bytes, which it will take from whatever follows: what it has
\* taken and will take fits the payload that was cut,
Absorbing ==
  /\ Headed(held) /\ Len(held) >= Overhead /\ held[3] \in Lengths
  /\ \E m \in 1 .. MaxLen :
       /\ Overhead + held[3] = Len(held) + m
       /\ lost * FrameLen + m + Position <= MaxLen

\* or has stopped taking inside a frame, whose rest it will discard.
OutOfStep == held = <<>> /\ Position >= 1 /\ lost * FrameLen + 1 <= MaxLen

Recovered == InStep /\ lost * FrameLen <= MaxLen + FrameLen - 1

Recovery ==
  /\ InFrame
  /\ ~cut => lost = 0 /\ InStep
  /\ cut /\ plain => Recovered \/ Stub \/ Absorbing \/ OutOfStep

LEMMA LossArithmetic ==
  /\ FrameLen \in Nat /\ FrameLen >= 4 /\ MaxLen \in Nat
  /\ \A n \in Nat : /\ n * FrameLen \in Nat
                    /\ (n + 1) * FrameLen = n * FrameLen + FrameLen
  /\ 0 * FrameLen = 0
<1>1. FrameLen \in Nat /\ FrameLen >= 4 /\ MaxLen \in Nat
  BY LengthsAssumption DEF FrameLen, Overhead
<1> HIDE DEF FrameLen
<1>2. \A n \in Nat : n * FrameLen \in Nat /\ (n + 1) * FrameLen = n * FrameLen + FrameLen
  BY <1>1
<1>3. 0 * FrameLen = 0 BY <1>1
<1> QED BY <1>1, <1>2, <1>3

LEMMA BetweenFrames ==
  ASSUME left = <<>>
  PROVE  Position = 0 /\ SubSeq(Framed(payload), 1, 0) = <<>> /\ (InStep <=> held = <<>>)
<1>1. Position = 0 BY DEF Position
<1>2. SubSeq(Framed(payload), 1, 0) = <<>> OBVIOUS
<1> QED BY <1>1, <1>2 DEF InStep

\* The next byte of the frame being written.
LEMMA NextByte ==
  ASSUME Types, InFrame, left # <<>>
  PROVE  LET f == Framed(payload)
             w == Position
         IN  /\ w \in Nat /\ w + 1 <= Len(f) /\ Len(f) \in Nat /\ w < Len(f)
             /\ left = SubSeq(f, w + 1, Len(f))
             /\ Head(left) = f[w + 1] /\ Head(left) \in Byte
             /\ Tail(left) = SubSeq(f, (w + 1) + 1, Len(f))
             /\ Len(Tail(left)) = Len(f) - (w + 1)
             /\ Tail(left) = <<>> <=> w + 1 = Len(f)
             /\ w = 0 => Head(left) = Sync0
             /\ w >= 1 /\ plain => Head(left) # Sync0
<1> DEFINE f == Framed(payload)
<1>1. /\ payload \in Payloads /\ Framable(payload)
      /\ plain => Sync0 \notin Range(payload)
      /\ \E w \in 0 .. Len(f) - 1 : left = SubSeq(f, w + 1, Len(f))
  BY DEF InFrame
<1>2. /\ payload \in Seq(Byte) /\ Len(payload) \in Lengths /\ Len(payload) \in Nat
      /\ f \in Seq(Byte) /\ Len(f) = Overhead + Len(payload) /\ Len(f) \in Nat /\ Len(f) >= 4
      /\ f[1] = Sync0 /\ f[2] = Sync1 /\ f[3] = Len(payload)
      /\ \A i \in 1 .. Len(payload) : f[Overhead + i] = payload[i]
  BY <1>1, FrameParts
<1>3. PICK w \in 0 .. Len(f) - 1 : left = SubSeq(f, w + 1, Len(f)) BY <1>1
<1>p. Position = Len(f) - Len(left) BY DEF Position
<1> HIDE DEF f
<1>4. w \in Nat /\ w \in 0 .. Len(f) /\ w + 1 <= Len(f) /\ w < Len(f) /\ Len(f) - w \in Nat
      /\ 1 \in 1 .. Len(f) - w
  BY <1>2
<1>5. left \in Seq(Byte) /\ Len(left) = Len(f) - w /\ \A i \in 1 .. Len(f) - w : left[i] = f[w + i]
  BY <1>2, <1>3, <1>4, SuffixProperties
<1>6. Position = w
  <2>1. \A i, j \in Nat : i - (i - j) = j OBVIOUS
  <2>2. Position = Len(f) - (Len(f) - w) BY <1>p, <1>5
  <2> QED BY <2>1, <2>2, <1>2, <1>4
<1>7. Head(left) = f[w + 1] /\ Head(left) \in Byte
  <2>1. Head(left) = left[1] /\ Head(left) \in Byte BY <1>5, HeadTailProperties
  <2>2. left[1] = f[w + 1] BY <1>4, <1>5
  <2> QED BY <2>1, <2>2
<1>8. Tail(left) \in Seq(Byte) /\ Len(Tail(left)) = Len(left) - 1 BY <1>5, HeadTailProperties
<1>9. Tail(left) = SubSeq(f, (w + 1) + 1, Len(f))
  <2>1. w + 1 \in 1 .. Len(f) /\ Len(f) \in w + 1 .. Len(f) BY <1>2, <1>4
  <2>2. Tail(SubSeq(f, w + 1, Len(f))) = SubSeq(f, (w + 1) + 1, Len(f))
    BY <2>1, <1>2, HeadTailOfSubSeq
  <2> QED BY <2>2, <1>3
<1>10. Len(Tail(left)) = Len(f) - (w + 1)
  <2>1. \A i, j \in Nat : (i - j) - 1 = i - (j + 1) OBVIOUS
  <2>2. Len(Tail(left)) = (Len(f) - w) - 1 BY <1>5, <1>8
  <2> QED BY <2>1, <2>2, <1>2, <1>4
<1>11. Tail(left) = <<>> <=> w + 1 = Len(f)
  <2>1. Tail(left) = <<>> <=> Len(Tail(left)) = 0 BY <1>8, EmptySeq
  <2>2. Len(f) - (w + 1) = 0 <=> w + 1 = Len(f) BY <1>2, <1>4
  <2> QED BY <2>1, <2>2, <1>10
<1>12. w = 0 => Head(left) = Sync0
  <2> SUFFICES ASSUME w = 0 PROVE Head(left) = Sync0 OBVIOUS
  <2>1. w + 1 = 1 OBVIOUS
  <2> QED BY <2>1, <1>2, <1>7
<1>13. ASSUME w >= 1, plain PROVE Head(left) # Sync0
  <2>1. CASE w + 1 = 2
    <3>1. Head(left) = Sync1 BY <2>1, <1>2, <1>7
    <3> QED BY <3>1, SyncAssumption
  <2>2. CASE w + 1 = 3
    <3>1. Head(left) = Len(payload) BY <2>2, <1>2, <1>7
    <3> QED BY <3>1, <1>2, SyncAssumption
  <2>3. CASE w + 1 # 2 /\ w + 1 # 3
    <3> DEFINE i == (w + 1) - Overhead
    <3>1. i \in 1 .. Len(payload) /\ Overhead + i = w + 1 BY <2>3, <1>2, <1>4, <1>13 DEF Overhead
    <3>2. Head(left) = payload[i] BY <3>1, <1>2, <1>7
    <3>3. i \in DOMAIN payload BY <3>1, <1>2, LenProperties
    <3>4. payload[i] \in Range(payload) BY <3>3 DEF Range
    <3> QED BY <3>2, <3>4, <1>1, <1>13
  <2> QED BY <2>1, <2>2, <2>3
<1> QED BY <1>2, <1>3, <1>4, <1>6, <1>7, <1>9, <1>10, <1>11, <1>12, <1>13 DEF f

LEMMA WriteByteFacts ==
  ASSUME Types, InFrame, WriteByte
  PROVE  /\ left # <<>> /\ payload' = payload /\ cut' = cut /\ plain' = plain
         /\ left' = Tail(left)
         /\ held' = BoardScan[Append(held, Head(left))].rest
         /\ emitted' = emitted \o BoardScan[Append(held, Head(left))].out
         /\ left' # <<>> => lost' = lost /\ Position' = Position + 1
         /\ left' = <<>> => Position' = 0 /\ Position + 1 = Len(Framed(payload))
         /\ lost' = lost \/ lost' = lost + 1
         /\ emitted' = Append(emitted, payload) => lost' = lost
         /\ InFrame'
<1>1. /\ left # <<>> /\ payload' = payload /\ cut' = cut /\ plain' = plain
      /\ left' = Tail(left)
      /\ held' = BoardScan[Append(held, Head(left))].rest
      /\ emitted' = emitted \o BoardScan[Append(held, Head(left))].out
      /\ lost' = IF left' = <<>> /\ emitted' # Append(emitted, payload) THEN lost + 1 ELSE lost
  BY DEF WriteByte, Arrive
<1> DEFINE f == Framed(payload)
           w == Position
<1>2. /\ w \in Nat /\ w + 1 <= Len(f) /\ Len(f) \in Nat
      /\ Tail(left) = SubSeq(f, (w + 1) + 1, Len(f))
      /\ Len(Tail(left)) = Len(f) - (w + 1)
      /\ Tail(left) = <<>> <=> w + 1 = Len(f)
  BY <1>1, NextByte
<1>3. Position' = IF left' = <<>> THEN 0 ELSE Len(f) - Len(left') BY <1>1 DEF Position
<1> HIDE DEF f, w
<1>4. left' # <<>> => Position' = w + 1
  <2> SUFFICES ASSUME left' # <<>> PROVE Position' = w + 1 OBVIOUS
  <2>1. \A i, j \in Nat : i - (i - (j + 1)) = j + 1 OBVIOUS
  <2>2. Len(f) - (Len(f) - (w + 1)) = w + 1 BY <2>1, <1>2
  <2>3. Position' = Len(f) - (Len(f) - (w + 1)) BY <1>1, <1>2, <1>3
  <2> QED BY <2>2, <2>3
<1>5. InFrame'
  <2> SUFFICES ASSUME left' # <<>>
               PROVE  /\ payload \in Payloads /\ Framable(payload)
                      /\ plain => Sync0 \notin Range(payload)
                      /\ \E v \in 0 .. Len(f) - 1 : left' = SubSeq(f, v + 1, Len(f))
      BY <1>1 DEF InFrame, f
  <2>1. w + 1 \in 0 .. Len(f) - 1 BY <1>1, <1>2
  <2>2. left' = SubSeq(f, (w + 1) + 1, Len(f)) BY <1>1, <1>2
  <2> QED BY <2>1, <2>2, <1>1 DEF InFrame
<1> QED BY <1>1, <1>2, <1>3, <1>4, <1>5 DEF f, w

\* A reader in step stays in step, and loses nothing.
LEMMA InStepWrites ==
  ASSUME Types, InFrame, WriteByte, InStep
  PROVE  InStep' /\ lost' = lost
<1> DEFINE f == Framed(payload)
           w == Position
           b == Head(left)
           x == SubSeq(f, 1, w + 1)
<1>1. /\ left # <<>> /\ payload' = payload
      /\ held' = BoardScan[Append(held, b)].rest
      /\ emitted' = emitted \o BoardScan[Append(held, b)].out
      /\ left' # <<>> => lost' = lost /\ Position' = w + 1
      /\ left' = <<>> => Position' = 0 /\ w + 1 = Len(f)
      /\ emitted' = Append(emitted, payload) => lost' = lost
      /\ left' = Tail(left)
  BY WriteByteFacts
<1>2. /\ w \in Nat /\ w + 1 <= Len(f) /\ Len(f) \in Nat
      /\ b = f[w + 1]
      /\ Tail(left) = <<>> <=> w + 1 = Len(f)
  BY <1>1, NextByte
<1>3. payload \in Payloads /\ Framable(payload) /\ payload \in Seq(Byte)
      /\ emitted \in Seq(Seq(Byte))
  BY <1>1 DEF InFrame, Types
<1>4. f \in Seq(Byte) BY <1>3, FrameParts
<1>5. Append(held, b) = x
  <2>1. held = SubSeq(f, 1, w) BY DEF InStep
  <2> HIDE DEF f, w, b
  <2>2. Append(SubSeq(f, 1, w), f[w + 1]) = SubSeq(f, 1, w + 1) BY <1>2, <1>4, NextOfPrefix
  <2> QED BY <2>1, <2>2, <1>2
<1>6. w + 1 \in 1 .. Len(f) BY <1>2
<1>7. /\ w + 1 < Len(f) => BoardScan[x].rest = x /\ BoardScan[x].out = <<>>
      /\ w + 1 = Len(f) => BoardScan[x].rest = <<>> /\ BoardScan[x].out = <<payload>>
  BY <1>3, <1>6, ScanPrefix
<1>8. InStep' <=> held' = SubSeq(f, 1, Position') BY <1>1 DEF InStep
<1> HIDE DEF f, w, b
<1>9. CASE w + 1 = Len(f)
  <2>1. left' = <<>> BY <1>9, <1>1, <1>2
  <2>2. held' = <<>> /\ emitted' = emitted \o <<payload>> BY <1>9, <1>1, <1>5, <1>7
  <2>3. emitted' = Append(emitted, payload) BY <2>2, <1>3, AppendIsConcat
  <2>4. SubSeq(f, 1, 0) = <<>> OBVIOUS
  <2> QED BY <2>1, <2>2, <2>3, <2>4, <1>1, <1>8
<1>10. CASE w + 1 # Len(f)
  <2>1. w + 1 < Len(f) BY <1>10, <1>2
  <2>2. left' # <<>> BY <1>10, <1>1, <1>2
  <2>3. held' = x BY <2>1, <1>1, <1>5, <1>7
  <2> QED BY <2>2, <2>3, <1>1, <1>8
<1> QED BY <1>9, <1>10

LEMMA AppendToFew ==
  ASSUME NEW S, NEW a \in S, NEW b \in S, NEW c \in S
  PROVE  Append(<<a>>, b) = <<a, b>> /\ Append(<<a, b>>, c) = <<a, b, c>>
<1>1. Append(<<a>>, b) = <<a, b>>
  <2> DEFINE s == <<a>>
             x == Append(s, b)
             y == <<a, b>>
  <2>1. s \in Seq(S) /\ Len(s) = 1 /\ s[1] = a OBVIOUS
  <2>2. y \in Seq(S) /\ Len(y) = 2 /\ y[1] = a /\ y[2] = b OBVIOUS
  <2> HIDE DEF s, y
  <2>3. x \in Seq(S) /\ Len(x) = 2 /\ x[1] = a /\ x[2] = b BY <2>1, AppendProperties
  <2> HIDE DEF x
  <2>4. \A i \in 1 .. 2 : x[i] = y[i]
    <3>1. \A i \in 1 .. 2 : i = 1 \/ i = 2 OBVIOUS
    <3> QED BY <3>1, <2>2, <2>3
  <2>5. x = y BY <2>2, <2>3, <2>4, SeqEqual
  <2> QED BY <2>5 DEF x, y, s
<1>2. Append(<<a, b>>, c) = <<a, b, c>>
  <2> DEFINE s == <<a, b>>
             x == Append(s, c)
             y == <<a, b, c>>
  <2>1. s \in Seq(S) /\ Len(s) = 2 /\ s[1] = a /\ s[2] = b OBVIOUS
  <2>2. y \in Seq(S) /\ Len(y) = 3 /\ y[1] = a /\ y[2] = b /\ y[3] = c OBVIOUS
  <2> HIDE DEF s, y
  <2>3. x \in Seq(S) /\ Len(x) = 3 /\ x[1] = a /\ x[2] = b /\ x[3] = c
    <3>0. s \in Seq(S) BY <2>1
    <3>1. x \in Seq(S) /\ Len(x) = Len(s) + 1 /\ (\A i \in 1 .. Len(s) : x[i] = s[i])
          /\ x[Len(s) + 1] = c
      BY <3>0, AppendProperties
    <3>2. 1 \in 1 .. 2 /\ 2 \in 1 .. 2 OBVIOUS
    <3> QED BY <3>1, <3>2, <2>1
  <2> HIDE DEF x
  <2>4. \A i \in 1 .. 3 : x[i] = y[i]
    <3>1. \A i \in 1 .. 3 : i = 1 \/ i = 2 \/ i = 3 OBVIOUS
    <3> QED BY <3>1, <2>2, <2>3
  <2>5. x = y BY <2>2, <2>3, <2>4, SeqEqual
  <2> QED BY <2>5 DEF x, y, s
<1> QED BY <1>1, <1>2

\* Half a header from before the cut is put right by the first byte of the next frame.
LEMMA StubWrites ==
  ASSUME Types, InFrame, WriteByte, Stub
  PROVE  InStep' /\ lost' = 0
<1> DEFINE f == Framed(payload)
<1>1. /\ left # <<>> /\ payload' = payload
      /\ held' = BoardScan[Append(held, Head(left))].rest
      /\ left' # <<>> => lost' = lost /\ Position' = Position + 1
      /\ left' = <<>> => Position + 1 = Len(f)
  BY WriteByteFacts
<1>2. Position = 0 /\ lost = 0 /\ held \in {<<Sync0>>, <<Sync0, Sync1>>} BY DEF Stub
<1>3. Head(left) = Sync0 BY <1>1, <1>2, NextByte
<1>4. payload \in Payloads /\ Framable(payload) BY <1>1 DEF InFrame
<1>5. f \in Seq(Byte) /\ Len(f) >= 4 /\ Len(f) \in Nat BY <1>4, FrameParts
<1>6. 1 \in 1 .. Len(f) BY <1>5
<1>7. SubSeq(f, 1, 1) = <<Sync0>> BY <1>4, <1>6, ScanPrefix
<1> HIDE DEF f
<1>8. left' # <<>> /\ lost' = 0 /\ Position' = 1
  <2>1. 0 + 1 = 1 OBVIOUS
  <2>2. \A n \in Nat : n >= 4 => n # 1 OBVIOUS
  <2>3. Len(f) # 1 BY <2>2, <1>5
  <2>4. left' # <<>> BY <2>1, <2>3, <1>1, <1>2
  <2> QED BY <2>1, <2>4, <1>1, <1>2
<1>9. held' = <<Sync0>>
  <2>0. Sync0 \in Byte /\ Sync1 \in Byte BY ByteFacts
  <2>1. CASE held = <<Sync0>>
    <3>1. Append(<<Sync0>>, Sync0) = <<Sync0, Sync0>> BY <2>0, AppendToFew
    <3>2. BoardScan[<<Sync0, Sync0>>].rest = <<Sync0>>
      <4>1. Sync0 # Sync1 BY SyncAssumption
      <4> QED BY <2>0, <4>1, ScanTwo
    <3> QED BY <2>1, <3>1, <3>2, <1>1, <1>3
  <2>2. CASE held = <<Sync0, Sync1>>
    <3>1. Append(<<Sync0, Sync1>>, Sync0) = <<Sync0, Sync1, Sync0>> BY <2>0, AppendToFew
    <3>2. BoardScan[<<Sync0, Sync1, Sync0>>].rest = <<Sync0>>
      <4>1. Sync0 \notin Lengths BY SyncAssumption
      <4> QED BY <2>0, <4>1, ScanBadHeader
    <3> QED BY <2>2, <3>1, <3>2, <1>1, <1>3
  <2> QED BY <2>1, <2>2, <1>2
<1>10. InStep' BY <1>1, <1>7, <1>8, <1>9 DEF InStep, f
<1> QED BY <1>8, <1>10
\* A reader waiting for m more bytes takes whatever comes next as one of them.
LEMMA TakesOne ==
  ASSUME NEW t \in Seq(Byte), Headed(t), Len(t) >= Overhead, t[3] \in Lengths,
         NEW m \in Nat, m >= 1, Overhead + t[3] = Len(t) + m, NEW b \in Byte
  PROVE  LET x == Append(t, b) IN
         /\ m > 1 => /\ BoardScan[x].rest = x
                     /\ Headed(x) /\ Len(x) >= Overhead /\ x[3] \in Lengths
                     /\ Overhead + x[3] = Len(x) + (m - 1)
         /\ m = 1 => BoardScan[x].rest = <<>>
<1> DEFINE x == Append(t, b)
<1>1. Len(t) \in Nat /\ t[3] \in Nat BY ByteFacts, LenProperties
<1>2. x \in Seq(Byte) /\ Len(x) = Len(t) + 1 /\ \A i \in 1 .. Len(t) : x[i] = t[i]
  BY AppendProperties
<1> HIDE DEF x
<1>3. x[1] = t[1] /\ x[2] = t[2] /\ x[3] = t[3]
  <2>1. 1 \in 1 .. Len(t) /\ 2 \in 1 .. Len(t) /\ 3 \in 1 .. Len(t) BY <1>1 DEF Overhead
  <2> QED BY <2>1, <1>2
<1>4. Len(x) >= Overhead /\ Len(x) >= 2 BY <1>1, <1>2 DEF Overhead
<1>5. Headed(x) BY <1>3, <1>4 DEF Headed
<1>6. Overhead + x[3] = Len(x) + (m - 1) BY <1>1, <1>2, <1>3 DEF Overhead
<1>7. x[3] \in Lengths BY <1>3
<1>8. ASSUME m > 1 PROVE BoardScan[x].rest = x
  <2>1. Len(x) < Overhead + x[3] BY <1>8, <1>1, <1>2, <1>6 DEF Overhead
  <2> QED BY <2>1, <1>2, <1>4, <1>5, <1>7, ScanFrame
<1>9. ASSUME m = 1 PROVE BoardScan[x].rest = <<>>
  <2>1. Len(x) = Overhead + x[3] BY <1>9, <1>1, <1>2, <1>6 DEF Overhead
  <2> QED BY <2>1, <1>2, <1>4, <1>5, <1>7, ScanFrame
<1> QED BY <1>4, <1>5, <1>6, <1>7, <1>8, <1>9 DEF x

\* The bytes of a frame that are taken are paid for out of the payload that was cut.
LEMMA AbsorbingWrites ==
  ASSUME Types, InFrame, WriteByte, Absorbing
  PROVE  Absorbing' \/ OutOfStep' \/ Recovered'
<1> DEFINE b == Head(left)
           w == Position
           n == lost * FrameLen
           n1 == lost' * FrameLen
           f == Framed(payload)
<1>1. /\ left # <<>> /\ payload' = payload
      /\ held' = BoardScan[Append(held, b)].rest
      /\ left' # <<>> => lost' = lost /\ Position' = w + 1
      /\ left' = <<>> => Position' = 0 /\ w + 1 = Len(f)
      /\ lost' = lost \/ lost' = lost + 1
  BY WriteByteFacts
<1>2. w \in Nat /\ b \in Byte BY <1>1, NextByte
<1>3. held \in Seq(Byte) /\ lost \in Nat BY DEF Types
<1>4. FrameLen \in Nat /\ FrameLen >= 4 /\ MaxLen \in Nat BY LossArithmetic
<1>5. n \in Nat /\ n1 \in Nat /\ n1 <= n + FrameLen /\ (lost' = lost => n1 = n)
  <2>1. (lost + 1) * FrameLen = n + FrameLen /\ n \in Nat BY <1>3, LossArithmetic
  <2>2. CASE lost' = lost BY <2>1, <2>2, <1>4
  <2>3. CASE lost' = lost + 1
    <3>1. n1 = n + FrameLen BY <2>1, <2>3
    <3>2. lost + 1 # lost BY <1>3
    <3> QED BY <3>1, <3>2, <2>1, <2>3, <1>4
  <2> QED BY <2>2, <2>3, <1>1
<1>6. left' = <<>> => w + 1 >= FrameLen
  <2>1. payload \in Payloads /\ Framable(payload) BY <1>1 DEF InFrame
  <2>2. Len(f) = Overhead + Len(payload) /\ Len(payload) \in Nat /\ Len(payload) >= MinLen
    BY <2>1, FrameParts
  <2>3. MinLen \in Nat BY LengthsAssumption
  <2>4. Len(f) >= FrameLen BY <2>2, <2>3 DEF FrameLen, Overhead
  <2> QED BY <2>4, <1>1
<1>7. PICK m \in 1 .. MaxLen : /\ Overhead + held[3] = Len(held) + m
                               /\ n + m + w <= MaxLen
  BY DEF Absorbing
<1>8. Headed(held) /\ Len(held) >= Overhead /\ held[3] \in Lengths BY DEF Absorbing
<1>9. m \in Nat /\ m >= 1 BY <1>7, <1>4
<1>10. /\ m > 1 => /\ held' = Append(held, b)
                   /\ Headed(held') /\ Len(held') >= Overhead /\ held'[3] \in Lengths
                   /\ Overhead + held'[3] = Len(held') + (m - 1)
       /\ m = 1 => held' = <<>>
  BY <1>1, <1>2, <1>3, <1>7, <1>8, <1>9, TakesOne
<1>p. Position' \in Nat BY <1>1, <1>2
<1>a. Absorbing' <=> /\ Headed(held') /\ Len(held') >= Overhead /\ held'[3] \in Lengths
                     /\ \E k \in 1 .. MaxLen : /\ Overhead + held'[3] = Len(held') + k
                                               /\ n1 + k + Position' <= MaxLen
  BY DEF Absorbing, Headed
<1>o. OutOfStep' <=> held' = <<>> /\ Position' >= 1 /\ n1 + 1 <= MaxLen BY DEF OutOfStep
<1>r. Recovered' <=> /\ held' = SubSeq(Framed(payload'), 1, Position')
                     /\ n1 <= MaxLen + FrameLen - 1
  BY DEF Recovered, InStep
<1> HIDE DEF b, w, n, n1, f
<1>11. CASE left' # <<>>
  <2>1. n1 = n /\ Position' = w + 1 BY <1>11, <1>1, <1>5
  <2>2. CASE m > 1
    <3>1. m - 1 \in 1 .. MaxLen BY <2>2, <1>4, <1>7, <1>9
    <3>2. n1 + (m - 1) + Position' <= MaxLen BY <2>1, <1>2, <1>4, <1>5, <1>7, <1>9
    <3> QED BY <3>1, <3>2, <2>2, <1>10, <1>a
  <2>3. CASE m = 1
    <3>1. Position' >= 1 /\ n1 + 1 <= MaxLen BY <2>1, <2>3, <1>2, <1>4, <1>5, <1>7
    <3> QED BY <3>1, <2>3, <1>10, <1>o
  <2> QED BY <2>2, <2>3, <1>9
<1>12. CASE left' = <<>>
  <2>1. Position' = 0 /\ w + 1 >= FrameLen BY <1>12, <1>1, <1>6
  <2>2. n1 + (m - 1) <= MaxLen BY <2>1, <1>2, <1>4, <1>5, <1>7, <1>9
  <2>3. CASE m > 1
    <3>1. m - 1 \in 1 .. MaxLen BY <2>3, <1>4, <1>7, <1>9
    <3>2. n1 + (m - 1) + Position' <= MaxLen BY <3>1, <2>1, <2>2, <1>5
    <3> QED BY <3>1, <3>2, <2>3, <1>10, <1>a
  <2>4. CASE m = 1
    <3>1. n1 <= MaxLen + FrameLen - 1 BY <2>2, <2>4, <1>4, <1>5
    <3>2. SubSeq(Framed(payload'), 1, 0) = <<>> OBVIOUS
    <3> QED BY <3>1, <3>2, <2>1, <2>4, <1>10, <1>r
  <2> QED BY <2>3, <2>4, <1>9
<1> QED BY <1>11, <1>12

\* The rest of a frame the reader is out of step with holds no first sync byte, so it
\* is thrown away, and the reader is in step when the frame ends.
LEMMA OutOfStepWrites ==
  ASSUME Types, InFrame, plain, WriteByte, OutOfStep
  PROVE  OutOfStep' \/ Recovered'
<1> DEFINE b == Head(left)
           w == Position
           n == lost * FrameLen
           n1 == lost' * FrameLen
<1>1. /\ left # <<>> /\ payload' = payload
      /\ held' = BoardScan[Append(held, b)].rest
      /\ left' # <<>> => lost' = lost /\ Position' = w + 1
      /\ left' = <<>> => Position' = 0
      /\ lost' = lost \/ lost' = lost + 1
  BY WriteByteFacts
<1>2. held = <<>> /\ w >= 1 /\ n + 1 <= MaxLen BY DEF OutOfStep
<1>3. w \in Nat /\ b \in Byte /\ b # Sync0 BY <1>1, <1>2, NextByte
<1>4. FrameLen \in Nat /\ FrameLen >= 4 /\ MaxLen \in Nat BY LossArithmetic
<1>5. n \in Nat /\ n1 \in Nat /\ n1 <= n + FrameLen /\ (lost' = lost => n1 = n)
  <2>0. lost \in Nat BY DEF Types
  <2>1. (lost + 1) * FrameLen = n + FrameLen /\ n \in Nat BY <2>0, LossArithmetic
  <2>2. CASE lost' = lost BY <2>1, <2>2, <1>4
  <2>3. CASE lost' = lost + 1
    <3>1. n1 = n + FrameLen BY <2>1, <2>3
    <3>2. lost + 1 # lost BY <2>0
    <3> QED BY <3>1, <3>2, <2>1, <2>3, <1>4
  <2> QED BY <2>2, <2>3, <1>1
<1>6. held' = <<>>
  <2>1. Append(<<>>, b) = <<b>> OBVIOUS
  <2>2. BoardScan[<<b>>].rest = <<>> BY <1>3, ScanOne
  <2> QED BY <2>1, <2>2, <1>1, <1>2
<1>o. OutOfStep' <=> held' = <<>> /\ Position' >= 1 /\ n1 + 1 <= MaxLen BY DEF OutOfStep
<1>r. Recovered' <=> /\ held' = SubSeq(Framed(payload'), 1, Position')
                     /\ n1 <= MaxLen + FrameLen - 1
  BY DEF Recovered, InStep
<1> HIDE DEF b, w, n, n1
<1>7. CASE left' # <<>>
  <2>1. Position' >= 1 /\ n1 + 1 <= MaxLen BY <1>7, <1>1, <1>2, <1>3, <1>5
  <2> QED BY <2>1, <1>6, <1>o
<1>8. CASE left' = <<>>
  <2>1. n1 <= MaxLen + FrameLen - 1 BY <1>2, <1>4, <1>5
  <2>2. SubSeq(Framed(payload'), 1, 0) = <<>> OBVIOUS
  <2> QED BY <2>1, <2>2, <1>1, <1>6, <1>8, <1>r
<1> QED BY <1>7, <1>8
\* Noise holds no first sync byte either: between frames it is thrown away, completes
\* what looked like a header, or is taken for a byte of the frame that was cut.
LEMMA NoiseRecovers ==
  ASSUME Types, Recovery, WriteNoise
  PROVE  Recovery'
<1>1. PICK b \in Chatter : Arrive(b) BY DEF WriteNoise
<1>2. /\ left = <<>> /\ left' = <<>> /\ payload' = payload
      /\ lost' = lost /\ plain' = plain /\ cut' = cut
  BY DEF WriteNoise
<1>3. b \in Byte /\ b # Sync0 BY SyncAssumption DEF Byte
<1>4. held' = BoardScan[Append(held, b)].rest BY <1>1 DEF Arrive
<1>5. Position = 0 /\ (InStep <=> held = <<>>) BY <1>2, BetweenFrames
<1>6. Position' = 0 BY <1>2 DEF Position
<1>7. InStep' <=> held' = <<>>
  <2>1. SubSeq(Framed(payload'), 1, 0) = <<>> OBVIOUS
  <2> QED BY <2>1, <1>6 DEF InStep
<1>8. held \in Seq(Byte) /\ lost \in Nat BY DEF Types
<1>9. held = <<>> => held' = <<>>
  <2>1. Append(<<>>, b) = <<b>> OBVIOUS
  <2>2. BoardScan[<<b>>].rest = <<>> BY <1>3, ScanOne
  <2> QED BY <2>1, <2>2, <1>4
<1>10. InFrame' BY <1>2 DEF InFrame
<1>11. ~cut' => lost' = 0 /\ InStep' BY <1>2, <1>5, <1>7, <1>9 DEF Recovery
<1>l. FrameLen \in Nat /\ FrameLen >= 4 /\ MaxLen \in Nat
      /\ lost * FrameLen \in Nat /\ 0 * FrameLen = 0
  BY <1>8, LossArithmetic
<1>r. Recovered' <=> InStep' /\ lost * FrameLen <= MaxLen + FrameLen - 1
  BY <1>2 DEF Recovered
<1>12. CASE Recovered
  <2>1. lost * FrameLen <= MaxLen + FrameLen - 1 /\ InStep BY <1>12 DEF Recovered
  <2> QED BY <2>1, <1>5, <1>7, <1>9, <1>10, <1>11, <1>r DEF Recovery
<1>13. CASE Stub
  <2>1. lost = 0 /\ held \in {<<Sync0>>, <<Sync0, Sync1>>} BY <1>13 DEF Stub
  <2>2. held' = <<>> => Recovered'
    <3>1. lost * FrameLen <= MaxLen + FrameLen - 1 BY <2>1, <1>l
    <3> QED BY <3>1, <1>7, <1>r
  <2>3. Sync0 \in Byte /\ Sync1 \in Byte BY ByteFacts
  <2>4. CASE held = <<Sync0>>
    <3>1. Append(<<Sync0>>, b) = <<Sync0, b>> BY <2>3, <1>3, AppendToFew
    <3>2. held' = IF b = Sync1 THEN <<Sync0, b>> ELSE <<>>
      BY <3>1, <2>3, <2>4, <1>3, <1>4, ScanTwo
    <3>3. b = Sync1 => Stub' BY <3>2, <2>1, <1>2, <1>6 DEF Stub
    <3> QED BY <3>2, <3>3, <2>2, <1>10, <1>11 DEF Recovery
  <2>5. CASE held = <<Sync0, Sync1>>
    <3> DEFINE x == <<Sync0, Sync1, b>>
    <3>1. Append(<<Sync0, Sync1>>, b) = x BY <2>3, <1>3, AppendToFew
    <3>2. CASE b \notin Lengths
      <4>1. BoardScan[x].rest = <<>> BY <3>2, <1>3, ScanBadHeader
      <4> QED BY <4>1, <3>1, <2>2, <2>5, <1>4, <1>10, <1>11 DEF Recovery
    <3>3. CASE b \in Lengths
      <4>1. x \in Seq(Byte) /\ Len(x) = 3 /\ x[1] = Sync0 /\ x[2] = Sync1 /\ x[3] = b
        BY <2>3, <1>3
      <4> HIDE DEF x
      <4>2. b \in Nat /\ b >= 1 /\ b <= MaxLen
        <5>1. MinLen \in Nat /\ MinLen >= 1 BY LengthsAssumption
        <5>2. b \in MinLen .. MaxLen BY <3>3 DEF Lengths
        <5> QED BY <5>1, <5>2, <1>l
      <4>3. Headed(x) /\ Len(x) >= Overhead /\ x[3] \in Lengths BY <4>1, <3>3 DEF Headed, Overhead
      <4>4. Len(x) < Overhead + x[3] BY <4>1, <4>2 DEF Overhead
      <4>5. held' = x BY <4>1, <4>3, <4>4, <3>1, <2>5, <1>4, ScanFrame
      <4>6. Overhead + held'[3] = Len(held') + b BY <4>1, <4>2, <4>5 DEF Overhead
      <4>7. b \in 1 .. MaxLen BY <4>2, <1>l
      <4>8. lost' * FrameLen + b + Position' <= MaxLen
        <5>1. lost' * FrameLen = 0 BY <2>1, <1>2, <1>l
        <5>2. 0 + b + 0 <= MaxLen BY <4>2
        <5> QED BY <5>1, <5>2, <1>6
      <4>9. Headed(held') /\ Len(held') >= Overhead /\ held'[3] \in Lengths BY <4>3, <4>5
      <4>10. Absorbing' BY <4>6, <4>7, <4>8, <4>9 DEF Absorbing, Headed
      <4> QED BY <4>10, <1>10, <1>11 DEF Recovery
    <3> QED BY <3>2, <3>3
  <2> QED BY <2>1, <2>4, <2>5
<1>14. CASE Absorbing
  <2> DEFINE n == lost * FrameLen
  <2>1. Headed(held) /\ Len(held) >= Overhead /\ held[3] \in Lengths BY <1>14 DEF Absorbing
  <2>2. PICK m \in 1 .. MaxLen : /\ Overhead + held[3] = Len(held) + m
                                 /\ n + m + Position <= MaxLen
    BY <1>14 DEF Absorbing
  <2>3. m \in Nat /\ m >= 1 /\ n \in Nat BY <2>2, <1>l
  <2>4. /\ m > 1 => /\ held' = Append(held, b)
                    /\ Headed(held') /\ Len(held') >= Overhead /\ held'[3] \in Lengths
                    /\ Overhead + held'[3] = Len(held') + (m - 1)
        /\ m = 1 => held' = <<>>
    BY <2>1, <2>2, <2>3, <1>3, <1>4, <1>8, TakesOne
  <2>5. n + m <= MaxLen
    <3> HIDE DEF n
    <3> QED BY <2>2, <2>3, <1>5
  <2>a. Absorbing' <=> /\ Headed(held') /\ Len(held') >= Overhead /\ held'[3] \in Lengths
                       /\ \E k \in 1 .. MaxLen : /\ Overhead + held'[3] = Len(held') + k
                                                 /\ n + k + Position' <= MaxLen
    BY <1>2 DEF Absorbing, Headed
  <2>6. CASE m > 1
    <3>1. m - 1 \in 1 .. MaxLen BY <2>6, <2>2, <2>3, <1>l
    <3>2. n + (m - 1) + Position' <= MaxLen
      <4> HIDE DEF n
      <4> QED BY <2>3, <2>5, <1>6, <1>l
    <3>3. Absorbing' BY <3>1, <3>2, <2>4, <2>6, <2>a
    <3> QED BY <3>3, <1>10, <1>11 DEF Recovery
  <2>7. CASE m = 1
    <3>1. n <= MaxLen + FrameLen - 1
      <4> HIDE DEF n
      <4> QED BY <2>3, <2>5, <2>7, <1>l
    <3>2. Recovered' BY <3>1, <2>4, <2>7, <1>7, <1>r
    <3> QED BY <3>2, <1>10, <1>11 DEF Recovery
  <2> QED BY <2>3, <2>6, <2>7
<1>15. ~OutOfStep BY <1>5 DEF OutOfStep
<1>16. CASE ~(cut /\ plain) BY <1>2, <1>10, <1>11, <1>16 DEF Recovery
<1> QED BY <1>12, <1>13, <1>14, <1>15, <1>16 DEF Recovery

LEMMA ByteRecovers ==
  ASSUME Types, Recovery, WriteByte
  PROVE  Recovery'
<1>0. InFrame BY DEF Recovery
<1>1. InFrame' /\ cut' = cut /\ plain' = plain BY <1>0, WriteByteFacts
<1>2. InStep => InStep' /\ lost' = lost BY <1>0, InStepWrites
<1>3. ~cut' => lost' = 0 /\ InStep' BY <1>1, <1>2 DEF Recovery
<1>4. CASE cut /\ plain
  <2>1. CASE Recovered
    <3>1. InStep /\ lost * FrameLen <= MaxLen + FrameLen - 1 BY <2>1 DEF Recovered
    <3>2. InStep' /\ lost' = lost BY <3>1, <1>2
    <3>3. Recovered' BY <3>1, <3>2 DEF Recovered
    <3> QED BY <3>3, <1>1, <1>3 DEF Recovery
  <2>2. CASE Stub
    <3>1. InStep' /\ lost' = 0 BY <2>2, <1>0, StubWrites
    <3>2. lost' * FrameLen <= MaxLen + FrameLen - 1 BY <3>1, LossArithmetic
    <3> QED BY <3>1, <3>2, <1>1, <1>3 DEF Recovery, Recovered
  <2>3. CASE Absorbing
    <3>1. Absorbing' \/ OutOfStep' \/ Recovered' BY <2>3, <1>0, AbsorbingWrites
    <3> QED BY <3>1, <1>1, <1>3 DEF Recovery
  <2>4. CASE OutOfStep
    <3>1. OutOfStep' \/ Recovered' BY <2>4, <1>0, <1>4, OutOfStepWrites
    <3> QED BY <3>1, <1>1, <1>3 DEF Recovery
  <2> QED BY <2>1, <2>2, <2>3, <2>4, <1>4 DEF Recovery
<1>5. CASE ~(cut /\ plain) BY <1>1, <1>3, <1>5 DEF Recovery
<1> QED BY <1>4, <1>5

LEMMA StartRecovers ==
  ASSUME Types, Recovery, StartFrame
  PROVE  Recovery'
<1>1. PICK p \in Payloads : /\ Framable(p) /\ payload' = p /\ left' = Framed(p)
                            /\ plain' = (plain /\ Sync0 \notin Range(p))
  BY DEF StartFrame
<1>2. left = <<>> /\ UNCHANGED <<cut, lost, held>> BY DEF StartFrame, boardReader
<1> DEFINE f == Framed(p)
<1>3. f \in Seq(Byte) /\ Len(f) \in Nat /\ Len(f) >= 4 BY <1>1, FrameParts
<1>e. left' = f /\ Framed(payload') = f BY <1>1
<1> HIDE DEF f
<1>4. f # <<>>
  <2>1. Len(<<>>) = 0 OBVIOUS
  <2> QED BY <2>1, <1>3
<1>5. Position' = 0
  <2>1. \A i \in Nat : i - i = 0 OBVIOUS
  <2>2. Position' = Len(f) - Len(f) BY <1>4, <1>e DEF Position
  <2> QED BY <2>1, <2>2, <1>3
<1>6. InFrame'
  <2>1. f = SubSeq(f, 0 + 1, Len(f))
    <3>1. 0 + 1 = 1 OBVIOUS
    <3> QED BY <3>1, <1>3, SubSeqFull
  <2>2. 0 \in 0 .. Len(f) - 1 BY <1>3
  <2> QED BY <2>1, <2>2, <1>1, <1>e DEF InFrame
<1>7. Position = 0 /\ (InStep <=> held = <<>>) BY <1>2, BetweenFrames
<1>8. InStep' <=> held' = <<>>
  <2>1. SubSeq(f, 1, 0) = <<>> OBVIOUS
  <2> QED BY <2>1, <1>5, <1>e DEF InStep
<1>9. (InStep => InStep') /\ lost' = lost /\ cut' = cut /\ (plain' => plain)
  BY <1>1, <1>2, <1>7, <1>8
<1>10. Recovered => Recovered' BY <1>9 DEF Recovered
<1>11. Stub => Stub' BY <1>2, <1>5 DEF Stub
<1>12. Absorbing => Absorbing' BY <1>2, <1>5, <1>7 DEF Absorbing, Headed
<1>13. ~OutOfStep BY <1>7 DEF OutOfStep
<1> QED BY <1>6, <1>9, <1>10, <1>11, <1>12, <1>13 DEF Recovery

\* A cut leaves the reader with what was written of the frame.
LEMMA ResetRecovers ==
  ASSUME Types, Recovery, Reset
  PROVE  Recovery'
<1>1. /\ ~cut /\ left # <<>> /\ left # Framed(payload)
      /\ cut' = TRUE /\ left' = <<>> /\ lost' = 0 /\ payload' = payload /\ held' = held
  BY DEF Reset, boardReader
<1>2. InFrame /\ InStep BY <1>1 DEF Recovery
<1> DEFINE f == Framed(payload)
           w == Position
<1>3. /\ w \in Nat /\ w < Len(f) /\ Len(f) \in Nat /\ left = SubSeq(f, w + 1, Len(f))
  BY <1>1, <1>2, NextByte
<1>4. payload \in Payloads /\ Framable(payload) BY <1>1, <1>2 DEF InFrame
<1>5. f \in Seq(Byte) /\ Len(f) = Overhead + Len(payload) /\ Len(payload) \in Lengths
      /\ Len(payload) \in Nat
  BY <1>4, FrameParts
<1>6. w # 0
  <2> SUFFICES ASSUME w = 0 PROVE FALSE OBVIOUS
  <2>1. 0 + 1 = 1 OBVIOUS
  <2>2. left = SubSeq(f, 1, Len(f)) BY <2>1, <1>3
  <2> HIDE DEF f
  <2>3. SubSeq(f, 1, Len(f)) = f BY <1>5, SubSeqFull
  <2> QED BY <2>2, <2>3, <1>1 DEF f
<1>7. w \in 1 .. Len(f) /\ w >= 1 BY <1>3, <1>6
<1> DEFINE x == SubSeq(f, 1, w)
<1>8. /\ w >= 2 => Headed(x)
      /\ w = 1 => x = <<Sync0>>
      /\ w = 2 => x = <<Sync0, Sync1>>
      /\ w >= 3 => x[3] = Len(payload)
      /\ Len(x) = w
  BY <1>4, <1>7, ScanPrefix
<1>9. held' = x BY <1>1, <1>2 DEF InStep
<1>10. Position' = 0 BY <1>1 DEF Position
<1>11. InFrame' BY <1>1 DEF InFrame
<1>12. 0 * FrameLen = 0 /\ MaxLen \in Nat BY LossArithmetic
<1> HIDE DEF f, w, x
<1>13. CASE w <= 2
  <2>1. w = 1 \/ w = 2 BY <1>3, <1>7, <1>13
  <2>2. Stub' BY <2>1, <1>1, <1>8, <1>9, <1>10 DEF Stub
  <2> QED BY <2>2, <1>1, <1>11 DEF Recovery
<1>14. CASE ~(w <= 2)
  <2> DEFINE m == Len(f) - w
  <2>1. w >= 3 /\ w >= 2 BY <1>3, <1>14
  <2>2. Headed(held') /\ held'[3] = Len(payload) /\ Len(held') = w BY <2>1, <1>8, <1>9
  <2>3. Len(held') >= Overhead /\ held'[3] \in Lengths BY <2>1, <2>2, <1>5 DEF Overhead
  <2>4. Len(payload) <= MaxLen BY <1>5, LengthsAssumption DEF Lengths
  <2>5. m \in 1 .. MaxLen /\ m <= MaxLen BY <2>1, <2>4, <1>3, <1>5, <1>12 DEF Overhead
  <2>6. Overhead + held'[3] = Len(held') + m
    <3>1. \A i, j \in Nat : i = j + (i - j) OBVIOUS
    <3>2. Len(f) = w + m BY <3>1, <1>3
    <3> QED BY <3>2, <2>2, <1>5
  <2> HIDE DEF m
  <2>7. lost' * FrameLen + m + Position' <= MaxLen
    <3>1. lost' * FrameLen = 0 BY <1>1, <1>12
    <3>2. 0 + m + 0 <= MaxLen BY <2>5, <1>12
    <3> QED BY <3>1, <3>2, <1>10
  <2>8. Absorbing' BY <2>2, <2>3, <2>5, <2>6, <2>7 DEF Absorbing, Headed
  <2> QED BY <2>8, <1>1, <1>11 DEF Recovery
<1> QED BY <1>13, <1>14

LEMMA RecoveryInit == Init => Recovery
<1> SUFFICES ASSUME Init PROVE Recovery OBVIOUS
<1>1. left = <<>> /\ held = <<>> /\ ~cut /\ lost = 0 BY DEF Init
<1>2. InStep BY <1>1, BetweenFrames
<1> QED BY <1>1, <1>2 DEF Recovery, InFrame

LEMMA RecoveryStep == Types /\ Recovery /\ [Next]_vars => Recovery'
<1> SUFFICES ASSUME Types, Recovery, [Next]_vars PROVE Recovery' OBVIOUS
<1>1. CASE StartFrame BY <1>1, StartRecovers
<1>2. CASE WriteByte BY <1>2, ByteRecovers
<1>3. CASE WriteNoise BY <1>3, NoiseRecovers
<1>4. CASE Reset BY <1>4, ResetRecovers
<1>5. CASE ReadChunk \/ UNCHANGED vars
  <2>1. UNCHANGED <<payload, left, cut, lost, plain, held>>
    BY <1>5 DEF ReadChunk, vars, writer, boardReader
  <2>2. Position' = Position BY <2>1 DEF Position
  <2>3. (InFrame => InFrame') /\ (InStep => InStep') BY <2>1, <2>2 DEF InFrame, InStep
  <2>4. (Recovered => Recovered') /\ (Stub => Stub') /\ (OutOfStep => OutOfStep')
    BY <2>1, <2>2, <2>3 DEF Recovered, Stub, OutOfStep
  <2>5. Absorbing => Absorbing' BY <2>1, <2>2 DEF Absorbing, Headed
  <2> QED BY <2>1, <2>3, <2>4, <2>5 DEF Recovery
<1> QED BY <1>1, <1>2, <1>3, <1>4, <1>5 DEF Next

LEMMA PositionIsNat ==
  ASSUME Types, InFrame
  PROVE  Position \in Nat
<1>1. left = <<>> => Position = 0 BY DEF Position
<1>2. left # <<>> => Position \in Nat BY NextByte
<1> QED BY <1>1, <1>2

LEMMA QuotientBounds ==
  ASSUME NEW n \in Nat, NEW d \in Nat, d > 0, NEW a \in Nat, n * d <= a
  PROVE  n <= a \div d
<1> DEFINE q == a \div d
<1>1. q \in Int /\ a < (q + 1) * d OBVIOUS
<1> HIDE DEF q
<1>2. n * d < (q + 1) * d BY <1>1
<1>3. n < q + 1
  <2> SUFFICES ASSUME q + 1 <= n PROVE FALSE BY <1>1
  <2>1. (q + 1) * d <= n * d BY <1>1
  <2> QED BY <2>1, <1>1, <1>2
<1> QED BY <1>1, <1>3 DEF q

LEMMA RecoverySuffices == Types /\ Recovery => LossBounded
<1> SUFFICES ASSUME Types, Recovery, cut, plain
             PROVE  lost <= (MaxLen + FrameLen - 1) \div FrameLen
    BY DEF LossBounded, Recovery
<1> DEFINE n == lost * FrameLen
           a == MaxLen + FrameLen - 1
<1>1. FrameLen \in Nat /\ FrameLen >= 4 /\ MaxLen \in Nat /\ lost \in Nat /\ n \in Nat
      /\ 0 * FrameLen = 0
  <2>1. lost \in Nat BY DEF Types
  <2> QED BY <2>1, LossArithmetic
<1>2. a \in Nat /\ FrameLen > 0 /\ MaxLen <= a BY <1>1
<1>3. n <= a
  <2>1. CASE Recovered BY <2>1 DEF Recovered
  <2>2. CASE Stub
    <3>1. n = 0 BY <2>2, <1>1 DEF Stub
    <3> QED BY <3>1, <1>1
  <2>3. CASE Absorbing
    <3>1. PICK m \in 1 .. MaxLen : n + m + Position <= MaxLen BY <2>3 DEF Absorbing
    <3>2. Position \in Nat BY PositionIsNat DEF Recovery
    <3> HIDE DEF n
    <3> QED BY <3>1, <3>2, <1>1
  <2>4. CASE OutOfStep
    <3>1. n + 1 <= MaxLen BY <2>4 DEF OutOfStep
    <3> HIDE DEF n
    <3> QED BY <3>1, <1>1
  <2> QED BY <2>1, <2>2, <2>3, <2>4 DEF Recovery
<1> HIDE DEF a
<1>4. lost <= a \div FrameLen BY <1>1, <1>2, <1>3, QuotientBounds
<1> QED BY <1>4 DEF a

\* Without a reset the board's reader emits every frame, whatever its payload holds and
\* whatever noise is between.  A frame cut short swallows at most the whole frames that
\* one payload's worth of bytes can touch, however many frames and however much noise
\* follow (serial_framing.cpp feed, the resynchronisation).
THEOREM LossIsBounded == Spec => []LossBounded
<1>1. Init => Agreement /\ Recovery BY AgreementInit, RecoveryInit
<1>2. (Agreement /\ Recovery) /\ [Next]_vars => (Agreement /\ Recovery)'
  <2>1. Agreement => Types BY DEF Agreement
  <2> QED BY <2>1, AgreementStep, RecoveryStep
<1>3. Agreement /\ Recovery => LossBounded BY RecoverySuffices DEF Agreement
<1> QED BY <1>1, <1>2, <1>3, PTL DEF Spec
=============================================================================

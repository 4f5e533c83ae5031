------------------------------ MODULE FoldProofs -------------------------------
(***************************************************************************)
(* Induction over numbers and sequences, and what FoldLeft computes: the   *)
(* lemmas that the proofs about texts and tool outputs share.              *)
(***************************************************************************)
EXTENDS Integers, Sequences, FiniteSets, SequencesExt, SequenceTheorems,
        WellFoundedInduction, TLAPS

--------------------------------------------------------------------------------
(***************************************************************************)
(* Induction.  The library's induction theorems take an operator; stated    *)
(* with a set they follow from WFMin.                                       *)
(***************************************************************************)

\* A set that holds zero and with every number its successor holds all.
LEMMA NatInd ==
    ASSUME NEW S, 0 \in S, \A n \in Nat : n \in S => n + 1 \in S
    PROVE  Nat \subseteq S
  <1> SUFFICES ASSUME ~(Nat \subseteq S) PROVE FALSE
    OBVIOUS
  <1> DEFINE T == {n \in Nat : n \notin S}
             R == {ss \in Nat \X Nat : ss[1] < ss[2]}
  <1>1. IsWellFoundedOn(R, Nat)
    <2>1. OpToRel(<, Nat) = R
      BY DEF OpToRel
    <2> QED
      BY <2>1, NatLessThanWellFounded
  <1>2. T \subseteq Nat /\ T # {}
    OBVIOUS
  <1>3. PICK x \in T : \A y \in T : ~(<<y, x>> \in R)
    <2> HIDE DEF T, R
    <2> QED
      BY <1>1, <1>2, WFMin
  <1>4. x # 0 /\ x - 1 \in Nat
    OBVIOUS
  <1>5. x - 1 \in T
    BY <1>4
  <1>6. <<x - 1, x>> \in R
    BY <1>4
  <1> QED
    BY <1>3, <1>5, <1>6

\* A set that holds the empty sequence and with every sequence its extensions
\* holds all sequences.
LEMMA SeqInd ==
    ASSUME NEW E, NEW S, <<>> \in S,
           \A s \in Seq(E), e \in E : s \in S => Append(s, e) \in S
    PROVE  Seq(E) \subseteq S
  <1> DEFINE N == {n \in Nat : \A s \in Seq(E) : Len(s) = n => s \in S}
  <1>1. 0 \in N
    BY EmptySeq
  <1>2. ASSUME NEW n \in Nat, n \in N PROVE n + 1 \in N
    <2> SUFFICES ASSUME NEW s \in Seq(E), Len(s) = n + 1 PROVE s \in S
      OBVIOUS
    <2>1. s # <<>>
      BY EmptySeq
    <2>2. PICK t \in Seq(E), e \in E : s = Append(t, e)
      BY <2>1, SequenceEmptyOrAppend
    <2>3. Len(t) = n
      BY <2>2, AppendProperties, LenProperties
    <2> QED
      BY <1>2, <2>2, <2>3
  <1>3. Nat \subseteq N
    <2> HIDE DEF N
    <2> QED
      BY <1>1, <1>2, NatInd
  <1> QED
    BY <1>3, LenProperties

\* Two sequences of the same length grow together.
LEMMA SeqInd2 ==
    ASSUME NEW E, NEW D, NEW S, << <<>>, <<>> >> \in S,
           \A s \in Seq(E), t \in Seq(D), e \in E, d \in D :
              <<s, t>> \in S => <<Append(s, e), Append(t, d)>> \in S,
           NEW s \in Seq(E), NEW t \in Seq(D), Len(s) = Len(t)
    PROVE  <<s, t>> \in S
  <1> DEFINE N == {n \in Nat : \A a \in Seq(E), b \in Seq(D) :
                        Len(a) = n /\ Len(b) = n => <<a, b>> \in S}
  <1>1. 0 \in N
    <2>1. \A a \in Seq(E) : Len(a) = 0 => a = <<>>
      BY EmptySeq
    <2>2. \A a \in Seq(D) : Len(a) = 0 => a = <<>>
      BY EmptySeq
    <2> QED
      BY <2>1, <2>2
  <1>2. ASSUME NEW n \in Nat, n \in N PROVE n + 1 \in N
    <2> SUFFICES ASSUME NEW a \in Seq(E), NEW b \in Seq(D), Len(a) = n + 1, Len(b) = n + 1
                 PROVE  <<a, b>> \in S
      OBVIOUS
    <2>1. a # <<>> /\ b # <<>>
      BY EmptySeq
    <2>2. PICK c \in Seq(E), e \in E : a = Append(c, e)
      BY <2>1, SequenceEmptyOrAppend
    <2>3. PICK f \in Seq(D), d \in D : b = Append(f, d)
      BY <2>1, SequenceEmptyOrAppend
    <2>4. Len(c) = n /\ Len(f) = n
      BY <2>2, <2>3, AppendProperties, LenProperties
    <2> QED
      BY <1>2, <2>2, <2>3, <2>4
  <1>3. Nat \subseteq N
    <2> HIDE DEF N
    <2> QED
      BY <1>1, <1>2, NatInd
  <1> QED
    BY <1>3, LenProperties

--------------------------------------------------------------------------------
(***************************************************************************)
(* Folds.  FoldLeft computes with a table indexed by the sets of positions  *)
(* of a sequence; the function F of FoldAsFunction is what it computes.       *)
(***************************************************************************)

\* What a fold does with one more element.
Steps(V, E) == [V \X E -> V]

\* A step stays within the values.
LEMMA StepValue ==
    ASSUME NEW V, NEW E, NEW step \in Steps(V, E), NEW v \in V, NEW e \in E
    PROVE  step[<<v, e>>] \in V
  BY DEF Steps

\* h holds the results of folding every prefix of s.
PrefixResults(h, s, V, a, step) ==
    /\ h \in [0 .. Len(s) -> V]
    /\ h[0] = a
    /\ \A i \in 1 .. Len(s) : h[i] = step[<<h[i - 1], s[i]>>]

\* Every sequence can be folded prefix by prefix.
LEMMA PrefixesExist ==
    ASSUME NEW V, NEW a \in V, NEW E, NEW step \in Steps(V, E), NEW s \in Seq(E)
    PROVE  \E h : PrefixResults(h, s, V, a, step)
  <1> DEFINE S == {t \in Seq(E) : \E h : PrefixResults(h, t, V, a, step)}
  <1>1. <<>> \in S
    <2> DEFINE h == [i \in 0 .. 0 |-> a]
    <2>1. PrefixResults(h, <<>>, V, a, step)
      BY EmptySeq DEF PrefixResults
    <2> QED
      BY <2>1, EmptySeq
  <1>2. ASSUME NEW t \in Seq(E), NEW e \in E, t \in S PROVE Append(t, e) \in S
    <2>1. PICK h : PrefixResults(h, t, V, a, step)
      BY <1>2
    <2> DEFINE n == Len(t)
               k == [i \in 0 .. n + 1 |-> IF i <= n THEN h[i] ELSE step[<<h[n], e>>]]
               u == Append(t, e)
    <2>2. n \in Nat /\ Len(u) = n + 1 /\ u \in Seq(E) /\ u[n + 1] = e
          /\ \A i \in 1 .. n : u[i] = t[i]
      BY AppendProperties, LenProperties
    <2>3. h[n] \in V /\ step[<<h[n], e>>] \in V
      BY <2>1, <2>2 DEF PrefixResults
    <2>4. k \in [0 .. n + 1 -> V]
      BY <2>1, <2>2, <2>3 DEF PrefixResults
    <2>5. k[0] = a
      BY <2>1, <2>2 DEF PrefixResults
    <2>6. \A i \in 1 .. n + 1 : k[i] = step[<<k[i - 1], u[i]>>]
      <3> HIDE DEF u
      <3>1. ASSUME NEW i \in 1 .. n PROVE k[i] = step[<<k[i - 1], u[i]>>]
        <4>1. i - 1 \in 0 .. n + 1 /\ i - 1 <= n /\ i \in 0 .. n + 1 /\ i <= n
          BY <2>2
        <4>2. k[i] = h[i] /\ k[i - 1] = h[i - 1]
          BY <4>1
        <4>3. h[i] = step[<<h[i - 1], t[i]>>]
          BY <2>1 DEF PrefixResults
        <4> QED
          BY <2>2, <4>2, <4>3
      <3>2. k[n + 1] = step[<<k[n], u[n + 1]>>]
        <4>1. n \in 0 .. n + 1 /\ n + 1 \in 0 .. n + 1 /\ ~(n + 1 <= n)
          BY <2>2
        <4> QED
          BY <2>2, <4>1
      <3>3. \A i \in 1 .. n + 1 : i \in 1 .. n \/ (i = n + 1 /\ i - 1 = n)
        BY <2>2
      <3> HIDE DEF k
      <3> QED
        BY <3>1, <3>2, <3>3
    <2>7. PrefixResults(k, u, V, a, step)
      <3> HIDE DEF k, u
      <3> QED
        BY <2>2, <2>4, <2>5, <2>6 DEF PrefixResults
    <2> QED
      BY <2>2, <2>7
  <1>3. Seq(E) \subseteq S
    <2> HIDE DEF S
    <2> QED
      BY <1>1, <1>2, SeqInd
  <1> QED
    BY <1>3

\* A longer sequence has the same results for the prefixes it shares.
LEMMA PrefixesAgree ==
    ASSUME NEW V, NEW a \in V, NEW E, NEW step \in Steps(V, E),
           NEW s \in Seq(E), NEW e \in E,
           NEW h, PrefixResults(h, s, V, a, step), NEW k, PrefixResults(k, Append(s, e), V, a, step)
    PROVE  h[Len(s)] = k[Len(s)]
  <1> DEFINE t == Append(s, e)
  <1>0. /\ Len(s) \in Nat /\ Len(t) = Len(s) + 1
        /\ \A i \in 1 .. Len(s) : s[i] = t[i]
    BY AppendProperties, LenProperties
  <1> HIDE DEF t
  <1> DEFINE N == {i \in Nat : i <= Len(s) => h[i] = k[i]}
  <1>1. Len(s) \in Nat /\ Len(t) \in Nat
    BY <1>0
  <1>2. 0 \in N
    BY DEF PrefixResults, t
  <1>3. ASSUME NEW n \in Nat, n \in N PROVE n + 1 \in N
    <2> SUFFICES ASSUME n + 1 <= Len(s) PROVE h[n + 1] = k[n + 1]
      OBVIOUS
    <2>1. h[n] = k[n] /\ n + 1 \in 1 .. Len(s) /\ n + 1 \in 1 .. Len(t) /\ (n + 1) - 1 = n
      BY <1>0, <1>1, <1>3
    <2>2. h[n + 1] = step[<<h[n], s[n + 1]>>]
      BY <2>1 DEF PrefixResults
    <2>3. k[n + 1] = step[<<k[n], t[n + 1]>>]
      BY <2>1 DEF PrefixResults, t
    <2> QED
      BY <1>0, <2>1, <2>2, <2>3
  <1>4. Nat \subseteq N
    <2> HIDE DEF N
    <2> QED
      BY <1>2, <1>3, NatInd
  <1> QED
    BY <1>1, <1>4

\* F is the function from a sequence to what folding it yields.
IsFold(F, V, a, E, step) ==
    /\ F \in [Seq(E) -> V]
    /\ F[<<>>] = a
    /\ \A s \in Seq(E), e \in E : F[Append(s, e)] = step[<<F[s], e>>]

\* Folding is a function of the sequence that one more element extends by a step.
LEMMA FoldAsFunction ==
    ASSUME NEW V, NEW a \in V, NEW E, NEW step \in Steps(V, E)
    PROVE  \E F : IsFold(F, V, a, E, step)
  <1>1. PICK H : \A s \in Seq(E) : PrefixResults(H[s], s, V, a, step)
    <2> DEFINE K == [s \in Seq(E) |-> CHOOSE h : PrefixResults(h, s, V, a, step)]
    <2>1. \A s \in Seq(E) : PrefixResults(K[s], s, V, a, step)
      BY PrefixesExist
    <2> HIDE DEF K
    <2> QED
      BY <2>1
  <1> DEFINE G == [s \in Seq(E) |-> H[s][Len(s)]]
  <1>2. G \in [Seq(E) -> V]
    BY <1>1, LenProperties DEF PrefixResults
  <1>3. G[<<>>] = a
    BY <1>1, EmptySeq DEF PrefixResults
  <1>4. ASSUME NEW s \in Seq(E), NEW e \in E PROVE G[Append(s, e)] = step[<<G[s], e>>]
    <2> DEFINE n == Len(s)
               u == Append(s, e)
    <2>1. n \in Nat /\ Len(u) = n + 1 /\ u \in Seq(E) /\ u[n + 1] = e
          /\ \A i \in 1 .. n : u[i] = s[i]
      BY AppendProperties, LenProperties
    <2> HIDE DEF u
    <2>2. H[s][n] = H[u][n]
      <3>1. PrefixResults(H[s], s, V, a, step) /\ PrefixResults(H[u], Append(s, e), V, a, step)
        BY <1>1, <2>1 DEF u
      <3> QED
        BY <3>1, PrefixesAgree
    <2>3. H[u][n + 1] = step[<<H[u][n], e>>]
      BY <1>1, <2>1 DEF PrefixResults
    <2>4. G[u] = H[u][n + 1] /\ G[s] = H[s][n]
      BY <2>1
    <2> QED
      BY <2>2, <2>3, <2>4 DEF u
  <1> HIDE DEF G
  <1> QED
    BY <1>2, <1>3, <1>4 DEF IsFold

\* A set of positions has a largest element.
LEMMA MaxIn ==
    ASSUME NEW n \in Nat, NEW T \in SUBSET (1 .. n), T # {}
    PROVE  /\ Max(T) \in T
           /\ \A i \in T : Max(T) >= i
  <1> DEFINE N == {k \in Nat : \A U \in SUBSET (1 .. k) :
                        U # {} => \E x \in U : \A y \in U : x >= y}
  <1>1. 0 \in N
    <2>1. 1 .. 0 = {}
      OBVIOUS
    <2> QED
      BY <2>1
  <1>2. ASSUME NEW k \in Nat, k \in N PROVE k + 1 \in N
    <2> SUFFICES ASSUME NEW U \in SUBSET (1 .. k + 1), U # {}
                 PROVE  \E x \in U : \A y \in U : x >= y
      OBVIOUS
    <2>1. CASE k + 1 \in U
      BY <2>1
    <2>2. CASE k + 1 \notin U
      <3>1. U \in SUBSET (1 .. k)
        BY <2>2
      <3> QED
        BY <1>2, <3>1
    <2> QED
      BY <2>1, <2>2
  <1>3. Nat \subseteq N
    <2> HIDE DEF N
    <2> QED
      BY <1>1, <1>2, NatInd
  <1>4. \E x \in T : \A y \in T : x >= y
    BY <1>3
  <1> QED
    BY <1>4 DEF Max

\* f is the table FoldLeft computes for s.
IsTable(f, s, V, a, step) ==
    /\ f \in [SUBSET DOMAIN s -> V]
    /\ f[{}] = a
    /\ \A T \in SUBSET DOMAIN s :
          T # {} => f[T] = step[<<f[T \ {Max(T)}], s[Max(T)]>>]

\* The table that FoldLeft chooses exists for every sequence.
LEMMA FoldTable ==
    ASSUME NEW V, NEW a \in V, NEW E, NEW step \in Steps(V, E), NEW s \in Seq(E)
    PROVE  \E f : IsTable(f, s, V, a, step)
  <1> DEFINE Table(f, t) ==
                /\ f \in [SUBSET (1 .. Len(t)) -> V]
                /\ \A T \in SUBSET (1 .. Len(t)) :
                      f[T] = IF T = {} THEN a ELSE step[<<f[T \ {Max(T)}], t[Max(T)]>>]
             S == {t \in Seq(E) : \E f : Table(f, t)}
  <1>1. <<>> \in S
    <2> DEFINE f == [T \in SUBSET (1 .. 0) |-> a]
    <2>1. Table(f, <<>>)
      BY EmptySeq
    <2> QED
      BY <2>1, EmptySeq
  <1>2. ASSUME NEW t \in Seq(E), NEW e \in E, t \in S PROVE Append(t, e) \in S
    <2>1. PICK f : Table(f, t)
      BY <1>2
    <2> DEFINE n == Len(t)
               u == Append(t, e)
               g == [T \in SUBSET (1 .. n + 1) |->
                        IF n + 1 \in T THEN step[<<f[T \ {n + 1}], e>>] ELSE f[T]]
    <2>2. n \in Nat /\ Len(u) = n + 1 /\ u \in Seq(E) /\ u[n + 1] = e
          /\ \A i \in 1 .. n : u[i] = t[i]
      BY AppendProperties, LenProperties
    <2> HIDE DEF u
    <2>3. ASSUME NEW T \in SUBSET (1 .. n + 1), n + 1 \in T
          PROVE  /\ g[T] \in V
                 /\ g[T] = step[<<g[T \ {Max(T)}], u[Max(T)]>>]
      <3>1. Max(T) = n + 1
        <4>1. n + 1 \in Nat /\ T # {}
          BY <2>2, <2>3
        <4>2. Max(T) \in T /\ Max(T) >= n + 1
          BY <2>3, <4>1, MaxIn
        <4>3. Max(T) \in 1 .. n + 1
          BY <4>2
        <4> QED
          BY <2>2, <4>2, <4>3
      <3>2. T \ {n + 1} \in SUBSET (1 .. n) /\ n + 1 \notin T \ {n + 1}
        <4>1. \A i \in 1 .. n + 1 : i # n + 1 => i \in 1 .. n
          BY <2>2
        <4> QED
          BY <4>1
      <3>3. T \ {n + 1} \in SUBSET (1 .. n + 1)
        BY <2>2
      <3>4. g[T \ {n + 1}] = f[T \ {n + 1}]
        BY <3>2, <3>3
      <3>5. f[T \ {n + 1}] \in V
        BY <2>1, <3>2
      <3>6. g[T] = step[<<f[T \ {n + 1}], e>>]
        BY <2>3
      <3>7. step[<<f[T \ {n + 1}], e>>] \in V
        BY <3>5, StepValue
      <3> HIDE DEF g
      <3> QED
        BY <2>2, <3>1, <3>4, <3>6, <3>7
    <2>4. ASSUME NEW T \in SUBSET (1 .. n + 1), n + 1 \notin T
          PROVE  /\ g[T] \in V
                 /\ g[T] = IF T = {} THEN a ELSE step[<<g[T \ {Max(T)}], u[Max(T)]>>]
      <3>1. T \in SUBSET (1 .. n)
        BY <2>2, <2>4
      <3>2. g[T] = f[T]
        BY <2>4
      <3>3. f[T] \in V
        BY <2>1, <3>1
      <3>4. CASE T = {}
        BY <2>1, <3>1, <3>2, <3>3, <3>4
      <3>5. CASE T # {}
        <4>1. Max(T) \in T /\ Max(T) \in 1 .. n
          BY <2>2, <3>1, <3>5, MaxIn
        <4>2. f[T] = step[<<f[T \ {Max(T)}], t[Max(T)]>>]
          BY <2>1, <3>1, <3>5
        <4>3. T \ {Max(T)} \in SUBSET (1 .. n + 1) /\ n + 1 \notin T \ {Max(T)}
          BY <2>4
        <4>4. g[T \ {Max(T)}] = f[T \ {Max(T)}]
          BY <4>3
        <4> HIDE DEF g
        <4> QED
          BY <2>2, <3>2, <3>3, <3>5, <4>1, <4>2, <4>4
      <3> QED
        BY <3>4, <3>5
    <2>5. Table(g, u)
      <3>1. \A T \in SUBSET (1 .. n + 1) : g[T] \in V
        BY <2>3, <2>4
      <3>2. g \in [SUBSET (1 .. n + 1) -> V]
        BY <3>1
      <3>3. \A T \in SUBSET (1 .. n + 1) :
               g[T] = IF T = {} THEN a ELSE step[<<g[T \ {Max(T)}], u[Max(T)]>>]
        <4>1. TAKE T \in SUBSET (1 .. n + 1)
        <4>2. CASE n + 1 \in T
          <5>1. T # {}
            BY <4>2
          <5> HIDE DEF g
          <5> QED
            BY <2>3, <4>2, <5>1
        <4>3. CASE n + 1 \notin T
          <5> HIDE DEF g
          <5> QED
            BY <2>4, <4>3
        <4> QED
          BY <4>2, <4>3
      <3> HIDE DEF g
      <3> QED
        BY <2>2, <3>2, <3>3
    <2> HIDE DEF Table, g
    <2> QED
      BY <2>2, <2>5 DEF u
  <1>3. Seq(E) \subseteq S
    <2> HIDE DEF S
    <2> QED
      BY <1>1, <1>2, SeqInd
  <1>4. DOMAIN s = 1 .. Len(s)
    BY LenProperties
  <1>5. PICK f : Table(f, s)
    <2> HIDE DEF Table
    <2> QED
      BY <1>3
  <1> QED
    BY <1>4, <1>5 DEF IsTable

\* Whatever satisfies the equation of the table where it has values in V is
\* the fold of the sequence.
IsPartialTable(g, s, V, a, step) ==
    /\ g[{}] = a
    /\ \A T \in SUBSET DOMAIN s :
          T # {} /\ g[T \ {Max(T)}] \in V
          => g[T] = step[<<g[T \ {Max(T)}], s[Max(T)]>>]

\* Such a table has the value of the fold at the set of all positions.
LEMMA FoldValue ==
    ASSUME NEW V, NEW a \in V, NEW E, NEW step \in Steps(V, E), NEW s \in Seq(E),
           NEW F, IsFold(F, V, a, E, step), NEW g, IsPartialTable(g, s, V, a, step)
    PROVE  g[DOMAIN s] = F[s]
  <1> DEFINE N == {n \in Nat : n <= Len(s) => g[1 .. n] = F[SubSeq(s, 1, n)]}
  <1>0. Len(s) \in Nat /\ DOMAIN s = 1 .. Len(s)
    BY LenProperties
  <1>1. 0 \in N
    <2>1. SubSeq(s, 1, 0) = <<>>
      BY SubSeqEmpty
    <2>2. 1 .. 0 = {}
      OBVIOUS
    <2> QED
      BY <2>1, <2>2 DEF IsFold, IsPartialTable
  <1>2. ASSUME NEW n \in Nat, n \in N PROVE n + 1 \in N
    <2> SUFFICES ASSUME n + 1 <= Len(s) PROVE g[1 .. n + 1] = F[SubSeq(s, 1, n + 1)]
      OBVIOUS
    <2>1. g[1 .. n] = F[SubSeq(s, 1, n)]
      BY <1>0, <1>2
    <2>2. /\ SubSeq(s, 1, n) \in Seq(E) /\ s[n + 1] \in E
      BY <1>0, SubSeqProperties, ElementOfSeq
    <2>3. SubSeq(s, 1, n + 1) = Append(SubSeq(s, 1, n), s[n + 1])
      <3>1. SubSeq(s, 1, n + 1) = SubSeq(s, 1, (n + 1) - 1) \o <<s[n + 1]>>
        BY <1>0, SubSeqRecursiveSecond
      <3>2. (n + 1) - 1 = n
        OBVIOUS
      <3> QED
        BY <2>2, <3>1, <3>2, AppendIsConcat
    <2>4. Max(1 .. n + 1) = n + 1
      <3>1. n + 1 \in Nat /\ n + 1 \in 1 .. n + 1
        OBVIOUS
      <3>2. Max(1 .. n + 1) \in 1 .. n + 1 /\ Max(1 .. n + 1) >= n + 1
        BY <3>1, MaxIn
      <3> QED
        BY <3>2
    <2>5. (1 .. n + 1) \ {n + 1} = 1 .. n
      OBVIOUS
    <2>6. 1 .. n + 1 \in SUBSET DOMAIN s /\ 1 .. n + 1 # {}
      <3>1. n + 1 \in 1 .. n + 1 /\ \A i \in 1 .. n + 1 : i \in 1 .. Len(s)
        BY <1>0
      <3> QED
        BY <1>0, <3>1
    <2>7. F[SubSeq(s, 1, n)] \in V
      BY <2>2 DEF IsFold
    <2>8. g[1 .. n + 1] = step[<<g[1 .. n], s[n + 1]>>]
      BY <2>1, <2>4, <2>5, <2>6, <2>7 DEF IsPartialTable
    <2> QED
      BY <2>1, <2>2, <2>3, <2>8 DEF IsFold
  <1>3. Nat \subseteq N
    <2> HIDE DEF N
    <2> QED
      BY <1>1, <1>2, NatInd
  <1>4. SubSeq(s, 1, Len(s)) = s
    BY SubSeqFull
  <1>5. Len(s) \in N
    BY <1>0, <1>3
  <1>6. g[1 .. Len(s)] = F[SubSeq(s, 1, Len(s))]
    BY <1>0, <1>5
  <1> QED
    BY <1>0, <1>4, <1>6

\* An operator whose values are those of such tables is a fold.
LEMMA FoldEquations ==
    ASSUME NEW V, NEW a \in V, NEW E, NEW step \in Steps(V, E),
           NEW R, R = [s \in Seq(E) |-> R[s]],
           \A s \in Seq(E) : \E g : IsPartialTable(g, s, V, a, step) /\ R[s] = g[DOMAIN s]
    PROVE  IsFold(R, V, a, E, step)
  <1>1. PICK F : IsFold(F, V, a, E, step)
    BY FoldAsFunction
  <1>2. \A s \in Seq(E) : R[s] = F[s]
    BY <1>1, FoldValue
  <1>3. \A s \in Seq(E), e \in E : Append(s, e) \in Seq(E)
    BY AppendProperties
  <1>4. <<>> \in Seq(E)
    BY EmptySeq
  <1>5. R \in [Seq(E) -> V]
    BY <1>1, <1>2 DEF IsFold
  <1> QED
    BY <1>1, <1>2, <1>3, <1>4, <1>5 DEF IsFold

\* The table is also one where the step is spelled out.
LEMMA TablePositions ==
    ASSUME NEW E, NEW s \in Seq(E), NEW T \in SUBSET DOMAIN s, T # {}
    PROVE  s[Max(T)] \in E /\ T \ {Max(T)} \in SUBSET DOMAIN s
  BY MaxIn, LenProperties

\* A set of positions has a smallest element.
LEMMA SmallestIn ==
    ASSUME NEW n \in Nat, NEW T \in SUBSET (1 .. n), T # {}
    PROVE  \E x \in T : \A y \in T : x <= y
  <1> DEFINE N == {k \in Nat : \A U \in SUBSET (1 .. k) :
                        U # {} => \E x \in U : \A y \in U : x <= y}
  <1>1. 0 \in N
    <2>1. 1 .. 0 = {}
      OBVIOUS
    <2> QED
      BY <2>1
  <1>2. ASSUME NEW k \in Nat, k \in N PROVE k + 1 \in N
    <2> SUFFICES ASSUME NEW U \in SUBSET (1 .. k + 1), U # {}
                 PROVE  \E x \in U : \A y \in U : x <= y
      OBVIOUS
    <2>1. CASE U = {k + 1}
      BY <2>1
    <2>2. CASE U # {k + 1}
      <3>1. U \ {k + 1} \in SUBSET (1 .. k) /\ U \ {k + 1} # {}
        <4>1. \A i \in 1 .. k + 1 : i # k + 1 => i \in 1 .. k
          OBVIOUS
        <4> QED
          BY <2>2, <4>1
      <3>2. PICK x \in U \ {k + 1} : \A y \in U \ {k + 1} : x <= y
        BY <1>2, <3>1
      <3>3. x <= k + 1
        BY <3>1, <3>2
      <3> QED
        BY <3>2, <3>3
    <2> QED
      BY <2>1, <2>2
  <1>3. Nat \subseteq N
    <2> HIDE DEF N
    <2> QED
      BY <1>1, <1>2, NatInd
  <1> QED
    BY <1>3

\* Sequences of one element.
LEMMA Singleton ==
    ASSUME NEW E, NEW e \in E
    PROVE  <<e>> \in Seq(E)
  OBVIOUS

\* Appending to the second of two joined sequences.
LEMMA AppendToConcat ==
    ASSUME NEW E, NEW s \in Seq(E), NEW t \in Seq(E), NEW e \in E
    PROVE  s \o Append(t, e) = Append(s \o t, e)
  <1>1. <<e>> \in Seq(E) /\ s \o t \in Seq(E)
    BY Singleton, ConcatProperties
  <1>2. s \o Append(t, e) = s \o (t \o <<e>>)
    BY AppendIsConcat
  <1>3. Append(s \o t, e) = (s \o t) \o <<e>>
    BY <1>1, AppendIsConcat
  <1> QED
    BY <1>1, <1>2, <1>3, ConcatAssociative

\* What an update of the last element does.
LEMMA ReplaceLast ==
    ASSUME NEW E, NEW s \in Seq(E), s # <<>>
    PROVE  \E t \in Seq(E) :
              /\ s[Len(s)] \in E
              /\ s = Append(t, s[Len(s)])
              /\ \A x \in E : [s EXCEPT ![Len(s)] = x] = Append(t, x)
  <1>1. PICK t \in Seq(E), e \in E : s = Append(t, e)
    BY SequenceEmptyOrAppend
  <1>2. Len(t) \in Nat /\ Len(s) = Len(t) + 1 /\ s[Len(s)] = e
        /\ Len(s) \in 1 .. Len(s)
    BY <1>1, AppendProperties, LenProperties
  <1>3. ASSUME NEW x \in E PROVE [s EXCEPT ![Len(s)] = x] = Append(t, x)
    <2> DEFINE u == [s EXCEPT ![Len(s)] = x]
               v == Append(t, x)
    <2>1. u \in Seq(E) /\ Len(u) = Len(s)
          /\ \A j \in 1 .. Len(s) : u[j] = IF j = Len(s) THEN x ELSE s[j]
      BY <1>2, ExceptSeq
    <2>2. v \in Seq(E) /\ Len(v) = Len(t) + 1 /\ v[Len(t) + 1] = x
          /\ \A j \in 1 .. Len(t) : v[j] = t[j]
      BY AppendProperties
    <2>3. \A j \in 1 .. Len(t) : s[j] = t[j]
      BY <1>1, AppendProperties
    <2>4. \A j \in 1 .. Len(s) : j # Len(s) => j \in 1 .. Len(t)
      BY <1>2
    <2>5. \A j \in 1 .. Len(u) : u[j] = v[j]
      <3> HIDE DEF u, v
      <3> QED
        BY <1>2, <2>1, <2>2, <2>3, <2>4
    <2>6. Len(u) = Len(v)
      BY <1>2, <2>1, <2>2
    <2> HIDE DEF u, v
    <2>7. u = v
      BY <2>1, <2>2, <2>5, <2>6, SeqEqual
    <2> QED
      BY <2>7 DEF u, v
  <1> QED
    BY <1>1, <1>2, <1>3

--------------------------------------------------------------------------------
(***************************************************************************)
(* Texts                                                                    *)
(***************************************************************************)

\* A prefix grows with the next element, and is one of a longer sequence.
LEMMA PrefixGrows ==
    ASSUME NEW E, NEW s \in Seq(E), NEW k \in 0 .. Len(s) - 1
    PROVE  /\ SubSeq(s, 1, k) \in Seq(E) /\ s[k + 1] \in E
           /\ SubSeq(s, 1, k + 1) = Append(SubSeq(s, 1, k), s[k + 1])
  <1>1. Len(s) \in Nat /\ k \in Nat /\ k + 1 \in 1 .. Len(s)
    BY LenProperties
  <1>2. SubSeq(s, 1, k) \in Seq(E) /\ s[k + 1] \in E
    BY <1>1, SubSeqProperties, ElementOfSeq
  <1>3. SubSeq(s, 1, k + 1) = SubSeq(s, 1, (k + 1) - 1) \o <<s[k + 1]>>
    BY <1>1, SubSeqRecursiveSecond
  <1>4. (k + 1) - 1 = k
    BY <1>1
  <1> QED
    BY <1>2, <1>3, <1>4, AppendIsConcat

LEMMA PrefixStays ==
    ASSUME NEW E, NEW s \in Seq(E), NEW e \in E, NEW k \in 0 .. Len(s)
    PROVE  SubSeq(Append(s, e), 1, k) = SubSeq(s, 1, k)
  <1> DEFINE u == Append(s, e)
  <1>1. /\ Len(s) \in Nat /\ u \in Seq(E) /\ Len(u) = Len(s) + 1
        /\ \A i \in 1 .. Len(s) : u[i] = s[i]
    BY AppendProperties, LenProperties
  <1> HIDE DEF u
  <1>2. CASE k = 0
    BY <1>1, <1>2, SubSeqEmpty DEF u
  <1>3. CASE k # 0
    <2>1. 1 \in 1 .. Len(s) + 1 /\ k \in 1 .. Len(s) /\ k \in 1 - 1 .. Len(s)
      BY <1>1, <1>3
    <2>2. /\ SubSeq(s, 1, k) \in Seq(E) /\ Len(SubSeq(s, 1, k)) = k
          /\ \A i \in 1 .. k : SubSeq(s, 1, k)[i] = s[i]
      BY <1>1, <2>1, SubSeqProperties
    <2>3. /\ SubSeq(u, 1, k) \in Seq(E) /\ Len(SubSeq(u, 1, k)) = k
          /\ \A i \in 1 .. k : SubSeq(u, 1, k)[i] = u[i]
      BY <1>1, <2>1, SubSeqProperties
    <2>4. \A i \in 1 .. k : i \in 1 .. Len(s)
      BY <1>1, <2>1
    <2> QED
      BY <1>1, <2>2, <2>3, <2>4, SeqEqual DEF u
  <1> QED
    BY <1>2, <1>3

=================================================================================

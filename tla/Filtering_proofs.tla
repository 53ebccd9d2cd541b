-------------------------- MODULE Filtering_proofs --------------------------
(***************************************************************************)
(* Induction on the naturals, and what follows from it for Keep.  The      *)
(* induction principle is stated for sets, so that it can be used without  *)
(* an operator as a parameter: it comes from the well-foundedness of <.    *)
(***************************************************************************)
EXTENDS Filtering, FiniteSetTheorems, FunctionTheorems,
        SequenceTheorems, WellFoundedInduction, TLAPS

(* A set that has 0 and the successor of each of its naturals has all. *)
LEMMA SetInduction ==
    ASSUME NEW S, 0 \in S, \A n \in Nat : n \in S => n + 1 \in S
    PROVE  Nat \subseteq S
<1> DEFINE T == Nat \ S
           R == {p \in Nat \X Nat : p[1] < p[2]}
<1>1. IsWellFoundedOn(R, Nat)
  BY NatLessThanWellFounded DEF OpToRel
<1>2. SUFFICES ASSUME T # {} PROVE FALSE
  OBVIOUS
<1>3. PICK x \in T : \A y \in T : ~(<<y, x>> \in R)
  <2> HIDE DEF R
  <2> QED BY <1>1, <1>2, WFMin
<1>4. x # 0 /\ x - 1 \in Nat
  BY <1>3
<1>5. <<x - 1, x>> \in R
  BY <1>3, <1>4
<1>6. x - 1 \in S
  BY <1>3, <1>4, <1>5
<1> QED
  BY <1>3, <1>4, <1>6

(* f[i] is what a loop that begins with b leaves after i of its n turns. *)
LoopRun(f, b, n, turn) == f[0] = b /\ \A i \in 1 .. n : f[i] = turn[i][f[i - 1]]

(* A loop of n turns, each a function of what the last one left, has a     *)
(* run.                                                                    *)
LEMMA LoopRuns ==
    ASSUME NEW S, NEW b \in S, NEW n \in Nat, NEW turn \in [1 .. n -> [S -> S]]
    PROVE  \E f \in [0 .. n -> S] : LoopRun(f, b, n, turn)
<1> DEFINE Run(k, f) == f[0] = b /\ \A i \in 1 .. k : f[i] = turn[i][f[i - 1]]
           D == {k \in Nat : k <= n => \E f \in [0 .. k -> S] : Run(k, f)}
<1>1. 0 \in D
  <2> DEFINE f == [i \in 0 .. 0 |-> b]
  <2>1. f \in [0 .. 0 -> S] /\ Run(0, f)
    OBVIOUS
  <2> QED
    BY <2>1
<1>2. ASSUME NEW k \in Nat, k \in D PROVE k + 1 \in D
  <2> SUFFICES ASSUME k + 1 <= n PROVE \E f \in [0 .. k + 1 -> S] : Run(k + 1, f)
    OBVIOUS
  <2>1. PICK f \in [0 .. k -> S] : Run(k, f)
    BY <1>2
  <2> DEFINE g == [i \in 0 .. k + 1 |-> IF i = k + 1 THEN turn[k + 1][f[k]] ELSE f[i]]
  <2>2. turn[k + 1][f[k]] \in S
    <3>1. f[k] \in S /\ k + 1 \in 1 .. n
      OBVIOUS
    <3> QED
      BY <3>1
  <2>3. g \in [0 .. k + 1 -> S]
    BY <2>2
  <2>4. g[0] = b
    BY <2>1
  <2>5. ASSUME NEW i \in 1 .. k + 1 PROVE g[i] = turn[i][g[i - 1]]
    <3>1. CASE i = k + 1
      BY <3>1
    <3>2. CASE i # k + 1
      <4>1. i \in 1 .. k /\ i \in 0 .. k + 1 /\ i - 1 \in 0 .. k + 1 /\ i - 1 # k + 1
        BY <3>2
      <4>2. g[i] = f[i] /\ g[i - 1] = f[i - 1]
        BY <3>2, <4>1
      <4> HIDE DEF g
      <4> QED
        BY <2>1, <4>1, <4>2
    <3> QED
      BY <3>1, <3>2
  <2> HIDE DEF g
  <2> QED
    BY <2>3, <2>4, <2>5
<1> HIDE DEF D
<1>3. Nat \subseteq D
  BY <1>1, <1>2, SetInduction
<1>4. n \in D
  BY <1>3
<1>5. \E f \in [0 .. n -> S] : Run(n, f)
  BY <1>4 DEF D
<1> QED
  BY <1>5 DEF LoopRun

(* What a loop computes stays in a set that each turn stays in. *)
LEMMA LoopStays ==
    ASSUME NEW S, NEW n \in Nat, NEW g, g[0] \in S,
           \A i \in 1 .. n : g[i - 1] \in S => g[i] \in S
    PROVE  \A i \in 0 .. n : g[i] \in S
<1> DEFINE D == {k \in Nat : k <= n => g[k] \in S}
<1>1. 0 \in D
  OBVIOUS
<1>2. ASSUME NEW k \in Nat, k \in D PROVE k + 1 \in D
  <2> SUFFICES ASSUME k + 1 <= n PROVE g[k + 1] \in S
    OBVIOUS
  <2>1. k + 1 \in 1 .. n /\ (k + 1) - 1 = k /\ g[k] \in S
    BY <1>2
  <2> QED
    BY <2>1
<1> HIDE DEF D
<1>3. Nat \subseteq D
  BY <1>1, <1>2, SetInduction
<1>4. \A i \in 0 .. n : i \in D /\ i \in Nat /\ i <= n
  BY <1>3
<1> QED
  BY <1>4 DEF D

(* f[i] is what the loop of Keep has copied after i entries. *)
CopyRun(f, s, T) ==
    /\ f[0] = <<>>
    /\ \A i \in 1 .. Len(s) : f[i] = IF s[i] \in T THEN Append(f[i - 1], s[i]) ELSE f[i - 1]

(* Keep is what its loop ends with. *)
LEMMA KeepRuns ==
    ASSUME NEW X, NEW s \in Seq(X), NEW T
    PROVE  \E f \in [0 .. Len(s) -> Seq(X)] : CopyRun(f, s, T) /\ Keep(s, T) = f[Len(s)]
<1> DEFINE n == Len(s)
           turn == [i \in 1 .. n |-> [r \in Seq(X) |-> IF s[i] \in T THEN Append(r, s[i]) ELSE r]]
           Body(g) == [i \in 0 .. n |->
                         IF i = 0 THEN <<>>
                         ELSE IF s[i] \in T THEN Append(g[i - 1], s[i]) ELSE g[i - 1]]
           kept == CHOOSE g : g = Body(g)
<1>1. n \in Nat /\ \A i \in 1 .. n : s[i] \in X
  BY LenProperties, ElementOfSeq
<1>2. turn \in [1 .. n -> [Seq(X) -> Seq(X)]]
  BY <1>1, AppendProperties
<1>3. Keep(s, T) = kept[n]
  BY DEF Keep
<1> HIDE DEF n, kept, Body
<1>4. PICK f \in [0 .. n -> Seq(X)] : LoopRun(f, <<>>, n, turn)
  <2> DEFINE Y == Seq(X)
             b == <<>>
  <2>1. b \in Y /\ turn \in [1 .. n -> [Y -> Y]]
    BY <1>2
  <2> HIDE DEF turn, Y, b
  <2>2. n \in Nat
    BY <1>1
  <2>3. \E f \in [0 .. n -> Y] : LoopRun(f, b, n, turn)
    BY <2>1, <2>2, LoopRuns
  <2> QED
    BY <2>3 DEF Y, b
<1> USE DEF kept, Body
<1>5. \A i \in 1 .. n : i - 1 \in 0 .. n /\ f[i - 1] \in Seq(X)
  BY <1>1
<1>6. /\ f[0] = <<>>
      /\ \A i \in 1 .. n : f[i] = IF s[i] \in T THEN Append(f[i - 1], s[i]) ELSE f[i - 1]
  BY <1>4, <1>5 DEF LoopRun
<1>7. f = Body(f)
  <2>1. ASSUME NEW i \in 0 .. n PROVE f[i] = Body(f)[i]
    <3>1. CASE i = 0
      BY <1>6, <3>1
    <3>2. CASE i # 0
      <4>1. i \in 1 .. n
        BY <1>1, <3>2
      <4> QED
        BY <1>6, <3>2, <4>1
    <3> QED
      BY <3>1, <3>2
  <2> QED
    BY <2>1
<1>8. kept = Body(kept)
  <2> HIDE DEF Body
  <2> QED BY <1>7
<1> HIDE DEF kept
<1>9. kept[0] = <<>> /\ \A i \in 1 .. n :
          kept[i] = IF s[i] \in T THEN Append(kept[i - 1], s[i]) ELSE kept[i - 1]
  <2>1. \A i \in 0 .. n :
          kept[i] = IF i = 0 THEN <<>>
                    ELSE IF s[i] \in T THEN Append(kept[i - 1], s[i]) ELSE kept[i - 1]
    BY <1>8
  <2>2. 0 \in 0 .. n /\ \A i \in 1 .. n : i \in 0 .. n /\ i # 0
    BY <1>1
  <2> QED
    BY <2>1, <2>2
<1> DEFINE D == {k \in Nat : k <= n => kept[k] = f[k]}
<1>10. 0 \in D
  BY <1>6, <1>9
<1>11. ASSUME NEW k \in Nat, k \in D PROVE k + 1 \in D
  <2> SUFFICES ASSUME k + 1 <= n PROVE kept[k + 1] = f[k + 1]
    OBVIOUS
  <2>1. k + 1 \in 1 .. n /\ k + 1 - 1 = k /\ kept[k] = f[k]
    BY <1>1, <1>11
  <2> QED
    BY <1>6, <1>9, <2>1
<1> HIDE DEF D
<1>12. Nat \subseteq D
  BY <1>10, <1>11, SetInduction
<1>13. n \in D /\ n <= n
  BY <1>1, <1>12
<1>14. kept[n] = f[n]
  BY <1>1, <1>13 DEF D
<1> QED
  BY <1>3, <1>6, <1>14 DEF n, CopyRun

(* Where the entries of Keep come from: in their order, and each that      *)
(* passes.                                                                 *)
LEMMA KeepPlaces ==
    ASSUME NEW X, NEW s \in Seq(X), NEW T
    PROVE  /\ Keep(s, T) \in Seq(X)
           /\ \E g \in [1 .. Len(Keep(s, T)) -> 1 .. Len(s)] :
                /\ \A j, k \in 1 .. Len(Keep(s, T)) : j < k => g[j] < g[k]
                /\ \A j \in 1 .. Len(Keep(s, T)) : Keep(s, T)[j] = s[g[j]] /\ s[g[j]] \in T
                /\ \A i \in 1 .. Len(s) :
                     s[i] \in T => \E j \in 1 .. Len(Keep(s, T)) : g[j] = i
<1> DEFINE n == Len(s)
           K == Keep(s, T)
<1>1. n \in Nat /\ \A i \in 1 .. n : s[i] \in X
  BY LenProperties, ElementOfSeq
<1>2. PICK f \in [0 .. n -> Seq(X)] : CopyRun(f, s, T) /\ K = f[n]
  BY KeepRuns
<1>run. f[0] = <<>> /\ \A i \in 1 .. n :
          f[i] = IF s[i] \in T THEN Append(f[i - 1], s[i]) ELSE f[i - 1]
  BY <1>2 DEF CopyRun
<1> HIDE DEF n, K
<1> DEFINE Places(k, r, g) ==
              /\ \A i, j \in 1 .. Len(r) : i < j => g[i] < g[j]
              /\ \A j \in 1 .. Len(r) : r[j] = s[g[j]] /\ s[g[j]] \in T
              /\ \A i \in 1 .. k : s[i] \in T => \E j \in 1 .. Len(r) : g[j] = i
           D == {k \in Nat : k <= n => \E g \in [1 .. Len(f[k]) -> 1 .. k] : Places(k, f[k], g)}
<1>3. 0 \in D
  <2>1. f[0] = <<>> /\ Len(f[0]) = 0
    BY <1>run
  <2> DEFINE g == [i \in 1 .. 0 |-> 0]
  <2>2. g \in [1 .. 0 -> 1 .. 0] /\ Places(0, f[0], g)
    BY <2>1
  <2> HIDE DEF g, Places
  <2> QED
    BY <2>1, <2>2
<1>4. ASSUME NEW k \in Nat, k \in D PROVE k + 1 \in D
  <2> HIDE DEF Places
  <2> SUFFICES ASSUME k + 1 <= n
               PROVE  \E g \in [1 .. Len(f[k + 1]) -> 1 .. k + 1] : Places(k + 1, f[k + 1], g)
    OBVIOUS
  <2>1. PICK g \in [1 .. Len(f[k]) -> 1 .. k] : Places(k, f[k], g)
    BY <1>1, <1>4
  <2> USE DEF Places
  <2> DEFINE r == f[k]
             m == Len(r)
             x == s[k + 1]
  <2>2. k + 1 \in 1 .. n /\ r \in Seq(X) /\ m \in Nat /\ x \in X
    BY <1>1
  <2>3. f[k + 1] = IF x \in T THEN Append(r, x) ELSE r
    BY <1>run, <2>2
  <2>4. /\ g \in [1 .. m -> 1 .. k]
        /\ Places(k, r, g)
    BY <2>1
  <2> HIDE DEF r, m, x
  <2>5. CASE x \in T
    <3> DEFINE q == Append(r, x)
               h == [i \in 1 .. m + 1 |-> IF i = m + 1 THEN k + 1 ELSE g[i]]
    <3>1. Len(q) = m + 1 /\ q[m + 1] = x /\ \A i \in 1 .. m : q[i] = r[i]
      BY <2>2, AppendProperties DEF m
    <3>2. f[k + 1] = q
      BY <2>3, <2>5
    <3> HIDE DEF q
    <3>3. h \in [1 .. m + 1 -> 1 .. k + 1]
      BY <2>2, <2>4
    <3>4. h[m + 1] = k + 1 /\ \A i \in 1 .. m : h[i] = g[i] /\ g[i] \in 1 .. k
      BY <2>2, <2>4
    <3>5. \A i \in 1 .. m + 1 : i = m + 1 \/ i \in 1 .. m
      BY <2>2
    <3> HIDE DEF h
    <3>6. ASSUME NEW i \in 1 .. m + 1, NEW j \in 1 .. m + 1, i < j PROVE h[i] < h[j]
      <4>1. i \in 1 .. m
        BY <3>6, <2>2
      <4>2. CASE j = m + 1
        BY <2>2, <3>4, <4>1, <4>2
      <4>3. CASE j \in 1 .. m
        BY <2>4, <3>4, <3>6, <4>1, <4>3 DEF m
      <4> QED
        BY <3>5, <4>2, <4>3
    <3>7. ASSUME NEW j \in 1 .. m + 1 PROVE q[j] = s[h[j]] /\ s[h[j]] \in T
      <4>1. CASE j = m + 1
        BY <2>5, <3>1, <3>4, <4>1 DEF x
      <4>2. CASE j \in 1 .. m
        BY <2>4, <3>1, <3>4, <4>2 DEF m
      <4> QED
        BY <3>5, <4>1, <4>2
    <3>8. ASSUME NEW i \in 1 .. k + 1, s[i] \in T PROVE \E j \in 1 .. m + 1 : h[j] = i
      <4>1. CASE i = k + 1
        BY <2>2, <3>4, <4>1
      <4>2. CASE i # k + 1
        <5>1. i \in 1 .. k
          BY <4>2
        <5>2. PICK j \in 1 .. m : g[j] = i
          BY <2>4, <3>8, <5>1 DEF m
        <5>3. j \in 1 .. m + 1 /\ h[j] = i
          BY <2>2, <3>4, <5>2
        <5> QED
          BY <5>3
      <4> QED
        BY <4>1, <4>2
    <3>9. Places(k + 1, q, h)
      BY <3>1, <3>6, <3>7, <3>8
    <3> HIDE DEF Places
    <3> QED
      BY <3>1, <3>2, <3>3, <3>9
  <2>6. CASE x \notin T
    <3>1. f[k + 1] = r
      BY <2>3, <2>6
    <3>2. g \in [1 .. m -> 1 .. k + 1]
      BY <2>4, <2>2
    <3>3. \A i \in 1 .. k + 1 : s[i] \in T => i \in 1 .. k
      BY <2>6 DEF x
    <3>4. Places(k + 1, r, g)
      BY <2>4, <3>3
    <3> HIDE DEF Places
    <3> QED
      BY <3>1, <3>2, <3>4 DEF m
  <2> QED
    BY <2>5, <2>6
<1> HIDE DEF D, Places
<1>5. Nat \subseteq D
  BY <1>3, <1>4, SetInduction
<1>6. n \in D
  BY <1>1, <1>5
<1>7. \E g \in [1 .. Len(f[n]) -> 1 .. n] : Places(n, f[n], g)
  BY <1>1, <1>6 DEF D
<1>8. K \in Seq(X)
  BY <1>1, <1>2
<1>9. \E g \in [1 .. Len(K) -> 1 .. n] : Places(n, K, g)
  BY <1>2, <1>7
<1> QED
  BY <1>8, <1>9, Zenon DEF n, K, Places

(* Keep has the entries that pass, and no other. *)
LEMMA KeepElements ==
    ASSUME NEW X, NEW s \in Seq(X), NEW T
    PROVE  /\ Keep(s, T) \in Seq(X) /\ Keep(s, T) \in Seq(T)
           /\ \A j \in 1 .. Len(Keep(s, T)) :
                Keep(s, T)[j] \in T /\ \E i \in 1 .. Len(s) : Keep(s, T)[j] = s[i]
           /\ \A i \in 1 .. Len(s) :
                s[i] \in T => \E j \in 1 .. Len(Keep(s, T)) : Keep(s, T)[j] = s[i]
<1> DEFINE r == Keep(s, T)
<1>1. r \in Seq(X)
  BY KeepPlaces
<1>2. PICK g \in [1 .. Len(r) -> 1 .. Len(s)] :
          /\ \A j \in 1 .. Len(r) : r[j] = s[g[j]] /\ s[g[j]] \in T
          /\ \A i \in 1 .. Len(s) : s[i] \in T => \E j \in 1 .. Len(r) : g[j] = i
  <2> HIDE DEF r
  <2> QED BY KeepPlaces DEF r
<1> HIDE DEF r
<1>3. Len(r) \in Nat /\ DOMAIN r = 1 .. Len(r) /\ r \in [1 .. Len(r) -> X]
  BY <1>1, LenProperties
<1>4. \A j \in 1 .. Len(r) : r[j] \in T
  BY <1>2
<1>5. r \in Seq(T)
  BY <1>3, <1>4
<1>6. ASSUME NEW i \in 1 .. Len(s), s[i] \in T PROVE \E j \in 1 .. Len(r) : r[j] = s[i]
  BY <1>2, <1>6
<1>7. \A j \in 1 .. Len(r) : g[j] \in 1 .. Len(s) /\ r[j] = s[g[j]]
  BY <1>2
<1> QED
  BY <1>1, <1>4, <1>5, <1>6, <1>7 DEF r

(* Keep repeats nothing that was not repeated. *)
LEMMA KeepInjective ==
    ASSUME NEW X, NEW s \in Seq(X), NEW T,
           \A i, j \in 1 .. Len(s) : s[i] = s[j] => i = j
    PROVE  \A i, j \in 1 .. Len(Keep(s, T)) : Keep(s, T)[i] = Keep(s, T)[j] => i = j
<1> DEFINE r == Keep(s, T)
<1>1. r \in Seq(X) /\ Len(r) \in Nat
  BY KeepPlaces
<1>2. PICK g \in [1 .. Len(r) -> 1 .. Len(s)] :
          /\ \A j, k \in 1 .. Len(r) : j < k => g[j] < g[k]
          /\ \A j \in 1 .. Len(r) : r[j] = s[g[j]]
  <2> HIDE DEF r
  <2> QED BY KeepPlaces DEF r
<1> HIDE DEF r
<1>3. Len(s) \in Nat
  BY LenProperties
<1>4. ASSUME NEW i \in 1 .. Len(r), NEW j \in 1 .. Len(r), r[i] = r[j] PROVE i = j
  <2>1. g[i] \in 1 .. Len(s) /\ g[j] \in 1 .. Len(s) /\ g[i] = g[j]
    BY <1>2, <1>4
  <2>2. ~(i < j) /\ ~(j < i)
    BY <1>2, <1>3, <2>1
  <2> QED
    BY <1>1, <2>2
<1> QED
  BY <1>4 DEF r

(* As many entries of one kind as there were, if that kind passes. *)
LEMMA KeepCounts ==
    ASSUME NEW X, NEW s \in Seq(X), NEW T, NEW U \in SUBSET T
    PROVE  HowMany(Keep(s, T), U) = HowMany(s, U)
<1> DEFINE r == Keep(s, T)
           P == {j \in 1 .. Len(r) : r[j] \in U}
           Q == {i \in 1 .. Len(s) : s[i] \in U}
<1>1. r \in Seq(X) /\ Len(r) \in Nat /\ DOMAIN r = 1 .. Len(r) /\ DOMAIN s = 1 .. Len(s)
  BY KeepPlaces, LenProperties
<1>2. PICK g \in [1 .. Len(r) -> 1 .. Len(s)] :
          /\ \A j, k \in 1 .. Len(r) : j < k => g[j] < g[k]
          /\ \A j \in 1 .. Len(r) : r[j] = s[g[j]]
          /\ \A i \in 1 .. Len(s) : s[i] \in T => \E j \in 1 .. Len(r) : g[j] = i
  <2> HIDE DEF r
  <2> QED BY KeepPlaces DEF r
<1> HIDE DEF r
<1>3. Len(s) \in Nat
  BY LenProperties
<1> DEFINE h == [j \in P |-> g[j]]
<1>4. h \in [P -> Q]
  BY <1>2
<1>5. ASSUME NEW i \in P, NEW j \in P, h[i] = h[j] PROVE i = j
  <2>1. g[i] = g[j] /\ g[i] \in Int /\ g[j] \in Int /\ i \in 1 .. Len(r) /\ j \in 1 .. Len(r)
    BY <1>3, <1>5
  <2>2. ~(i < j) /\ ~(j < i)
    BY <1>2, <2>1
  <2> QED
    BY <1>1, <2>1, <2>2
<1>6. ASSUME NEW i \in Q PROVE \E j \in P : h[j] = i
  <2>1. PICK j \in 1 .. Len(r) : g[j] = i
    BY <1>2
  <2>2. j \in P
    BY <1>2, <2>1
  <2> QED
    BY <2>1, <2>2
<1>7. IsFiniteSet(P)
  <2>1. IsFiniteSet(1 .. Len(r))
    BY <1>1, FS_Interval
  <2> QED
    BY <2>1, FS_Subset
<1> HIDE DEF P, Q, h
<1>8. h \in Bijection(P, Q)
  BY <1>4, <1>5, <1>6, Fun_IsBij
<1>9. Cardinality(P) = Cardinality(Q)
  <2>1. ExistsBijection(P, Q)
    BY <1>8, Fun_ExistsBij
  <2> QED
    BY <1>7, <2>1, FS_Bijection
<1>10. HowMany(r, U) = Cardinality(P) /\ HowMany(s, U) = Cardinality(Q)
  BY <1>1 DEF HowMany, P, Q
<1> QED
  BY <1>9, <1>10 DEF r
=============================================================================

----------------------------- MODULE SequenceLemmas -----------------------------
(* Facts about numbers and sequences that are proved by induction.  The theorem *)
(* WFMin, that every nonempty set of naturals has a least element, takes a set: *)
(* an induction is the step from the least counterexample to a smaller one.     *)
EXTENDS Integers, SequencesExt, SequenceTheorems, WellFoundedInduction, TLAPS

(* Every nonempty set of naturals has a least element.                          *)
LEMMA LeastNat ==
  ASSUME NEW T \in SUBSET Nat, T # {}
  PROVE  \E x \in T : \A y \in T : x <= y
<1>1. PICK x \in T : \A y \in T : ~ (<<y, x>> \in OpToRel(<, Nat))
  BY NatLessThanWellFounded, WFMin
<1>2. ASSUME NEW y \in T PROVE x <= y
  <2>1. ~ (y < x)
    BY <1>1, <1>2 DEF OpToRel
  <2> QED
    BY <2>1
<1> QED
  BY <1>2

(* Induction up to n, over the set of the numbers that have the property.       *)
LEMMA UpTo ==
  ASSUME NEW n \in Nat, NEW P, 0 \in P, \A i \in 1 .. n : i - 1 \in P => i \in P
  PROVE  \A i \in 0 .. n : i \in P
<1> DEFINE Bad == {i \in 0 .. n : i \notin P}
<1> SUFFICES ASSUME Bad # {} PROVE FALSE
  OBVIOUS
<1>1. Bad \in SUBSET Nat
  OBVIOUS
<1>2. PICK m \in Bad : \A i \in Bad : m <= i
  <2> HIDE DEF Bad
  <2> QED
    BY <1>1, LeastNat
<1>3. m \in 1 .. n /\ m \notin P
  <2>1. m \in 0 .. n /\ m \notin P /\ m # 0
    BY <1>2
  <2> QED
    BY <2>1
<1>4. m - 1 \in Bad
  BY <1>3
<1>5. ~ (m <= m - 1)
  BY <1>3
<1> HIDE DEF Bad
<1> QED
  BY <1>2, <1>4, <1>5

(* The least element of a set of naturals.                                      *)
LEMMA MinOfNats ==
  ASSUME NEW T \in SUBSET Nat, T # {}
  PROVE  Min(T) \in T /\ \A y \in T : Min(T) <= y
<1>1. \E x \in T : \A y \in T : x =< y
  BY LeastNat
<1> QED
  BY <1>1 DEF Min

(* The greatest of a set of naturals that has a bound.                          *)
LEMMA MaxOfNats ==
  ASSUME NEW n \in Nat, NEW T \in SUBSET (0 .. n), T # {}
  PROVE  Max(T) \in T /\ \A y \in T : y <= Max(T)
<1> DEFINE below == {n - t : t \in T}
<1>1. below \in SUBSET Nat /\ below # {}
  <2>1. \A t \in T : n - t \in Nat
    OBVIOUS
  <2>2. PICK t \in T : TRUE
    OBVIOUS
  <2>3. n - t \in below
    OBVIOUS
  <2>4. below \in SUBSET Nat
    BY <2>1
  <2> QED
    BY <2>3, <2>4
<1>2. PICK x \in below : \A y \in below : x <= y
  <2> HIDE DEF below
  <2> QED
    BY <1>1, LeastNat
<1>3. PICK t \in T : x = n - t
  OBVIOUS
<1>4. ASSUME NEW y \in T PROVE t >= y
  <2>1. n - y \in below
    OBVIOUS
  <2>2. n - t <= n - y
    BY <1>2, <1>3, <2>1
  <2> QED
    BY <2>2
<1>5. \E z \in T : \A y \in T : z >= y
  BY <1>4
<1>6. Max(T) \in T /\ \A y \in T : Max(T) >= y
  <2> HIDE DEF below
  <2> QED
    BY <1>5 DEF Max
<1> QED
  BY <1>6

--------------------------------------------------------------------------------
(* FlattenSeq is defined by a recursive function; that the function exists, and *)
(* that there is only one, are the two inductions below.                        *)

Flattens(f, s, n) ==
  f = [i \in 1 .. n |-> IF i = 1 THEN s[i] ELSE f[i - 1] \o s[i]]

(* There is a function that flattens, step by step.                             *)
LEMMA FlattenExists ==
  ASSUME NEW S, NEW s \in Seq(Seq(S)), NEW n \in 1 .. Len(s)
  PROVE  \E f \in [1 .. n -> Seq(S)] : Flattens(f, s, n)
<1> DEFINE Bad == {m \in 1 .. Len(s) : ~ \E f \in [1 .. m -> Seq(S)] : Flattens(f, s, m)}
<1> SUFFICES ASSUME Bad # {} PROVE FALSE
  OBVIOUS
<1>1. Bad \in SUBSET Nat
  OBVIOUS
<1>2. PICK m \in Bad : \A k \in Bad : m <= k
  <2> HIDE DEF Bad
  <2> QED
    BY <1>1, LeastNat
<1>3. m \in 1 .. Len(s) /\ ~ \E f \in [1 .. m -> Seq(S)] : Flattens(f, s, m)
  BY <1>2
<1>4. CASE m = 1
  <2> DEFINE g == [i \in 1 .. m |-> s[i]]
  <2>1. g \in [1 .. m -> Seq(S)]
    BY <1>3
  <2>2. Flattens(g, s, m)
    BY <1>3, <1>4 DEF Flattens
  <2> QED
    BY <1>3, <2>1, <2>2
<1>5. CASE m # 1
  <2>1. m - 1 \in 1 .. Len(s) /\ m - 1 \notin Bad
    <3>1. m - 1 \in 1 .. Len(s) /\ ~ (m <= m - 1)
      BY <1>3, <1>5
    <3> HIDE DEF Bad
    <3> QED
      BY <1>2, <3>1
  <2>2. PICK f \in [1 .. m - 1 -> Seq(S)] : Flattens(f, s, m - 1)
    BY <2>1
  <2>3. \A i \in 1 .. m - 1 : f[i] = IF i = 1 THEN s[i] ELSE f[i - 1] \o s[i]
    BY <2>2 DEF Flattens
  <2> DEFINE g == [i \in 1 .. m |-> IF i = m THEN f[m - 1] \o s[m] ELSE f[i]]
  <2> HIDE DEF Bad
  <2>4. f[m - 1] \in Seq(S) /\ s[m] \in Seq(S)
    BY <1>3, <2>1
  <2>5. g \in [1 .. m -> Seq(S)]
    <3>1. f[m - 1] \o s[m] \in Seq(S)
      BY <2>4
    <3> QED
      BY <1>3, <3>1
  <2>6. ASSUME NEW i \in 1 .. m
        PROVE  g[i] = IF i = 1 THEN s[i] ELSE g[i - 1] \o s[i]
    <3>1. CASE i = m
      <4>1. m \in 1 .. m /\ m - 1 \in 1 .. m /\ m - 1 # m
        BY <1>3, <1>5
      <4>2. g[m] = f[m - 1] \o s[m] /\ g[m - 1] = f[m - 1]
        BY <4>1
      <4> HIDE DEF g
      <4> QED
        BY <1>5, <3>1, <4>2
    <3>2. CASE i # m
      <4>1. i \in 1 .. m - 1 /\ (i # 1 => i - 1 \in 1 .. m /\ i - 1 # m)
        BY <1>3, <3>2
      <4> QED
        BY <2>3, <3>2, <4>1
    <3> QED
      BY <3>1, <3>2
  <2>7. Flattens(g, s, m)
    <3>1. g = [i \in 1 .. m |-> g[i]]
      OBVIOUS
    <3> HIDE DEF g
    <3> QED
      BY <2>6, <3>1 DEF Flattens
  <2> QED
    BY <1>3, <2>5, <2>7
<1> QED
  BY <1>4, <1>5

(* There is only one.                                                           *)
LEMMA FlattenUnique ==
  ASSUME NEW s, NEW n \in Nat, NEW m \in 1 .. n,
         NEW f, Flattens(f, s, n), NEW g, Flattens(g, s, m)
  PROVE  \A i \in 1 .. m : g[i] = f[i]
<1> DEFINE Bad == {i \in 1 .. m : g[i] # f[i]}
<1> SUFFICES ASSUME Bad # {} PROVE FALSE
  OBVIOUS
<1>1. Bad \in SUBSET Nat
  OBVIOUS
<1>2. PICK i \in Bad : \A k \in Bad : i <= k
  <2> HIDE DEF Bad
  <2> QED
    BY <1>1, LeastNat
<1>3. i \in 1 .. m /\ g[i] # f[i]
  BY <1>2
<1>4. f[i] = IF i = 1 THEN s[i] ELSE f[i - 1] \o s[i]
  <2>1. i \in 1 .. n
    BY <1>3
  <2> QED
    BY <2>1 DEF Flattens
<1>5. g[i] = IF i = 1 THEN s[i] ELSE g[i - 1] \o s[i]
  BY <1>3 DEF Flattens
<1>6. i # 1 /\ g[i - 1] # f[i - 1]
  BY <1>3, <1>4, <1>5
<1>7. i - 1 \in Bad
  BY <1>3, <1>6
<1>8. ~ (i <= i - 1)
  BY <1>3
<1> HIDE DEF Bad
<1> QED
  BY <1>2, <1>7, <1>8

(* FlattenSeq(s) is the last value of whichever function flattens s.            *)
LEMMA FlattenIs ==
  ASSUME NEW S, NEW s \in Seq(Seq(S)), s # <<>>,
         NEW f, Flattens(f, s, Len(s))
  PROVE  FlattenSeq(s) = f[Len(s)]
<1> DEFINE g == CHOOSE h : Flattens(h, s, Len(s))
<1>1. FlattenSeq(s) = g[Len(s)]
  BY DEF FlattenSeq, Flattens
<1>2. Flattens(g, s, Len(s))
  OBVIOUS
<1>3. Len(s) \in Nat /\ Len(s) \in 1 .. Len(s)
  OBVIOUS
<1> HIDE DEF g
<1>4. \A i \in 1 .. Len(s) : g[i] = f[i]
  BY <1>2, <1>3, FlattenUnique
<1> QED
  BY <1>1, <1>3, <1>4

(* Nothing flattens to nothing.                                                 *)
LEMMA FlattenEmpty == FlattenSeq(<<>>) = <<>>
  BY DEF FlattenSeq

(* Flattening keeps the type, and one more sequence is one more at the end.     *)
LEMMA FlattenType ==
  ASSUME NEW S, NEW s \in Seq(Seq(S))
  PROVE  FlattenSeq(s) \in Seq(S)
<1>1. CASE s = <<>>
  <2>1. FlattenSeq(s) = <<>>
    BY <1>1, FlattenEmpty
  <2> QED
    BY <2>1
<1>2. CASE s # <<>>
  <2>1. Len(s) \in 1 .. Len(s)
    BY <1>2
  <2>2. PICK f \in [1 .. Len(s) -> Seq(S)] : Flattens(f, s, Len(s))
    BY <2>1, FlattenExists
  <2>3. FlattenSeq(s) = f[Len(s)]
    BY <1>2, <2>2, FlattenIs
  <2> QED
    BY <2>1, <2>2, <2>3
<1> QED
  BY <1>1, <1>2

(* One more sequence is one more at the end of what they flatten to.            *)
LEMMA FlattenAppend ==
  ASSUME NEW S, NEW s \in Seq(Seq(S)), NEW x \in Seq(S)
  PROVE  FlattenSeq(Append(s, x)) = FlattenSeq(s) \o x
<1> DEFINE t == Append(s, x)
<1> PICK n \in Nat : n = Len(s)
  OBVIOUS
<1>1. t \in Seq(Seq(S)) /\ t # <<>> /\ Len(t) = n + 1 /\ t[n + 1] = x
  OBVIOUS
<1>2. \A i \in 1 .. n : t[i] = s[i]
  OBVIOUS
<1> HIDE DEF t
<1>3. n + 1 \in 1 .. Len(t)
  BY <1>1
<1>4. PICK f \in [1 .. n + 1 -> Seq(S)] : Flattens(f, t, n + 1)
  BY <1>1, <1>3, FlattenExists
<1>5. FlattenSeq(t) = f[n + 1]
  BY <1>1, <1>4, FlattenIs
<1>6. \A i \in 1 .. n + 1 : f[i] = IF i = 1 THEN t[i] ELSE f[i - 1] \o t[i]
  BY <1>4 DEF Flattens
<1>7. CASE n = 0
  <2>1. s = <<>>
    BY <1>7, EmptySeq, Zenon
  <2>2. f[1] = x
    BY <1>1, <1>6, <1>7
  <2> QED
    BY <1>5, <1>7, <2>1, <2>2, FlattenEmpty DEF t
<1>8. CASE n # 0
  <2>1. s # <<>> /\ n \in 1 .. Len(s) /\ n \in 1 .. n + 1
    BY <1>8
  <2>2. PICK g \in [1 .. n -> Seq(S)] : Flattens(g, s, n)
    BY <2>1, FlattenExists
  <2>3. FlattenSeq(s) = g[n]
    BY <2>1, <2>2, FlattenIs
  <2>4. Flattens(g, t, n)
    <3>1. g = [i \in 1 .. n |-> IF i = 1 THEN s[i] ELSE g[i - 1] \o s[i]]
      BY <2>2 DEF Flattens
    <3>2. [i \in 1 .. n |-> IF i = 1 THEN s[i] ELSE g[i - 1] \o s[i]]
          = [i \in 1 .. n |-> IF i = 1 THEN t[i] ELSE g[i - 1] \o t[i]]
      BY <1>2
    <3> QED
      BY <3>1, <3>2 DEF Flattens
  <2>5. g[n] = f[n]
    <3>1. PICK k \in Nat : k = n + 1
      OBVIOUS
    <3>2. n \in 1 .. k /\ n \in 1 .. n /\ Flattens(f, t, k)
      BY <1>4, <1>8, <3>1
    <3>3. \A h1, h2 : Flattens(h1, t, k) /\ Flattens(h2, t, n)
                       => \A i \in 1 .. n : h2[i] = h1[i]
      BY <3>2, FlattenUnique
    <3>4. Flattens(f, t, k) /\ Flattens(g, t, n)
      BY <2>4, <3>2
    <3>5. Flattens(f, t, k) /\ Flattens(g, t, n) => \A i \in 1 .. n : g[i] = f[i]
      BY <3>3
    <3>6. g[n] = f[n]
      BY <3>2, <3>4, <3>5
    <3> QED
      BY <3>6
  <2>6. n + 1 \in 1 .. n + 1 /\ n + 1 # 1 /\ (n + 1) - 1 = n
    BY <1>8
  <2>7. f[n + 1] = f[n] \o x
    BY <1>1, <1>6, <2>6
  <2> QED
    BY <1>5, <2>3, <2>5, <2>7 DEF t
<1> QED
  BY <1>7, <1>8

(* What a prefix of a sequence is.                                              *)
LEMMA PrefixType ==
  ASSUME NEW S, NEW s \in Seq(S), NEW n \in 0 .. Len(s)
  PROVE  /\ SubSeq(s, 1, n) \in Seq(S)
         /\ Len(SubSeq(s, 1, n)) = n
         /\ \A i \in 1 .. n : SubSeq(s, 1, n)[i] = s[i]
OBVIOUS

(* One more element of a prefix is one more at its end.                         *)
LEMMA PrefixStep ==
  ASSUME NEW S, NEW s \in Seq(S), NEW n \in 1 .. Len(s)
  PROVE  SubSeq(s, 1, n) = Append(SubSeq(s, 1, n - 1), s[n])
<1> DEFINE t == SubSeq(s, 1, n - 1)
           u == SubSeq(s, 1, n)
<1>1. t \in Seq(S) /\ Len(t) = n - 1 /\ \A i \in 1 .. n - 1 : t[i] = s[i]
  BY PrefixType
<1>2. u \in Seq(S) /\ Len(u) = n /\ \A i \in 1 .. n : u[i] = s[i]
  BY PrefixType
<1>3. s[n] \in S
  OBVIOUS
<1> HIDE DEF t, u
<1>4. /\ Append(t, s[n]) \in Seq(S) /\ Len(Append(t, s[n])) = n
      /\ \A i \in 1 .. n - 1 : Append(t, s[n])[i] = s[i]
      /\ Append(t, s[n])[n] = s[n]
  BY <1>1, <1>3
<1>5. \A i \in 1 .. n : i \in 1 .. n - 1 \/ i = n
  OBVIOUS
<1>6. u = Append(t, s[n])
  <2>1. \A i \in 1 .. n : u[i] = Append(t, s[n])[i]
    BY <1>2, <1>4, <1>5
  <2> QED
    BY <1>2, <1>4, <2>1, SeqEqual
<1> QED
  BY <1>6 DEF t, u

(* Induction over sequences, over the set of those that have the property.      *)
LEMMA SeqInduction ==
  ASSUME NEW S, NEW P, <<>> \in P,
         \A s \in Seq(S) : \A x \in S : s \in P => Append(s, x) \in P
  PROVE  \A s \in Seq(S) : s \in P
<1> TAKE s \in Seq(S)
<1> PICK n \in Nat : n = Len(s)
  OBVIOUS
<1> DEFINE Q == {m \in 0 .. n : SubSeq(s, 1, m) \in P}
<1>1. 0 \in Q
  <2>1. SubSeq(s, 1, 0) = <<>>
    BY SubSeqEmpty
  <2>2. SubSeq(s, 1, 0) \in P
    BY <2>1, Zenon
  <2> QED
    BY <2>2
<1>2. ASSUME NEW m \in 1 .. n, m - 1 \in Q PROVE m \in Q
  <2>1. SubSeq(s, 1, m - 1) \in P /\ m - 1 \in 0 .. Len(s) /\ m \in 0 .. n
    BY <1>2
  <2>2. SubSeq(s, 1, m - 1) \in Seq(S) /\ s[m] \in S
    BY <2>1, PrefixType
  <2>3. SubSeq(s, 1, m) = Append(SubSeq(s, 1, m - 1), s[m])
    BY PrefixStep
  <2>4. SubSeq(s, 1, m) \in P
    BY <2>1, <2>2, <2>3
  <2> QED
    BY <2>1, <2>4
<1> HIDE DEF Q
<1>3. \A m \in 0 .. n : m \in Q
  BY <1>1, <1>2, UpTo
<1>4. n \in Q
  BY <1>3
<1>5. SubSeq(s, 1, n) = s
  BY SubSeqFull
<1> QED
  BY <1>4, <1>5 DEF Q

(* One more sequence of a prefix is one more at the end of what it flattens to. *)
LEMMA FlattenStep ==
  ASSUME NEW S, NEW s \in Seq(Seq(S)), NEW n \in 1 .. Len(s)
  PROVE  /\ FlattenSeq(SubSeq(s, 1, n - 1)) \in Seq(S)
         /\ FlattenSeq(SubSeq(s, 1, n)) = FlattenSeq(SubSeq(s, 1, n - 1)) \o s[n]
<1>1. SubSeq(s, 1, n - 1) \in Seq(Seq(S)) /\ s[n] \in Seq(S)
  BY PrefixType
<1>2. SubSeq(s, 1, n) = Append(SubSeq(s, 1, n - 1), s[n])
  BY PrefixStep
<1> QED
  BY <1>1, <1>2, FlattenAppend, FlattenType

(* Sequence t begins with s.                                                    *)
Begins(t, s) == Len(s) <= Len(t) /\ \A i \in 1 .. Len(s) : t[i] = s[i]

(* What begins with s still does when it is longer.                             *)
LEMMA BeginsConcat ==
  ASSUME NEW S, NEW s \in Seq(S), NEW t \in Seq(S), NEW u \in Seq(S), Begins(t, s)
  PROVE  Begins(t \o u, s)
BY DEF Begins

(* What a prefix flattens to is a prefix of what the sequence flattens to.      *)
LEMMA FlattenPrefix ==
  ASSUME NEW S, NEW s \in Seq(Seq(S)), NEW n \in 0 .. Len(s)
  PROVE  /\ FlattenSeq(SubSeq(s, 1, n)) \in Seq(S)
         /\ Begins(FlattenSeq(s), FlattenSeq(SubSeq(s, 1, n)))
<1> PICK len \in Nat : len = Len(s)
  OBVIOUS
<1> DEFINE f == [m \in 0 .. len |-> FlattenSeq(SubSeq(s, 1, m))]
           P == {j \in 0 .. len - n : Begins(f[n + j], f[n])}
<1>1. \A m \in 0 .. len : f[m] \in Seq(S)
  <2> TAKE m \in 0 .. len
  <2>1. SubSeq(s, 1, m) \in Seq(Seq(S))
    BY PrefixType
  <2> QED
    BY <2>1, FlattenType
<1>2. \A m \in 1 .. len : f[m] = f[m - 1] \o s[m]
  <2> TAKE m \in 1 .. len
  <2>1. FlattenSeq(SubSeq(s, 1, m)) = FlattenSeq(SubSeq(s, 1, m - 1)) \o s[m]
    BY FlattenStep
  <2>2. m - 1 \in 0 .. len /\ m \in 0 .. len
    OBVIOUS
  <2> QED
    BY <2>1, <2>2
<1>3. \A m \in 1 .. len : s[m] \in Seq(S)
  OBVIOUS
<1>4. f[len] = FlattenSeq(s) /\ f[n] = FlattenSeq(SubSeq(s, 1, n))
  <2>1. f[len] = FlattenSeq(SubSeq(s, 1, len)) /\ f[n] = FlattenSeq(SubSeq(s, 1, n))
    OBVIOUS
  <2>2. SubSeq(s, 1, len) = s
    BY SubSeqFull
  <2> HIDE DEF f
  <2> QED
    BY <2>1, <2>2, Zenon
<1> HIDE DEF f
<1>5. 0 \in P
  BY <1>1 DEF Begins
<1>6. ASSUME NEW j \in 1 .. len - n, j - 1 \in P PROVE j \in P
  <2>1. /\ n + j \in 1 .. len /\ n + (j - 1) = (n + j) - 1
        /\ n \in 0 .. len /\ (n + j) - 1 \in 0 .. len /\ j \in 0 .. len - n
    OBVIOUS
  <2>2. Begins(f[(n + j) - 1], f[n])
    BY <1>6, <2>1
  <2>3. Begins(f[(n + j) - 1] \o s[n + j], f[n])
    BY <1>1, <1>3, <2>1, <2>2, BeginsConcat, Zenon
  <2>4. Begins(f[n + j], f[n])
    BY <1>2, <2>1, <2>3, Zenon
  <2> QED
    BY <2>1, <2>4
<1>7. \A j \in 0 .. len - n : j \in P
  <2> HIDE DEF P
  <2>1. len - n \in Nat
    OBVIOUS
  <2> QED
    BY <1>5, <1>6, <2>1, UpTo
<1>8. len - n \in 0 .. len - n /\ n + (len - n) = len /\ n \in 0 .. len
  OBVIOUS
<1>9. Begins(f[len], f[n])
  BY <1>7, <1>8
<1> QED
  BY <1>1, <1>4, <1>8, <1>9, Zenon

(* Sequence st is s, then t.                                                    *)
Joined(st, s, t) ==
  /\ Len(st) = Len(s) + Len(t)
  /\ \A i \in 1 .. Len(s) : st[i] = s[i]
  /\ \A i \in 1 .. Len(t) : st[Len(s) + i] = t[i]

(* What a concatenation is, element by element.                                 *)
LEMMA ConcatJoins ==
  ASSUME NEW S, NEW s \in Seq(S), NEW t \in Seq(S)
  PROVE  s \o t \in Seq(S) /\ Joined(s \o t, s, t)
BY DEF Joined

(* A function on the first n positive numbers is a sequence.                    *)
LEMMA FunctionIsSeq ==
  ASSUME NEW S, NEW n \in Nat, NEW f \in [1 .. n -> S]
  PROVE  f \in Seq(S) /\ Len(f) = n
<1> DEFINE t == [i \in 1 .. n |-> f[i]]
<1>1. t \in Seq(S) /\ Len(t) = n
  OBVIOUS
<1>2. f = t
  OBVIOUS
<1> QED
  BY <1>1, <1>2

(* A pair is a sequence.                                                        *)
LEMMA PairType ==
  ASSUME NEW S, NEW h \in [1 .. 2 -> S]
  PROVE  h \in Seq(S) /\ Len(h) = 2
<1> DEFINE t == [i \in 1 .. 2 |-> h[i]]
<1>1. t \in Seq(S) /\ Len(t) = 2
  OBVIOUS
<1>2. h = t
  OBVIOUS
<1> QED
  BY <1>1, <1>2

(* The first n pairs of s, one after the other.                                 *)
IsPairs(t, s, n) ==
  /\ Len(t) = 2 * n
  /\ \A i \in 1 .. n : t[2 * i - 1] = s[i][1] /\ t[2 * i] = s[i][2]

(* One pair more.                                                               *)
LEMMA OneMorePair ==
  ASSUME NEW S, NEW n \in Nat \ {0}, NEW s, s[n] \in [1 .. 2 -> S],
         NEW g \in Seq(S), IsPairs(g, s, n - 1)
  PROVE  g \o s[n] \in Seq(S) /\ IsPairs(g \o s[n], s, n)
<1> PICK k \in Nat : k = 2 * (n - 1)
  OBVIOUS
<1> PICK h \in [1 .. 2 -> S] : h = s[n]
  OBVIOUS
<1> PICK gh : gh = g \o h
  OBVIOUS
<1>1. Len(g) = k /\ \A i \in 1 .. n - 1 : g[2 * i - 1] = s[i][1] /\ g[2 * i] = s[i][2]
  BY DEF IsPairs
<1>2. h \in Seq(S) /\ Len(h) = 2
  BY PairType, Zenon
<1>3. /\ gh \in Seq(S) /\ Len(gh) = Len(g) + Len(h)
      /\ \A i \in 1 .. Len(g) + Len(h) : gh[i] = IF i <= Len(g) THEN g[i] ELSE h[i - Len(g)]
  BY <1>2, ConcatProperties, ZenonT(40)
<1>4. Len(gh) = k + 2 /\ \A i \in 1 .. k + 2 : gh[i] = IF i <= k THEN g[i] ELSE h[i - k]
  BY <1>1, <1>2, <1>3, Zenon
<1>5. /\ k + 1 \in 1 .. k + 2 /\ k + 2 \in 1 .. k + 2
      /\ (k + 1) - k = 1 /\ (k + 2) - k = 2 /\ ~ (k + 1 <= k) /\ ~ (k + 2 <= k)
      /\ k + 1 = 2 * n - 1 /\ k + 2 = 2 * n
  OBVIOUS
<1>6. gh[2 * n - 1] = h[1] /\ gh[2 * n] = h[2]
  BY <1>4, <1>5, Zenon
<1>7. \A i \in 1 .. n :
        \/ i = n
        \/ /\ i \in 1 .. n - 1
           /\ 2 * i - 1 \in 1 .. k + 2 /\ 2 * i - 1 <= k
           /\ 2 * i \in 1 .. k + 2 /\ 2 * i <= k
  OBVIOUS
<1>8. \A i \in 1 .. n : gh[2 * i - 1] = s[i][1] /\ gh[2 * i] = s[i][2]
  BY <1>1, <1>4, <1>6, <1>7, Zenon
<1> QED
  BY <1>3, <1>4, <1>5, <1>8, Zenon DEF IsPairs

(* A sequence of pairs flattens to twice as many elements, in the same order.   *)
LEMMA FlattenPairs ==
  ASSUME NEW S, NEW s \in Seq([1 .. 2 -> S])
  PROVE  FlattenSeq(s) \in Seq(S) /\ IsPairs(FlattenSeq(s), s, Len(s))
<1> PICK len \in Nat : len = Len(s)
  OBVIOUS
<1> DEFINE f == [m \in 0 .. len |-> FlattenSeq(SubSeq(s, 1, m))]
           P == {m \in 0 .. len : f[m] \in Seq(S) /\ IsPairs(f[m], s, m)}
<1>1. s \in Seq(Seq(S)) /\ \A m \in 1 .. len : s[m] \in [1 .. 2 -> S]
  <2>1. [1 .. 2 -> S] \subseteq Seq(S)
    BY PairType, Zenon
  <2>2. \A m \in 1 .. len : s[m] \in [1 .. 2 -> S]
    BY ElementOfSeq
  <2> QED
    BY <2>1, <2>2, SeqMonotonic
<1>2. \A m \in 1 .. len : f[m] = f[m - 1] \o s[m]
  <2> TAKE m \in 1 .. len
  <2>1. FlattenSeq(SubSeq(s, 1, m)) = FlattenSeq(SubSeq(s, 1, m - 1)) \o s[m]
    BY <1>1, FlattenStep
  <2>2. m - 1 \in 0 .. len /\ m \in 0 .. len
    OBVIOUS
  <2> QED
    BY <2>1, <2>2
<1>3. f[len] = FlattenSeq(s)
  <2>1. f[len] = FlattenSeq(SubSeq(s, 1, len))
    OBVIOUS
  <2>2. SubSeq(s, 1, len) = s
    BY <1>1, SubSeqFull
  <2> HIDE DEF f
  <2> QED
    BY <2>1, <2>2, Zenon
<1>4. f[0] = <<>>
  <2>1. f[0] = FlattenSeq(SubSeq(s, 1, 0))
    OBVIOUS
  <2>2. SubSeq(s, 1, 0) = <<>>
    BY SubSeqEmpty
  <2> HIDE DEF f
  <2> QED
    BY <2>1, <2>2, FlattenEmpty, Zenon
<1> HIDE DEF f
<1>5. 0 \in P
  <2>1. f[0] \in Seq(S) /\ Len(f[0]) = 2 * 0 /\ 0 \in 0 .. len
    BY <1>4
  <2>2. \A i \in 1 .. 0 : FALSE
    OBVIOUS
  <2> QED
    BY <2>1, <2>2, Zenon DEF IsPairs
<1>6. ASSUME NEW m \in 1 .. len, m - 1 \in P PROVE m \in P
  <2>1. m \in Nat \ {0} /\ m \in 0 .. len
    OBVIOUS
  <2>2. f[m - 1] \in Seq(S) /\ IsPairs(f[m - 1], s, m - 1)
    BY <1>6
  <2>3. f[m - 1] \o s[m] \in Seq(S) /\ IsPairs(f[m - 1] \o s[m], s, m)
    BY <1>1, <2>1, <2>2, OneMorePair, Zenon
  <2> QED
    BY <1>2, <2>1, <2>3, Zenon
<1>7. \A m \in 0 .. len : m \in P
  <2> HIDE DEF P
  <2> QED
    BY <1>5, <1>6, UpTo
<1>8. len \in P
  BY <1>7
<1> QED
  BY <1>3, <1>8

(* A sequence is a prefix of what it begins.                                    *)
LEMMA PrefixOfConcat ==
  ASSUME NEW S, NEW s \in Seq(S), NEW t \in Seq(S)
  PROVE  IsPrefix(s, s \o t)
<1> PICK m \in Nat : m = Len(s)
  OBVIOUS
<1>1. s \o t \in Seq(S) /\ m <= Len(s \o t)
  OBVIOUS
<1>2. \A i \in 1 .. m : (s \o t)[i] = s[i]
  OBVIOUS
<1>3. SubSeq(s, 1, m) = SubSeq(s \o t, 1, m)
  BY <1>1, <1>2
<1> QED
  BY <1>1, <1>3 DEF IsPrefix

(* A sequence with one element is appended as that element.                     *)
LEMMA ConcatOne ==
  ASSUME NEW S, NEW s \in Seq(S), NEW t \in Seq(S), Len(t) = 1
  PROVE  t[1] \in S /\ s \o t = Append(s, t[1])
<1>1. t[1] \in S /\ t = <<t[1]>>
  OBVIOUS
<1> PICK x \in S : x = t[1]
  BY <1>1
<1>2. s \o <<x>> = Append(s, x)
  OBVIOUS
<1> QED
  BY <1>1, <1>2

(* A sequence is a prefix of it and two that follow.                            *)
LEMMA PrefixOfThree ==
  ASSUME NEW S, NEW s \in Seq(S), NEW t \in Seq(S), NEW u \in Seq(S), NEW v \in Seq(S)
  PROVE  IsPrefix(s, ((s \o t) \o u) \o v)
<1> DEFINE tu == t \o u
           tuv == tu \o v
<1>1. tu \in Seq(S) /\ tuv \in Seq(S)
  BY ConcatProperties
<1>2. (s \o t) \o u = s \o tu
  BY ConcatAssociative
<1> HIDE DEF tu
<1>3. (s \o tu) \o v = s \o tuv
  BY <1>1, ConcatAssociative, SMTT(60)
<1>4. ((s \o t) \o u) \o v = (s \o tu) \o v
  BY <1>2
<1> HIDE DEF tuv
<1>5. IsPrefix(s, s \o tuv)
  BY <1>1, PrefixOfConcat
<1> QED
  BY <1>3, <1>4, <1>5

--------------------------------------------------------------------------------
(* Where a sequence is found in another one.                                    *)

(* Sequence s has t behind its first k elements.                                *)
At(s, k, t) == k + Len(t) <= Len(s) /\ \A i \in 1 .. Len(t) : s[k + i] = t[i]

(* Sequence t is the n elements of s behind the first k.                        *)
IsMiddle(t, s, k, n) == Len(t) = n /\ \A i \in 1 .. n : t[i] = s[k + i]

(* The n elements of a sequence behind the first k.                             *)
LEMMA MiddleIs ==
  ASSUME NEW S, NEW s \in Seq(S), NEW k \in Nat, NEW n \in Nat, k + n <= Len(s)
  PROVE  SubSeq(s, k + 1, k + n) \in Seq(S) /\ IsMiddle(SubSeq(s, k + 1, k + n), s, k, n)
<1>1. k + 1 \in Int /\ k + n \in Int /\ \A i \in k + 1 .. k + n : s[i] \in S
  BY ElementOfSeq
<1>2. (k + n) - (k + 1) + 1 = n /\ (IF k + 1 <= k + n THEN n ELSE 0) = n
  OBVIOUS
<1>3. /\ SubSeq(s, k + 1, k + n) \in Seq(S) /\ Len(SubSeq(s, k + 1, k + n)) = n
      /\ \A i \in 1 .. n : SubSeq(s, k + 1, k + n)[i] = s[(k + 1) + i - 1]
  BY <1>1, <1>2, SubSeqProperties
<1>4. \A i \in 1 .. n : (k + 1) + i - 1 = k + i
  OBVIOUS
<1> QED
  BY <1>3, <1>4, Zenon DEF IsMiddle

(* What a sequence has in the middle is what is cut out of it.                  *)
LEMMA SubSeqIs ==
  ASSUME NEW S, NEW s \in Seq(S), NEW t \in Seq(S), NEW k \in Nat, At(s, k, t)
  PROVE  SubSeq(s, k + 1, k + Len(t)) = t
<1> PICK l \in Nat : l = Len(t)
  OBVIOUS
<1>1. k + l <= Len(s) /\ \A i \in 1 .. l : s[k + i] = t[i]
  BY DEF At
<1>2. /\ SubSeq(s, k + 1, k + l) \in Seq(S) /\ Len(SubSeq(s, k + 1, k + l)) = l
      /\ \A i \in 1 .. l : SubSeq(s, k + 1, k + l)[i] = s[k + i]
  <2>1. SubSeq(s, k + 1, k + l) \in Seq(S) /\ IsMiddle(SubSeq(s, k + 1, k + l), s, k, l)
    BY <1>1, MiddleIs, Zenon
  <2> QED
    BY <2>1, Zenon DEF IsMiddle
<1> QED
  BY <1>1, <1>2, SeqEqual

(* What is at the end of a concatenation, and what was in its parts.            *)
LEMMA AtEnd ==
  ASSUME NEW S, NEW s \in Seq(S), NEW t \in Seq(S)
  PROVE  At(s \o t, Len(s), t)
BY DEF At

LEMMA AtLeft ==
  ASSUME NEW S, NEW s \in Seq(S), NEW t \in Seq(S), NEW u \in Seq(S), NEW k \in Nat, At(s, k, u)
  PROVE  At(s \o t, k, u)
<1> PICK n \in Nat : n = Len(s)
  OBVIOUS
<1> PICK l \in Nat : l = Len(u)
  OBVIOUS
<1>1. k + l <= n /\ \A i \in 1 .. l : s[k + i] = u[i]
  BY DEF At
<1>2. n <= Len(s \o t) /\ \A i \in 1 .. n : (s \o t)[i] = s[i]
  OBVIOUS
<1>3. \A i \in 1 .. l : k + i \in 1 .. n
  BY <1>1
<1>4. \A i \in 1 .. l : (s \o t)[k + i] = u[i]
  BY <1>1, <1>2, <1>3, Zenon
<1>5. k + l <= Len(s \o t)
  BY <1>1, <1>2
<1> QED
  BY <1>4, <1>5 DEF At

(* What is found in what is found in a sequence.                                *)
LEMMA AtWithin ==
  ASSUME NEW S, NEW s \in Seq(S), NEW t \in Seq(S), NEW u \in Seq(S),
         NEW k \in Nat, NEW j \in Nat, At(s, k, t), At(t, j, u)
  PROVE  At(s, k + j, u)
<1> PICK m \in Nat : m = Len(t)
  OBVIOUS
<1> PICK l \in Nat : l = Len(u)
  OBVIOUS
<1> PICK n \in Nat : n = Len(s)
  OBVIOUS
<1>1. k + m <= n /\ \A i \in 1 .. m : s[k + i] = t[i]
  BY DEF At
<1>2. j + l <= m /\ \A i \in 1 .. l : t[j + i] = u[i]
  BY DEF At
<1>3. /\ (k + j) + l <= n
      /\ \A i \in 1 .. l : j + i \in 1 .. m /\ (k + j) + i = k + (j + i)
  BY <1>1, <1>2
<1>4. \A i \in 1 .. l : s[(k + j) + i] = u[i]
  BY <1>1, <1>2, <1>3, Zenon
<1> QED
  BY <1>3, <1>4 DEF At

(* Each of some sequences is found in what they flatten to.                     *)
LEMMA FlattenAt ==
  ASSUME NEW S, NEW s \in Seq(Seq(S)), NEW n \in 1 .. Len(s)
  PROVE  /\ Len(FlattenSeq(SubSeq(s, 1, n - 1))) \in Nat
         /\ At(FlattenSeq(s), Len(FlattenSeq(SubSeq(s, 1, n - 1))), s[n])
<1> DEFINE all == FlattenSeq(s)
           before == FlattenSeq(SubSeq(s, 1, n - 1))
           upto == FlattenSeq(SubSeq(s, 1, n))
<1>1. before \in Seq(S) /\ upto = before \o s[n] /\ s[n] \in Seq(S)
  <2>1. s[n] \in Seq(S)
    OBVIOUS
  <2> QED
    BY <2>1, FlattenStep
<1>2. n \in 0 .. Len(s)
  OBVIOUS
<1>3. all \in Seq(S) /\ upto \in Seq(S) /\ Begins(all, upto)
  BY <1>2, FlattenType, FlattenPrefix
<1> HIDE DEF all, before, upto
<1>4. At(upto, Len(before), s[n])
  BY <1>1, AtEnd
<1>5. At(all, 0, upto)
  BY <1>3 DEF At, Begins
<1>6. Len(before) \in Nat /\ 0 + Len(before) = Len(before)
  BY <1>1
<1>7. At(all, Len(before), s[n])
  <2>1. At(all, 0 + Len(before), s[n])
    BY <1>1, <1>3, <1>4, <1>5, <1>6, AtWithin
  <2> QED
    BY <1>6, <2>1
<1> QED
  BY <1>6, <1>7 DEF all, before

(* An element appended to what comes second is appended to both.                *)
LEMMA ConcatAppend ==
  ASSUME NEW S, NEW s \in Seq(S), NEW t \in Seq(S), NEW x \in S
  PROVE  s \o Append(t, x) = Append(s \o t, x)
OBVIOUS

(* Two sequences of sequences flatten one after the other.                      *)
LEMMA FlattenConcat ==
  ASSUME NEW S, NEW s \in Seq(Seq(S)), NEW t \in Seq(Seq(S))
  PROVE  FlattenSeq(s \o t) = FlattenSeq(s) \o FlattenSeq(t)
<1> DEFINE P == {u \in Seq(Seq(S)) : FlattenSeq(s \o u) = FlattenSeq(s) \o FlattenSeq(u)}
<1>1. FlattenSeq(s) \in Seq(S)
  BY FlattenType
<1>2. <<>> \in P
  <2>1. s \o <<>> = s /\ FlattenSeq(s) \o <<>> = FlattenSeq(s)
    BY <1>1
  <2>2. <<>> \in Seq(Seq(S))
    OBVIOUS
  <2> QED
    BY <2>1, <2>2, FlattenEmpty
<1>3. ASSUME NEW u \in Seq(Seq(S)), NEW x \in Seq(S), u \in P PROVE Append(u, x) \in P
  <2>1. Append(u, x) \in Seq(Seq(S)) /\ s \o u \in Seq(Seq(S))
    OBVIOUS
  <2>2. s \o Append(u, x) = Append(s \o u, x)
    BY ConcatAppend, SMTT(40)
  <2>3. FlattenSeq(Append(s \o u, x)) = FlattenSeq(s \o u) \o x
    BY <2>1, FlattenAppend
  <2>4. FlattenSeq(Append(u, x)) = FlattenSeq(u) \o x /\ FlattenSeq(u) \in Seq(S)
    BY FlattenAppend, FlattenType
  <2>5. (FlattenSeq(s) \o FlattenSeq(u)) \o x = FlattenSeq(s) \o (FlattenSeq(u) \o x)
    BY <1>1, <2>4, ConcatAssociative, SMTT(40)
  <2>6. FlattenSeq(s \o u) = FlattenSeq(s) \o FlattenSeq(u)
    BY <1>3
  <2> QED
    BY <2>1, <2>2, <2>3, <2>4, <2>5, <2>6
<1> HIDE DEF P
<1>4. t \in P
  BY <1>2, <1>3, SeqInduction
<1> QED
  BY <1>4 DEF P

(* What sequences flatten to has the elements of one or the other of them.      *)
LEMMA FlattenElement ==
  ASSUME NEW S, NEW s \in Seq(Seq(S)), NEW x \in ToSet(FlattenSeq(s))
  PROVE  \E i \in 1 .. Len(s) : x \in ToSet(s[i])
<1> DEFINE Found(t, y) == \E i \in 1 .. Len(t) : y \in ToSet(t[i])
           P == {t \in Seq(Seq(S)) : \A y \in ToSet(FlattenSeq(t)) : Found(t, y)}
<1>1. <<>> \in P
  <2>1. ToSet(<<>>) = {}
    BY DEF ToSet
  <2> QED
    BY <2>1, FlattenEmpty
<1>2. ASSUME NEW t \in Seq(Seq(S)), NEW z \in Seq(S), t \in P PROVE Append(t, z) \in P
  <2> DEFINE u == Append(t, z)
  <2> PICK n \in Nat : n = Len(t)
    OBVIOUS
  <2>1. /\ u \in Seq(Seq(S)) /\ Len(u) = n + 1
        /\ \A i \in 1 .. n : u[i] = t[i] /\ u[n + 1] = z
        /\ u[n + 1] = z
    OBVIOUS
  <2>2. FlattenSeq(u) = FlattenSeq(t) \o z /\ FlattenSeq(t) \in Seq(S)
    BY FlattenAppend, FlattenType
  <2> HIDE DEF u
  <2>3. ASSUME NEW y \in ToSet(FlattenSeq(t) \o z) PROVE Found(u, y)
    <3>1. y \in ToSet(FlattenSeq(t)) \/ y \in ToSet(z)
      <4> PICK m \in Nat : m = Len(FlattenSeq(t))
        BY <2>2
      <4> PICK l \in Nat : l = Len(z)
        OBVIOUS
      <4>1. PICK j \in 1 .. m + l : y = (FlattenSeq(t) \o z)[j]
        BY <2>2, <2>3 DEF ToSet
      <4>2. CASE j <= m
        <5>1. j \in 1 .. m /\ y = FlattenSeq(t)[j]
          BY <2>2, <4>1, <4>2
        <5> QED
          BY <2>2, <5>1, SMTT(40) DEF ToSet
      <4>3. CASE ~ (j <= m)
        <5>1. j - m \in 1 .. l /\ y = z[j - m]
          BY <2>2, <4>1, <4>3
        <5> QED
          BY <5>1 DEF ToSet
      <4> QED
        BY <4>2, <4>3
    <3>2. CASE y \in ToSet(FlattenSeq(t))
      <4>1. PICK i \in 1 .. n : y \in ToSet(t[i])
        BY <1>2, <3>2
      <4> QED
        BY <2>1, <4>1
    <3>3. CASE y \in ToSet(z)
      <4>1. n + 1 \in 1 .. n + 1
        OBVIOUS
      <4> QED
        BY <2>1, <3>3, <4>1
    <3> QED
      BY <3>1, <3>2, <3>3
  <2> QED
    BY <2>1, <2>2, <2>3 DEF u
<1> HIDE DEF P
<1>3. s \in P
  BY <1>1, <1>2, SeqInduction
<1> QED
  BY <1>3 DEF P

--------------------------------------------------------------------------------
(* FoldLeft is defined by a recursive function on sets of positions.  It        *)
(* exists, and its values on 1 .. 0, 1 .. 1, ... 1 .. n are the run of a fold.  *)

Folds(g, n, base, step) == \A s \in SUBSET (1 .. n) :
  g[s] = IF s = {} THEN base ELSE step[g[s \ {Max(s)}]][Max(s)]

(* There is a function that folds, over all sets of indices.                    *)
LEMMA FoldExists ==
  ASSUME NEW A, NEW base \in A, NEW n \in Nat, NEW step \in [A -> [1 .. n -> A]]
  PROVE  \E g \in [SUBSET (1 .. n) -> A] : Folds(g, n, base, step)
<1> DEFINE P == {m \in 0 .. n : \E g \in [SUBSET (1 .. m) -> A] : Folds(g, m, base, step)}
<1>1. 0 \in P
  <2> DEFINE g == [s \in SUBSET (1 .. 0) |-> base]
  <2>1. \A s \in SUBSET (1 .. 0) : s = {} /\ g[s] = base
    OBVIOUS
  <2>2. g \in [SUBSET (1 .. 0) -> A]
    OBVIOUS
  <2> HIDE DEF g
  <2>3. Folds(g, 0, base, step)
    BY <2>1 DEF Folds
  <2>4. \E f \in [SUBSET (1 .. 0) -> A] : Folds(f, 0, base, step)
    BY <2>2, <2>3
  <2>5. 0 \in 0 .. n
    OBVIOUS
  <2> QED
    BY <2>4, <2>5
<1>2. ASSUME NEW m \in 1 .. n, m - 1 \in P PROVE m \in P
  <2>1. PICK g \in [SUBSET (1 .. m - 1) -> A] : Folds(g, m - 1, base, step)
    BY <1>2
  <2> DEFINE h == [s \in SUBSET (1 .. m) |->
                     IF m \in s THEN step[g[s \ {m}]][m] ELSE g[s]]
  <2>2. \A s \in SUBSET (1 .. m) : s \ {m} \in SUBSET (1 .. m - 1)
    OBVIOUS
  <2>3. \A s \in SUBSET (1 .. m) : m \notin s => s \in SUBSET (1 .. m - 1)
    <3>1. \A i \in 1 .. m : i # m => i \in 1 .. m - 1
      OBVIOUS
    <3> QED
      BY <3>1
  <2>4. h \in [SUBSET (1 .. m) -> A]
    <3>1. ASSUME NEW s \in SUBSET (1 .. m)
          PROVE  (IF m \in s THEN step[g[s \ {m}]][m] ELSE g[s]) \in A
      <4>1. g[s \ {m}] \in A /\ (m \notin s => g[s] \in A)
        BY <2>2, <2>3
      <4> QED
        BY <4>1
    <3> QED
      BY <3>1
  <2>5. \A s \in SUBSET (1 .. m) : h[s] = IF m \in s THEN step[g[s \ {m}]][m] ELSE g[s]
    OBVIOUS
  <2> HIDE DEF h
  <2>6. \A s \in SUBSET (1 .. m - 1) : s \in SUBSET (1 .. m) /\ m \notin s /\ h[s] = g[s]
    <3>1. \A s \in SUBSET (1 .. m - 1) : s \in SUBSET (1 .. m) /\ m \notin s
      OBVIOUS
    <3> QED
      BY <2>5, <3>1
  <2>7. ASSUME NEW s \in SUBSET (1 .. m)
        PROVE  h[s] = IF s = {} THEN base ELSE step[h[s \ {Max(s)}]][Max(s)]
    <3>1. s # {} => Max(s) \in s /\ \A y \in s : y <= Max(s)
      <4>1. s \in SUBSET (0 .. m) /\ m \in Nat
        OBVIOUS
      <4> QED
        BY <4>1, MaxOfNats
    <3>2. CASE m \in s
      <4>1. Max(s) = m
        <5>1. Max(s) \in 1 .. m /\ m <= Max(s)
          BY <3>1, <3>2
        <5> QED
          BY <5>1
      <4> QED
        BY <2>2, <2>5, <2>6, <3>2, <4>1
    <3>3. CASE m \notin s
      <4>1. s \in SUBSET (1 .. m - 1) /\ s \ {Max(s)} \in SUBSET (1 .. m - 1)
        BY <2>3, <3>3
      <4>2. g[s] = IF s = {} THEN base ELSE step[g[s \ {Max(s)}]][Max(s)]
        BY <2>1, <4>1 DEF Folds
      <4> QED
        BY <2>6, <4>1, <4>2
    <3> QED
      BY <3>2, <3>3
  <2>8. Folds(h, m, base, step)
    BY <2>7 DEF Folds
  <2> QED
    BY <2>4, <2>8
<1> HIDE DEF P
<1>3. n \in P
  <2>1. \A m \in 0 .. n : m \in P
    BY <1>1, <1>2, UpTo
  <2> QED
    BY <2>1
<1> QED
  BY <1>3 DEF P

(* The sets that a fold over 1 .. n goes through.                               *)
LEMMA MaxOfRange ==
  ASSUME NEW m \in Nat \ {0}
  PROVE  Max(1 .. m) = m /\ (1 .. m) \ {m} = 1 .. m - 1 /\ 1 .. m # {}
<1>1. m \in 1 .. m /\ (1 .. m) \ {m} = 1 .. m - 1
  OBVIOUS
<1>2. 1 .. m \in SUBSET (0 .. m) /\ 1 .. m # {}
  BY <1>1
<1>3. Max(1 .. m) \in 1 .. m /\ \A y \in 1 .. m : y <= Max(1 .. m)
  BY <1>2, MaxOfNats
<1>4. Max(1 .. m) = m
  BY <1>1, <1>3
<1> QED
  BY <1>1, <1>2, <1>4
================================================================================

------------------------------ MODULE PrimeProofs ------------------------------
(* Theorems about PrimeServer: whatever the connections ask and in which order, *)
(* the table they share has the primes, and each of them is answered right.     *)
EXTENDS PrimeServer, SequenceLemmas

(* Bertrand's postulate: behind every number there is a prime before its double.*)
(* push_next needs it: a prime beyond the square of the last entry would end    *)
(* the loop over the table before it is found (primes.rs:32-40).                *)
Bertrand == \A n \in Nat \ {0} : \E p \in n + 1 .. 2 * n : IsAPrime(p)

--------------------------------------------------------------------------------
(* Divisors. *)

LEMMA Division ==
  ASSUME NEW n \in Nat, NEW d \in Nat \ {0}, n % d = 0
  PROVE  n \div d \in Nat /\ n = d * (n \div d)
OBVIOUS

LEMMA MultipleDivides ==
  ASSUME NEW k \in Nat, NEW d \in Nat \ {0}
  PROVE  (d * k) % d = 0
OBVIOUS

LEMMA DivisorIsNoGreater ==
  ASSUME NEW n \in Nat \ {0}, NEW d \in Nat \ {0}, n % d = 0
  PROVE  d <= n
OBVIOUS

LEMMA SquaresGrow ==
  ASSUME NEW a \in Nat, NEW b \in Nat, a <= b
  PROVE  a * a <= a * b /\ a * b <= b * b /\ a * a <= b * b
OBVIOUS

(* What divides a divisor divides the number.                                   *)
LEMMA DivisionIsTransitive ==
  ASSUME NEW n \in Nat, NEW d \in Nat \ {0}, NEW e \in Nat \ {0}, n % d = 0, d % e = 0
  PROVE  n % e = 0
<1> PICK q \in Nat : q = n \div d
  BY Division
<1> PICK j \in Nat : j = d \div e
  BY Division
<1>1. n = d * q /\ d = e * j
  BY Division
<1>2. \A a, b, c \in Nat : (a * b) * c = a * (b * c) /\ b * c \in Nat
  OBVIOUS
<1>3. n = e * (j * q) /\ j * q \in Nat
  BY <1>1, <1>2
<1> QED
  BY <1>3, MultipleDivides

(* A number that is not prime has a prime divisor up to its square root.        *)
LEMMA LeastDivisor ==
  ASSUME NEW n \in Nat, n >= 2, ~ IsAPrime(n)
  PROVE  \E d \in 2 .. n - 1 : IsAPrime(d) /\ n % d = 0 /\ d * d <= n
<1> DEFINE Divisors == {d \in 2 .. n - 1 : n % d = 0}
<1>1. Divisors \in SUBSET Nat /\ Divisors # {}
  <2>1. PICK d \in 2 .. n - 1 : n % d = 0
    BY Zenon DEF IsAPrime
  <2>2. d \in Divisors
    BY <2>1
  <2>3. Divisors \subseteq Nat
    OBVIOUS
  <2> QED
    BY <2>2, <2>3
<1>2. PICK d \in Divisors : \A e \in Divisors : d <= e
  BY <1>1, LeastNat
<1>3. d \in 2 .. n - 1 /\ d \in Nat \ {0} /\ n % d = 0
  OBVIOUS
<1>4. IsAPrime(d)
  <2>1. ASSUME NEW e \in 2 .. d - 1, d % e = 0 PROVE FALSE
    <3>1. e \in Nat \ {0} /\ e \in 2 .. n - 1 /\ ~ (d <= e)
      BY <1>3
    <3>2. n % e = 0
      BY <1>3, <2>1, <3>1, DivisionIsTransitive
    <3> QED
      BY <1>2, <3>1, <3>2
  <2>2. d >= 2
    BY <1>3
  <2> QED
    BY <2>1, <2>2, Zenon DEF IsAPrime
<1>5. PICK q \in Nat : n = d * q
  BY <1>3, Division
<1>6. q \in Divisors
  <2>1. \A a, b \in Nat : a >= 2 /\ a * b >= 2 /\ a < a * b => b >= 2 /\ b < a * b /\ a * b = b * a
    OBVIOUS
  <2>2. q >= 2 /\ q < n /\ n = q * d
    BY <1>3, <1>5, <2>1
  <2>3. n % q = 0
    BY <1>3, <2>2, MultipleDivides
  <2> QED
    BY <2>2, <2>3
<1>7. d * d <= n
  BY <1>2, <1>3, <1>5, <1>6, SquaresGrow
<1> QED
  BY <1>3, <1>4, <1>7

(* SqrtSup is the least number whose square is not below n.                     *)
LEMMA SqrtSupIs ==
  ASSUME NEW n \in Nat \ {0}
  PROVE  /\ SqrtSup(n) \in 1 .. n
         /\ SqrtSup(n) * SqrtSup(n) >= n
         /\ (SqrtSup(n) - 1) * (SqrtSup(n) - 1) < n
<1> DEFINE Large == {x \in 0 .. n : x * x >= n}
           IsSup(x) == x * x >= n /\ (x = 0 \/ (x - 1) * (x - 1) < n)
<1>1. n * n >= n
  OBVIOUS
<1>2. Large \in SUBSET Nat /\ n \in Large
  BY <1>1
<1>3. PICK x \in Large : \A y \in Large : x <= y
  BY <1>2, LeastNat
<1>4. x \in 0 .. n /\ x * x >= n
  OBVIOUS
<1>5. x # 0
  BY <1>4
<1>6. (x - 1) * (x - 1) < n
  <2>1. x - 1 \in 0 .. n /\ ~ (x <= x - 1)
    BY <1>4, <1>5
  <2>2. ~ ((x - 1) * (x - 1) >= n)
    BY <1>3, <2>1
  <2>3. (x - 1) * (x - 1) \in Int
    BY <2>1
  <2> QED
    BY <2>2, <2>3
<1>7. \E y \in 0 .. n : IsSup(y)
  BY <1>4, <1>6
<1>8. SqrtSup(n) = CHOOSE y \in 0 .. n : IsSup(y)
  BY DEF SqrtSup
<1>9. SqrtSup(n) \in 0 .. n /\ IsSup(SqrtSup(n))
  BY <1>7, <1>8
<1>10. SqrtSup(n) # 0
  BY <1>9
<1> QED
  BY <1>9, <1>10

LEMMA RootIsNoGreater ==
  ASSUME NEW n \in Nat \ {0}, NEW d \in Nat, d * d <= n
  PROVE  d <= SqrtSup(n)
<1> PICK s \in Nat : s = SqrtSup(n)
  BY SqrtSupIs
<1>1. s * s >= n
  BY SqrtSupIs
<1>2. ASSUME d > s PROVE FALSE
  <2>1. \A a \in Nat : (a + 1) * (a + 1) = a * a + 2 * a + 1 /\ a * a \in Nat
    OBVIOUS
  <2>2. (s + 1) * (s + 1) <= d * d
    BY <1>2, SquaresGrow
  <2>3. d * d \in Nat
    OBVIOUS
  <2> QED
    BY <1>1, <2>1, <2>2, <2>3
<1> QED
  BY <1>2

--------------------------------------------------------------------------------
(* The table. *)

(* A table has the primes up to its last entry, in order, and nothing else.     *)
IsTable(t) ==
  /\ t \in Seq(Nat) /\ Len(t) \in Nat \ {0}
  /\ \A i \in 1 .. Len(t) : IsAPrime(t[i])
  /\ \A i, j \in 1 .. Len(t) : i < j => t[i] < t[j]
  /\ \A p \in 2 .. Last(t) : IsAPrime(p) => \E i \in 1 .. Len(t) : t[i] = p

LEMMA TableEntries ==
  ASSUME NEW t, IsTable(t)
  PROVE  /\ Last(t) = t[Len(t)] /\ Last(t) \in Nat /\ Last(t) >= 2 /\ IsAPrime(Last(t))
         /\ \A i \in 1 .. Len(t) : t[i] \in Nat /\ 2 <= t[i] /\ t[i] <= Last(t)
<1>1. Last(t) = t[Len(t)] /\ Len(t) \in 1 .. Len(t)
  BY DEF IsTable, Last
<1>2. \A i \in 1 .. Len(t) : t[i] \in Nat /\ IsAPrime(t[i])
  BY DEF IsTable
<1>3. \A i \in 1 .. Len(t) : 2 <= t[i]
  <2>1. \A p \in Nat : IsAPrime(p) => 2 <= p
    BY DEF IsAPrime
  <2> QED
    BY <1>2, <2>1
<1>4. \A i \in 1 .. Len(t) : t[i] <= t[Len(t)]
  <2>1. \A i \in 1 .. Len(t) : i < Len(t) \/ i = Len(t)
    BY <1>1
  <2> QED
    BY <1>1, <1>2, <2>1 DEF IsTable
<1> QED
  BY <1>1, <1>2, <1>3, <1>4

(* A number without a divisor among the entries that come before a bound of its *)
(* square root is prime, if there are no primes that the table does not have.   *)
LEMMA UndividedIsPrime ==
  ASSUME NEW t, IsTable(t), NEW n \in Nat, n >= 2,
         \A p \in Last(t) + 1 .. n - 1 : p > SqrtSup(n) \/ ~ IsAPrime(p),
         NEW k \in 1 .. Len(t), t[k] >= SqrtSup(n) \/ k = Len(t),
         \A i \in 1 .. k : n % t[i] # 0
  PROVE  IsAPrime(n)
<1> SUFFICES ASSUME ~ IsAPrime(n) PROVE FALSE
  OBVIOUS
<1>1. PICK d \in 2 .. n - 1 : IsAPrime(d) /\ n % d = 0 /\ d * d <= n
  BY LeastDivisor
<1>2. SqrtSup(n) \in Nat /\ d <= SqrtSup(n)
  BY <1>1, RootIsNoGreater, SqrtSupIs
<1>3. d <= Last(t)
  BY <1>1, <1>2, TableEntries, SMTT(40)
<1>4. PICK i \in 1 .. Len(t) : t[i] = d
  BY <1>1, <1>3, TableEntries DEF IsTable
<1>5. i <= k
  <2>1. t[i] <= t[k]
    BY <1>2, <1>4, TableEntries
  <2>2. ~ (k < i)
    BY <2>1, TableEntries DEF IsTable
  <2> QED
    BY <2>2
<1> QED
  BY <1>1, <1>4, <1>5

(* What divides a prime is the prime itself.                                    *)
LEMMA PrimeIsUndivided ==
  ASSUME NEW n \in Nat, IsAPrime(n), NEW d \in Nat, 2 <= d, n % d = 0
  PROVE  n = d
<1>1. n >= 2
  BY DEF IsAPrime
<1>2. d <= n
  BY <1>1, DivisorIsNoGreater
<1>3. ~ (d \in 2 .. n - 1)
  BY Zenon DEF IsAPrime
<1> QED
  BY <1>2, <1>3

(* The first position of a sequence that is in a set of positions.              *)
LEMMA FirstPosition ==
  ASSUME NEW n \in Nat, NEW I \in SUBSET (1 .. n), NEW i, i = IF I # {} THEN Min(I) ELSE 0
  PROVE  /\ i = 0 <=> I = {}
         /\ i # 0 => i \in I /\ \A j \in I : i <= j
<1>1. I \in SUBSET Nat
  OBVIOUS
<1>2. CASE I # {}
  <2>1. i \in I /\ \A j \in I : i <= j
    BY <1>1, <1>2, MinOfNats
  <2>2. i # 0
    BY <2>1
  <2> QED
    BY <1>2, <2>1, <2>2
<1>3. CASE I = {}
  BY <1>3
<1> QED
  BY <1>2, <1>3

(* The first entry that settles whether a number is a new prime tells rightly.  *)
LEMMA GuessedIs ==
  ASSUME NEW t, IsTable(t), NEW n \in Last(t) + 1 .. 2 * Last(t),
         \A p \in Last(t) + 1 .. n - 1 : ~ IsAPrime(p)
  PROVE  Guessed(n, t) <=> IsAPrime(n)
<1> DEFINE I == {j \in 1 .. Len(t) : n % t[j] = 0 \/ t[j] >= SqrtSup(n)}
           i == IF I # {} THEN Min(I) ELSE 0
<1>1. Guessed(n, t) <=> i > 0 /\ n % t[i] # 0
  BY DEF Guessed, SelectInSeq
<1>2. Len(t) \in Nat \ {0} /\ I \in SUBSET (1 .. Len(t))
  BY DEF IsTable
<1>3. /\ i = 0 <=> I = {}
      /\ i # 0 => i \in I /\ \A j \in I : i <= j
  <2> HIDE DEF I
  <2> QED
    BY <1>2, FirstPosition
<1>4. /\ Last(t) \in Nat /\ Last(t) >= 2 /\ n \in Nat /\ n > Last(t) /\ n >= 2
      /\ SqrtSup(n) \in Nat
  <2>1. Last(t) \in Nat /\ Last(t) >= 2
    BY TableEntries
  <2>2. n \in Nat /\ n > Last(t) /\ n >= 2
    BY <2>1
  <2> QED
    BY <2>1, <2>2, SqrtSupIs
<1>5. Len(t) \in I
  <2>1. Last(t) * Last(t) >= n
    <3>1. \A a \in Nat : a >= 2 => a * a >= 2 * a /\ a * a \in Nat
      OBVIOUS
    <3> QED
      BY <1>4, <3>1
  <2>2. Last(t) >= SqrtSup(n)
    <3>1. ASSUME SqrtSup(n) > Last(t) PROVE FALSE
      <4>1. SqrtSup(n) - 1 \in Nat /\ Last(t) <= SqrtSup(n) - 1
        BY <1>4, <3>1
      <4>2. Last(t) * Last(t) <= (SqrtSup(n) - 1) * (SqrtSup(n) - 1)
        BY <1>4, <4>1, SquaresGrow
      <4>3. (SqrtSup(n) - 1) * (SqrtSup(n) - 1) < n /\ (SqrtSup(n) - 1) * (SqrtSup(n) - 1) \in Int
        BY <1>4, SqrtSupIs, <4>1
      <4> QED
        BY <1>4, <2>1, <4>2, <4>3
    <3> QED
      BY <1>4, <3>1
  <2> QED
    BY <1>2, <2>2, TableEntries
<1>6. i \in 1 .. Len(t) /\ (n % t[i] = 0 \/ t[i] >= SqrtSup(n)) /\ \A j \in I : i <= j
  BY <1>2, <1>3, <1>5
<1> HIDE DEF i
<1>7. ASSUME IsAPrime(n) PROVE n % t[i] # 0
  BY <1>4, <1>6, <1>7, TableEntries, PrimeIsUndivided
<1>8. ASSUME n % t[i] # 0 PROVE IsAPrime(n)
  <2>1. \A j \in 1 .. i : n % t[j] # 0
    BY <1>2, <1>6, <1>8
  <2>2. t[i] >= SqrtSup(n)
    BY <1>6, <1>8
  <2> QED
    BY <1>4, <1>6, <2>1, <2>2, UndividedIsPrime
<1> QED
  BY <1>1, <1>6, <1>7, <1>8

(* push_next finds the next prime.                                              *)
LEMMA NextPrimeIs ==
  ASSUME Bertrand, NEW t, IsTable(t)
  PROVE  /\ NextPrime(t) \in Last(t) + 1 .. 2 * Last(t)
         /\ IsAPrime(NextPrime(t))
         /\ \A p \in Last(t) + 1 .. NextPrime(t) - 1 : ~ IsAPrime(p)
<1> PICK l \in Nat : l = Last(t) /\ l >= 2
  BY TableEntries
<1> DEFINE Behind == {p \in l + 1 .. 2 * l : IsAPrime(p)}
           IsNext(n) == Guessed(n, t) /\ \A m \in l + 1 .. n - 1 : ~ Guessed(m, t)
<1>1. PICK q \in Behind : \A p \in Behind : q <= p
  <2>1. Behind \in SUBSET Nat /\ Behind # {}
    BY DEF Bertrand
  <2> QED
    BY <2>1, LeastNat
<1>2. q \in l + 1 .. 2 * l /\ IsAPrime(q)
  OBVIOUS
<1>3. \A p \in l + 1 .. q - 1 : ~ IsAPrime(p)
  BY <1>1, <1>2
<1>4. \A n \in l + 1 .. q : Guessed(n, t) <=> IsAPrime(n)
  BY <1>2, <1>3, GuessedIs
<1>5. IsNext(q)
  BY <1>2, <1>3, <1>4
<1>6. \A n \in l + 1 .. 2 * l : IsNext(n) => n = q
  BY <1>2, <1>3, <1>4, <1>5
<1>7. NextPrime(t) = CHOOSE n \in l + 1 .. 2 * l : IsNext(n)
  BY DEF NextPrime
<1>8. NextPrime(t) = q
  BY <1>2, <1>5, <1>6, <1>7
<1> QED
  BY <1>2, <1>3, <1>8

(* The table remains one when it is extended.                                   *)
LEMMA TableGrows ==
  ASSUME Bertrand, NEW t, IsTable(t)
  PROVE  /\ IsTable(Append(t, NextPrime(t)))
         /\ Last(Append(t, NextPrime(t))) = NextPrime(t)
         /\ Len(Append(t, NextPrime(t))) = Len(t) + 1
         /\ \A i \in 1 .. Len(t) : Append(t, NextPrime(t))[i] = t[i]
<1> PICK l \in Nat : l = Last(t) /\ l >= 2
  BY TableEntries
<1> PICK q \in Nat : q = NextPrime(t)
  BY NextPrimeIs
<1>1. q > l /\ IsAPrime(q) /\ \A p \in l + 1 .. q - 1 : ~ IsAPrime(p)
  BY NextPrimeIs
<1> DEFINE u == Append(t, q)
<1> PICK n \in Nat : n = Len(t) /\ n # 0
  BY DEF IsTable
<1>2. t \in Seq(Nat)
  BY DEF IsTable
<1>3. u \in Seq(Nat) /\ Len(u) = n + 1 /\ u[n + 1] = q /\ \A i \in 1 .. n : u[i] = t[i]
  BY <1>2
<1> HIDE DEF u
<1>4. Last(u) = q
  BY <1>3 DEF Last
<1>5. \A i \in 1 .. n + 1 : i \in 1 .. n \/ i = n + 1
  OBVIOUS
<1>6. \A i \in 1 .. n + 1 : IsAPrime(u[i])
  BY <1>1, <1>3, <1>5 DEF IsTable
<1>7. \A i, j \in 1 .. n + 1 : i < j => u[i] < u[j]
  <2>1. \A i \in 1 .. n : t[i] \in Nat /\ t[i] <= l
    BY TableEntries
  <2>2. \A i, j \in 1 .. n : i < j => t[i] < t[j]
    BY DEF IsTable
  <2>3. \A i, j \in 1 .. n + 1 : i < j => i \in 1 .. n
    OBVIOUS
  <2>4. \A i \in 1 .. n : u[i] < u[n + 1]
    BY <1>1, <1>3, <2>1
  <2>5. \A i, j \in 1 .. n : i < j => u[i] < u[j]
    BY <1>3, <2>2
  <2> QED
    BY <1>5, <2>3, <2>4, <2>5
<1>8. ASSUME NEW p \in 2 .. q, IsAPrime(p) PROVE \E i \in 1 .. n + 1 : u[i] = p
  <2>1. CASE p \in 2 .. l
    <3>1. PICK i \in 1 .. n : t[i] = p
      BY <1>8, <2>1 DEF IsTable
    <3> QED
      BY <1>3, <3>1
  <2>2. CASE p > l
    <3>1. p = q
      BY <1>1, <1>8, <2>2
    <3> QED
      BY <1>3, <3>1
  <2> QED
    BY <2>1, <2>2
<1>9. IsTable(u)
  BY <1>3, <1>4, <1>6, <1>7, <1>8 DEF IsTable
<1> QED
  BY <1>3, <1>4, <1>9 DEF u

--------------------------------------------------------------------------------
(* is_prime. *)

(* One turn of the loop of is_prime: if the last entry does not tell whether n  *)
(* is prime, the table is extended.                                             *)
Told(n, t) == n % Last(t) = 0 \/ Last(t) >= SqrtSup(n)
Turn(n, t) == IF Told(n, t) THEN t ELSE Append(t, NextPrime(t))

(* How Grown runs through the turns of the loop.                                *)
LEMMA GrownRuns ==
  ASSUME Bertrand, NEW t, IsTable(t), NEW n \in Nat \ {0}
  PROVE  \E run : /\ run[0] = t
                  /\ \A i \in 0 .. SqrtSup(n) : IsTable(run[i])
                  /\ \A i \in 1 .. SqrtSup(n) : run[i] = Turn(n, run[i - 1])
                  /\ Grown(n, t) = run[SqrtSup(n)]
<1> PICK m \in Nat : m = SqrtSup(n)
  BY SqrtSupIs
<1> DEFINE turns == [i \in 1 .. m |-> i]
           Follows(h) == h = [s \in SUBSET (DOMAIN turns) |->
             IF s = {} THEN t
             ELSE IF n % Last(h[s \ {Max(s)}]) = 0 \/ Last(h[s \ {Max(s)}]) >= m
                  THEN h[s \ {Max(s)}]
                  ELSE Append(h[s \ {Max(s)}], NextPrime(h[s \ {Max(s)}]))]
           iter == CHOOSE h : Follows(h)
           Tables == {u \in Seq(Nat) : IsTable(u)}
<1>1. Grown(n, t) = iter[DOMAIN turns]
  BY DEF Grown, FoldLeft, MapThenFoldSet
<1>2. DOMAIN turns = 1 .. m
  OBVIOUS
<1> HIDE DEF iter, turns
<1>3. t \in Tables
  BY DEF IsTable
<1>4. \A u \in Tables : Turn(n, u) \in Tables
  <2>1. ASSUME NEW u, IsTable(u) PROVE IsTable(Turn(n, u))
    BY <2>1, TableGrows DEF Turn
  <2> QED
    BY <2>1 DEF IsTable
<1>5. \E h : Follows(h)
  <2> DEFINE step == [u \in Tables |-> [i \in 1 .. m |-> Turn(n, u)]]
  <2>1. step \in [Tables -> [1 .. m -> Tables]]
    BY <1>4
  <2>2. \A u \in Tables, i \in 1 .. m : step[u][i] = Turn(n, u)
    OBVIOUS
  <2> HIDE DEF step, Tables
  <2>3. PICK g \in [SUBSET (1 .. m) -> Tables] : Folds(g, m, t, step)
    BY <1>3, <2>1, FoldExists
  <2>4. ASSUME NEW s \in SUBSET (1 .. m)
        PROVE  g[s] = IF s = {} THEN t ELSE Turn(n, g[s \ {Max(s)}])
    <3>1. s # {} => Max(s) \in 1 .. m
      <4>1. s \in SUBSET (0 .. m)
        OBVIOUS
      <4> QED
        BY <4>1, MaxOfNats
    <3>2. g[s \ {Max(s)}] \in Tables
      OBVIOUS
    <3>3. g[s] = IF s = {} THEN t ELSE step[g[s \ {Max(s)}]][Max(s)]
      BY <2>3 DEF Folds
    <3> QED
      BY <2>2, <3>1, <3>2, <3>3
  <2>5. g = [s \in SUBSET (1 .. m) |-> IF s = {} THEN t ELSE Turn(n, g[s \ {Max(s)}])]
    BY <2>4
  <2> QED
    BY <1>2, <2>5 DEF Turn, Told
<1>6. \A s \in SUBSET (1 .. m) : iter[s] = IF s = {} THEN t ELSE Turn(n, iter[s \ {Max(s)}])
  <2>1. Follows(iter)
    BY <1>5 DEF iter
  <2> QED
    BY <1>2, <2>1 DEF Turn, Told
<1> HIDE DEF Follows
<1> DEFINE run == [i \in 0 .. m |-> iter[1 .. i]]
<1>7. run[0] = t
  <2>1. 1 .. 0 = {} /\ 1 .. 0 \in SUBSET (1 .. m)
    OBVIOUS
  <2> QED
    BY <1>6, <2>1
<1>8. ASSUME NEW i \in 1 .. m PROVE run[i] = Turn(n, run[i - 1])
  <2>1. 1 .. i \in SUBSET (1 .. m) /\ i \in Nat \ {0} /\ i - 1 \in 0 .. m /\ i \in 0 .. m
    OBVIOUS
  <2>2. Max(1 .. i) = i /\ (1 .. i) \ {i} = 1 .. i - 1 /\ 1 .. i # {}
    BY <2>1, MaxOfRange
  <2>3. iter[1 .. i] = Turn(n, iter[1 .. i - 1])
    BY <1>6, <2>1, <2>2
  <2> QED
    BY <2>1, <2>3
<1>9. Grown(n, t) = run[m]
  BY <1>1, <1>2
<1> HIDE DEF run
<1>10. \A i \in 0 .. m : run[i] \in Tables
  <2> DEFINE P == {i \in 0 .. m : run[i] \in Tables}
  <2> HIDE DEF Tables
  <2>1. 0 \in P
    BY <1>3, <1>7
  <2>2. ASSUME NEW i \in 1 .. m, i - 1 \in P PROVE i \in P
    BY <1>4, <1>8, <2>2
  <2> HIDE DEF P
  <2>3. \A i \in 0 .. m : i \in P
    BY <2>1, <2>2, UpTo
  <2> QED
    BY <2>3 DEF P
<1> QED
  BY <1>7, <1>8, <1>9, <1>10

(* Before the last entry there is nothing that divides n, the last entry is     *)
(* below n, and after i turns the loop is over or has come far.                 *)
Unfinished(n, t, i) ==
  /\ Last(t) < n
  /\ \A j \in 1 .. Len(t) - 1 : n % t[j] # 0
  /\ Told(n, t) \/ Last(t) >= i + 2

LEMMA TurnGoesOn ==
  ASSUME Bertrand, NEW t, IsTable(t), NEW n \in Nat \ {0}, NEW i \in Nat, Unfinished(n, t, i)
  PROVE  Unfinished(n, Turn(n, t), i + 1)
<1>1. CASE Told(n, t)
  BY <1>1 DEF Turn, Unfinished
<1>2. CASE ~ Told(n, t)
  <2> PICK l \in Nat : l = Last(t) /\ l >= 2
    BY TableEntries
  <2> PICK q \in Nat : q = NextPrime(t)
    BY NextPrimeIs
  <2> PICK s \in Nat : s = SqrtSup(n) /\ s # 0
    BY SqrtSupIs
  <2>1. q > l /\ q <= 2 * l
    BY NextPrimeIs
  <2>2. n % l # 0 /\ l < s /\ l >= i + 2
    BY <1>2 DEF Told, Unfinished
  <2>3. q < n
    <3>1. (s - 1) * (s - 1) < n /\ s - 1 \in Nat
      <4>1. s - 1 \in Nat
        OBVIOUS
      <4>2. (SqrtSup(n) - 1) * (SqrtSup(n) - 1) < n
        BY SqrtSupIs
      <4> QED
        BY <4>1, <4>2
    <3>2. l * l <= (s - 1) * (s - 1)
      BY <2>2, <3>1, SquaresGrow
    <3>3. 2 * l <= l * l
      BY SquaresGrow
    <3>4. l * l \in Nat /\ (s - 1) * (s - 1) \in Nat
      BY <3>1
    <3> QED
      BY <2>1, <3>1, <3>2, <3>3, <3>4
  <2> DEFINE u == Append(t, q)
  <2>4. Turn(n, t) = u
    BY <1>2 DEF Turn
  <2>5. Last(u) = q /\ Len(u) = Len(t) + 1 /\ \A j \in 1 .. Len(t) : u[j] = t[j]
    BY TableGrows
  <2> HIDE DEF u
  <2>6. \A j \in 1 .. Len(u) - 1 : n % u[j] # 0
    <3>1. Len(t) \in Nat /\ Last(t) = t[Len(t)]
      BY TableEntries DEF IsTable
    <3>2. \A j \in 1 .. Len(t) : n % t[j] # 0
      <4>1. \A j \in 1 .. Len(t) : j \in 1 .. Len(t) - 1 \/ j = Len(t)
        BY <3>1
      <4> QED
        BY <2>2, <3>1, <4>1 DEF Unfinished
    <3> QED
      BY <2>5, <3>1, <3>2
  <2>7. Last(u) >= (i + 1) + 2
    BY <2>1, <2>2, <2>5
  <2> QED
    BY <2>3, <2>4, <2>5, <2>6, <2>7 DEF Unfinished
<1> QED
  BY <1>1, <1>2

(* The table that is_prime leaves behind when it had to extend it.              *)
LEMMA GrownIs ==
  ASSUME Bertrand, NEW t, IsTable(t), NEW n \in Nat \ {0},
         Last(t) < n, \A j \in 1 .. Len(t) - 1 : n % t[j] # 0
  PROVE  /\ IsTable(Grown(n, t))
         /\ Told(n, Grown(n, t))
         /\ Last(Grown(n, t)) < n
         /\ \A j \in 1 .. Len(Grown(n, t)) - 1 : n % Grown(n, t)[j] # 0
<1> PICK m \in Nat : m = SqrtSup(n)
  BY SqrtSupIs
<1>1. PICK run : /\ run[0] = t
                 /\ \A i \in 0 .. m : IsTable(run[i])
                 /\ \A i \in 1 .. m : run[i] = Turn(n, run[i - 1])
                 /\ Grown(n, t) = run[m]
  BY GrownRuns
<1> DEFINE P == {i \in 0 .. m : Unfinished(n, run[i], i)}
<1>2. 0 \in P
  <2>1. Last(t) >= 0 + 2
    BY TableEntries
  <2>2. Unfinished(n, run[0], 0)
    BY <1>1, <2>1 DEF Unfinished
  <2> QED
    BY <2>2
<1>3. ASSUME NEW i \in 1 .. m, i - 1 \in P PROVE i \in P
  <2>1. i - 1 \in Nat /\ i - 1 \in 0 .. m /\ (i - 1) + 1 = i
    OBVIOUS
  <2>2. Unfinished(n, run[i - 1], i - 1)
    BY <1>3
  <2>3. Unfinished(n, Turn(n, run[i - 1]), (i - 1) + 1)
    BY <1>1, <2>1, <2>2, TurnGoesOn
  <2> QED
    BY <1>1, <2>1, <2>3
<1> HIDE DEF P
<1>4. \A i \in 0 .. m : i \in P
  BY <1>2, <1>3, UpTo
<1>5. Unfinished(n, Grown(n, t), m) /\ IsTable(Grown(n, t))
  BY <1>1, <1>4 DEF P
<1>6. Told(n, Grown(n, t))
  BY <1>5, TableEntries DEF Unfinished, Told
<1> QED
  BY <1>5, <1>6 DEF Unfinished

(* is_prime tells what is prime, and leaves a table behind.                     *)
LEMMA VerdictIs ==
  ASSUME Bertrand, NEW t, IsTable(t), NEW n \in Nat, n >= 2
  PROVE  /\ Verdict(n, t) <=> IsAPrime(n)
         /\ IsTable(TableAfter(n, t))
<1> DEFINE I == {j \in 1 .. Len(t) : n = t[j] \/ n % t[j] = 0 \/ t[j] >= SqrtSup(n)}
           i == IF I # {} THEN Min(I) ELSE 0
<1>1. Settles(n, t) = i
  BY DEF Settles, SelectInSeq
<1>2. Len(t) \in Nat \ {0} /\ I \in SUBSET (1 .. Len(t))
  BY DEF IsTable
<1>3. /\ i = 0 <=> I = {}
      /\ i # 0 => i \in I /\ \A j \in I : i <= j
  <2> HIDE DEF I
  <2> QED
    BY <1>2, FirstPosition
<1> HIDE DEF i
<1>4. n \in Nat \ {0} /\ SqrtSup(n) \in Nat /\ SqrtSup(n) <= n
  BY SqrtSupIs
<1>5. CASE I # {}
  <2>1. i \in 1 .. Len(t) /\ i \in I /\ \A j \in I : i <= j
    BY <1>2, <1>3, <1>5
  <2>2. TableAfter(n, t) = t /\ (Verdict(n, t) <=> n = t[i] \/ n % t[i] # 0)
    BY <1>1, <2>1 DEF TableAfter, Verdict
  <2>3. ASSUME IsAPrime(n) PROVE n = t[i] \/ n % t[i] # 0
    BY <2>1, <2>3, TableEntries, PrimeIsUndivided
  <2>4. ASSUME n = t[i] PROVE IsAPrime(n)
    BY <2>1, <2>4 DEF IsTable
  <2>5. ASSUME n # t[i], n % t[i] # 0 PROVE IsAPrime(n)
    <3>1. t[i] >= SqrtSup(n)
      BY <2>1, <2>5
    <3>2. \A j \in 1 .. i : n % t[j] # 0
      BY <1>2, <2>1, <2>5
    <3>3. \A p \in Last(t) + 1 .. n - 1 : p > SqrtSup(n)
      BY <1>4, <2>1, <3>1, TableEntries
    <3> QED
      BY <2>1, <3>1, <3>2, <3>3, UndividedIsPrime
  <2> QED
    BY <2>2, <2>3, <2>4, <2>5
<1>6. CASE I = {}
  <2> PICK g : g = Grown(n, t)
    OBVIOUS
  <2>1. TableAfter(n, t) = g /\ (Verdict(n, t) <=> n % Last(g) # 0)
    BY <1>1, <1>3, <1>6 DEF TableAfter, Verdict
  <2>2. \A j \in 1 .. Len(t) : n % t[j] # 0 /\ ~ (t[j] >= SqrtSup(n))
    BY <1>6
  <2>3. Last(t) < n
    <3>1. Last(t) = t[Len(t)] /\ Last(t) \in Nat /\ Len(t) \in 1 .. Len(t)
      BY <1>2, TableEntries
    <3> QED
      BY <1>4, <2>2, <3>1
  <2>4. \A j \in 1 .. Len(t) - 1 : n % t[j] # 0
    BY <1>2, <2>2
  <2>5. /\ IsTable(g) /\ Told(n, g) /\ Last(g) < n
        /\ \A j \in 1 .. Len(g) - 1 : n % g[j] # 0
    BY <1>4, <2>3, <2>4, GrownIs
  <2>6. Last(g) \in Nat /\ Last(g) >= 2 /\ Last(g) = g[Len(g)] /\ Len(g) \in Nat \ {0}
    BY <2>5, TableEntries DEF IsTable
  <2>7. ASSUME IsAPrime(n) PROVE n % Last(g) # 0
    BY <2>5, <2>6, <2>7, PrimeIsUndivided
  <2>8. ASSUME n % Last(g) # 0 PROVE IsAPrime(n)
    <3>1. Last(g) >= SqrtSup(n)
      BY <2>5, <2>8 DEF Told
    <3>2. \A j \in 1 .. Len(g) : n % g[j] # 0
      <4>1. \A j \in 1 .. Len(g) : j \in 1 .. Len(g) - 1 \/ j = Len(g)
        BY <2>6
      <4> QED
        BY <2>5, <2>6, <2>8, <4>1
    <3>3. \A p \in Last(g) + 1 .. n - 1 : p > SqrtSup(n)
      BY <1>4, <2>6, <3>1
    <3>4. Len(g) \in 1 .. Len(g)
      BY <2>6
    <3> QED
      BY <2>5, <3>2, <3>3, <3>4, UndividedIsPrime
  <2> QED
    BY <2>1, <2>5, <2>7, <2>8
<1> QED
  BY <1>5, <1>6

--------------------------------------------------------------------------------
(* The inductive invariant. *)

PrimeTypes ==
  /\ buff \in [PrimeClients -> Seq(Lines)]
  /\ reply \in [PrimeClients -> {None} \cup {<<r>> : r \in {"error", "true", "false"}}]
  /\ open \subseteq PrimeClients
  /\ asked \in [PrimeClients -> Seq(Lines)]
  /\ answered \in [PrimeClients -> Seq({"error", "true", "false"})]

(* A connection that goes on has an answer to every line but the last, and to   *)
(* that one when it is not writing, and then its buffer is empty: the next line *)
(* is read alone.                                                               *)
InTurn(c) ==
  /\ c \notin open => reply[c] = None
  /\ c \in open /\ reply[c] = None =>
       /\ buff[c] = <<>>
       /\ Len(answered[c]) = Len(asked[c])
       /\ \A i \in 1 .. Len(answered[c]) : answered[c][i] # "error"
  /\ reply[c] # None =>
       /\ Len(asked[c]) = Len(answered[c]) + 1
       /\ reply[c][1] = Expected(asked[c][Len(asked[c])])

(* AnswersRight of one connection.                                              *)
AnsweredRight(c) ==
  /\ Len(answered[c]) <= Len(asked[c])
  /\ \A i \in 1 .. Len(answered[c]) :
       /\ answered[c][i] = Expected(asked[c][i])
       /\ answered[c][i] = "error" => i = Len(asked[c])

PrimeIInv ==
  /\ PrimeTypes
  /\ IsTable(known)
  /\ \A c \in PrimeClients : InTurn(c) /\ AnsweredRight(c)

(* A table that starts with 2.                                                  *)
LEMMA FirstTable == IsTable(<<2>>)
<1>1. <<2>> \in Seq(Nat) /\ Len(<<2>>) = 1 /\ <<2>>[1] = 2 /\ Last(<<2>>) = 2
  BY DEF Last
<1>2. IsAPrime(2)
  BY DEF IsAPrime
<1> QED
  BY <1>1, <1>2 DEF IsTable

LEMMA InitPrimeIInv == PrimeInit => PrimeIInv
<1> SUFFICES ASSUME PrimeInit PROVE PrimeIInv
  OBVIOUS
<1>1. IsTable(known)
  BY FirstTable DEF PrimeInit
<1>2. PrimeTypes
  BY DEF PrimeInit, PrimeTypes, None
<1>3. \A c \in PrimeClients : InTurn(c) /\ AnsweredRight(c)
  BY DEF PrimeInit, InTurn, AnsweredRight, None
<1> QED
  BY <1>1, <1>2, <1>3 DEF PrimeIInv

(* A line is answered as it should be.                                          *)
LEMMA ResponseIs ==
  ASSUME Bertrand, NEW t, IsTable(t), NEW line \in Lines
  PROVE  /\ Response(line, t) = Expected(line)
         /\ Expected(line) \in {"error", "true", "false"}
         /\ IsTable(IF IsAsked(line) THEN TableAfter(line.n, t) ELSE t)
<1>1. line.kind \in {"malformed", "fraction", "integer"} /\ line.n \in Int
  BY PrimeAssumption
<1>2. IsAPrime(line.n) => line.n >= 2
  BY DEF IsAPrime
<1>3. CASE IsAsked(line)
  <2>1. line.n \in Nat /\ line.n >= 2 /\ line.kind = "integer"
    BY <1>1, <1>3 DEF IsAsked
  <2>2. (Verdict(line.n, t) <=> IsAPrime(line.n)) /\ IsTable(TableAfter(line.n, t))
    BY <2>1, VerdictIs
  <2> QED
    BY <1>3, <2>1, <2>2, Zenon DEF Response, Expected
<1>4. CASE ~ IsAsked(line)
  <2>1. line.kind = "integer" => ~ IsAPrime(line.n)
    BY <1>1, <1>2, <1>4 DEF IsAsked
  <2> QED
    BY <1>1, <1>4, <2>1 DEF Response, Expected
<1> QED
  BY <1>3, <1>4

(* Nothing changes for a connection whose state is left alone.                  *)
LEMMA OtherConnection ==
  ASSUME NEW c \in PrimeClients, InTurn(c), AnsweredRight(c),
         buff'[c] = buff[c], reply'[c] = reply[c], c \in open' <=> c \in open,
         asked'[c] = asked[c], answered'[c] = answered[c]
  PROVE  InTurn(c)' /\ AnsweredRight(c)'
BY DEF InTurn, AnsweredRight

LEMMA ReadPrimeIInv ==
  ASSUME Bertrand, PrimeIInv, NEW c \in PrimeClients, Read(c)
  PROVE  PrimeIInv'
<1>1. /\ c \in open /\ reply[c] = None
      /\ UNCHANGED <<open, answered>>
  BY DEF Read
<1>2. PrimeTypes /\ IsTable(known)
  BY DEF PrimeIInv
<1>3. /\ buff[c] = <<>> /\ Len(answered[c]) = Len(asked[c])
      /\ \A i \in 1 .. Len(answered[c]) : answered[c][i] # "error"
  BY <1>1 DEF PrimeIInv, InTurn
<1>4. PICK line \in Lines :
        /\ buff' = [buff EXCEPT ![c] = Append(buff[c], line)]
        /\ reply' = [reply EXCEPT ![c] = <<Response(RequestIn(Append(buff[c], line)), known)>>]
        /\ known' = IF IsAsked(RequestIn(Append(buff[c], line)))
                    THEN TableAfter(RequestIn(Append(buff[c], line)).n, known) ELSE known
        /\ asked' = [asked EXCEPT ![c] = Append(@, line)]
  BY Zenon DEF Read
<1>5. RequestIn(Append(buff[c], line)) = line
  BY <1>3 DEF RequestIn
<1> PICK r : r = Expected(line)
  OBVIOUS
<1>6. /\ Response(line, known) = r /\ r \in {"error", "true", "false"}
      /\ IsTable(IF IsAsked(line) THEN TableAfter(line.n, known) ELSE known)
  BY <1>2, ResponseIs
<1>7. IsTable(known')
  BY <1>4, <1>5, <1>6
<1>8. reply' = [reply EXCEPT ![c] = <<r>>]
  BY <1>4, <1>5, <1>6
<1>9. /\ Append(asked[c], line) \in Seq(Lines) /\ Append(buff[c], line) \in Seq(Lines)
      /\ Len(Append(asked[c], line)) = Len(asked[c]) + 1
      /\ Append(asked[c], line)[Len(asked[c]) + 1] = line
      /\ \A i \in 1 .. Len(asked[c]) : Append(asked[c], line)[i] = asked[c][i]
      /\ Len(asked[c]) \in Nat
  BY <1>2 DEF PrimeTypes
<1>10. PrimeTypes'
  <2>1. buff' \in [PrimeClients -> Seq(Lines)] /\ asked' \in [PrimeClients -> Seq(Lines)]
    BY <1>2, <1>4, <1>9, Zenon DEF PrimeTypes
  <2>2. reply' \in [PrimeClients -> {None} \cup {<<x>> : x \in {"error", "true", "false"}}]
    BY <1>2, <1>6, <1>8 DEF PrimeTypes
  <2> QED
    BY <1>1, <1>2, <2>1, <2>2 DEF PrimeTypes
<1>11. /\ buff'[c] = Append(buff[c], line) /\ reply'[c] = <<r>>
       /\ asked'[c] = Append(asked[c], line)
  BY <1>2, <1>4, <1>8 DEF PrimeTypes
<1>12. ASSUME NEW d \in PrimeClients PROVE InTurn(d)' /\ AnsweredRight(d)'
  <2>1. InTurn(d) /\ AnsweredRight(d)
    BY DEF PrimeIInv
  <2>2. CASE d # c
    <3>1. buff'[d] = buff[d] /\ reply'[d] = reply[d] /\ asked'[d] = asked[d]
      BY <1>2, <1>4, <2>2 DEF PrimeTypes
    <3> QED
      BY <1>1, <2>1, <3>1, OtherConnection
  <2>3. CASE d = c
    <3>1. InTurn(c)'
      BY <1>1, <1>3, <1>9, <1>11 DEF InTurn, None
    <3>2. \A i \in 1 .. Len(answered[c]) : answered[c][i] = Expected(asked[c][i])
      BY <2>1, <2>3 DEF AnsweredRight
    <3>3. AnsweredRight(c)'
      BY <1>1, <1>3, <1>9, <1>11, <3>2 DEF AnsweredRight
    <3> QED
      BY <2>3, <3>1, <3>3
  <2> QED
    BY <2>2, <2>3
<1> QED
  BY <1>7, <1>10, <1>12 DEF PrimeIInv

LEMMA WritePrimeIInv ==
  ASSUME PrimeIInv, NEW c \in PrimeClients, Write(c)
  PROVE  PrimeIInv'
<1>1. /\ reply[c] # None
      /\ answered' = [answered EXCEPT ![c] = @ \o reply[c]]
      /\ reply' = [reply EXCEPT ![c] = None]
      /\ IF reply[c] = <<"error">>
         THEN open' = open \ {c} /\ UNCHANGED buff
         ELSE buff' = [buff EXCEPT ![c] = <<>>] /\ UNCHANGED open
      /\ UNCHANGED <<known, asked>>
  BY DEF Write
<1>2. PrimeTypes /\ IsTable(known) /\ InTurn(c) /\ AnsweredRight(c)
  BY DEF PrimeIInv
<1>3. PICK r \in {"error", "true", "false"} : reply[c] = <<r>>
  BY <1>1, <1>2 DEF PrimeTypes
<1>4. c \in open
  BY <1>1, <1>2 DEF InTurn
<1> PICK n \in Nat : n = Len(answered[c])
  BY <1>2 DEF PrimeTypes
<1>5. /\ Len(asked[c]) = n + 1 /\ r = Expected(asked[c][n + 1])
  BY <1>1, <1>2, <1>3 DEF InTurn
<1> PICK u : u = answered[c] \o reply[c]
  OBVIOUS
<1>6. /\ u \in Seq({"error", "true", "false"}) /\ Len(u) = n + 1
      /\ u[n + 1] = r /\ \A i \in 1 .. n : u[i] = answered[c][i]
  BY <1>2, <1>3 DEF PrimeTypes
<1>7. answered'[c] = u /\ reply'[c] = None
  BY <1>1, <1>2 DEF PrimeTypes
<1>8. /\ \A d \in PrimeClients \ {c} :
           /\ buff'[d] = buff[d] /\ reply'[d] = reply[d] /\ asked'[d] = asked[d]
           /\ answered'[d] = answered[d] /\ (d \in open' <=> d \in open)
  BY <1>1, <1>2 DEF PrimeTypes
<1>9. PrimeTypes'
  <2>1. answered' \in [PrimeClients -> Seq({"error", "true", "false"})]
    BY <1>1, <1>2, <1>6 DEF PrimeTypes
  <2>2. reply' \in [PrimeClients -> {None} \cup {<<x>> : x \in {"error", "true", "false"}}]
    BY <1>1, <1>2 DEF PrimeTypes
  <2>3. buff' \in [PrimeClients -> Seq(Lines)]
    <3>1. [buff EXCEPT ![c] = <<>>] \in [PrimeClients -> Seq(Lines)]
      <4>1. <<>> \in Seq(Lines) /\ buff \in [PrimeClients -> Seq(Lines)]
        BY <1>2 DEF PrimeTypes
      <4> QED
        BY <4>1, Zenon
    <3> QED
      BY <1>1, <1>2, <3>1, Zenon DEF PrimeTypes
  <2>4. open' \subseteq PrimeClients
    BY <1>1, <1>2 DEF PrimeTypes
  <2> QED
    BY <1>1, <1>2, <2>1, <2>2, <2>3, <2>4 DEF PrimeTypes
<1>10. \A i \in 1 .. n + 1 : i \in 1 .. n \/ i = n + 1
  OBVIOUS
<1>11. \A i \in 1 .. n : answered[c][i] = Expected(asked[c][i]) /\ answered[c][i] # "error"
  BY <1>2, <1>5 DEF AnsweredRight
<1>12. AnsweredRight(c)'
  <2>1. \A i \in 1 .. n + 1 : u[i] = Expected(asked[c][i])
    BY <1>5, <1>6, <1>10, <1>11
  <2>2. \A i \in 1 .. n + 1 : u[i] = "error" => i = n + 1
    BY <1>6, <1>10, <1>11
  <2>3. Len(u) <= Len(asked[c]) /\ 1 .. Len(u) = 1 .. n + 1 /\ Len(asked[c]) = n + 1
    BY <1>5, <1>6
  <2>4. AnsweredRight(c)' <=>
          /\ Len(u) <= Len(asked[c])
          /\ \A i \in 1 .. Len(u) :
               u[i] = Expected(asked[c][i]) /\ (u[i] = "error" => i = Len(asked[c]))
    BY <1>1, <1>7, Zenon DEF AnsweredRight
  <2> QED
    BY <2>1, <2>2, <2>3, <2>4, Zenon
<1>13. InTurn(c)'
  <2>1. CASE r = "error"
    BY <1>1, <1>3, <1>7, <2>1 DEF InTurn
  <2>2. CASE r # "error"
    <3>1. reply[c] # <<"error">>
      BY <1>3, <2>2
    <3>2. buff'[c] = <<>> /\ open' = open
      BY <1>1, <1>2, <3>1 DEF PrimeTypes
    <3> QED
      BY <1>1, <1>4, <1>5, <1>6, <1>7, <1>10, <1>11, <2>2, <3>2 DEF InTurn
  <2> QED
    BY <2>1, <2>2
<1>14. ASSUME NEW d \in PrimeClients PROVE InTurn(d)' /\ AnsweredRight(d)'
  <2>1. CASE d # c
    BY <1>8, <2>1, OtherConnection DEF PrimeIInv
  <2>2. CASE d = c
    BY <1>12, <1>13, <2>2
  <2> QED
    BY <2>1, <2>2
<1> QED
  BY <1>1, <1>2, <1>9, <1>14 DEF PrimeIInv

LEMMA ClosePrimeIInv ==
  ASSUME PrimeIInv, NEW c \in PrimeClients, Close(c)
  PROVE  PrimeIInv'
<1>1. /\ open' = open \ {c} /\ reply' = [reply EXCEPT ![c] = None]
      /\ UNCHANGED <<known, buff, asked, answered>>
  BY DEF Close
<1>2. PrimeTypes /\ IsTable(known)
  BY DEF PrimeIInv
<1>3. reply'[c] = None /\ \A d \in PrimeClients \ {c} : reply'[d] = reply[d]
  BY <1>1, <1>2 DEF PrimeTypes
<1>4. PrimeTypes'
  BY <1>1, <1>2 DEF PrimeTypes
<1>5. ASSUME NEW d \in PrimeClients PROVE InTurn(d)' /\ AnsweredRight(d)'
  <2>1. CASE d # c
    BY <1>1, <1>3, <2>1, OtherConnection DEF PrimeIInv
  <2>2. CASE d = c
    <3>1. InTurn(c)'
      BY <1>1, <1>3 DEF InTurn
    <3>2. AnsweredRight(c)'
      BY <1>1 DEF PrimeIInv, AnsweredRight
    <3> QED
      BY <2>2, <3>1, <3>2
  <2> QED
    BY <2>1, <2>2
<1> QED
  BY <1>1, <1>2, <1>4, <1>5 DEF PrimeIInv

--------------------------------------------------------------------------------
(* Theorems *)

(* The table is one of primes, and every connection that goes on is about to    *)
(* read a line alone or to write the answer to the last one (main.rs:79-129).   *)
THEOREM PrimeInvariance == Bertrand => (PrimeSpec => []PrimeIInv)
<1> SUFFICES ASSUME Bertrand PROVE PrimeSpec => []PrimeIInv
  OBVIOUS
<1>1. PrimeInit => PrimeIInv
  BY InitPrimeIInv
<1>2. PrimeIInv /\ [PrimeNext]_primeVars => PrimeIInv'
  <2> SUFFICES ASSUME PrimeIInv, [PrimeNext]_primeVars PROVE PrimeIInv'
    OBVIOUS
  <2>1. ASSUME NEW c \in PrimeClients, Read(c) PROVE PrimeIInv'
    BY <2>1, ReadPrimeIInv
  <2>2. ASSUME NEW c \in PrimeClients, Write(c) PROVE PrimeIInv'
    BY <2>2, WritePrimeIInv
  <2>3. ASSUME NEW c \in PrimeClients, Close(c) PROVE PrimeIInv'
    BY <2>3, ClosePrimeIInv
  <2>4. CASE UNCHANGED primeVars
    BY <2>4 DEF primeVars, PrimeIInv, PrimeTypes, InTurn, AnsweredRight
  <2> QED
    BY <2>1, <2>2, <2>3, <2>4 DEF PrimeNext
<1> QED
  BY <1>1, <1>2, PTL DEF PrimeSpec

(* Whatever requests made the table grow, it has all primes up to its last      *)
(* entry, in order, and nothing else (primes.rs:24-44).                         *)
THEOREM TableOfPrimes == Bertrand => (PrimeSpec => []TableIsPrimes)
<1>1. PrimeIInv => TableIsPrimes
  <2> SUFFICES ASSUME IsTable(known) PROVE TableIsPrimes
    BY DEF PrimeIInv
  <2>1. \A i \in 1 .. Len(known) : known[i] \in 2 .. Last(known) /\ IsAPrime(known[i])
    BY TableEntries DEF IsTable
  <2>2. \A p \in 2 .. Last(known) : IsAPrime(p) => \E i \in 1 .. Len(known) : known[i] = p
    BY DEF IsTable
  <2>3. ToSet(known) = {known[i] : i \in 1 .. Len(known)}
    BY DEF IsTable, ToSet
  <2>4. ToSet(known) = {n \in 2 .. Last(known) : IsAPrime(n)}
    BY <2>1, <2>2, <2>3
  <2>5. \A i \in 1 .. Len(known) - 1 : known[i] < known[i + 1]
    BY DEF IsTable
  <2> QED
    BY <2>4, <2>5 DEF TableIsPrimes
<1> QED
  BY <1>1, PrimeInvariance, PTL

(* Every line of every connection gets the right answer, in order, whatever the *)
(* others asked before; nothing is answered after a malformed one               *)
(* (main.rs:79-129).                                                            *)
THEOREM EveryAnswerRight == Bertrand => (PrimeSpec => []AnswersRight)
<1>1. PrimeIInv => AnswersRight
  BY DEF PrimeIInv, AnsweredRight, AnswersRight
<1> QED
  BY <1>1, PrimeInvariance, PTL
================================================================================

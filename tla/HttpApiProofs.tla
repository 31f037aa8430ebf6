---------------------------- MODULE HttpApiProofs ----------------------------
(***************************************************************************)
(* Proofs about HttpApi, Money and LedgerReads, for any wallets, calls,    *)
(* messages, page sizes, entry ids, texts and MaxInt.                      *)
(*                                                                         *)
(* The first half is about data: folds over finite sets, sums, decimal     *)
(* digits and the sorted pages of a ledger.  Every induction there is by a *)
(* least counterexample, which the library states without an operator as   *)
(* its parameter.  The second half is about behaviours: the inductive      *)
(* invariant IndInv says that the ledgers are chains, that what was frozen *)
(* or read lies on them, that no two wagers have one identity, and how far *)
(* a client has come on its walk through the pages.                        *)
(***************************************************************************)
EXTENDS HttpApi, FiniteSetTheorems, SequenceTheorems, TLAPS

(***************************************************************************)
(* Induction.                                                              *)
(***************************************************************************)
\* A set of natural numbers has a least element.
LEMMA Least ==
  ASSUME NEW T, T \subseteq Nat, T # {}
  PROVE  \E n \in T : \A m \in T : n <= m
<1>1. IsWellFoundedOn(OpToRel(<, Nat), Nat)
  BY NatLessThanWellFounded
<1>2. PICK x \in T : \A y \in T : ~(<<y, x>> \in OpToRel(<, Nat))
  BY <1>1, WFMin
<1>3. \A y \in T : ~(y < x)
  BY <1>2 DEF OpToRel
<1>. QED  BY <1>3

\* The numbers from 1 to n.
LEMMA Interval ==
  ASSUME NEW n \in Nat
  PROVE  IsFiniteSet(1 .. n) /\ Cardinality(1 .. n) = n
BY FS_Interval

\* There is no infinite descent.
LEMMA Descent ==
  ASSUME NEW T, T \subseteq Nat, \A k \in T : \E j \in T : j < k
  PROVE  T = {}
<1>. SUFFICES ASSUME T # {}  PROVE FALSE
  OBVIOUS
<1>1. PICK n \in T : \A m \in T : n <= m
  BY Least
<1>. QED  BY <1>1

\* A collection of subsets of a finite set has a minimal member.
LEMMA Minimal ==
  ASSUME NEW S, IsFiniteSet(S), NEW T, T \subseteq SUBSET S, T # {}
  PROVE  \E s \in T : \A r \in T : r \subseteq s => r = s
<1>. DEFINE N == {Cardinality(s) : s \in T}
<1>1. \A s \in T : IsFiniteSet(s) /\ Cardinality(s) \in Nat
  BY FS_Subset, FS_CardinalityType
<1>2. N \subseteq Nat /\ N # {}
  BY <1>1
<1>3. PICK n \in N : \A m \in N : n <= m
  BY <1>2, Least
<1>4. PICK s \in T : Cardinality(s) = n
  OBVIOUS
<1>5. ASSUME NEW r \in T, r \subseteq s  PROVE  r = s
  <2>1. /\ Cardinality(r) <= Cardinality(s)
        /\ Cardinality(s) = Cardinality(r) => s = r
    BY <1>1, <1>5, FS_Subset
  <2>2. Cardinality(s) <= Cardinality(r)
    BY <1>3, <1>4
  <2>. QED  BY <1>1, <2>1, <2>2
<1>. QED  BY <1>5

(***************************************************************************)
(* The folds of the library over a finite set S: c gives every subset the  *)
(* element that is taken next, h combines it with the fold of the rest.    *)
(***************************************************************************)
Next1(g, s, base, c, h) == IF s = {} THEN base ELSE h[<<c[s], g[s \ {c[s]}]>>]

\* g is the fold on the subsets of u.
FoldOn(g, u, base, c, h, V) ==
  /\ g \in [SUBSET u -> V]
  /\ \A s \in SUBSET u : g[s] = Next1(g, s, base, c, h)

\* A choice of an element for every set that has one.
Chooses(c, S) == \A s \in SUBSET S : s # {} => c[s] \in s

\* Two folds agree where both are defined.
LEMMA FoldUnique ==
  ASSUME NEW S, IsFiniteSet(S), NEW V, NEW base, NEW c, NEW h, Chooses(c, S),
         NEW u \in SUBSET S, NEW v \in SUBSET S, NEW g, NEW k,
         FoldOn(g, u, base, c, h, V), FoldOn(k, v, base, c, h, V)
  PROVE  \A s \in SUBSET u : s \in SUBSET v => g[s] = k[s]
<1>. SUFFICES ASSUME NEW t \in SUBSET u, t \in SUBSET v, g[t] # k[t]  PROVE FALSE
  OBVIOUS
<1>. DEFINE T == {s \in SUBSET S : s \subseteq u /\ s \subseteq v /\ g[s] # k[s]}
<1>1. t \in T
  OBVIOUS
<1>2. PICK s \in T : \A r \in T : r \subseteq s => r = s
  <2>1. T \subseteq SUBSET S /\ T # {}
    BY <1>1
  <2>. HIDE DEF T
  <2>. QED  BY <2>1, Minimal
<1>3. g[s] = Next1(g, s, base, c, h) /\ k[s] = Next1(k, s, base, c, h)
  BY DEF FoldOn
<1>4. s # {}
  BY <1>3 DEF Next1
<1>5. c[s] \in s
  BY <1>4 DEF Chooses
<1>6. g[s \ {c[s]}] = k[s \ {c[s]}]
  BY <1>2, <1>5
<1>. QED  BY <1>3, <1>4, <1>6 DEF Next1

\* Every fold over a finite set exists.
LEMMA FoldExists ==
  ASSUME NEW S, IsFiniteSet(S), NEW V, NEW base \in V, NEW c, Chooses(c, S),
         NEW h \in [S \X V -> V]
  PROVE  \E g : FoldOn(g, S, base, c, h, V)
<1>. SUFFICES ASSUME ~\E g : FoldOn(g, S, base, c, h, V)  PROVE FALSE
  OBVIOUS
<1>. DEFINE T == {u \in SUBSET S : ~\E g : FoldOn(g, u, base, c, h, V)}
<1>1. S \in T
  OBVIOUS
<1>2. PICK u \in T : \A r \in T : r \subseteq u => r = u
  <2>1. T \subseteq SUBSET S /\ T # {}
    BY <1>1
  <2>. HIDE DEF T
  <2>. QED  BY <2>1, Minimal
<1>. DEFINE of(t) == CHOOSE g : FoldOn(g, t, base, c, h, V)
            at(t) == of(t)[t]
            g == [t \in SUBSET u |->
                    IF t # u THEN at(t)
                    ELSE IF u = {} THEN base ELSE h[<<c[u], at(u \ {c[u]})>>]]
<1>3. ASSUME NEW t \in SUBSET u, t # u
      PROVE  FoldOn(of(t), t, base, c, h, V)
  <2>1. t \notin T /\ t \in SUBSET S
    BY <1>2, <1>3
  <2>2. \E k : FoldOn(k, t, base, c, h, V)
    BY <2>1
  <2>. QED  BY <2>2
<1>. HIDE DEF of
<1>4. ASSUME NEW t \in SUBSET u, t # u
      PROVE  at(t) \in V /\ at(t) = IF t = {} THEN base ELSE h[<<c[t], at(t \ {c[t]})>>]
  <2>1. at(t) \in V /\ at(t) = Next1(of(t), t, base, c, h)
    <3>1. FoldOn(of(t), t, base, c, h, V) /\ t \in SUBSET t
      BY <1>3, <1>4
    <3>. QED  BY <3>1 DEF FoldOn
  <2>2. CASE t = {}
    BY <2>1, <2>2 DEF Next1
  <2>3. CASE t # {}
    <3>. DEFINE r == t \ {c[t]}
    <3>1. c[t] \in t /\ r \in SUBSET u /\ r # u /\ r \subseteq t
      BY <2>3 DEF Chooses
    <3>2. FoldOn(of(r), r, base, c, h, V) /\ FoldOn(of(t), t, base, c, h, V)
      BY <1>3, <1>4, <3>1
    <3>3. of(t)[r] = of(r)[r]
      <4>. HIDE DEF r
      <4>. QED  BY <3>1, <3>2, FoldUnique
    <3>. QED  BY <2>1, <2>3, <3>3 DEF Next1
  <2>. QED  BY <2>2, <2>3
<1>. HIDE DEF at
<1>5. g \in [SUBSET u -> V]
  <2>1. u # {} => c[u] \in u /\ u \ {c[u]} # u
    BY DEF Chooses
  <2>2. u # {} => <<c[u], at(u \ {c[u]})>> \in S \X V
    BY <1>4, <2>1
  <2>. QED  BY <1>4, <2>2
<1>6. ASSUME NEW t \in SUBSET u  PROVE  g[t] = Next1(g, t, base, c, h)
  <2>1. t # {} => c[t] \in t /\ t \ {c[t]} \in SUBSET u /\ t \ {c[t]} # u
    BY DEF Chooses
  <2>2. t # {} => g[t \ {c[t]}] = at(t \ {c[t]})
    BY <2>1
  <2>3. CASE t # u
    BY <1>4, <2>2, <2>3 DEF Next1
  <2>4. CASE t = u
    BY <2>2, <2>4 DEF Next1
  <2>. QED  BY <2>3, <2>4
<1>7. FoldOn(g, u, base, c, h, V)
  <2>. HIDE DEF g
  <2>. QED  BY <1>5, <1>6 DEF FoldOn
<1>. QED  BY <1>7


(***************************************************************************)
(* Sums.                                                                   *)
(***************************************************************************)
Picked(s) == CHOOSE x \in s : TRUE

\* g gives every subset of S the sum of f over it, taken one element after the other.
SumStep(g, s, f) == IF s = {} THEN 0 ELSE f[Picked(s)] + g[s \ {Picked(s)}]
SumOn(g, S, f) ==
  /\ g \in [SUBSET S -> Int]
  /\ \A s \in SUBSET S : g[s] = SumStep(g, s, f)
SumEq(g, S, f) == g = [s \in SUBSET S |-> SumStep(g, s, f)]

\* And it is the only function that does.
LEMMA SumUnique ==
  ASSUME NEW S, IsFiniteSet(S), NEW f, NEW g, SumOn(g, S, f), NEW k, SumEq(k, S, f)
  PROVE  k = g
<1>. DEFINE T == {s \in SUBSET S : g[s] # k[s]}
<1>1. T = {}
  <2>. SUFFICES ASSUME T # {}  PROVE FALSE
    OBVIOUS
  <2>1. PICK s \in T : \A r \in T : r \subseteq s => r = s
    <3>1. T \subseteq SUBSET S
      OBVIOUS
    <3>. HIDE DEF T
    <3>. QED  BY <3>1, Minimal
  <2>2. g[s] = SumStep(g, s, f) /\ k[s] = SumStep(k, s, f)
    BY DEF SumOn, SumEq
  <2>3. s # {}
    BY <2>2 DEF SumStep
  <2>4. Picked(s) \in s
    BY <2>3 DEF Picked
  <2>5. g[s \ {Picked(s)}] = k[s \ {Picked(s)}]
    BY <2>1, <2>4
  <2>. QED  BY <2>2, <2>3, <2>5 DEF SumStep
<1>2. \A s \in SUBSET S : g[s] = k[s]
  BY <1>1
<1>. QED  BY <1>2 DEF SumOn, SumEq

\* Sums over a finite set exist.
LEMMA SumExists ==
  ASSUME NEW S, IsFiniteSet(S), NEW f \in [S -> Int]
  PROVE  \E g : SumOn(g, S, f)
<1>. DEFINE c == [s \in SUBSET S |-> Picked(s)]
            h == [p \in S \X Int |-> f[p[1]] + p[2]]
<1>1. \A s \in SUBSET S : s # {} => Picked(s) \in s
  BY DEF Picked
<1>2. Chooses(c, S)
  BY <1>1 DEF Chooses
<1>3. h \in [S \X Int -> Int]
  OBVIOUS
<1>4. PICK g : FoldOn(g, S, 0, c, h, Int)
  <2>1. 0 \in Int
    OBVIOUS
  <2>. HIDE DEF c, h
  <2>. QED  BY <1>2, <1>3, <2>1, FoldExists
<1>5. ASSUME NEW s \in SUBSET S, s # {}
      PROVE  g[s] = f[Picked(s)] + g[s \ {Picked(s)}]
  <2>1. s \ {Picked(s)} \in SUBSET S /\ c[s] = Picked(s) /\ Picked(s) \in S
    BY <1>1, <1>5
  <2>2. g[s] = h[<<Picked(s), g[s \ {Picked(s)}]>>] /\ g[s \ {Picked(s)}] \in Int
    <3>. HIDE DEF c, h
    <3>. QED  BY <1>4, <1>5, <2>1 DEF FoldOn, Next1
  <2>. QED  BY <2>1, <2>2
<1>6. {} \in SUBSET S /\ g[{}] = 0 /\ g \in [SUBSET S -> Int]
  BY <1>4 DEF FoldOn, Next1
<1>. QED  BY <1>5, <1>6 DEF SumOn, SumStep

Splits(g, S, f) == \A u \in SUBSET S : \A z \in u : g[u] = f[z] + g[u \ {z}]

\* Any element may be taken out of a sum.
LEMMA SumRemove ==
  ASSUME NEW S, IsFiniteSet(S), NEW f \in [S -> Int], NEW g, SumOn(g, S, f)
  PROVE  Splits(g, S, f)
<1>. DEFINE Bad(s) == \E x \in s : g[s] # f[x] + g[s \ {x}]
            T == {s \in SUBSET S : Bad(s)}
<1>. SUFFICES ASSUME NEW u \in SUBSET S, Bad(u)  PROVE FALSE
  BY DEF Splits
<1>1. PICK s \in T : \A r \in T : r \subseteq s => r = s
  <2>1. T \subseteq SUBSET S /\ T # {}
    OBVIOUS
  <2>. HIDE DEF T
  <2>. QED  BY <2>1, Minimal
<1>2. PICK x \in s : g[s] # f[x] + g[s \ {x}]
  OBVIOUS
<1>. DEFINE y == Picked(s)
<1>3. y \in s /\ s \in SUBSET S
  BY DEF Picked
<1>. HIDE DEF y
<1>4. g[s] = f[y] + g[s \ {y}]
  BY <1>3 DEF SumOn, SumStep, y
<1>5. x # y
  BY <1>2, <1>4
<1>. DEFINE sx == s \ {x}
            sy == s \ {y}
            sxy == sx \ {y}
<1>6. /\ sx \in SUBSET S /\ sy \in SUBSET S /\ sxy \in SUBSET S /\ sy \ {x} = sxy
      /\ x \in sy /\ y \in sx /\ sx # s /\ sy # s /\ x \in S /\ y \in S
  BY <1>3, <1>5
<1>7. sx \notin T /\ sy \notin T
  BY <1>1, <1>6
<1>8. g[sy] = f[x] + g[sxy] /\ g[sx] = f[y] + g[sxy]
  BY <1>6, <1>7
<1>9. g[sxy] \in Int /\ f[x] \in Int /\ f[y] \in Int
  BY <1>6 DEF SumOn
<1>10. g[s] = f[y] + g[sy] /\ g[s] # f[x] + g[sx]
  BY <1>2, <1>4
<1>. HIDE DEF sx, sy, sxy
<1>. QED  BY <1>8, <1>9, <1>10

\* F are the partial sums of f over the numbers of S up to n.
Partial(F, n, S, f) ==
  /\ F \in [0 .. n -> Int] /\ F[0] = 0
  /\ \A k \in 1 .. n : F[k] = F[k - 1] + (IF k \in S THEN f[k] ELSE 0)

\* A sum over a set of numbers up to n is the last of its partial sums.
LEMMA SumUpTo ==
  ASSUME NEW n \in Nat, NEW S, S \subseteq 1 .. n, NEW f \in [S -> Int],
         NEW g, SumOn(g, S, f), NEW F, Partial(F, n, S, f)
  PROVE  g[S] = F[n]
<1>. DEFINE to(k) == S \cap (1 .. k)
            T == {k \in 0 .. n : g[to(k)] # F[k]}
<1>1. IsFiniteSet(S)
  <2>1. IsFiniteSet(1 .. n)
    BY FS_Interval
  <2>. QED  BY <2>1, FS_Subset
<1>0. \A x \in S : x \in Int /\ 1 <= x /\ x <= n
  OBVIOUS
<1>2. ASSUME NEW k \in 0 .. n, k \notin S  PROVE  to(k) = to(k - 1)
  BY <1>2
<1>3. ASSUME NEW k \in S  PROVE  to(k) \in SUBSET S /\ k \in to(k) /\ to(k) \ {k} = to(k - 1)
  <2>1. \A x \in S : x \in 1 .. k /\ x # k <=> x \in 1 .. k - 1
    BY <1>0
  <2>2. k \in to(k)
    BY <1>0
  <2>. QED  BY <2>1, <2>2
<1>4. to(0) = {} /\ to(n) = S
  <2>1. \A x \in S : x \notin 1 .. 0 /\ x \in 1 .. n
    BY <1>0
  <2>. QED  BY <2>1
<1>. HIDE DEF to
<1>10. \A u \in SUBSET S : \A z \in u : g[u] = f[z] + g[u \ {z}]
  <2>1. Splits(g, S, f)
    BY <1>1, SumRemove
  <2>. QED  BY <2>1 DEF Splits
<1>5. g[to(0)] = F[0]
  BY <1>4 DEF SumOn, SumStep, Partial
<1>6. ASSUME NEW k \in 1 .. n, g[to(k - 1)] = F[k - 1]  PROVE  g[to(k)] = F[k]
  <2>1. F[k] = F[k - 1] + (IF k \in S THEN f[k] ELSE 0) /\ F[k - 1] \in Int
    BY DEF Partial
  <2>2. CASE k \in S
    <3>1. g[to(k)] = f[k] + g[to(k - 1)]
      <4>1. to(k) \in SUBSET S /\ k \in to(k) /\ to(k) \ {k} = to(k - 1)
        BY <1>3, <2>2
      <4>2. g[to(k)] = f[k] + g[to(k) \ {k}]
        BY <1>10, <4>1, Zenon
      <4>. QED  BY <4>1, <4>2
    <3>2. f[k] \in Int
      BY <2>2
    <3>. QED  BY <1>6, <2>1, <2>2, <3>1, <3>2
  <2>3. CASE k \notin S
    BY <1>2, <1>6, <2>1, <2>3
  <2>. QED  BY <2>2, <2>3
<1>7. \A k \in T : \E j \in T : j < k
  <2>. SUFFICES ASSUME NEW k \in T  PROVE k - 1 \in T
    OBVIOUS
  <2>1. k # 0
    BY <1>5
  <2>. QED  BY <1>6, <2>1
<1>8. T \subseteq Nat
  OBVIOUS
<1>9. T = {}
  <2>. HIDE DEF T
  <2>. QED  BY <1>7, <1>8, Descent
<1>. QED  BY <1>4, <1>9

\* The fold behind LedgerTotal.
LedgerFold(g, w) ==
  g = [s \in SUBSET DOMAIN ledger[w] |->
         IF s = {} THEN 0
         ELSE Signed(ledger[w][CHOOSE x \in s : TRUE]) + g[s \ {CHOOSE x \in s : TRUE}]]

\* F are the partial sums of the first n entries of a ledger.
Running(F, w, n) ==
  /\ F \in [0 .. n -> Int] /\ F[0] = 0
  /\ \A k \in 1 .. n : F[k] = F[k - 1] + Signed(ledger[w][k])

\* LedgerTotal is the last of the partial sums F of a ledger.
LEMMA LedgerSum ==
  ASSUME NEW w, NEW n \in Nat, DOMAIN ledger[w] = 1 .. n,
         \A i \in 1 .. n : Signed(ledger[w][i]) \in Int, NEW F, Running(F, w, n)
  PROVE  LedgerTotal(w) = F[n]
<1>. DEFINE S == DOMAIN ledger[w]
            f == [i \in S |-> Signed(ledger[w][i])]
<1>1. S = 1 .. n /\ S \subseteq 1 .. n /\ f \in [S -> Int] /\ IsFiniteSet(S)
  <2>1. IsFiniteSet(1 .. n)
    BY Interval
  <2>. QED  BY <2>1
<1>2. PICK g : SumOn(g, S, f)
  <2>. HIDE DEF S, f
  <2>. QED  BY <1>1, SumExists
<1>3. ASSUME NEW k  PROVE  LedgerFold(k, w) <=> k = [s \in SUBSET S |-> SumStep(k, s, f)]
  <2>. DEFINE A(s) == IF s = {} THEN 0 ELSE Signed(ledger[w][Picked(s)]) + k[s \ {Picked(s)}]
  <2>1. ASSUME NEW s \in SUBSET S  PROVE  A(s) = SumStep(k, s, f)
    <3>1. s # {} => Picked(s) \in S
      BY DEF Picked
    <3>. QED  BY <3>1 DEF SumStep
  <2>2. LedgerFold(k, w) <=> k = [s \in SUBSET S |-> A(s)]
    BY Zenon DEF LedgerFold, Picked
  <2>. HIDE DEF A, f, S
  <2>3. [s \in SUBSET S |-> A(s)] = [s \in SUBSET S |-> SumStep(k, s, f)]
    BY <2>1
  <2>. QED  BY <2>2, <2>3
<1>. DEFINE h == CHOOSE k : LedgerFold(k, w)
<1>4. LedgerFold(h, w)
  <2>1. g = [s \in SUBSET S |-> SumStep(g, s, f)]
    BY <1>2 DEF SumOn
  <2>. QED  BY <1>3, <2>1
<1>5. LedgerTotal(w) = h[S]
  BY DEF LedgerTotal, MapThenSumSet, MapThenFoldSet, LedgerFold
<1>. HIDE DEF h
<1>6. h = g
  <2>1. SumEq(h, S, f)
    BY <1>3, <1>4 DEF SumEq
  <2>. HIDE DEF S, f
  <2>. QED  BY <1>1, <1>2, <2>1, SumUnique
<1>7. Partial(F, n, S, f)
  BY <1>1 DEF Partial, Running
<1>8. g[S] = F[n]
  <2>. HIDE DEF S, f
  <2>. QED  BY <1>1, <1>2, <1>7, SumUpTo
<1>. QED  BY <1>5, <1>6, <1>8

(***************************************************************************)
(* Decimal digits.                                                         *)
(***************************************************************************)
\* The greatest of some numbers from 1 to n.
LEMMA Greatest ==
  ASSUME NEW n \in Nat, NEW S, S \subseteq 1 .. n, S # {}
  PROVE  Max(S) \in S /\ \A y \in S : Max(S) >= y
<1>. DEFINE T == {n - x : x \in S}
<1>1. \A x \in S : x \in Int /\ x <= n
  OBVIOUS
<1>2. T \subseteq Nat /\ T # {}
  <2>1. \A x \in S : n - x \in Nat
    BY <1>1
  <2>2. PICK x \in S : TRUE
    OBVIOUS
  <2>3. n - x \in T
    OBVIOUS
  <2>. HIDE DEF T
  <2>4. T \subseteq Nat
    BY <2>1 DEF T
  <2>. QED  BY <2>3, <2>4
<1>3. PICK m \in T : \A k \in T : m <= k
  <2>. HIDE DEF T
  <2>. QED  BY <1>2, Least
<1>4. PICK x \in S : m = n - x
  OBVIOUS
<1>5. ASSUME NEW y \in S  PROVE  x >= y
  <2>1. m <= n - y
    BY <1>3
  <2>. QED  BY <1>1, <1>4, <2>1
<1>. QED  BY <1>5 DEF Max

\* The fold behind Value.
DigitFold(g, d) ==
  g = [s \in SUBSET DOMAIN d |-> IF s = {} THEN 0 ELSE 10 * g[s \ {Max(s)}] + d[Max(s)]]

\* v[k] is the number that the first k digits stand for.
Horner(v, d, n) ==
  /\ v \in [0 .. n -> Nat] /\ v[0] = 0
  /\ \A k \in 1 .. n : v[k] = 10 * v[k - 1] + d[k]

Digits(d, n) == DOMAIN d = 1 .. n /\ \A i \in 1 .. n : d[i] \in Nat

\* Such a fold exists.
LEMMA DigitFoldExists ==
  ASSUME NEW n \in Nat, NEW d, Digits(d, n)
  PROVE  \E g : DigitFold(g, d)
<1>. DEFINE S == DOMAIN d
            c == [s \in SUBSET S |-> Max(s)]
            h == [p \in S \X Nat |-> 10 * p[2] + d[p[1]]]
<1>1. S = 1 .. n /\ S \subseteq 1 .. n /\ IsFiniteSet(S)
  BY Interval DEF Digits
<1>2. \A s \in SUBSET S : s # {} => Max(s) \in s
  BY <1>1, Greatest
<1>3. Chooses(c, S)
  BY <1>2 DEF Chooses
<1>4. h \in [S \X Nat -> Nat]
  BY DEF Digits
<1>5. PICK g : FoldOn(g, S, 0, c, h, Nat)
  <2>1. 0 \in Nat
    OBVIOUS
  <2>. HIDE DEF S, c, h
  <2>. QED  BY <1>1, <1>3, <1>4, <2>1, FoldExists
<1>. DEFINE A(s) == IF s = {} THEN 0 ELSE 10 * g[s \ {Max(s)}] + d[Max(s)]
<1>6. ASSUME NEW s \in SUBSET S  PROVE  g[s] = A(s)
  <2>1. CASE s = {}
    BY <1>5, <2>1 DEF FoldOn, Next1
  <2>2. CASE s # {}
    <3>1. s \ {Max(s)} \in SUBSET S /\ c[s] = Max(s) /\ Max(s) \in S
      BY <1>2, <2>2
    <3>2. g[s] = h[<<Max(s), g[s \ {Max(s)}]>>] /\ g[s \ {Max(s)}] \in Nat
      <4>. HIDE DEF c, h
      <4>. QED  BY <1>5, <2>2, <3>1 DEF FoldOn, Next1
    <3>. QED  BY <2>2, <3>1, <3>2
  <2>. QED  BY <2>1, <2>2
<1>7. g = [s \in SUBSET S |-> A(s)]
  <2>1. g \in [SUBSET S -> Nat]
    BY <1>5 DEF FoldOn
  <2>. HIDE DEF A, S
  <2>. QED  BY <1>6, <2>1
<1>. QED  BY <1>7 DEF DigitFold

\* Value reads its digits from the left.
LEMMA ValueReads ==
  ASSUME NEW n \in Nat, NEW d, Digits(d, n)
  PROVE  \E v : Horner(v, d, n) /\ Value(d) = v[n]
<1>. DEFINE h == CHOOSE g : DigitFold(g, d)
            v == [k \in 0 .. n |-> h[1 .. k]]
<1>1. DigitFold(h, d)
  BY DigitFoldExists
<1>2. Value(d) = h[DOMAIN d]
  BY DEF Value, FoldLeft, MapThenFoldSet, DigitFold
<1>. HIDE DEF h
<1>3. v[n] = Value(d)
  BY <1>2 DEF Digits
<1>4. ASSUME NEW k \in 1 .. n  PROVE  v[k] = 10 * v[k - 1] + d[k]
  <2>. DEFINE s == 1 .. k
  <2>1. s \subseteq 1 .. n /\ s # {} /\ k \in s /\ s \in SUBSET DOMAIN d
    BY DEF Digits
  <2>2. Max(s) \in s /\ Max(s) >= k
    <3>. HIDE DEF s
    <3>. QED  BY <2>1, Greatest
  <2>3. Max(s) = k
    BY <2>2
  <2>4. s \ {k} = 1 .. k - 1
    OBVIOUS
  <2>5. h[s] = 10 * h[s \ {Max(s)}] + d[Max(s)]
    <3>. HIDE DEF s
    <3>. QED  BY <1>1, <2>1 DEF DigitFold
  <2>6. v[k] = h[s] /\ v[k - 1] = h[1 .. k - 1]
    OBVIOUS
  <2>. HIDE DEF s, v
  <2>. QED  BY <2>3, <2>4, <2>5, <2>6
<1>5. v[0] = 0
  <2>1. 1 .. 0 = {} /\ {} \in SUBSET DOMAIN d
    OBVIOUS
  <2>2. h[{}] = 0
    BY <1>1, <2>1 DEF DigitFold
  <2>. QED  BY <2>1, <2>2
<1>6. DOMAIN v = 0 .. n /\ v = [k \in 0 .. n |-> v[k]]
  OBVIOUS
<1>. HIDE DEF v
<1>7. \A k \in 0 .. n : v[k] \in Nat
  <2>. DEFINE T == {k \in 0 .. n : v[k] \notin Nat}
  <2>1. ASSUME NEW k \in T  PROVE  \E j \in T : j < k
    <3>1. k # 0
      BY <1>5
    <3>2. k \in 1 .. n /\ v[k] = 10 * v[k - 1] + d[k] /\ d[k] \in Nat
      BY <1>4, <3>1 DEF Digits
    <3>3. k - 1 \in T
      BY <3>2
    <3>. QED  BY <3>3
  <2>2. T \subseteq Nat
    OBVIOUS
  <2>3. T = {}
    <3>. HIDE DEF T
    <3>. QED  BY <2>1, <2>2, Descent
  <2>. QED  BY <2>3
<1>8. Horner(v, d, n)
  BY <1>4, <1>5, <1>6, <1>7 DEF Horner
<1>. QED  BY <1>3, <1>8

\* What the first k digits stand for depends on these digits only.
LEMMA HornerUnique ==
  ASSUME NEW n \in Nat, NEW m \in Nat, NEW d, NEW e, NEW v, NEW u,
         Horner(v, d, n), Horner(u, e, m), NEW k \in Nat, k <= n, k <= m,
         \A i \in 1 .. k : d[i] = e[i]
  PROVE  v[k] = u[k]
<1>. DEFINE T == {j \in 0 .. k : v[j] # u[j]}
<1>1. ASSUME NEW j \in T  PROVE  \E i \in T : i < j
  <2>1. j # 0
    BY DEF Horner
  <2>2. j \in 1 .. n /\ j \in 1 .. m /\ j \in 1 .. k
    BY <2>1
  <2>3. v[j] = 10 * v[j - 1] + d[j] /\ u[j] = 10 * u[j - 1] + e[j] /\ d[j] = e[j]
    BY <2>2 DEF Horner
  <2>4. j - 1 \in T
    BY <2>2, <2>3
  <2>. QED  BY <2>4
<1>2. T \subseteq Nat
  OBVIOUS
<1>3. T = {}
  <2>. HIDE DEF T
  <2>. QED  BY <1>1, <1>2, Descent
<1>. QED  BY <1>3

(***************************************************************************)
(* Recursive functions on the natural numbers: b gives the values on B, p  *)
(* the smaller argument, h the value from the argument and the value at    *)
(* the smaller one.                                                        *)
(***************************************************************************)
Rec(f, n, B, b, p, h) == IF n \in B THEN b[n] ELSE h[<<n, f[p[n]]>>]

RecOn(f, m, V, B, b, p, h) ==
  /\ f \in [0 .. m -> V]
  /\ \A n \in 0 .. m : f[n] = Rec(f, n, B, b, p, h)

Falls(B, p) == /\ p \in [Nat -> Nat]
               /\ \A n \in Nat : n \notin B => p[n] < n

\* Two functions that follow the recursion agree where both are defined.
LEMMA RecUnique ==
  ASSUME NEW V, NEW B, NEW b, NEW p, NEW h, Falls(B, p),
         NEW m \in Nat, NEW k \in Nat, NEW f, NEW g,
         RecOn(f, m, V, B, b, p, h), RecOn(g, k, V, B, b, p, h),
         NEW x \in Nat, x <= m, x <= k
  PROVE  f[x] = g[x]
<1>. DEFINE T == {n \in Nat : n <= m /\ n <= k /\ f[n] # g[n]}
<1>1. ASSUME NEW n \in T  PROVE  \E j \in T : j < n
  <2>1. n \in 0 .. m /\ n \in 0 .. k
    OBVIOUS
  <2>2. f[n] = Rec(f, n, B, b, p, h) /\ g[n] = Rec(g, n, B, b, p, h)
    BY <2>1 DEF RecOn
  <2>3. n \notin B /\ f[p[n]] # g[p[n]]
    BY <2>2 DEF Rec
  <2>4. p[n] \in Nat /\ p[n] < n
    BY <2>3 DEF Falls
  <2>5. p[n] \in T
    BY <2>1, <2>3, <2>4
  <2>. QED  BY <2>4, <2>5
<1>2. T \subseteq Nat
  OBVIOUS
<1>3. T = {}
  <2>. HIDE DEF T
  <2>. QED  BY <1>1, <1>2, Descent
<1>. QED  BY <1>3

\* The recursion can be followed up to any number.
LEMMA RecUpTo ==
  ASSUME NEW V, NEW B, NEW b \in [Nat -> V], NEW p, NEW h \in [Nat \X V -> V], Falls(B, p)
  PROVE  \A m \in Nat : \E f : RecOn(f, m, V, B, b, p, h)
<1>. DEFINE T == {m \in Nat : ~\E f : RecOn(f, m, V, B, b, p, h)}
<1>1. ASSUME NEW m \in T  PROVE  \E j \in T : j < m
  <2>0. m \in Nat
    OBVIOUS
  <2>1. ASSUME NEW f, m > 0, RecOn(f, m - 1, V, B, b, p, h)
        PROVE  FALSE
    <3>. DEFINE g == [n \in 0 .. m |-> IF n = m THEN Rec(f, m, B, b, p, h) ELSE f[n]]
    <3>1. \A n \in 0 .. m - 1 : f[n] \in V /\ f[n] = Rec(f, n, B, b, p, h) /\ g[n] = f[n]
      BY <2>0, <2>1 DEF RecOn
    <3>2. \A n \in 0 .. m : n \notin B => p[n] \in 0 .. m - 1
      BY <2>0, <2>1 DEF Falls
    <3>3. Rec(f, m, B, b, p, h) \in V
      <4>1. CASE m \in B
        BY <2>0, <4>1 DEF Rec
      <4>2. CASE m \notin B
        <5>0. m \in 0 .. m
          BY <2>0
        <5>1. f[p[m]] \in V
          BY <5>0, <3>1, <3>2, <4>2
        <5>. QED  BY <2>0, <4>2, <5>1 DEF Rec
      <4>. QED  BY <4>1, <4>2
    <3>4. g \in [0 .. m -> V]
      <4>1. \A n \in 0 .. m : n # m => n \in 0 .. m - 1
        BY <2>0
      <4>. QED  BY <3>1, <3>3, <4>1
    <3>5. ASSUME NEW n \in 0 .. m  PROVE  g[n] = Rec(g, n, B, b, p, h)
      <4>1. g[n] = Rec(f, n, B, b, p, h)
        <5>1. n # m => n \in 0 .. m - 1
          BY <2>0
        <5>. QED  BY <3>1, <5>1
      <4>2. n \notin B => g[p[n]] = f[p[n]]
        BY <3>1, <3>2
      <4>. HIDE DEF g
      <4>. QED  BY <4>1, <4>2 DEF Rec
    <3>. HIDE DEF g
    <3>6. RecOn(g, m, V, B, b, p, h)
      BY <3>4, <3>5 DEF RecOn
    <3>. QED  BY <3>6
  <2>2. m # 0
    <3>. SUFFICES ASSUME m = 0  PROVE FALSE
      OBVIOUS
    <3>1. 0 \in B
      BY DEF Falls
    <3>. DEFINE g == [n \in 0 .. 0 |-> b[0]]
    <3>2. RecOn(g, 0, V, B, b, p, h)
      BY <3>1 DEF RecOn, Rec
    <3>. QED  BY <3>2
  <2>3. m - 1 \in Nat /\ m - 1 < m
    BY <2>0, <2>2
  <2>4. m - 1 \in T
    BY <2>0, <2>1, <2>2, <2>3
  <2>. QED  BY <2>3, <2>4
<1>2. T \subseteq Nat
  OBVIOUS
<1>3. T = {}
  <2>. HIDE DEF T
  <2>. QED  BY <1>1, <1>2, Descent
<1>. QED  BY <1>3

Follows(f, V, B, b, p, h) ==
  /\ f \in [Nat -> V]
  /\ \A n \in Nat : f[n] = Rec(f, n, B, b, p, h)

\* So there is a function that follows it everywhere.
LEMMA RecExists ==
  ASSUME NEW V, NEW B, NEW b \in [Nat -> V], NEW p, NEW h \in [Nat \X V -> V], Falls(B, p)
  PROVE  \E f : Follows(f, V, B, b, p, h)
<1>. DEFINE of(n) == CHOOSE f : RecOn(f, n, V, B, b, p, h)
            F == [n \in Nat |-> of(n)[n]]
<1>1. \A n \in Nat : RecOn(of(n), n, V, B, b, p, h)
  BY RecUpTo
<1>. HIDE DEF of
<1>2. \A n \in Nat : of(n)[n] \in V /\ of(n)[n] = Rec(of(n), n, B, b, p, h)
  <2>. TAKE n \in Nat
  <2>1. RecOn(of(n), n, V, B, b, p, h) /\ n \in 0 .. n
    BY <1>1
  <2>. QED  BY <2>1 DEF RecOn
<1>3. F \in [Nat -> V]
  BY <1>2
<1>4. ASSUME NEW n \in Nat  PROVE  F[n] = Rec(F, n, B, b, p, h)
  <2>1. F[n] = Rec(of(n), n, B, b, p, h)
    BY <1>2
  <2>2. CASE n \in B
    BY <2>1, <2>2 DEF Rec
  <2>3. CASE n \notin B
    <3>1. p[n] \in Nat /\ p[n] < n
      BY <2>3 DEF Falls
    <3>2. of(n)[p[n]] = of(p[n])[p[n]]
      <4>. DEFINE x == p[n]
                  f == of(n)
                  g == of(x)
      <4>1. RecOn(f, n, V, B, b, p, h) /\ RecOn(g, x, V, B, b, p, h)
        BY <1>1, <3>1
      <4>2. x \in Nat /\ x <= n /\ x <= x
        BY <3>1
      <4>. HIDE DEF x, f, g
      <4>3. f[x] = g[x]
        BY <4>1, <4>2, RecUnique
      <4>. QED  BY <4>3 DEF x, f, g
    <3>3. F[p[n]] = of(n)[p[n]]
      BY <3>1, <3>2
    <3>. QED  BY <2>1, <2>3, <3>3 DEF Rec
  <2>. QED  BY <2>2, <2>3
<1>. HIDE DEF F
<1>5. Follows(F, V, B, b, p, h)
  BY <1>3, <1>4 DEF Follows
<1>. QED  BY <1>5

\* FormatInt follows its recursion.
LEMMA FormatIntStep ==
  \A n \in Nat : FormatInt[n] = IF n < 10 THEN <<n>> ELSE Append(FormatInt[n \div 10], n % 10)
<1>. DEFINE V == Seq(Nat)
            B == 0 .. 9
            b == [n \in Nat |-> <<n>>]
            p == [n \in Nat |-> n \div 10]
            h == [x \in Nat \X V |-> Append(x[2], x[1] % 10)]
            Eq(f) == f = [n \in Nat |-> IF n < 10 THEN <<n>> ELSE Append(f[n \div 10], n % 10)]
<1>1. \A n \in Nat : n \div 10 \in Nat /\ n % 10 \in Nat /\ (n >= 10 => n \div 10 < n)
  OBVIOUS
<1>2. Falls(B, p)
  BY <1>1 DEF Falls
<1>3. b \in [Nat -> V]
  OBVIOUS
<1>4. h \in [Nat \X V -> V]
  BY <1>1
<1>5. PICK f : Follows(f, V, B, b, p, h)
  <2>. HIDE DEF V, B, b, p, h
  <2>. QED  BY <1>2, <1>3, <1>4, RecExists
<1>0. f \in [Nat -> V]
  BY <1>5 DEF Follows
<1>6. \A n \in Nat : f[n] = IF n < 10 THEN <<n>> ELSE Append(f[n \div 10], n % 10)
  <2>. SUFFICES ASSUME NEW n \in Nat
                PROVE  f[n] = IF n < 10 THEN <<n>> ELSE Append(f[n \div 10], n % 10)
    OBVIOUS
  <2>1. f[n] = IF n \in B THEN b[n] ELSE h[<<n, f[p[n]]>>]
    BY <1>5 DEF Rec, Follows
  <2>2. n \in B <=> n < 10
    OBVIOUS
  <2>3. b[n] = <<n>> /\ p[n] = n \div 10
    OBVIOUS
  <2>4. f[n \div 10] \in V
    BY <1>1, <1>5 DEF Follows
  <2>5. h[<<n, f[n \div 10]>>] = Append(f[n \div 10], n % 10)
    BY <2>4
  <2>. HIDE DEF b, p, h, B, V
  <2>. QED  BY <2>1, <2>2, <2>3, <2>5
<1>7. Eq(f)
  BY <1>0, <1>6
<1>8. FormatInt = CHOOSE g : Eq(g)
  BY Zenon DEF FormatInt
<1>9. Eq(FormatInt)
  <2>. HIDE DEF Eq
  <2>. QED  BY <1>7, <1>8
<1>. QED  BY <1>9

\* And so does Tens.
LEMMA TensStep ==
  \A n \in Nat : Tens[n] = IF n = 0 THEN 1 ELSE 10 * Tens[n - 1]
<1>. DEFINE B == {0}
            b == [n \in Nat |-> 1]
            p == [n \in Nat |-> IF n = 0 THEN 0 ELSE n - 1]
            h == [x \in Nat \X Nat |-> 10 * x[2]]
            Eq(f) == f = [n \in Nat |-> IF n = 0 THEN 1 ELSE 10 * f[n - 1]]
<1>2. Falls(B, p)
  BY DEF Falls
<1>3. b \in [Nat -> Nat]
  OBVIOUS
<1>4. h \in [Nat \X Nat -> Nat]
  OBVIOUS
<1>5. PICK f : Follows(f, Nat, B, b, p, h)
  <2>. HIDE DEF B, b, p, h
  <2>. QED  BY <1>2, <1>3, <1>4, RecExists
<1>0. f \in [Nat -> Nat]
  BY <1>5 DEF Follows
<1>6. \A n \in Nat : f[n] = IF n = 0 THEN 1 ELSE 10 * f[n - 1]
  <2>. SUFFICES ASSUME NEW n \in Nat  PROVE f[n] = IF n = 0 THEN 1 ELSE 10 * f[n - 1]
    OBVIOUS
  <2>1. f[n] = IF n \in B THEN b[n] ELSE h[<<n, f[p[n]]>>]
    BY <1>5 DEF Rec, Follows
  <2>2. n # 0 => p[n] = n - 1 /\ n - 1 \in Nat /\ h[<<n, f[n - 1]>>] = 10 * f[n - 1]
    BY <1>0
  <2>3. b[n] = 1 /\ (n \in B <=> n = 0)
    OBVIOUS
  <2>. HIDE DEF b, p, h, B
  <2>. QED  BY <2>1, <2>2, <2>3
<1>7. Eq(f)
  BY <1>0, <1>6
<1>8. Tens = CHOOSE g : Eq(g)
  BY Zenon DEF Tens
<1>9. Eq(Tens)
  <2>. HIDE DEF Eq
  <2>. QED  BY <1>7, <1>8
<1>. QED  BY <1>9

\* Value is the last of the numbers that Horner gives.
LEMMA ValueIs ==
  ASSUME NEW n \in Nat, NEW d, Digits(d, n), NEW v, Horner(v, d, n)
  PROVE  Value(d) = v[n]
<1>1. PICK u : Horner(u, d, n) /\ Value(d) = u[n]
  BY ValueReads
<1>2. n <= n /\ \A i \in 1 .. n : d[i] = d[i]
  OBVIOUS
<1>3. u[n] = v[n]
  BY <1>1, <1>2, HornerUnique
<1>. QED  BY <1>1, <1>3

\* A sequence of decimal digits.
LEMMA DigitSeq ==
  ASSUME NEW d \in Seq(0 .. 9)
  PROVE  Len(d) \in Nat /\ Digits(d, Len(d)) /\ \A i \in 1 .. Len(d) : d[i] \in 0 .. 9
<1>1. Len(d) \in Nat /\ d \in [1 .. Len(d) -> 0 .. 9] /\ DOMAIN d = 1 .. Len(d)
  BY LenProperties
<1>2. \A i \in 1 .. Len(d) : d[i] \in 0 .. 9
  BY <1>1
<1>. QED  BY <1>1, <1>2 DEF Digits

\* A digit more makes ten times the number and the digit.
LEMMA ValueAppend ==
  ASSUME NEW d \in Seq(0 .. 9), NEW x \in 0 .. 9
  PROVE  Value(Append(d, x)) = 10 * Value(d) + x /\ Value(d) \in Nat
<1>. DEFINE e == Append(d, x)
            n == Len(d)
<1>1. /\ e \in Seq(0 .. 9) /\ Len(e) = n + 1 /\ e[n + 1] = x
      /\ \A i \in 1 .. n : e[i] = d[i]
  BY AppendProperties
<1>2. n \in Nat /\ Digits(d, n) /\ Digits(e, n + 1)
  <2>. HIDE DEF e
  <2>. QED  BY <1>1, DigitSeq
<1>. HIDE DEF e, n
<1>3. PICK v : Horner(v, d, n) /\ Value(d) = v[n]
  BY <1>2, ValueReads
<1>4. n + 1 \in Nat
  BY <1>2
<1>5. PICK u : Horner(u, e, n + 1) /\ Value(e) = u[n + 1]
  BY <1>2, <1>4, ValueReads
<1>6. n <= n /\ n <= n + 1 /\ \A i \in 1 .. n : d[i] = e[i]
  BY <1>1, <1>2
<1>7. v[n] = u[n]
  BY <1>2, <1>3, <1>4, <1>5, <1>6, HornerUnique
<1>8. u[n + 1] = 10 * u[n] + e[n + 1] /\ v[n] \in Nat
  <2>1. n + 1 \in 1 .. n + 1 /\ (n + 1) - 1 = n /\ n \in 0 .. n
    BY <1>2
  <2>2. u[n + 1] = 10 * u[(n + 1) - 1] + e[n + 1]
    BY <1>5, <2>1 DEF Horner
  <2>3. v[n] \in Nat
    BY <1>3, <2>1 DEF Horner
  <2>. QED  BY <2>1, <2>2, <2>3
<1>. QED  BY <1>1, <1>3, <1>5, <1>7, <1>8 DEF e

\* The value of no digits.
LEMMA ValueEmpty == Value(<<>>) = 0
<1>1. Digits(<<>>, 0)
  BY DEF Digits
<1>2. PICK v : Horner(v, <<>>, 0) /\ Value(<<>>) = v[0]
  <2>1. 0 \in Nat
    OBVIOUS
  <2>. QED  BY <1>1, <2>1, ValueReads
<1>. QED  BY <1>2 DEF Horner

\* A leading zero counts for nothing.
LEMMA ValueZero ==
  ASSUME NEW d \in Seq(0 .. 9)
  PROVE  Value(<<0>> \o d) = Value(d)
<1>. DEFINE e == <<0>> \o d
            n == Len(d)
<1>0. <<0>> \in Seq(0 .. 9) /\ Len(<<0>>) = 1 /\ <<0>>[1] = 0
  OBVIOUS
<1>1. /\ e \in Seq(0 .. 9) /\ Len(e) = 1 + n
      /\ \A i \in 1 .. 1 + n : e[i] = IF i <= 1 THEN <<0>>[i] ELSE d[i - 1]
  BY <1>0, ConcatProperties
<1>2. n \in Nat /\ Digits(d, n) /\ Digits(e, 1 + n)
  <2>. HIDE DEF e
  <2>. QED  BY <1>1, DigitSeq
<1>. HIDE DEF e, n
<1>3. PICK v : Horner(v, d, n) /\ Value(d) = v[n]
  BY <1>2, ValueReads
<1>. DEFINE u == [k \in 0 .. 1 + n |-> IF k = 0 THEN 0 ELSE v[k - 1]]
<1>4. u \in [0 .. 1 + n -> Nat] /\ u[0] = 0
  BY <1>2, <1>3 DEF Horner
<1>5. ASSUME NEW k \in 1 .. 1 + n  PROVE  u[k] = 10 * u[k - 1] + e[k]
  <2>1. CASE k = 1
    BY <1>0, <1>1, <1>2, <1>3, <2>1 DEF Horner
  <2>2. CASE k > 1
    <3>1. k - 1 \in 1 .. n /\ k \in 0 .. 1 + n /\ k - 1 \in 0 .. 1 + n /\ k - 1 # 0
      BY <1>2, <2>2
    <3>2. v[k - 1] = 10 * v[(k - 1) - 1] + d[k - 1]
      BY <1>3, <3>1 DEF Horner
    <3>3. u[k] = v[k - 1] /\ u[k - 1] = v[(k - 1) - 1]
      BY <2>2, <3>1
    <3>4. e[k] = d[k - 1]
      BY <1>1, <1>2, <2>2
    <3>. HIDE DEF u
    <3>. QED  BY <3>2, <3>3, <3>4
  <2>. QED  BY <1>2, <2>1, <2>2
<1>6. u[1 + n] = v[n] /\ 1 + n \in Nat
  BY <1>2
<1>. HIDE DEF u
<1>7. Horner(u, e, 1 + n)
  BY <1>4, <1>5 DEF Horner
<1>8. Value(e) = u[1 + n]
  BY <1>2, <1>6, <1>7, ValueIs
<1>. QED  BY <1>3, <1>6, <1>8 DEF e

\* FormatInt writes decimal digits that stand for its number.
LEMMA FormatIntExact ==
  \A n \in Nat : FormatInt[n] \in Seq(0 .. 9) /\ FormatInt[n] # <<>> /\ Value(FormatInt[n]) = n
<1>. DEFINE Good(n) == /\ FormatInt[n] \in Seq(0 .. 9) /\ FormatInt[n] # <<>>
                       /\ Value(FormatInt[n]) = n
            T == {n \in Nat : ~Good(n)}
<1>1. ASSUME NEW n \in T  PROVE  \E j \in T : j < n
  <2>0. n \in Nat
    OBVIOUS
  <2>1. n >= 10
    <3>. SUFFICES ASSUME n < 10  PROVE FALSE
      BY <2>0
    <3>1. FormatInt[n] = <<n>>
      BY <2>0, FormatIntStep
    <3>2. <<>> \in Seq(0 .. 9) /\ n \in 0 .. 9 /\ Append(<<>>, n) = <<n>>
      BY <2>0
    <3>3. Value(Append(<<>>, n)) = 10 * Value(<<>>) + n
      BY <3>2, ValueAppend
    <3>4. <<n>> \in Seq(0 .. 9) /\ <<n>> # <<>>
      BY <3>2
    <3>5. Value(<<n>>) = n
      BY <3>2, <3>3, ValueEmpty
    <3>6. Good(n)
      BY <3>1, <3>4, <3>5
    <3>. QED  BY <3>6
  <2>. DEFINE m == n \div 10
              r == n % 10
  <2>2. m \in Nat /\ r \in 0 .. 9 /\ n = 10 * m + r /\ m < n
    BY <2>0, <2>1
  <2>3. FormatInt[n] = Append(FormatInt[m], r)
    <3>1. FormatInt[n] = IF n < 10 THEN <<n>> ELSE Append(FormatInt[n \div 10], n % 10)
      BY <2>0, FormatIntStep
    <3>2. ~(n < 10)
      BY <2>0, <2>1
    <3>. QED  BY <3>1, <3>2
  <2>. HIDE DEF m, r
  <2>4. m \in T
    <3>. SUFFICES ASSUME Good(m)  PROVE FALSE
      BY <2>2
    <3>1. Value(FormatInt[n]) = 10 * Value(FormatInt[m]) + r
      BY <2>2, <2>3, ValueAppend
    <3>2. FormatInt[n] \in Seq(0 .. 9) /\ FormatInt[n] # <<>>
      BY <2>2, <2>3, AppendProperties
    <3>. QED  BY <2>2, <3>1, <3>2
  <2>. QED  BY <2>2, <2>4
<1>2. T \subseteq Nat
  OBVIOUS
<1>3. T = {}
  <2>. HIDE DEF T
  <2>. QED  BY <1>1, <1>2, Descent
<1>. QED  BY <1>3

(***************************************************************************)
(* Money as text.                                                          *)
(***************************************************************************)
\* A function on the numbers from 1 to n is a sequence.
LEMMA IntoSeq ==
  ASSUME NEW S, NEW n \in Nat, NEW s \in [1 .. n -> S]
  PROVE  s \in Seq(S) /\ Len(s) = n
<1>1. s \in UNION {[1 .. k -> S] : k \in Nat}
  OBVIOUS
<1>2. s \in Seq(S)
  BY <1>1, SeqDef, Zenon
<1>3. Len(s) \in Nat /\ DOMAIN s = 1 .. Len(s)
  BY <1>2, LenProperties
<1>4. 1 .. n = 1 .. Len(s)
  BY <1>3
<1>. QED  BY <1>2, <1>3, <1>4

\* What a part of a sequence is.
LEMMA Piece ==
  ASSUME NEW S, NEW s \in Seq(S), NEW m \in Nat, m >= 1, NEW n \in Nat, n <= Len(s), m <= n + 1
  PROVE  /\ SubSeq(s, m, n) \in Seq(S) /\ Len(SubSeq(s, m, n)) = n - m + 1
         /\ \A i \in 1 .. n - m + 1 : SubSeq(s, m, n)[i] = s[m + i - 1]
<1>1. \A i \in m .. n : s[i] \in S
  <2>. TAKE i \in m .. n
  <2>1. Len(s) \in Nat
    BY LenProperties
  <2>2. i \in 1 .. Len(s)
    BY <2>1
  <2>. QED  BY <2>2, ElementOfSeq
<1>2. m \in Int /\ n \in Int
  OBVIOUS
<1>3. /\ SubSeq(s, m, n) \in Seq(S)
      /\ Len(SubSeq(s, m, n)) = (IF m <= n THEN n - m + 1 ELSE 0)
      /\ \A i \in 1 .. n - m + 1 : SubSeq(s, m, n)[i] = s[m + i - 1]
  BY <1>1, <1>2, SubSeqProperties
<1>. QED  BY <1>3

\* A text with one point is taken apart at it.
LEMMA SplitAtPoint ==
  ASSUME NEW a \in Seq(0 .. 9), NEW b \in Seq(0 .. 9), NEW t, t = (a \o <<Point>>) \o b
  PROVE  Points(t) = {Len(a) + 1} /\ Whole(t) = a /\ AfterPoint(t) = b
<1>. DEFINE D == 0 .. 11
            c == a \o <<Point>>
            n == Len(a)
            m == Len(b)
<1>1. /\ a \in Seq(D) /\ b \in Seq(D) /\ <<Point>> \in Seq(D)
      /\ Len(<<Point>>) = 1 /\ <<Point>>[1] = Point
  <2>1. 0 .. 9 \subseteq D /\ Point \in D
    BY DEF Point
  <2>2. <<Point>> \in Seq(D) /\ Len(<<Point>>) = 1 /\ <<Point>>[1] = Point
    BY <2>1
  <2>. HIDE DEF D
  <2>. QED  BY <2>1, <2>2, SeqMonotonic
<1>2. /\ n \in Nat /\ m \in Nat
      /\ \A i \in 1 .. n : a[i] \in 0 .. 9
      /\ \A i \in 1 .. m : b[i] \in 0 .. 9
  BY DigitSeq
<1>. HIDE DEF D, n, m
<1>3. /\ c \in Seq(D) /\ Len(c) = n + 1
      /\ \A i \in 1 .. n + 1 : c[i] = IF i <= n THEN a[i] ELSE <<Point>>[i - n]
  BY <1>1, ConcatProperties DEF n
<1>4. \A i \in 1 .. n + 1 : c[i] = IF i <= n THEN a[i] ELSE Point
  <2>. SUFFICES ASSUME NEW i \in 1 .. n + 1, ~(i <= n)  PROVE c[i] = Point
    BY <1>3
  <2>1. i - n = 1
    BY <1>2
  <2>. QED  BY <1>1, <1>3, <2>1
<1>. HIDE DEF c
<1>5. /\ t \in Seq(D) /\ Len(t) = (n + 1) + m
      /\ \A i \in 1 .. (n + 1) + m : t[i] = IF i <= n + 1 THEN c[i] ELSE b[i - (n + 1)]
  <2>1. t = c \o b
    BY DEF c
  <2>2. /\ c \o b \in Seq(D) /\ Len(c \o b) = Len(c) + Len(b)
        /\ \A i \in 1 .. Len(c) + Len(b) : (c \o b)[i] = IF i <= Len(c) THEN c[i] ELSE b[i - Len(c)]
    BY <1>1, <1>3, ConcatProperties
  <2>. QED  BY <1>3, <2>1, <2>2 DEF m
<1>6. DOMAIN t = 1 .. (n + 1) + m
  BY <1>5, LenProperties
<1>7. \A i \in 1 .. (n + 1) + m : t[i] = Point <=> i = n + 1
  <2>. SUFFICES ASSUME NEW i \in 1 .. (n + 1) + m  PROVE t[i] = Point <=> i = n + 1
    OBVIOUS
  <2>1. CASE i <= n
    <3>1. t[i] = a[i] /\ i \in 1 .. n
      BY <1>2, <1>4, <1>5, <2>1
    <3>2. PICK x \in 0 .. 9 : t[i] = x
      BY <1>2, <3>1
    <3>3. x # Point /\ t[i] = x
      BY ONLY <3>2 DEF Point
    <3>4. i # n + 1
      BY <1>2, <2>1
    <3>. QED  BY <3>3, <3>4
  <2>2. CASE i = n + 1
    <3>1. t[i] = c[i] /\ c[i] = Point
      BY <1>2, <1>4, <1>5, <2>2
    <3>. QED  BY <2>2, <3>1
  <2>3. CASE i > n + 1
    <3>1. t[i] = b[i - (n + 1)] /\ i - (n + 1) \in 1 .. m
      BY <1>2, <1>5, <2>3
    <3>2. PICK x \in 0 .. 9 : t[i] = x
      BY <1>2, <3>1
    <3>3. x # Point /\ t[i] = x
      BY ONLY <3>2 DEF Point
    <3>4. i # n + 1
      BY <1>2, <2>3
    <3>. QED  BY <3>3, <3>4
  <2>4. i <= n \/ i = n + 1 \/ i > n + 1
    BY <1>2
  <2>. QED  BY <2>1, <2>2, <2>3, <2>4
<1>8. Points(t) = {n + 1}
  <2>1. n + 1 \in 1 .. (n + 1) + m
    BY <1>2
  <2>. QED  BY <1>6, <1>7, <2>1 DEF Points
<1>9. (CHOOSE p \in Points(t) : TRUE) = n + 1 /\ Points(t) # {}
  BY <1>8
<1>10. /\ Whole(t) = SubSeq(t, 1, (n + 1) - 1)
       /\ AfterPoint(t) = SubSeq(t, (n + 1) + 1, (n + 1) + m)
  BY <1>5, <1>9 DEF Whole, AfterPoint
<1>11. SubSeq(t, 1, (n + 1) - 1) = a
  <2>1. (n + 1) - 1 = n
    BY <1>2
  <2>2. \A i \in 1 .. n : t[i] = a[i]
    BY <1>2, <1>4, <1>5
  <2>3. 1 \in Nat /\ 1 >= 1 /\ n <= Len(t) /\ 1 <= n + 1
    BY <1>2, <1>5
  <2>4. /\ SubSeq(t, 1, n) \in Seq(D) /\ Len(SubSeq(t, 1, n)) = n - 1 + 1
        /\ \A i \in 1 .. n - 1 + 1 : SubSeq(t, 1, n)[i] = t[1 + i - 1]
    BY <1>2, <1>5, <2>3, Piece
  <2>5. Len(SubSeq(t, 1, n)) = n
    BY <1>2, <2>4
  <2>6. \A i \in 1 .. n : SubSeq(t, 1, n)[i] = a[i]
    <3>. TAKE i \in 1 .. n
    <3>1. i \in 1 .. n - 1 + 1 /\ 1 + i - 1 = i
      BY <1>2
    <3>. QED  BY <2>2, <2>4, <3>1
  <2>7. SubSeq(t, 1, n) = a
    BY <1>1, <2>4, <2>5, <2>6, SeqEqual DEF n
  <2>. QED  BY <2>1, <2>7
<1>12. SubSeq(t, (n + 1) + 1, (n + 1) + m) = b
  <2>. DEFINE x == (n + 1) + 1
              y == (n + 1) + m
              s == SubSeq(t, x, y)
  <2>1. x \in Nat /\ x >= 1 /\ y \in Nat /\ y <= Len(t) /\ x <= y + 1 /\ y - x + 1 = m
    BY <1>2, <1>5
  <2>3. \A i \in 1 .. m : t[x + i - 1] = b[i]
    <3>. TAKE i \in 1 .. m
    <3>1. x + i - 1 \in 1 .. (n + 1) + m /\ ~(x + i - 1 <= n + 1) /\ (x + i - 1) - (n + 1) = i
      BY <1>2
    <3>. HIDE DEF x
    <3>. QED  BY <1>5, <3>1
  <2>. HIDE DEF x, y
  <2>4. /\ s \in Seq(D) /\ Len(s) = m /\ \A i \in 1 .. m : s[i] = t[x + i - 1]
    BY <1>5, <2>1, Piece
  <2>5. \A i \in 1 .. m : s[i] = b[i]
    BY <2>3, <2>4
  <2>. HIDE DEF s
  <2>6. s = b
    BY <1>1, <2>4, <2>5, SeqEqual DEF m
  <2>. QED  BY <2>6 DEF s, x, y
<1>. QED  BY <1>8, <1>10, <1>11, <1>12 DEF n

\* What String prints: at least three digits, with the point before the last two.
LEMMA StringShape ==
  ASSUME NEW n \in Nat
  PROVE  \E s \in Seq(0 .. 9) :
           /\ Len(s) >= 3 /\ Value(s) = n
           /\ String(n) = (SubSeq(s, 1, Len(s) - 2) \o <<Point>>) \o SubSeq(s, Len(s) - 1, Len(s))
<1>. DEFINE plain == FormatInt[n]
            s == CASE Len(plain) = 1 -> <<0, 0>> \o plain
                   [] Len(plain) = 2 -> <<0>> \o plain
                   [] OTHER -> plain
            x == SubSeq(s, 1, Len(s) - 2)
            y == SubSeq(s, Len(s) - 1, Len(s))
<1>1. plain \in Seq(0 .. 9) /\ plain # <<>> /\ Value(plain) = n
  BY FormatIntExact
<1>. HIDE DEF plain
<1>2. Len(plain) \in Nat /\ Len(plain) >= 1
  BY <1>1, EmptySeq
<1>3. <<0>> \in Seq(0 .. 9) /\ Len(<<0>>) = 1
  OBVIOUS
<1>. DEFINE one == <<0>> \o plain
            two == <<0>> \o one
<1>4. one \in Seq(0 .. 9) /\ Len(one) = 1 + Len(plain) /\ Value(one) = n
  BY <1>1, <1>3, ConcatProperties, ValueZero
<1>5. two \in Seq(0 .. 9) /\ Len(two) = 2 + Len(plain) /\ Value(two) = n
  <2>. HIDE DEF one
  <2>. QED  BY <1>2, <1>3, <1>4, ConcatProperties, ValueZero
<1>6. two = <<0, 0>> \o plain
  <2>1. (<<0>> \o <<0>>) \o plain = <<0>> \o (<<0>> \o plain)
    BY <1>1, <1>3, ConcatAssociative
  <2>2. <<0>> \o <<0>> = <<0, 0>>
    <3>1. /\ <<0>> \o <<0>> \in Seq(0 .. 9) /\ Len(<<0>> \o <<0>>) = Len(<<0>>) + Len(<<0>>)
          /\ \A i \in 1 .. Len(<<0>>) + Len(<<0>>) :
               (<<0>> \o <<0>>)[i] = IF i <= Len(<<0>>) THEN <<0>>[i] ELSE <<0>>[i - Len(<<0>>)]
      BY <1>3, ConcatProperties
    <3>2. <<0, 0>> \in Seq(0 .. 9) /\ Len(<<0, 0>>) = 2 /\ \A i \in 1 .. 2 : <<0, 0>>[i] = 0
      OBVIOUS
    <3>. DEFINE z == <<0>> \o <<0>>
                q == <<0, 0>>
    <3>3. z \in Seq(0 .. 9) /\ Len(z) = 2 /\ \A i \in 1 .. 2 : z[i] = 0
      BY <1>3, <3>1
    <3>4. q \in Seq(0 .. 9) /\ Len(q) = 2 /\ \A i \in 1 .. 2 : q[i] = 0
      BY <3>2
    <3>. HIDE DEF z, q
    <3>5. Len(z) = Len(q) /\ \A i \in 1 .. Len(z) : z[i] = q[i]
      BY <3>3, <3>4
    <3>6. z = q
      BY <3>3, <3>4, <3>5, SeqEqual
    <3>. QED  BY <3>6 DEF z, q
  <2>. QED  BY <2>1, <2>2
<1>. HIDE DEF one, two
<1>7. s = IF Len(plain) = 1 THEN two ELSE IF Len(plain) = 2 THEN one ELSE plain
  BY <1>2, <1>6 DEF one
<1>8. s \in Seq(0 .. 9) /\ Len(s) >= 3 /\ Value(s) = n
  <2>. HIDE DEF s
  <2>1. CASE Len(plain) = 1
    <3>1. s = two /\ Len(two) = 2 + 1
      BY <1>5, <1>7, <2>1
    <3>2. s \in Seq(0 .. 9) /\ Value(s) = n
      BY <1>5, <3>1
    <3>3. Len(s) = 3
      BY ONLY <3>1
    <3>. QED  BY <3>2, <3>3
  <2>2. CASE Len(plain) = 2
    <3>1. s = one /\ Len(one) = 1 + 2
      BY <1>4, <1>7, <2>2
    <3>2. s \in Seq(0 .. 9) /\ Value(s) = n
      BY <1>4, <3>1
    <3>3. Len(s) = 3
      BY ONLY <3>1
    <3>. QED  BY <3>2, <3>3
  <2>3. CASE Len(plain) # 1 /\ Len(plain) # 2
    <3>1. s = plain
      BY <1>7, <2>3
    <3>. DEFINE l == Len(plain)
    <3>2. l \in Nat /\ l >= 1 /\ l # 1 /\ l # 2
      BY <1>2, <2>3
    <3>. HIDE DEF l
    <3>3. l >= 3
      BY <3>2
    <3>. QED  BY <1>1, <3>1, <3>3 DEF l
  <2>. QED  BY <2>1, <2>2, <2>3
<1>9. String(n) = ((<<>> \o x) \o <<Point>>) \o y
  <2>1. ~(n < 0)
    OBVIOUS
  <2>2. String(n) = (((IF n < 0 THEN <<Minus>> ELSE <<>>) \o x) \o <<Point>>) \o y
    BY <2>1 DEF String, plain
  <2>. HIDE DEF x, y
  <2>. QED  BY <2>1, <2>2
<1>. HIDE DEF s
<1>10. <<>> \o x = x
  <2>1. Len(s) \in Nat /\ Len(s) - 2 \in Nat /\ Len(s) - 2 <= Len(s) /\ 1 <= (Len(s) - 2) + 1
        /\ 1 \in Nat /\ 1 >= 1
    BY <1>8, LenProperties
  <2>2. x \in Seq(0 .. 9)
    BY <1>8, <2>1, Piece
  <2>. QED  BY <2>2, ConcatEmptySeq
<1>. QED  BY <1>8, <1>9, <1>10

\* What String prints is read back as the same amount.
LEMMA RoundTrip ==
  ASSUME NEW n \in 0 .. MaxInt, NEW c \in Currencies
  PROVE  ParseMoney(String(n), c) = Parsed(n)
<1>0. n \in Nat /\ ~(n > MaxInt)
  BY MaxIntAssumption
<1>1. PICK s \in Seq(0 .. 9) :
        /\ Len(s) >= 3 /\ Value(s) = n
        /\ String(n) = (SubSeq(s, 1, Len(s) - 2) \o <<Point>>) \o SubSeq(s, Len(s) - 1, Len(s))
  BY <1>0, StringShape
<1>. DEFINE L == Len(s)
            a == SubSeq(s, 1, L - 2)
            b == SubSeq(s, L - 1, L)
            t == String(n)
<1>2. /\ L \in Nat /\ L - 2 \in Nat /\ L - 2 <= L /\ 1 <= (L - 2) + 1 /\ 1 \in Nat /\ 1 >= 1
      /\ L - 1 \in Nat /\ L - 1 >= 1 /\ L <= L /\ L - 1 <= L + 1
      /\ (L - 2) - 1 + 1 = L - 2 /\ L - (L - 1) + 1 = 2
  BY <1>1, LenProperties
<1>3. a \in Seq(0 .. 9) /\ Len(a) = L - 2 /\ b \in Seq(0 .. 9) /\ Len(b) = 2
  <2>1. a \in Seq(0 .. 9) /\ Len(a) = (L - 2) - 1 + 1
    BY <1>2, Piece
  <2>2. b \in Seq(0 .. 9) /\ Len(b) = L - (L - 1) + 1
    BY <1>2, Piece
  <2>. QED  BY <1>2, <2>1, <2>2
<1>4. a \o b = s
  <2>1. 1 \in 1 .. Len(s) + 1 /\ L - 2 \in 1 - 1 .. Len(s) /\ L \in L - 2 .. Len(s)
    BY <1>2
  <2>2. SubSeq(s, 1, L - 2) \o SubSeq(s, (L - 2) + 1, L) = SubSeq(s, 1, L)
    BY <2>1, ConcatAdjacentSubSeq
  <2>3. (L - 2) + 1 = L - 1 /\ SubSeq(s, 1, L) = s
    BY <1>2, SubSeqFull
  <2>. QED  BY <2>2, <2>3
<1>5. t = (a \o <<Point>>) \o b
  BY <1>1
<1>. HIDE DEF a, b, t
<1>6. Points(t) = {Len(a) + 1} /\ Whole(t) = a /\ AfterPoint(t) = b
  BY <1>3, <1>5, SplitAtPoint
<1>7. Cardinality(Points(t)) = 1
  BY <1>6, FS_Singleton
<1>8. IsNumber(a) /\ IsNumber(b)
  <2>1. a # <<>> /\ b # <<>>
    <3>1. Len(<<>>) = 0
      BY EmptySeq
    <3>. HIDE DEF L
    <3>2. L - 2 # 0
      <4>1. L >= 3 /\ L \in Nat
        BY <1>1, <1>2 DEF L
      <4>. QED  BY <4>1
    <3>3. Len(a) # 0 /\ Len(b) # 0
      BY <1>3, <3>2
    <3>. QED  BY <3>1, <3>3
  <2>2. /\ DOMAIN a = 1 .. Len(a) /\ \A i \in 1 .. Len(a) : a[i] \in 0 .. 9
        /\ DOMAIN b = 1 .. Len(b) /\ \A i \in 1 .. Len(b) : b[i] \in 0 .. 9
    BY <1>3, LenProperties, ElementOfSeq
  <2>. QED  BY <2>1, <2>2 DEF IsNumber
<1>9. Fraction(b) = b
  BY <1>3 DEF Fraction
<1>10. Value(Whole(t) \o Fraction(AfterPoint(t))) = n
  BY <1>1, <1>4, <1>6, <1>9
<1>11. ~(Cardinality(Points(t)) > 1) /\ ~(Len(AfterPoint(t)) > 2)
  <2>1. Len(AfterPoint(t)) = 2
    BY <1>3, <1>6
  <2>. QED  BY <1>7, <2>1
<1>. QED  BY <1>0, <1>6, <1>8, <1>10, <1>11 DEF ParseMoney, t

\* The digits that are put together, when both parts of a text are numbers.
LEMMA Together ==
  ASSUME NEW a \in Seq(0 .. Minus), NEW b \in Seq(0 .. Minus), IsNumber(a),
         b = <<>> \/ IsNumber(b), ~(Len(b) > 2)
  PROVE  /\ a \in Seq(0 .. 9) /\ b \in Seq(0 .. 9) /\ Fraction(b) \in Seq(0 .. 9)
         /\ a \o Fraction(b) \in Seq(0 .. 9) /\ Value(a \o Fraction(b)) \in Nat
         /\ Len(Fraction(b)) = 2
<1>1. ASSUME NEW s \in Seq(0 .. Minus), s = <<>> \/ IsNumber(s)  PROVE  s \in Seq(0 .. 9)
  <2>1. Len(s) \in Nat /\ DOMAIN s = 1 .. Len(s) /\ s \in [1 .. Len(s) -> 0 .. Minus]
    BY LenProperties
  <2>2. CASE s = <<>>
    BY <2>2, EmptySeq
  <2>3. CASE IsNumber(s)
    <3>1. s \in [1 .. Len(s) -> 0 .. 9]
      BY <2>1, <2>3 DEF IsNumber
    <3>. QED  BY <2>1, <3>1, IntoSeq
  <2>. QED  BY <1>1, <2>2, <2>3
<1>2. a \in Seq(0 .. 9) /\ b \in Seq(0 .. 9)
  BY <1>1
<1>3. <<0>> \in Seq(0 .. 9) /\ Len(<<0>>) = 1 /\ <<0, 0>> \in Seq(0 .. 9) /\ Len(<<0, 0>>) = 2
  OBVIOUS
<1>4. Fraction(b) \in Seq(0 .. 9) /\ Len(Fraction(b)) = 2
  <2>0. Len(b) \in Nat
    BY LenProperties
  <2>1. CASE Len(b) = 0
    BY <1>3, <2>1 DEF Fraction
  <2>2. CASE Len(b) = 1
    <3>1. Fraction(b) = b \o <<0>>
      BY <2>2 DEF Fraction
    <3>2. b \o <<0>> \in Seq(0 .. 9) /\ Len(b \o <<0>>) = Len(b) + Len(<<0>>)
      BY <1>2, <1>3, ConcatProperties
    <3>3. Len(b) + Len(<<0>>) = 2
      BY <1>3, <2>2
    <3>. QED  BY <3>1, <3>2, <3>3
  <2>3. CASE Len(b) = 2
    <3>1. Fraction(b) = b
      BY <2>3 DEF Fraction
    <3>. QED  BY <1>2, <2>3, <3>1
  <2>4. Len(b) = 0 \/ Len(b) = 1 \/ Len(b) = 2
    <3>. DEFINE l == Len(b)
    <3>1. l \in Nat /\ ~(l > 2)
      BY <2>0
    <3>. HIDE DEF l
    <3>2. l = 0 \/ l = 1 \/ l = 2
      BY <3>1
    <3>. QED  BY <3>2 DEF l
  <2>. QED  BY <2>1, <2>2, <2>3, <2>4
<1>5. a \o Fraction(b) \in Seq(0 .. 9)
  BY <1>2, <1>4, ConcatProperties
<1>6. ASSUME NEW d \in Seq(0 .. 9)  PROVE  Value(d) \in Nat
  <2>1. Len(d) \in Nat /\ Digits(d, Len(d))
    BY DigitSeq
  <2>2. PICK v : Horner(v, d, Len(d)) /\ Value(d) = v[Len(d)]
    BY <2>1, ValueReads
  <2>. QED  BY <2>1, <2>2 DEF Horner
<1>. QED  BY <1>2, <1>4, <1>5, <1>6

\* The parts of a text are texts.
LEMMA PartsType ==
  ASSUME NEW text \in Seq(0 .. Minus)
  PROVE  Whole(text) \in Seq(0 .. Minus) /\ AfterPoint(text) \in Seq(0 .. Minus)
<1>1. Len(text) \in Nat /\ DOMAIN text = 1 .. Len(text)
  BY LenProperties
<1>2. CASE Points(text) = {}
  BY <1>2, EmptySeq DEF Whole, AfterPoint
<1>3. CASE Points(text) # {}
  <2>. DEFINE p == CHOOSE p \in Points(text) : TRUE
  <2>1. p \in 1 .. Len(text)
    BY <1>1, <1>3 DEF Points
  <2>2. Whole(text) = SubSeq(text, 1, p - 1) /\ AfterPoint(text) = SubSeq(text, p + 1, Len(text))
    BY <1>3 DEF Whole, AfterPoint
  <2>. HIDE DEF p
  <2>3. /\ p - 1 \in Nat /\ p - 1 <= Len(text) /\ 1 <= (p - 1) + 1 /\ 1 \in Nat /\ 1 >= 1
        /\ p + 1 \in Nat /\ p + 1 >= 1 /\ Len(text) <= Len(text) /\ p + 1 <= Len(text) + 1
    BY <1>1, <2>1
  <2>4. SubSeq(text, 1, p - 1) \in Seq(0 .. Minus)
    BY <2>3, Piece
  <2>5. SubSeq(text, p + 1, Len(text)) \in Seq(0 .. Minus)
    BY <1>1, <2>3, Piece
  <2>. QED  BY <2>2, <2>4, <2>5
<1>. QED  BY <1>2, <1>3

ParseErrors == {"INVALID_CURRENCY", "INVALID_AMOUNT", "INVALID_SCALE", "OVERFLOW"}

\* What ParseMoney returns: an amount that an int64 holds, or one of four errors.
LEMMA ParseMoneyType ==
  ASSUME NEW text \in Seq(0 .. Minus), NEW c
  PROVE  /\ ParseMoney(text, c).minor \in 0 .. MaxInt
         /\ \/ ParseMoney(text, c).code \in ParseErrors
            \/ ParseMoney(text, c).code = "" /\ c \in Currencies
<1>. DEFINE a == Whole(text)
            b == AfterPoint(text)
            minor == Value(a \o Fraction(b))
            m == ParseMoney(text, c)
            bad == \/ Cardinality(Points(text)) > 1
                   \/ ~IsNumber(a)
                   \/ Points(text) # {} /\ ~IsNumber(b)
<1>1. m = IF c \notin Currencies THEN Invalid("INVALID_CURRENCY")
          ELSE IF bad THEN Invalid("INVALID_AMOUNT")
          ELSE IF Len(b) > 2 THEN Invalid("INVALID_SCALE")
          ELSE IF minor > MaxInt THEN Invalid("OVERFLOW") ELSE Parsed(minor)
  BY DEF ParseMoney
<1>2. ASSUME NEW e \in ParseErrors, m = Invalid(e)
      PROVE  m.minor \in 0 .. MaxInt /\ m.code \in ParseErrors
  <2>1. m.minor = 0 /\ m.code = e
    BY <1>2 DEF Invalid
  <2>2. 0 \in 0 .. MaxInt
    BY MaxIntAssumption
  <2>. HIDE DEF m
  <2>. QED  BY <2>1, <2>2
<1>3. CASE c \in Currencies /\ ~bad /\ ~(Len(b) > 2) /\ ~(minor > MaxInt)
  <2>1. m = Parsed(minor)
    BY <1>1, <1>3
  <2>2. b = <<>> \/ IsNumber(b)
    BY <1>3 DEF AfterPoint
  <2>3. minor \in Nat
    <3>1. a \in Seq(0 .. Minus) /\ b \in Seq(0 .. Minus) /\ IsNumber(a)
      BY <1>3, PartsType
    <3>. HIDE DEF a, b, bad
    <3>. QED  BY <1>3, <2>2, <3>1, Together
  <2>. HIDE DEF m, minor
  <2>4. m.minor = minor /\ m.code = ""
    BY <2>1 DEF Parsed
  <2>5. minor \in 0 .. MaxInt
    BY <1>3, <2>3, MaxIntAssumption
  <2>. QED  BY <1>3, <2>4, <2>5 DEF m
<1>4. CASE ~(c \in Currencies /\ ~bad /\ ~(Len(b) > 2) /\ ~(minor > MaxInt))
  <2>. HIDE DEF m, bad, minor, a, b
  <2>1. \E e \in ParseErrors : m = Invalid(e)
    BY <1>1, <1>4 DEF ParseErrors
  <2>. QED  BY <1>2, <2>1 DEF m
<1>. QED  BY <1>3, <1>4

\* Where the point of a text is, or would be; the weight of a digit.
PointAt(text) == IF Points(text) = {} THEN Len(text) + 1 ELSE CHOOSE p \in Points(text) : TRUE
Weight(p, i) == IF i < p THEN 100 * Tens[p - 1 - i] ELSE Tens[2 - (i - p)]

Share(text) == [i \in DOMAIN text \ {PointAt(text)} |-> Weight(PointAt(text), i) * text[i]]

\* The fold behind Cents.
CentsFold(g, text) ==
  g = [s \in SUBSET (DOMAIN text \ {PointAt(text)}) |->
         IF s = {} THEN 0
         ELSE Weight(PointAt(text), CHOOSE x \in s : TRUE) * text[CHOOSE x \in s : TRUE]
              + g[s \ {CHOOSE x \in s : TRUE}]]

\* Cents is the last of the partial sums of the weighted digits.
LEMMA CentsSum ==
  ASSUME NEW text, NEW n \in Nat, DOMAIN text = 1 .. n, NEW S, S = DOMAIN text \ {PointAt(text)},
         Share(text) \in [S -> Int], NEW F, Partial(F, n, S, Share(text))
  PROVE  Cents(text) = F[n]
<1>. DEFINE f == Share(text)
<1>1. S \subseteq 1 .. n /\ IsFiniteSet(S)
  <2>1. IsFiniteSet(1 .. n)
    BY Interval
  <2>2. S \subseteq 1 .. n
    OBVIOUS
  <2>. QED  BY <2>1, <2>2, FS_Subset
<1>2. PICK g : SumOn(g, S, f)
  <2>. HIDE DEF f
  <2>1. f \in [S -> Int]
    BY DEF f
  <2>. QED  BY <1>1, <2>1, SumExists
<1>3. ASSUME NEW k  PROVE  CentsFold(k, text) <=> k = [s \in SUBSET S |-> SumStep(k, s, f)]
  <2>. DEFINE A(s) == IF s = {} THEN 0
                      ELSE Weight(PointAt(text), Picked(s)) * text[Picked(s)] + k[s \ {Picked(s)}]
  <2>1. ASSUME NEW s \in SUBSET S  PROVE  A(s) = SumStep(k, s, f)
    <3>1. s # {} => Picked(s) \in S
      BY DEF Picked
    <3>2. s # {} => f[Picked(s)] = Weight(PointAt(text), Picked(s)) * text[Picked(s)]
      BY <3>1 DEF Share
    <3>. HIDE DEF f
    <3>. QED  BY <3>2 DEF SumStep
  <2>2. CentsFold(k, text) <=> k = [s \in SUBSET S |-> A(s)]
    BY Zenon DEF CentsFold, Picked
  <2>. HIDE DEF A, f
  <2>3. [s \in SUBSET S |-> A(s)] = [s \in SUBSET S |-> SumStep(k, s, f)]
    BY <2>1
  <2>. QED  BY <2>2, <2>3
<1>. DEFINE h == CHOOSE k : CentsFold(k, text)
<1>4. CentsFold(h, text)
  <2>1. g = [s \in SUBSET S |-> SumStep(g, s, f)]
    BY <1>2 DEF SumOn
  <2>. HIDE DEF f
  <2>. QED  BY <1>3, <2>1
<1>5. Cents(text) = h[S]
  BY DEF Cents, MapThenSumSet, MapThenFoldSet, CentsFold, PointAt, Weight
<1>. HIDE DEF h, f
<1>6. h = g
  <2>1. SumEq(h, S, f)
    BY <1>3, <1>4 DEF SumEq
  <2>. QED  BY <1>1, <1>2, <2>1, SumUnique
<1>7. Partial(F, n, S, f) /\ f \in [S -> Int]
  BY DEF f
<1>8. g[S] = F[n]
  BY <1>1, <1>2, <1>7, SumUpTo
<1>. QED  BY <1>5, <1>6, <1>8

\* The parts of a text without a point, and of a text with one.
LEMMA Parts ==
  ASSUME NEW text \in Seq(0 .. Minus)
  PROVE  LET n == Len(text)
             p == PointAt(text)
         IN /\ n \in Nat /\ DOMAIN text = 1 .. n /\ \A i \in 1 .. n : text[i] \in 0 .. Minus
            /\ Points(text) = {} => p = n + 1 /\ Whole(text) = text /\ AfterPoint(text) = <<>>
            /\ Points(text) # {} =>
                 /\ p \in 1 .. n /\ text[p] = Point
                 /\ Len(Whole(text)) = p - 1 /\ \A i \in 1 .. p - 1 : Whole(text)[i] = text[i]
                 /\ Len(AfterPoint(text)) = n - p
                 /\ \A i \in 1 .. n - p : AfterPoint(text)[i] = text[p + i]
<1>. DEFINE n == Len(text)
            p == PointAt(text)
<1>1. n \in Nat /\ DOMAIN text = 1 .. n /\ \A i \in 1 .. n : text[i] \in 0 .. Minus
  BY LenProperties, ElementOfSeq
<1>2. Points(text) = {} => p = n + 1 /\ Whole(text) = text /\ AfterPoint(text) = <<>>
  BY DEF PointAt, Whole, AfterPoint
<1>3. ASSUME Points(text) # {}
      PROVE  /\ p \in 1 .. n /\ text[p] = Point
             /\ Len(Whole(text)) = p - 1 /\ \A i \in 1 .. p - 1 : Whole(text)[i] = text[i]
             /\ Len(AfterPoint(text)) = n - p
             /\ \A i \in 1 .. n - p : AfterPoint(text)[i] = text[p + i]
  <2>1. p \in 1 .. n /\ text[p] = Point
    BY <1>1, <1>3 DEF PointAt, Points
  <2>2. Whole(text) = SubSeq(text, 1, p - 1) /\ AfterPoint(text) = SubSeq(text, p + 1, n)
    BY <1>3 DEF Whole, AfterPoint, PointAt
  <2>. HIDE DEF p
  <2>3. /\ p - 1 \in Nat /\ p - 1 <= Len(text) /\ 1 <= (p - 1) + 1 /\ 1 \in Nat /\ 1 >= 1
        /\ p + 1 \in Nat /\ p + 1 >= 1 /\ n <= Len(text) /\ p + 1 <= n + 1
    BY <1>1, <2>1
  <2>4. /\ Len(Whole(text)) = (p - 1) - 1 + 1
        /\ \A i \in 1 .. (p - 1) - 1 + 1 : Whole(text)[i] = text[1 + i - 1]
    BY <2>2, <2>3, Piece
  <2>5. /\ Len(AfterPoint(text)) = n - (p + 1) + 1
        /\ \A i \in 1 .. n - (p + 1) + 1 : AfterPoint(text)[i] = text[(p + 1) + i - 1]
    BY <1>1, <2>2, <2>3, Piece
  <2>6. (p - 1) - 1 + 1 = p - 1 /\ n - (p + 1) + 1 = n - p
    BY <1>1, <2>1
  <2>7. ASSUME NEW i \in 1 .. p - 1  PROVE  Whole(text)[i] = text[i]
    <3>1. 1 + i - 1 = i
      OBVIOUS
    <3>. QED  BY <2>4, <2>6, <3>1
  <2>8. ASSUME NEW i \in 1 .. n - p  PROVE  AfterPoint(text)[i] = text[p + i]
    <3>1. (p + 1) + i - 1 = p + i
      BY <2>1
    <3>. QED  BY <2>5, <2>6, <3>1
  <2>. HIDE DEF n
  <2>9. Len(Whole(text)) = p - 1 /\ Len(AfterPoint(text)) = n - p
    BY <2>4, <2>5, <2>6
  <2>. QED  BY <2>1, <2>7, <2>8, <2>9
<1>. QED  BY <1>1, <1>2, <1>3

\* ParseMoney finds nothing wrong with the form of a text.
Accepted(text) ==
  /\ ~(Cardinality(Points(text)) > 1) /\ IsNumber(Whole(text))
  /\ Points(text) # {} => IsNumber(AfterPoint(text))
  /\ ~(Len(AfterPoint(text)) > 2)

\* Then it is well formed, and only then.
LEMMA AcceptedIff ==
  ASSUME NEW text \in Seq(0 .. Minus)
  PROVE  Accepted(text) <=> WellFormed(text)
<1>. DEFINE n == Len(text)
            p == PointAt(text)
            a == Whole(text)
            b == AfterPoint(text)
<1>1. n \in Nat /\ DOMAIN text = 1 .. n /\ \A i \in 1 .. n : text[i] \in 0 .. Minus
  BY Parts
<1>2. a \in Seq(0 .. Minus) /\ b \in Seq(0 .. Minus)
  BY PartsType
<1>3. DOMAIN a = 1 .. Len(a) /\ DOMAIN b = 1 .. Len(b) /\ Len(a) \in Nat /\ Len(b) \in Nat
  BY <1>2, LenProperties
<1>4. /\ IsFiniteSet(Points(text)) /\ Cardinality(Points(text)) \in Nat
      /\ Points(text) = {} => Cardinality(Points(text)) = 0
  <2>1. IsFiniteSet(1 .. n) /\ Points(text) \subseteq 1 .. n
    BY <1>1, Interval DEF Points
  <2>2. IsFiniteSet(Points(text))
    BY <2>1, FS_Subset
  <2>. QED  BY <2>2, FS_CardinalityType, FS_EmptySet
<1>5. ~(Cardinality(Points(text)) > 1) <=> Cardinality(Points(text)) <= 1
  BY <1>4
<1>6. /\ text # <<>> <=> n # 0
      /\ a # <<>> <=> Len(a) # 0
      /\ b # <<>> <=> Len(b) # 0
  <2>1. ASSUME NEW s \in Seq(0 .. Minus)  PROVE  s # <<>> <=> Len(s) # 0
    BY EmptySeq
  <2>. QED  BY <1>2, <2>1
<1>7. CASE Points(text) = {}
  <2>1. a = text /\ Len(b) = 0 /\ \A i \in 1 .. n : text[i] # Point
    BY <1>1, <1>7, Parts, EmptySeq DEF Points
  <2>2. Accepted(text) <=> n # 0 /\ \A i \in 1 .. n : text[i] \in 0 .. 9
    BY <1>1, <1>4, <1>6, <1>7, <2>1 DEF Accepted, IsNumber
  <2>3. WellFormed(text) <=>
          /\ n # 0 /\ text[1] \in 0 .. 9 /\ text[n] \in 0 .. 9
          /\ \A i \in 1 .. n : text[i] \in 0 .. 9
    <3>1. Cardinality(Points(text)) <= 1 /\ \A q \in Points(text) : Len(text) - q <= 2
      BY <1>4, <1>7
    <3>2. {text[1], text[Len(text)]} \subseteq 0 .. 9 <=> text[1] \in 0 .. 9 /\ text[n] \in 0 .. 9
      OBVIOUS
    <3>3. (\A i \in DOMAIN text : text[i] \in 0 .. 9 \cup {Point})
          <=> \A i \in 1 .. n : text[i] \in 0 .. 9
      BY <1>1, <2>1
    <3>. HIDE DEF n
    <3>. QED  BY <1>6, <3>1, <3>2, <3>3 DEF WellFormed
  <2>4. n # 0 => 1 \in 1 .. n /\ n \in 1 .. n
    BY <1>1
  <2>. QED  BY <2>2, <2>3, <2>4
<1>8. CASE Points(text) # {}
  <2>1. /\ p \in 1 .. n /\ text[p] = Point
        /\ Len(a) = p - 1 /\ \A i \in 1 .. p - 1 : a[i] = text[i]
        /\ Len(b) = n - p /\ \A i \in 1 .. n - p : b[i] = text[p + i]
    BY <1>8, Parts
  <2>. HIDE DEF p, a, b, n
  <2>2. p \in Points(text)
    BY <1>1, <2>1 DEF Points
  <2>3. Cardinality(Points(text)) <= 1 => Points(text) = {p}
    <3>. SUFFICES ASSUME Cardinality(Points(text)) <= 1  PROVE Points(text) = {p}
      OBVIOUS
    <3>1. Cardinality(Points(text)) # 0
      BY <1>4, <2>2, FS_EmptySet
    <3>2. Cardinality(Points(text)) = 1
      BY <1>4, <3>1
    <3>3. \E x : Points(text) = {x}
      BY <1>4, <3>2, FS_Singleton
    <3>. QED  BY <2>2, <3>3
  <2>4. ASSUME Accepted(text)  PROVE  WellFormed(text)
    <3>1. Points(text) = {p}
      BY <1>5, <2>3, <2>4 DEF Accepted
    <3>2. /\ Len(a) # 0 /\ \A i \in 1 .. Len(a) : a[i] \in 0 .. 9
          /\ Len(b) # 0 /\ \A i \in 1 .. Len(b) : b[i] \in 0 .. 9
      BY <1>3, <1>6, <1>8, <2>4 DEF Accepted, IsNumber, a, b
    <3>3. p # 1 /\ p # n /\ n - p <= 2
      BY <1>1, <1>3, <2>1, <2>4, <3>2 DEF Accepted, b
    <3>4. \A i \in 1 .. p - 1 : text[i] \in 0 .. 9
      BY <2>1, <3>2
    <3>5. ASSUME NEW i \in 1 .. n, i > p  PROVE  text[i] \in 0 .. 9
      <4>1. i - p \in 1 .. n - p /\ p + (i - p) = i
        BY <1>1, <2>1, <3>5
      <4>. QED  BY <2>1, <3>2, <4>1
    <3>6. text[1] \in 0 .. 9 /\ text[n] \in 0 .. 9
      BY <1>1, <2>1, <3>3, <3>4, <3>5
    <3>7. \A i \in 1 .. n : text[i] \in 0 .. 9 \cup {Point}
      BY <1>1, <2>1, <3>4, <3>5
    <3>8. Len(text) - p <= 2
      BY <3>3 DEF n
    <3>9. Cardinality(Points(text)) <= 1 /\ \A q \in Points(text) : Len(text) - q <= 2
      BY <1>5, <2>4, <3>1, <3>8 DEF Accepted
    <3>10. {text[1], text[Len(text)]} \subseteq 0 .. 9
      BY <3>6 DEF n
    <3>11. text # <<>>
      BY <1>1, <1>6, <2>1
    <3>12. \A i \in DOMAIN text : text[i] \in 0 .. 9 \cup {Point}
      BY <1>1, <3>7
    <3>. QED  BY <3>9, <3>10, <3>11, <3>12 DEF WellFormed
  <2>5. ASSUME WellFormed(text)  PROVE  Accepted(text)
    <3>1. Points(text) = {p}
      BY <2>3, <2>5 DEF WellFormed
    <3>2. /\ text[1] \in 0 .. 9 /\ text[n] \in 0 .. 9 /\ n - p <= 2
          /\ \A i \in 1 .. n : text[i] \in 0 .. 9 \cup {Point}
      BY <1>1, <2>2, <2>5 DEF WellFormed, n
    <3>3. p # 1 /\ p # n
      BY <2>1, <3>2 DEF Point
    <3>4. ASSUME NEW i \in 1 .. n, i # p  PROVE  text[i] \in 0 .. 9
      <4>1. i \notin Points(text)
        BY <3>1, <3>4
      <4>2. text[i] # Point
        BY <1>1, <4>1 DEF Points
      <4>. QED  BY <3>2, <4>2
    <3>5. \A i \in 1 .. Len(a) : a[i] \in 0 .. 9
      BY <1>1, <2>1, <3>4
    <3>6. \A i \in 1 .. Len(b) : b[i] \in 0 .. 9
      <4>. TAKE i \in 1 .. Len(b)
      <4>1. i \in 1 .. n - p /\ p + i \in 1 .. n /\ p + i # p
        BY <1>1, <2>1
      <4>. QED  BY <2>1, <3>4, <4>1
    <3>7. Len(a) # 0 /\ Len(b) # 0 /\ ~(Len(b) > 2)
      BY <1>1, <2>1, <3>2, <3>3
    <3>. QED  BY <1>3, <1>5, <1>6, <2>5, <3>5, <3>6, <3>7 DEF WellFormed, Accepted, IsNumber, a, b
  <2>. QED  BY <2>4, <2>5
<1>. QED  BY <1>7, <1>8

\* Powers of ten.
LEMMA TensType ==
  \A n \in Nat : Tens[n] \in Nat
<1>. DEFINE T == {n \in Nat : Tens[n] \notin Nat}
<1>1. ASSUME NEW n \in T  PROVE  \E j \in T : j < n
  <2>1. n \in Nat /\ Tens[n] \notin Nat
    OBVIOUS
  <2>2. Tens[n] = IF n = 0 THEN 1 ELSE 10 * Tens[n - 1]
    BY <2>1, TensStep
  <2>3. n # 0 /\ Tens[n - 1] \notin Nat
    BY <2>1, <2>2
  <2>. QED  BY <2>1, <2>3
<1>2. T \subseteq Nat
  OBVIOUS
<1>3. T = {}
  <2>. HIDE DEF T
  <2>. QED  BY <1>1, <1>2, Descent
<1>. QED  BY <1>3

\* Moving one digit to the left.
LEMMA Shift ==
  ASSUME NEW t \in Int, NEW x \in Int, NEW y \in Int, NEW d \in Int, y = 10 * x + d
  PROVE  100 * (t * y) = 100 * ((10 * t) * x) + (100 * t) * d
<1>1. t * y = 10 * (t * x) + t * d
  OBVIOUS
<1>. QED  BY <1>1

\* The value of the digits of a well-formed text is the sum of their weights.
LEMMA CentsExact ==
  ASSUME NEW text \in Seq(0 .. Minus), Accepted(text)
  PROVE  Value(Whole(text) \o Fraction(AfterPoint(text))) = Cents(text)
<1>. DEFINE n == Len(text)
            p == PointAt(text)
            a == Whole(text)
            b == AfterPoint(text)
            c == Fraction(b)
            d == a \o c
            S == DOMAIN text \ {p}
<1>1. n \in Nat /\ DOMAIN text = 1 .. n /\ \A i \in 1 .. n : text[i] \in 0 .. Minus
  BY Parts
<1>2. /\ a \in Seq(0 .. 9) /\ b \in Seq(0 .. 9) /\ c \in Seq(0 .. 9)
      /\ d \in Seq(0 .. 9) /\ Len(c) = 2
  <2>1. a \in Seq(0 .. Minus) /\ b \in Seq(0 .. Minus)
    BY PartsType
  <2>2. IsNumber(a) /\ (b = <<>> \/ IsNumber(b)) /\ ~(Len(b) > 2)
    BY Parts DEF Accepted
  <2>. HIDE DEF a, b
  <2>. QED  BY <2>1, <2>2, Together
<1>3. /\ p \in Nat /\ p >= 1 /\ Len(a) = p - 1 /\ \A i \in 1 .. p - 1 : a[i] = text[i]
      /\ \/ p = n + 1 /\ c = <<0, 0>>
         \/ p = n - 1 /\ n >= 2 /\ c[1] = text[n] /\ c[2] = 0
         \/ p = n - 2 /\ n >= 3 /\ c[1] = text[n - 1] /\ c[2] = text[n]
  <2>1. CASE Points(text) = {}
    <3>1. p = n + 1 /\ a = text /\ b = <<>>
      BY <2>1, Parts
    <3>2. c = <<0, 0>>
      BY <3>1, EmptySeq DEF Fraction
    <3>. HIDE DEF p, a, b, c
    <3>3. Len(a) = p - 1 /\ \A i \in 1 .. p - 1 : a[i] = text[i]
      BY <1>1, <3>1
    <3>. QED  BY <1>1, <3>1, <3>2, <3>3
  <2>2. CASE Points(text) # {}
    <3>1. /\ p \in 1 .. n /\ Len(a) = p - 1 /\ \A i \in 1 .. p - 1 : a[i] = text[i]
          /\ Len(b) = n - p /\ \A i \in 1 .. n - p : b[i] = text[p + i]
      BY <2>2, Parts
    <3>2. Len(a) \in Nat /\ Len(b) \in Nat /\ Len(a) # 0 /\ Len(b) # 0 /\ ~(Len(b) > 2)
      BY <1>2, <2>2, EmptySeq, LenProperties DEF Accepted, IsNumber
    <3>. HIDE DEF p, a, b, n
    <3>3. p = n - 1 \/ p = n - 2
      BY <1>1, <3>1, <3>2
    <3>4. CASE p = n - 1
      <4>1. Len(b) = 1 /\ b[1] = text[n] /\ n >= 2
        BY <1>1, <3>1, <3>2, <3>4
      <4>2. c = b \o <<0>>
        BY <4>1 DEF Fraction
      <4>3. <<0>> \in Seq(0 .. 9) /\ Len(<<0>>) = 1 /\ <<0>>[1] = 0
        OBVIOUS
      <4>4. \A i \in 1 .. Len(b) + Len(<<0>>) :
              (b \o <<0>>)[i] = IF i <= Len(b) THEN b[i] ELSE <<0>>[i - Len(b)]
        BY <1>2, <4>3, ConcatProperties
      <4>. HIDE DEF c
      <4>5. c[1] = b[1]
        BY <4>1, <4>2, <4>3, <4>4
      <4>6. c[2] = 0
        BY <4>1, <4>2, <4>3, <4>4
      <4>. QED  BY <1>1, <3>1, <3>4, <4>1, <4>5, <4>6
    <3>5. CASE p = n - 2
      <4>1. Len(b) = 2 /\ b[1] = text[n - 1] /\ b[2] = text[n] /\ n >= 3
        BY <1>1, <3>1, <3>2, <3>5
      <4>2. c = b
        BY <4>1 DEF Fraction
      <4>. HIDE DEF c
      <4>. QED  BY <1>1, <3>1, <3>5, <4>1, <4>2
    <3>. QED  BY <3>3, <3>4, <3>5
  <2>. QED  BY <2>1, <2>2
<1>. HIDE DEF n, p, a, b, c
<1>4. /\ Len(d) = p + 1 /\ \A i \in 1 .. p - 1 : d[i] = text[i]
      /\ d[p] = c[1] /\ d[p + 1] = c[2]
  <2>1. Len(d) = Len(a) + Len(c) /\ \A i \in 1 .. Len(a) + Len(c) :
                                      d[i] = IF i <= Len(a) THEN a[i] ELSE c[i - Len(a)]
    BY <1>2, ConcatProperties
  <2>. HIDE DEF d
  <2>2. Len(a) + Len(c) = p + 1
    BY <1>2, <1>3
  <2>3. \A i \in 1 .. p - 1 : d[i] = text[i]
    BY <1>2, <1>3, <2>1
  <2>4. p \in 1 .. p + 1 /\ p + 1 \in 1 .. p + 1 /\ ~(p <= Len(a)) /\ ~(p + 1 <= Len(a))
        /\ p - Len(a) = 1 /\ (p + 1) - Len(a) = 2
    BY <1>3
  <2>5. d[p] = c[p - Len(a)] /\ d[p + 1] = c[(p + 1) - Len(a)]
    BY <2>1, <2>2, <2>4
  <2>. QED  BY <2>1, <2>2, <2>3, <2>4, <2>5
<1>. HIDE DEF d
<1>5. p + 1 \in Nat /\ Digits(d, p + 1) /\ \A i \in 1 .. p + 1 : d[i] \in 0 .. 9
  BY <1>2, <1>3, <1>4, DigitSeq
<1>6. PICK v : Horner(v, d, p + 1) /\ Value(d) = v[p + 1]
  BY <1>5, ValueReads
<1>7. /\ v[0] = 0 /\ \A k \in 0 .. p + 1 : v[k] \in Nat
      /\ \A k \in 1 .. p + 1 : v[k] = 10 * v[k - 1] + d[k]
  BY <1>6 DEF Horner
<1>8. v[p + 1] = 100 * v[p - 1] + 10 * c[1] + c[2] /\ v[p - 1] \in Nat
  <2>1. p \in 1 .. p + 1 /\ p + 1 \in 1 .. p + 1 /\ (p + 1) - 1 = p /\ p - 1 \in 0 .. p + 1
    BY <1>3
  <2>2. v[p] = 10 * v[p - 1] + d[p] /\ v[p + 1] = 10 * v[p] + d[p + 1] /\ v[p - 1] \in Nat
    BY <1>7, <2>1
  <2>3. d[p] \in 0 .. 9 /\ d[p + 1] \in 0 .. 9
    BY <1>5, <2>1
  <2>. QED  BY <1>4, <2>2, <2>3
<1>9. Tens[0] = 1 /\ Tens[1] = 10
  <2>1. Tens[0] = 1
    BY TensStep
  <2>2. Tens[1] = 10 * Tens[1 - 1]
    BY TensStep
  <2>. QED  BY <2>1, <2>2
<1>10. S = 1 .. n \ {p}
  BY <1>1
<1>. DEFINE f == Share(text)
<1>11. ASSUME NEW i \in S
       PROVE  /\ text[i] \in Int /\ f[i] = Weight(p, i) * text[i] /\ Weight(p, i) \in Int
  <2>1. i \in 1 .. n /\ i # p
    BY <1>10
  <2>2. text[i] \in Int
    BY <1>1, <2>1
  <2>3. f[i] = Weight(p, i) * text[i]
    BY DEF Share, p
  <2>4. Weight(p, i) \in Int
    <3>1. CASE i < p
      <4>1. p - 1 - i \in Nat
        BY <1>3, <2>1, <3>1
      <4>2. Tens[p - 1 - i] \in Nat
        BY <4>1, TensType
      <4>. QED  BY <3>1, <4>2 DEF Weight
    <3>2. CASE i > p
      <4>1. 2 - (i - p) \in Nat
        BY <1>1, <1>3, <2>1, <3>2
      <4>2. Tens[2 - (i - p)] \in Nat
        BY <4>1, TensType
      <4>. QED  BY <1>3, <2>1, <3>2, <4>2 DEF Weight
    <3>. QED  BY <1>3, <2>1, <3>1, <3>2
  <2>. QED  BY <2>2, <2>3, <2>4
<1>12. f \in [S -> Int]
  <2>1. f = [i \in S |-> f[i]]
    BY DEF Share, p
  <2>2. \A i \in S : f[i] \in Int
    BY <1>11
  <2>. HIDE DEF f, S
  <2>. QED  BY <2>1, <2>2
<1>. HIDE DEF f, S
<1>. DEFINE F == [k \in 0 .. n |-> IF k < p THEN 100 * (Tens[p - 1 - k] * v[k])
                                   ELSE IF k = p THEN 100 * v[p - 1]
                                   ELSE IF k = p + 1 THEN 100 * v[p - 1] + 10 * text[p + 1]
                                   ELSE 100 * v[p - 1] + 10 * text[p + 1] + text[p + 2]]
<1>13. \A k \in 0 .. n : k < p => F[k] = 100 * (Tens[p - 1 - k] * v[k])
  BY <1>3
<1>14. \A k \in 0 .. n : k = p => F[k] = 100 * v[p - 1]
  BY <1>3
<1>15. \A k \in 0 .. n : k = p + 1 => F[k] = 100 * v[p - 1] + 10 * text[p + 1]
  BY <1>3
<1>16. \A k \in 0 .. n : k = p + 2 =>
         F[k] = 100 * v[p - 1] + 10 * text[p + 1] + text[p + 2]
  BY <1>3
<1>17. \A k \in 0 .. n : k < p \/ k = p \/ k = p + 1 \/ k = p + 2
  BY <1>1, <1>3
<1>18. DOMAIN F = 0 .. n /\ F = [k \in 0 .. n |-> F[k]]
  OBVIOUS
<1>. HIDE DEF F
<1>19. \A k \in 0 .. n : F[k] \in Int
  <2>. TAKE k \in 0 .. n
  <2>1. CASE k < p
    <3>1. p - 1 - k \in Nat /\ k \in 0 .. p + 1
      BY <1>1, <1>3, <2>1
    <3>2. Tens[p - 1 - k] \in Nat /\ v[k] \in Nat
      BY <1>7, <3>1, TensType
    <3>3. F[k] = 100 * (Tens[p - 1 - k] * v[k])
      BY <1>13, <2>1
    <3>. QED  BY <3>2, <3>3
  <2>2. CASE k = p
    BY <1>8, <1>14, <2>2
  <2>3. CASE k = p + 1
    <3>1. text[p + 1] \in Int
      BY <1>1, <1>3, <2>3
    <3>. QED  BY <1>8, <1>15, <2>3, <3>1
  <2>4. CASE k = p + 2
    <3>1. p + 1 \in 1 .. n /\ p + 2 \in 1 .. n
      BY <1>1, <1>3, <2>4
    <3>2. text[p + 1] \in Int /\ text[p + 2] \in Int
      BY <1>1, <3>1
    <3>3. F[k] = 100 * v[p - 1] + 10 * text[p + 1] + text[p + 2]
      BY <1>16, <2>4
    <3>4. 100 * v[p - 1] \in Int /\ 10 * text[p + 1] \in Int
      BY <1>8, <3>2
    <3>. QED  BY <3>2, <3>3, <3>4
  <2>. QED  BY <1>17, <2>1, <2>2, <2>3, <2>4
<1>20. F[0] = 0
  <2>1. 0 \in 0 .. n /\ 0 < p /\ p - 1 - 0 \in Nat
    BY <1>1, <1>3
  <2>2. Tens[p - 1 - 0] \in Nat
    BY <2>1, TensType
  <2>. QED  BY <1>7, <1>13, <2>1, <2>2
<1>21. ASSUME NEW k \in 1 .. n
       PROVE  F[k] = F[k - 1] + (IF k \in S THEN f[k] ELSE 0)
  <2>0. k \in 0 .. n /\ k - 1 \in 0 .. n /\ (k \in S <=> k # p)
    BY <1>1, <1>10
  <2>1. CASE k < p
    <3>. DEFINE t == Tens[p - 1 - k]
    <3>1. /\ p - 1 - k \in Nat /\ p - 1 - (k - 1) \in Nat /\ p - 1 - (k - 1) # 0
          /\ (p - 1 - (k - 1)) - 1 = p - 1 - k /\ k \in 1 .. p + 1 /\ k - 1 \in 0 .. p + 1
          /\ k \in 0 .. p + 1 /\ k \in 1 .. p - 1
      BY <1>1, <1>3, <2>1
    <3>2. t \in Nat /\ Tens[p - 1 - (k - 1)] = 10 * t
      BY <3>1, TensType, TensStep
    <3>3. v[k] = 10 * v[k - 1] + text[k] /\ v[k] \in Nat /\ v[k - 1] \in Nat /\ text[k] \in Int
      BY <1>1, <1>4, <1>7, <3>1
    <3>4. F[k] = 100 * (t * v[k])
      BY <1>13, <2>0, <2>1
    <3>5. k - 1 < p
      BY <1>3, <2>1
    <3>6. F[k - 1] = 100 * (Tens[p - 1 - (k - 1)] * v[k - 1])
      BY <1>13, <2>0, <3>5
    <3>7. k \in S /\ f[k] = (100 * t) * text[k]
      <4>1. k \in S
        BY <1>3, <2>0, <2>1
      <4>2. Weight(p, k) = 100 * t
        BY <2>1 DEF Weight
      <4>. QED  BY <1>11, <4>1, <4>2
    <3>. HIDE DEF t
    <3>8. 100 * (t * v[k]) = 100 * ((10 * t) * v[k - 1]) + (100 * t) * text[k]
      <4>. DEFINE x == v[k - 1]
                  y == v[k]
                  z == text[k]
      <4>1. t \in Int /\ x \in Int /\ y \in Int /\ z \in Int /\ y = 10 * x + z
        BY <3>2, <3>3
      <4>. HIDE DEF x, y, z
      <4>2. 100 * (t * y) = 100 * ((10 * t) * x) + (100 * t) * z
        BY <4>1, Shift
      <4>. QED  BY <4>2 DEF x, y, z
    <3>. QED  BY <3>2, <3>4, <3>6, <3>7, <3>8
  <2>2. CASE k = p
    <3>1. k - 1 < p /\ p - 1 - (k - 1) = 0 /\ k \notin S
      BY <1>3, <2>0, <2>2
    <3>2. F[k - 1] = 100 * (Tens[0] * v[k - 1])
      BY <1>13, <2>0, <3>1
    <3>3. F[k - 1] = 100 * v[p - 1]
      BY <1>8, <1>9, <2>2, <3>2
    <3>4. F[k] = 100 * v[p - 1]
      BY <1>14, <2>0, <2>2
    <3>. QED  BY <1>8, <3>1, <3>3, <3>4
  <2>3. CASE k = p + 1
    <3>1. k - 1 = p /\ k \in S /\ ~(k < p) /\ 2 - (k - p) = 1
      BY <1>3, <2>0, <2>3
    <3>2. Weight(p, k) = 10
      BY <1>9, <3>1 DEF Weight
    <3>3. f[k] = 10 * text[k] /\ text[k] \in Int
      BY <1>11, <3>1, <3>2
    <3>4. F[k - 1] = 100 * v[p - 1] /\ F[k] = 100 * v[p - 1] + 10 * text[p + 1]
      BY <1>14, <1>15, <2>0, <2>3, <3>1
    <3>. QED  BY <1>8, <2>3, <3>1, <3>3, <3>4
  <2>4. CASE k = p + 2
    <3>1. k - 1 = p + 1 /\ k \in S /\ ~(k < p) /\ 2 - (k - p) = 0 /\ k - 1 \in 1 .. n
      BY <1>3, <2>0, <2>4
    <3>2. Weight(p, k) = 1
      BY <1>9, <3>1 DEF Weight
    <3>3. f[k] = text[k] /\ text[k] \in Int /\ text[k - 1] \in Int
      BY <1>1, <1>11, <3>1, <3>2
    <3>4. /\ F[k - 1] = 100 * v[p - 1] + 10 * text[p + 1]
          /\ F[k] = 100 * v[p - 1] + 10 * text[p + 1] + text[p + 2]
      BY <1>15, <1>16, <2>0, <2>4, <3>1
    <3>. QED  BY <1>8, <2>4, <3>1, <3>3, <3>4
  <2>. QED  BY <1>17, <2>0, <2>1, <2>2, <2>3, <2>4
<1>22. Partial(F, n, S, f)
  <2>1. F \in [0 .. n -> Int]
    BY <1>18, <1>19
  <2>. QED  BY <1>20, <1>21, <2>1 DEF Partial
<1>23. Cents(text) = F[n]
  <2>1. S = DOMAIN text \ {PointAt(text)}
    BY DEF S, p
  <2>2. Share(text) \in [S -> Int] /\ Partial(F, n, S, Share(text))
    BY <1>12, <1>22 DEF f
  <2>. QED  BY <1>1, <2>1, <2>2, CentsSum
<1>24. F[n] = v[p + 1]
  <2>0. n \in 0 .. n
    BY <1>1
  <2>1. CASE p = n + 1 /\ c = <<0, 0>>
    <3>1. n < p /\ p - 1 - n = 0 /\ p - 1 = n
      BY <1>1, <2>1
    <3>2. F[n] = 100 * (Tens[0] * v[n])
      BY <1>13, <2>0, <3>1
    <3>3. c[1] = 0 /\ c[2] = 0
      BY <2>1
    <3>4. F[n] = 100 * v[p - 1]
      BY <1>8, <1>9, <3>1, <3>2
    <3>. QED  BY <1>8, <3>3, <3>4
  <2>2. CASE p = n - 1 /\ n >= 2 /\ c[1] = text[n] /\ c[2] = 0
    <3>1. n = p + 1
      BY <1>1, <2>2
    <3>2. F[n] = 100 * v[p - 1] + 10 * text[n]
      BY <1>15, <2>0, <3>1
    <3>3. text[n] \in Int
      BY <1>1, <2>2
    <3>. QED  BY <1>8, <2>2, <3>2, <3>3
  <2>3. CASE p = n - 2 /\ n >= 3 /\ c[1] = text[n - 1] /\ c[2] = text[n]
    <3>1. n = p + 2 /\ n - 1 = p + 1
      BY <1>1, <2>3
    <3>2. F[n] = 100 * v[p - 1] + 10 * text[n - 1] + text[n]
      BY <1>16, <2>0, <3>1
    <3>. QED  BY <1>8, <2>3, <3>2
  <2>. QED  BY <1>3, <2>1, <2>2, <2>3
<1>. QED  BY <1>6, <1>23, <1>24 DEF d, c, a, b

\* An amount is accepted exactly when it is a decimal number of cents that an int64 holds.
LEMMA TextExact ==
  ASSUME NEW text \in Seq(0 .. Minus), NEW c \in Currencies
  PROVE  IF WellFormed(text) /\ Cents(text) <= MaxInt
         THEN ParseMoney(text, c) = Parsed(Cents(text))
         ELSE ParseMoney(text, c).code # ""
<1>. DEFINE minor == Value(Whole(text) \o Fraction(AfterPoint(text)))
<1>1. ParseMoney(text, c) =
        IF \/ Cardinality(Points(text)) > 1
           \/ ~IsNumber(Whole(text))
           \/ Points(text) # {} /\ ~IsNumber(AfterPoint(text))
        THEN Invalid("INVALID_AMOUNT")
        ELSE IF Len(AfterPoint(text)) > 2 THEN Invalid("INVALID_SCALE")
        ELSE IF minor > MaxInt THEN Invalid("OVERFLOW") ELSE Parsed(minor)
  BY DEF ParseMoney
<1>2. \A e : e # "" => Invalid(e).code # ""
  BY DEF Invalid
<1>3. CASE ~WellFormed(text)
  <2>1. ~Accepted(text)
    BY <1>3, AcceptedIff
  <2>. HIDE DEF minor
  <2>2. ParseMoney(text, c) = Invalid("INVALID_AMOUNT") \/ ParseMoney(text, c) = Invalid("INVALID_SCALE")
    BY <1>1, <2>1 DEF Accepted
  <2>. QED  BY <1>2, <1>3, <2>2
<1>4. CASE WellFormed(text)
  <2>1. Accepted(text)
    BY <1>4, AcceptedIff
  <2>2. minor = Cents(text)
    BY <2>1, CentsExact
  <2>3. ParseMoney(text, c) = IF minor > MaxInt THEN Invalid("OVERFLOW") ELSE Parsed(minor)
    <3>. HIDE DEF minor
    <3>. QED  BY <1>1, <2>1 DEF Accepted
  <2>4. minor \in Nat
    <3>1. Whole(text) \in Seq(0 .. Minus) /\ AfterPoint(text) \in Seq(0 .. Minus)
      BY PartsType
    <3>2. IsNumber(Whole(text)) /\ ~(Len(AfterPoint(text)) > 2)
      BY <2>1 DEF Accepted
    <3>3. AfterPoint(text) = <<>> \/ IsNumber(AfterPoint(text))
      BY <2>1, Parts DEF Accepted
    <3>. QED  BY <3>1, <3>2, <3>3, Together
  <2>. HIDE DEF minor
  <2>5. ~(minor > MaxInt) <=> Cents(text) <= MaxInt
    BY <2>2, <2>4, MaxIntAssumption
  <2>6. CASE Cents(text) <= MaxInt
    BY <1>4, <2>2, <2>3, <2>5, <2>6
  <2>7. CASE ~(Cents(text) <= MaxInt)
    <3>1. ParseMoney(text, c) = Invalid("OVERFLOW")
      BY <2>3, <2>5, <2>7
    <3>. QED  BY <1>2, <2>7, <3>1
  <2>. QED  BY <2>6, <2>7
<1>. QED  BY <1>3, <1>4

\* MoneyExact: for the texts of a client and for every amount.
THEOREM MoneyCorrect == HttpSpec => []MoneyExact
<1>1. MoneyExact
  <2>1. "BRL" \in Currencies
    BY DEF Currencies
  <2>2. \A text \in Texts :
          LET m == ParseMoney(text, "BRL") IN
          IF WellFormed(text) /\ Cents(text) <= MaxInt THEN m = Parsed(Cents(text))
          ELSE m.code # ""
    BY <2>1, TextExact, TextsAssumption
  <2>3. \A n \in 0 .. MaxInt : ParseMoney(String(n), "BRL") = Parsed(n)
    BY <2>1, RoundTrip
  <2>. QED  BY <2>2, <2>3 DEF MoneyExact
<1>. QED  BY <1>1, PTL

(***************************************************************************)
(* Pages.                                                                  *)
(***************************************************************************)
\* The rows of R have stamps, and no two have the same id.
Stamped(R, st) ==
  /\ \A r \in R : st[r].at \in Nat /\ st[r].id \in Nat
  /\ \A r, q \in R : r # q => st[r].id # st[q].id

Descending(s, st) == \A i, j \in DOMAIN s : i < j => Earlier(st[s[j]], st[s[i]])

\* One of them is the earliest.
LEMMA EarliestExists ==
  ASSUME NEW R, R # {}, NEW st, Stamped(R, st)
  PROVE  \E x \in R : \A r \in R : r # x => Earlier(st[x], st[r])
<1>. DEFINE A == {st[r].at : r \in R}
<1>1. PICK a \in A : \A b \in A : a <= b
  <2>1. A \subseteq Nat /\ A # {}
    BY DEF Stamped
  <2>. HIDE DEF A
  <2>. QED  BY <2>1, Least
<1>. DEFINE R2 == {r \in R : st[r].at = a}
            I == {st[r].id : r \in R2}
<1>2. PICK i \in I : \A j \in I : i <= j
  <2>1. I \subseteq Nat /\ I # {}
    BY DEF Stamped
  <2>. HIDE DEF I
  <2>. QED  BY <2>1, Least
<1>3. PICK x \in R2 : st[x].id = i
  OBVIOUS
<1>4. ASSUME NEW r \in R, r # x  PROVE  Earlier(st[x], st[r])
  <2>1. st[x].at = a /\ a <= st[r].at /\ st[r].at \in Nat /\ a \in Nat
    BY <1>1 DEF Stamped
  <2>2. CASE st[r].at = a
    <3>1. i <= st[r].id /\ st[r].id # i /\ st[r].id \in Nat /\ i \in Nat
      BY <1>2, <1>3, <1>4, <2>2 DEF Stamped
    <3>. QED  BY <1>3, <2>1, <2>2, <3>1 DEF Earlier
  <2>3. CASE st[r].at # a
    BY <2>1, <2>3 DEF Earlier
  <2>. QED  BY <2>2, <2>3
<1>. QED  BY <1>4

\* So the rows can be sorted, the latest first.
LEMMA SortExists ==
  ASSUME NEW R, IsFiniteSet(R), NEW st, Stamped(R, st)
  PROVE  \E s \in SetToSeqs(R) : Descending(s, st)
<1>. DEFINE Good(Q) == \E s \in SetToSeqs(Q) : Descending(s, st)
            T == {Q \in SUBSET R : ~Good(Q)}
<1>. SUFFICES ASSUME ~Good(R)  PROVE FALSE
  OBVIOUS
<1>1. PICK Q \in T : \A P \in T : P \subseteq Q => P = Q
  <2>1. T \subseteq SUBSET R /\ T # {}
    OBVIOUS
  <2>. HIDE DEF T
  <2>. QED  BY <2>1, Minimal
<1>2. Q \in SUBSET R /\ ~Good(Q) /\ IsFiniteSet(Q) /\ Stamped(Q, st)
  BY FS_Subset DEF Stamped
<1>3. Q # {}
  <2>. SUFFICES ASSUME Q = {}  PROVE FALSE
    OBVIOUS
  <2>. DEFINE e == [i \in 1 .. 0 |-> 0]
  <2>1. Cardinality(Q) = 0 /\ 1 .. 0 = {}
    BY FS_EmptySet
  <2>2. e \in SetToSeqs(Q) /\ Descending(e, st)
    BY <2>1 DEF SetToSeqs, Descending
  <2>. QED  BY <1>2, <2>2
<1>4. PICK x \in Q : \A r \in Q : r # x => Earlier(st[x], st[r])
  BY <1>2, <1>3, EarliestExists
<1>. DEFINE P == Q \ {x}
            n == Cardinality(P)
<1>5. P \in SUBSET R /\ P # Q /\ P \subseteq Q
  BY <1>2
<1>6. n \in Nat /\ Cardinality(Q) = n + 1
  <2>1. IsFiniteSet(P) /\ Cardinality(P) = Cardinality(Q) - 1 /\ Cardinality(Q) \in Nat
    BY <1>2, FS_RemoveElement, FS_CardinalityType
  <2>2. Cardinality(P) \in Nat
    BY <2>1, FS_CardinalityType
  <2>. HIDE DEF P
  <2>. QED  BY <2>1, <2>2
<1>7. Good(P)
  BY <1>1, <1>5
<1>8. PICK s \in SetToSeqs(P) : Descending(s, st)
  BY <1>7
<1>. HIDE DEF n
<1>9. /\ s \in [1 .. n -> P] /\ \A i, j \in 1 .. n : i # j => s[i] # s[j]
      /\ DOMAIN s = 1 .. n
  BY DEF SetToSeqs, n
<1>. DEFINE t == [i \in 1 .. n + 1 |-> IF i = n + 1 THEN x ELSE s[i]]
<1>10. /\ t[n + 1] = x
       /\ \A i \in 1 .. n + 1 : i # n + 1 => i \in 1 .. n /\ t[i] = s[i] /\ s[i] \in P
  BY <1>6, <1>9
<1>11. t \in [1 .. n + 1 -> Q] /\ DOMAIN t = 1 .. n + 1
  BY <1>9, <1>10
<1>. HIDE DEF t
<1>12. \A i, j \in 1 .. n + 1 : i # j => t[i] # t[j]
  <2>. SUFFICES ASSUME NEW i \in 1 .. n + 1, NEW j \in 1 .. n + 1, i # j  PROVE t[i] # t[j]
    OBVIOUS
  <2>1. CASE i = n + 1
    BY <1>10, <2>1
  <2>2. CASE j = n + 1
    BY <1>10, <2>2
  <2>3. CASE i # n + 1 /\ j # n + 1
    BY <1>9, <1>10, <2>3
  <2>. QED  BY <2>1, <2>2, <2>3
<1>13. t \in SetToSeqs(Q)
  BY <1>6, <1>11, <1>12 DEF SetToSeqs
<1>14. Descending(t, st)
  <2>. SUFFICES ASSUME NEW i \in 1 .. n + 1, NEW j \in 1 .. n + 1, i < j
                PROVE  Earlier(st[t[j]], st[t[i]])
    BY <1>11 DEF Descending
  <2>1. i # n + 1
    BY <1>6
  <2>2. t[i] = s[i] /\ s[i] \in P /\ i \in 1 .. n
    BY <1>10, <2>1
  <2>3. CASE j = n + 1
    BY <1>4, <1>10, <2>2, <2>3
  <2>4. CASE j # n + 1
    <3>1. t[j] = s[j] /\ j \in 1 .. n
      BY <1>10, <2>4
    <3>. QED  BY <1>8, <1>9, <2>2, <3>1 DEF Descending
  <2>. QED  BY <2>3, <2>4
<1>. QED  BY <1>2, <1>13, <1>14

\* What holds of a sorted sequence of the rows.
LEMMA SortedRows ==
  ASSUME NEW R, IsFiniteSet(R), NEW s \in SetToSeqs(R)
  PROVE  s \in Seq(R) /\ Len(s) \in Nat /\ DOMAIN s = 1 .. Len(s)
         /\ \A r \in R : \E i \in 1 .. Len(s) : s[i] = r
<1>. DEFINE n == Cardinality(R)
<1>1. n \in Nat /\ s \in [1 .. n -> R] /\ \A i, j \in 1 .. n : i # j => s[i] # s[j]
  BY FS_CardinalityType DEF SetToSeqs
<1>2. s \in Seq(R) /\ Len(s) = n
  BY <1>1, IntoSeq
<1>3. \A r \in R : \E i \in 1 .. n : s[i] = r
  <2>1. IsFiniteSet(1 .. n) /\ Cardinality(1 .. n) = n
    BY <1>1, Interval
  <2>2. s \in Injection(1 .. n, R)
    BY <1>1 DEF Injection, IsInjective
  <2>3. s \in Surjection(1 .. n, R)
    BY <2>1, <2>2, FS_Injection
  <2>. QED  BY <2>3 DEF Surjection
<1>. HIDE DEF n
<1>. QED  BY <1>1, <1>2, <1>3

\* The rows that a page is cut from.
PageRows(w, cursor) == {i \in DOMAIN ledger[w] : cursor = NoCursor \/ Earlier(stamp[w][i], cursor)}

In(x, s) == \E i \in DOMAIN s : s[i] = x

\* A page: its entries are rows, the latest first.  If there is no next page then these
\* are all the rows, else the cursor is the stamp of the last entry and the rows that are
\* left are earlier.
LEMMA PageFacts ==
  ASSUME NEW w, NEW cursor, NEW limit \in Nat \ {0},
         NEW n \in Nat, DOMAIN ledger[w] = 1 .. n, Stamped(1 .. n, stamp[w]),
         \A i \in 1 .. n : stamp[w][i].id # 0
  PROVE  LET page == LedgerPage(w, cursor, limit)
             e    == page.entries
             rows == PageRows(w, cursor)
         IN /\ e \in Seq(rows) /\ Descending(e, stamp[w])
            /\ page.next = NoCursor => \A r \in rows : In(r, e)
            /\ page.next # NoCursor =>
                 /\ Len(e) \in Nat /\ Len(e) >= 1 /\ page.next = stamp[w][e[Len(e)]]
                 /\ \A r \in rows : In(r, e) \/ Earlier(stamp[w][r], page.next)
<1>. DEFINE page == LedgerPage(w, cursor, limit)
            e    == page.entries
            rows == PageRows(w, cursor)
            st   == stamp[w]
            sorted == CHOOSE s \in SetToSeqs(rows) : \A i, j \in DOMAIN s : i < j => Earlier(st[s[j]], st[s[i]])
            L == Len(sorted)
            c == IF limit < L THEN limit ELSE L
<1>1. rows \subseteq 1 .. n /\ IsFiniteSet(rows) /\ Stamped(rows, st)
  <2>1. rows \subseteq 1 .. n /\ IsFiniteSet(1 .. n)
    BY Interval DEF PageRows
  <2>2. IsFiniteSet(rows)
    BY <2>1, FS_Subset
  <2>3. Stamped(rows, st)
    <3>. HIDE DEF rows
    <3>. QED  BY <2>1 DEF Stamped
  <2>. QED  BY <2>1, <2>2, <2>3
<1>2. page = [entries |-> SubSeq(sorted, 1, c),
              next    |-> IF L > limit THEN stamp[w][sorted[limit]] ELSE NoCursor]
  BY DEF LedgerPage, PageRows
<1>. HIDE DEF rows
<1>3. sorted \in SetToSeqs(rows) /\ Descending(sorted, st)
  <2>1. \E s \in SetToSeqs(rows) : Descending(s, st)
    BY <1>1, SortExists
  <2>. QED  BY <2>1 DEF Descending
<1>. HIDE DEF sorted, page
<1>4. /\ sorted \in Seq(rows) /\ L \in Nat /\ DOMAIN sorted = 1 .. L
      /\ \A r \in rows : \E i \in 1 .. L : sorted[i] = r
  BY <1>1, <1>3, SortedRows
<1>5. e = SubSeq(sorted, 1, c) /\ page.next = IF L > limit THEN st[sorted[limit]] ELSE NoCursor
  BY <1>2
<1>6. c \in Nat /\ c <= L /\ 1 <= c + 1 /\ 1 \in Nat /\ 1 >= 1 /\ c - 1 + 1 = c
      /\ (L > limit => c = limit) /\ (~(L > limit) => c = L)
  BY <1>4
<1>. HIDE DEF c
<1>7. e \in Seq(rows) /\ Len(e) = c /\ \A i \in 1 .. c : e[i] = sorted[i]
  <2>1. /\ SubSeq(sorted, 1, c) \in Seq(rows) /\ Len(SubSeq(sorted, 1, c)) = c - 1 + 1
        /\ \A i \in 1 .. c - 1 + 1 : SubSeq(sorted, 1, c)[i] = sorted[1 + i - 1]
    <3>1. c <= Len(sorted)
      BY <1>6
    <3>. HIDE DEF L
    <3>. QED  BY <1>4, <1>6, <3>1, Piece
  <2>2. \A i \in 1 .. c : 1 + i - 1 = i
    BY <1>6
  <2>. QED  BY <1>5, <1>6, <2>1, <2>2
<1>8. DOMAIN e = 1 .. c
  BY <1>7, LenProperties
<1>. HIDE DEF e
<1>9. Descending(e, st)
  <2>. SUFFICES ASSUME NEW i \in 1 .. c, NEW j \in 1 .. c, i < j  PROVE Earlier(st[e[j]], st[e[i]])
    BY <1>8 DEF Descending
  <2>1. i \in 1 .. L /\ j \in 1 .. L
    <3>. HIDE DEF L
    <3>. QED  BY <1>4, <1>6
  <2>2. Earlier(st[sorted[j]], st[sorted[i]])
    BY <1>3, <1>4, <2>1 DEF Descending
  <2>. QED  BY <1>7, <2>2
<1>10. CASE ~(L > limit)
  <2>1. c = L /\ page.next = NoCursor
    BY <1>5, <1>6, <1>10
  <2>2. \A r \in rows : In(r, e)
    BY <1>4, <1>7, <1>8, <2>1 DEF In
  <2>. QED  BY <1>7, <1>9, <2>1, <2>2 DEF e, page, rows
<1>11. CASE L > limit
  <2>1. c = limit /\ page.next = st[sorted[limit]] /\ limit \in 1 .. L /\ limit \in 1 .. c
    BY <1>4, <1>5, <1>6, <1>11
  <2>2. sorted[limit] \in 1 .. n
    BY <1>1, <1>4, <2>1, ElementOfSeq
  <2>3. page.next # NoCursor
    <3>1. page.next.id # 0
      BY <2>1, <2>2
    <3>. QED  BY <3>1 DEF NoCursor
  <2>4. page.next = st[e[Len(e)]] /\ Len(e) \in Nat /\ Len(e) >= 1
    BY <1>7, <2>1
  <2>5. ASSUME NEW r \in rows  PROVE  In(r, e) \/ Earlier(st[r], page.next)
    <3>1. PICK i \in 1 .. L : sorted[i] = r
      BY <1>4
    <3>2. CASE i <= limit
      <4>1. i \in 1 .. c
        BY <1>4, <2>1, <3>2
      <4>. QED  BY <1>7, <1>8, <3>1, <4>1 DEF In
    <3>3. CASE i > limit
      <4>1. Earlier(st[sorted[i]], st[sorted[limit]])
        BY <1>3, <1>4, <2>1, <3>3 DEF Descending
      <4>. QED  BY <2>1, <3>1, <4>1
    <3>4. i <= limit \/ i > limit
      BY <1>4
    <3>. QED  BY <3>2, <3>3, <3>4
  <2>. QED  BY <1>7, <1>9, <2>3, <2>4, <2>5 DEF e, page, rows
<1>. QED  BY <1>10, <1>11

(***************************************************************************)
(* The inductive invariant.                                                *)
(***************************************************************************)
Balance == [balance : Minor, version : Nat]
Line == [tx : TxIds, dir : {"DEBIT", "CREDIT"}, amount : Minor, before : Minor, after : Minor]

CoreType ==
  /\ wallet \in [Wallets -> Balance]
  /\ ledger \in [Wallets -> Seq(Line)]
  /\ wager \in [TxIds -> Row]

\* Every entry starts where the one before it ended, and moves by its amount.
Chain(l) ==
  \A i \in DOMAIN l : /\ l[i].before = IF i = 1 THEN 0 ELSE l[i - 1].after
                      /\ l[i].after = l[i].before + Signed(l[i])

Closing(l) == IF l = <<>> THEN 0 ELSE l[Len(l)].after

\* Ledger l is a chain to balance b, and version b counts its entries.
Balanced(l, b, opening) ==
  /\ Chain(l)
  /\ b.balance = Closing(l)
  /\ b.version > 0 => b.version = Len(l) + (IF opening > 0 THEN 0 ELSE 1)
  /\ b.version = 0 => l = <<>>

Books ==
  \A w \in Wallets : /\ Balanced(ledger[w], wallet[w], Accounts[w].initial)
                     /\ wallet[w].version > 0 => Accounts[w].currency \in Currencies

\* A row as some client may be shown it: what it froze is on the chain of its wallet.
OnChain(row) ==
  /\ row \in Row
  /\ wallet[row.cmd.wallet].version > 0
  /\ Terminal(row.status) => BalanceAt(row.cmd.wallet, row.version) = row.balance

Named(c) == c.provider = "" \/ NormalizeCommand(c) = ""
Alike(c, d) == SameKey(c, d) \/ SameExt(c, d)

\* Wagers are of known wallets, and no two of a provider have one key or one external id.
Rows ==
  /\ \A t \in Present(wager) : OnChain(wager[t]) /\ Named(wager[t].cmd)
  /\ \A t, u \in Present(wager) :
       wager[t].cmd.provider # "" /\ Alike(wager[t].cmd, wager[u].cmd) => t = u

\* Every entry has a stamp of its own; while the clock was never set back, stamps are in
\* the order of the commits.
Stamping ==
  /\ stamp \in [Wallets -> Seq(Stamps)] /\ clock \in Nat /\ steps \in 0 .. MaxSteps
  /\ \A w \in Wallets : DOMAIN stamp[w] = DOMAIN ledger[w]
  /\ \A w \in Wallets : \A i, j \in DOMAIN stamp[w] : stamp[w][i].id = stamp[w][j].id => i = j
  /\ steps = MaxSteps => \A w \in Wallets : \A i \in DOMAIN stamp[w] :
       /\ stamp[w][i].at <= clock
       /\ \A j \in DOMAIN stamp[w] : i < j => stamp[w][i].at < stamp[w][j].at

State == CoreType /\ Books /\ Rows /\ Stamping

\* Command c has the key or the external id of a wager and is another command.
Contradicted(c) ==
  c.provider # "" /\ \E t \in Present(wager) : Alike(wager[t].cmd, c) /\ wager[t].cmd # c

Walk == [wallet : Wallets, at : {"none", "open", "done"}, old : SUBSET Nat, got : Seq(Nat),
         cursor : [at : Nat, id : Nat]]

\* What walk k has got are entries of its ledger, the latest first.
Sound(k) ==
  /\ k \in Walk
  /\ k.old \subseteq DOMAIN ledger[k.wallet]
  /\ \A i \in DOMAIN k.got : k.got[i] \in DOMAIN ledger[k.wallet]
  /\ Descending(k.got, stamp[k.wallet])

\* Walk k goes on from its cursor: what it has got is not before it, and what it has not
\* got of the entries that were there when it began is.
Going(k) ==
  /\ k.cursor = NoCursor => k.got = <<>>
  /\ k.cursor # NoCursor => \A i \in DOMAIN k.got : ~Earlier(stamp[k.wallet][k.got[i]], k.cursor)
  /\ \A x \in k.old : In(x, k.got) \/ x \in PageRows(k.wallet, k.cursor)

Walking ==
  /\ Sound(walk)
  /\ walk.at = "open" => Going(walk)
  /\ walk.at = "done" => \A x \in walk.old : In(x, walk.got)

\* What a client has been given, or is about to be.
Client ==
  /\ \A c \in refused : Contradicted(c)
  /\ reading.route \in {"", "getTransaction", "getExternal"}
  /\ reading.route # "" => OnChain(reading.row)
  /\ Walking

\* The answer that is under way is true.
Answered ==
  /\ AnswersOnChain /\ ReconcilesAlways
  /\ answer.status \in {400, 404, 409} /\ answer.cmd # NoCommand => ~Recorded(answer.cmd)

IndInv == State /\ Client /\ Answered

(***************************************************************************)
(* The domain operators: what an outcome does to a wallet.                 *)
(***************************************************************************)
\* The absent values that rows, codes and results start from have the type of their
\* column.
LEMMA Zeroes ==
  /\ 0 \in Minor /\ 0 \in TxIds \cup {0} /\ "" \in Names
  /\ "" \in Codes /\ "NONE" \in Statuses /\ "NONE" \in Directions
<1>1. 0 \in Minor
  BY MaxIntAssumption DEF Minor
<1>2. "" \in Codes /\ "NONE" \in Statuses /\ "NONE" \in Directions
  BY DEF Codes, Statuses, Directions
<1>. QED  BY <1>1, <1>2, NamesAssumption

\* The row that ProcessWager inserts is a row about its command.
LEMMA NewRowType ==
  ASSUME NEW c \in Command, NEW s \in Statuses
  PROVE  NewRow(c, s) \in Row /\ NewRow(c, s).cmd = c /\ NewRow(c, s).status = s
BY Zeroes DEF NewRow, Row

\* The values that stand for an absent row, reference or balance are typed.
LEMMA InitialValues ==
  /\ NoCommand \in Command /\ NoCommand.provider = ""
  /\ NoRow \in Row /\ NoRow.status = "NONE" /\ NoRow.cmd = NoCommand
  /\ NoSeen \in Seen /\ NoBalance \in Balance
<1>1. NoCommand \in Command /\ NoCommand.provider = ""
  <2>1. (CHOOSE w \in Wallets : TRUE) \in Wallets
    BY AccountsAssumption
  <2>2. "OPENING" \in Kinds
    BY DEF Kinds
  <2>. QED  BY <2>1, <2>2, Zeroes DEF NoCommand, Command
<1>2. NoRow \in Row /\ NoRow.status = "NONE" /\ NoRow.cmd = NoCommand
  BY <1>1, Zeroes, NewRowType DEF NoRow
<1>3. NoBalance \in Balance
  BY Zeroes DEF NoBalance, Balance
<1>4. NoSeen \in Seen
  BY <1>2 DEF NoSeen, Seen
<1>. QED  BY <1>1, <1>2, <1>3, <1>4

\* Reject, Fail and Process give a row of the same command that freezes the wallet.
LEMMA FreezeType ==
  ASSUME NEW row \in Row, NEW s \in Statuses, NEW code \in Codes,
         NEW w \in Balance, NEW t \in TxIds \cup {0}
  PROVE  LET f == Freeze(row, s, code, w, t) IN
         /\ f \in Row /\ f.cmd = row.cmd /\ f.status = s
         /\ f.version = w.version /\ f.balance = w.balance
BY AccountsAssumption DEF Freeze, Row, Balance, Command, Account

\* The decisions of Evaluate.
Decision == [dir : Directions, pending : BOOLEAN, code : Codes]

\* The three forms of a decision: only a move has a direction, and it has no code.
LEMMA DecisionTypes ==
  /\ \A code \in Codes : /\ Rejection(code) \in Decision
                          /\ Rejection(code).dir = "NONE"
                          /\ ~Rejection(code).pending
  /\ \A d \in Directions : /\ Move(d) \in Decision
                            /\ Move(d).dir = d
                            /\ ~Move(d).pending
  /\ Wait \in Decision /\ Wait.dir = "NONE"
BY Zeroes, Zenon DEF Rejection, Move, Wait, Decision

\* A decision moves money only when the balance allows it: no debit takes it below zero,
\* no credit beyond the largest amount.
LEMMA EvaluateFits ==
  ASSUME NEW acct, acct.balance \in Minor, NEW id, NEW c \in Command, NEW ref, NEW reversed
  PROVE  LET e == Evaluate(acct, id, c, ref, reversed) IN
         /\ e \in Decision
         /\ e.dir = "DEBIT" => c.amount <= acct.balance
         /\ e.dir = "CREDIT" => acct.balance + c.amount <= MaxInt
<1>1. c.amount \in 0 .. MaxInt /\ acct.balance \in 0 .. MaxInt /\ MaxInt \in Nat
  BY MaxIntAssumption DEF Command, Minor
<1>2. /\ JudgeReference(id, c, ref, reversed) \in Decision
      /\ JudgeReference(id, c, ref, reversed).dir = "NONE"
  BY DecisionTypes DEF JudgeReference, Directions, Codes
<1>3. DirectionOf(c.kind, ref.row.cmd.kind) \in Directions
  BY DEF DirectionOf, Directions
<1>4. ASSUME NEW d \in Directions
      PROVE  /\ JudgeFunds(acct.balance, c, d) \in Decision
             /\ JudgeFunds(acct.balance, c, d).dir = "DEBIT" => c.amount <= acct.balance
             /\ JudgeFunds(acct.balance, c, d).dir = "CREDIT" =>
                  acct.balance + c.amount <= MaxInt
  <2>1. CASE d = "DEBIT"
    <3>1. ~(c.amount > acct.balance) => c.amount <= acct.balance
      BY <1>1
    <3>. QED  BY <3>1, <2>1, DecisionTypes DEF JudgeFunds, Codes
  <2>2. CASE d = "CREDIT"
    <3>1. ~AddOverflows(acct.balance, c.amount) => acct.balance + c.amount <= MaxInt
      BY <1>1 DEF AddOverflows
    <3>. QED  BY <3>1, <2>2, DecisionTypes DEF JudgeFunds, Codes
  <2>3. CASE d = "NONE"
    BY <2>3, DecisionTypes DEF JudgeFunds
  <2>. QED  BY <2>1, <2>2, <2>3 DEF Directions
<1>. QED  BY <1>2, <1>3, <1>4, DecisionTypes DEF Evaluate, Codes

\* What outcome o of a wager of wallet w, with balance b, is: a movement by the amount and
\* one version, or none; and a final row freezes the wallet as the outcome leaves it.
Effect(o, b) ==
  /\ o.row \in Row /\ o.row.status # "NONE"
  /\ o.wallet \in Balance /\ o.dir \in Directions
  /\ o.dir = "NONE" => o.wallet = b
  /\ o.dir = "DEBIT" => o.wallet.balance = b.balance - o.row.cmd.amount
  /\ o.dir = "CREDIT" => o.wallet.balance = b.balance + o.row.cmd.amount
  /\ o.dir # "NONE" => o.wallet.version = b.version + 1
  /\ Terminal(o.row.status) =>
       o.row.version = o.wallet.version /\ o.row.balance = o.wallet.balance

\* A decided row keeps its command and freezes the wallet: as it was when it is rejected,
\* and as the move left it when it is processed.
LEMMA DecidedType ==
  ASSUME NEW row \in Row, NEW d \in Decision, NEW w \in Balance, NEW moved \in Balance,
         NEW t \in TxIds \cup {0}
  PROVE  LET next == Decided(row, d, w, moved, t) IN
         /\ next \in Row /\ next.cmd = row.cmd /\ next.status # "NONE"
         /\ Terminal(next.status) =>
              \/ d.code # "" /\ next.version = w.version /\ next.balance = w.balance
              \/ next.version = moved.version /\ next.balance = moved.balance
<1>1. /\ "REJECTED" \in Statuses /\ "PROCESSED" \in Statuses
      /\ "PENDING_REFERENCE" \in Statuses /\ 0 \in TxIds \cup {0}
      /\ ~Terminal("PENDING_REFERENCE")
  BY DEF Statuses, TerminalStates, Terminal
<1>a. d.code \in Codes
  BY DEF Decision
<1>b. "" \in Codes
  BY DEF Codes
<1>2. CASE d.pending
  <2>1. Decided(row, d, w, moved, t) = [row EXCEPT !.status = "PENDING_REFERENCE"]
    BY <1>2 DEF Decided
  <2>. QED  BY <1>1, <2>1 DEF Row
<1>3. CASE ~d.pending /\ d.code # ""
  <2>1. Decided(row, d, w, moved, t) = Freeze(row, "REJECTED", d.code, w, 0)
    BY <1>3 DEF Decided
  <2>. DEFINE f == Freeze(row, "REJECTED", d.code, w, 0)
  <2>2. /\ f \in Row /\ f.cmd = row.cmd /\ f.status = "REJECTED"
        /\ f.version = w.version /\ f.balance = w.balance
    BY <1>1, <1>a, FreezeType
  <2>. QED  BY <1>3, <2>1, <2>2
<1>4. CASE ~d.pending /\ d.code = ""
  <2>1. Decided(row, d, w, moved, t) = Freeze(row, "PROCESSED", "", moved, t)
    BY <1>4 DEF Decided
  <2>. DEFINE f(code) == Freeze(row, "PROCESSED", code, moved, t)
  <2>2. /\ f("") \in Row /\ f("").cmd = row.cmd /\ f("").status = "PROCESSED"
        /\ f("").version = moved.version /\ f("").balance = moved.balance
    <3>1. ASSUME NEW code \in Codes
          PROVE  /\ f(code) \in Row /\ f(code).cmd = row.cmd /\ f(code).status = "PROCESSED"
                 /\ f(code).version = moved.version /\ f(code).balance = moved.balance
      BY <1>1, FreezeType
    <3>. QED  BY <3>1, <1>b, Zenon
  <2>. QED  BY <2>1, <2>2
<1>. QED  BY <1>2, <1>3, <1>4

\* Only a decision without a code moves money.
LEMMA CodeStops ==
  ASSUME NEW acct, NEW id, NEW c, NEW ref, NEW reversed
  PROVE  LET e == Evaluate(acct, id, c, ref, reversed) IN e.code # "" => e.dir = "NONE"
<1>1. /\ \A code : Rejection(code).dir = "NONE"
      /\ \A d : Move(d).code = ""
      /\ Wait.dir = "NONE"
  BY DEF Rejection, Move, Wait
<1>2. LET j == JudgeReference(id, c, ref, reversed) IN j.code # "" => j.dir = "NONE"
  BY <1>1 DEF JudgeReference
<1>3. \A b, d : JudgeFunds(b, c, d).code # "" => JudgeFunds(b, c, d).dir = "NONE"
  BY <1>1 DEF JudgeFunds
<1>. QED  BY <1>1, <1>2, <1>3 DEF Evaluate

\* What apply writes for a wager is an effect on its wallet.
LEMMA OutcomeSound ==
  ASSUME NEW id \in TxIds, NEW row \in Row, NEW w \in Balance, NEW ref \in Seen,
         NEW reversed, NEW expired \in BOOLEAN
  PROVE  LET o == Outcome(id, row, w, ref, reversed, expired) IN
         Effect(o, w) /\ o.row.cmd = row.cmd
<1>. DEFINE acct == [currency |-> Accounts[row.cmd.wallet].currency, balance |-> w.balance]
            eval == Evaluate(acct, id, row.cmd, ref, reversed)
            d == IF eval.pending /\ expired THEN Rejection("REFERENCE_NOT_FOUND") ELSE eval
            moved == MoveWallet(w, row.cmd.amount, d.dir)
            next == Decided(row, d, w, moved, ref.id)
            o == Outcome(id, row, w, ref, reversed, expired)
<1>1. /\ row.cmd \in Command /\ acct.balance \in Minor /\ ref.id \in TxIds \cup {0}
      /\ row.cmd.amount \in 0 .. MaxInt /\ w.balance \in 0 .. MaxInt
      /\ w.version \in Nat /\ MaxInt \in Nat
  BY MaxIntAssumption DEF Row, Balance, Seen, Command, Minor
<1>2. /\ eval \in Decision
      /\ eval.dir = "DEBIT" => row.cmd.amount <= w.balance
      /\ eval.dir = "CREDIT" => w.balance + row.cmd.amount <= MaxInt
      /\ eval.code # "" => eval.dir = "NONE"
  <2>. HIDE DEF eval
  <2>1. acct.balance = w.balance
    OBVIOUS
  <2>2. acct.balance \in Minor /\ row.cmd \in Command
    BY <1>1
  <2>. HIDE DEF acct
  <2>3. eval.code # "" => eval.dir = "NONE"
    BY CodeStops DEF eval
  <2>. QED  BY <2>1, <2>2, <2>3, EvaluateFits DEF eval
<1>3. /\ d \in Decision
      /\ d.dir = "DEBIT" => row.cmd.amount <= w.balance
      /\ d.dir = "CREDIT" => w.balance + row.cmd.amount <= MaxInt
      /\ d.code # "" => d.dir = "NONE"
  <2>. HIDE DEF eval
  <2>. QED  BY <1>2, DecisionTypes DEF Codes
<1>. HIDE DEF d
<1>3a. d.dir \in Directions /\ d.code \in Codes /\ d.pending \in BOOLEAN
  BY <1>3, Zenon DEF Decision
<1>4. /\ moved \in Balance
      /\ d.dir = "NONE" => moved = w
      /\ d.dir = "DEBIT" => moved.balance = w.balance - row.cmd.amount
      /\ d.dir = "CREDIT" => moved.balance = w.balance + row.cmd.amount
      /\ d.dir # "NONE" => moved.version = w.version + 1
  <2>1. CASE d.dir = "NONE"
    BY <2>1 DEF MoveWallet
  <2>2. CASE d.dir = "DEBIT"
    <3>1. moved = [balance |-> w.balance - row.cmd.amount, version |-> w.version + 1]
      BY <2>2 DEF MoveWallet
    <3>2. w.balance - row.cmd.amount \in 0 .. MaxInt /\ w.version + 1 \in Nat
      <4>1. \A a, b \in 0 .. MaxInt : a <= b => b - a \in 0 .. MaxInt
        BY MaxIntAssumption
      <4>2. row.cmd.amount <= w.balance
        BY <1>3, <2>2
      <4>. QED  BY ONLY <4>1, <4>2, <1>1
    <3>. HIDE DEF moved
    <3>. QED  BY <2>2, <3>1, <3>2 DEF Balance, Minor
  <2>3. CASE d.dir = "CREDIT"
    <3>1. moved = [balance |-> w.balance + row.cmd.amount, version |-> w.version + 1]
      BY <2>3 DEF MoveWallet
    <3>2. w.balance + row.cmd.amount \in 0 .. MaxInt /\ w.version + 1 \in Nat
      <4>1. \A a, b \in 0 .. MaxInt : b + a <= MaxInt => b + a \in 0 .. MaxInt
        BY MaxIntAssumption
      <4>2. w.balance + row.cmd.amount <= MaxInt
        BY <1>3, <2>3
      <4>. QED  BY ONLY <4>1, <4>2, <1>1
    <3>. HIDE DEF moved
    <3>. QED  BY <2>3, <3>1, <3>2 DEF Balance, Minor
  <2>. QED  BY <2>1, <2>2, <2>3, <1>3a DEF Directions
<1>. HIDE DEF moved
<1>5. /\ next \in Row /\ next.cmd = row.cmd /\ next.status # "NONE"
      /\ Terminal(next.status) => next.version = moved.version /\ next.balance = moved.balance
  <2>1. /\ next \in Row /\ next.cmd = row.cmd /\ next.status # "NONE"
        /\ Terminal(next.status) =>
             \/ d.code # "" /\ next.version = w.version /\ next.balance = w.balance
             \/ next.version = moved.version /\ next.balance = moved.balance
    BY <1>1, <1>3, <1>4, DecidedType
  <2>. HIDE DEF next
  <2>. QED  BY <1>3, <1>4, <2>1
<1>. HIDE DEF next
<1>6. o.row = next /\ o.wallet = moved /\ o.dir = d.dir
  BY DEF Outcome, next, moved, d
<1>. HIDE DEF o
<1>7. Effect(o, w)
  BY <1>3a, <1>4, <1>5, <1>6 DEF Effect
<1>. QED  BY <1>5, <1>6, <1>7 DEF o

\* The permanent failure of RetryReference leaves the wallet as it is.
LEMMA FailureSound ==
  ASSUME NEW id \in TxIds, NEW row \in Row, NEW w \in Balance
  PROVE  Effect(Failure(id, row, w), w) /\ Failure(id, row, w).row.cmd = row.cmd
<1>. DEFINE f(code) == Freeze(row, "FAILED", code, w, 0)
            next == f("PERMANENT_PROCESSING_FAILURE")
            o == Failure(id, row, w)
<1>1. /\ next \in Row /\ next.cmd = row.cmd /\ next.status = "FAILED"
      /\ next.version = w.version /\ next.balance = w.balance
  <2>1. "FAILED" \in Statuses /\ 0 \in TxIds \cup {0}
    BY DEF Statuses, TerminalStates
  <2>2. ASSUME NEW code \in Codes
        PROVE  /\ f(code) \in Row /\ f(code).cmd = row.cmd /\ f(code).status = "FAILED"
               /\ f(code).version = w.version /\ f(code).balance = w.balance
    BY <2>1, FreezeType
  <2>3. "PERMANENT_PROCESSING_FAILURE" \in Codes
    BY DEF Codes
  <2>. QED  BY <2>2, <2>3, Zenon
<1>2. o.row = next /\ o.wallet = w /\ o.dir = "NONE"
  BY DEF Failure
<1>. HIDE DEF next, o
<1>3. Effect(o, w)
  BY <1>1, <1>2, Zeroes DEF Effect
<1>. QED  BY <1>1, <1>2, <1>3 DEF o

\* CreateWallet opens at version 1 with the initial balance as one credit.
LEMMA OpeningSound ==
  ASSUME NEW id \in TxIds, NEW w \in Wallets
  PROVE  LET o == Opening(id, w) IN
         /\ Effect(o, NoBalance) /\ o.dir = "CREDIT"
         /\ o.row.cmd.wallet = w /\ o.row.cmd.provider = ""
<1>. DEFINE c == OpeningCommand(w)
            new == [balance |-> Accounts[w].initial, version |-> 1]
            f(code) == Freeze(NewRow(c, "PENDING"), "PROCESSED", code, new, 0)
            row == f("")
            o == Opening(id, w)
<1>1. Accounts[w] \in Account
  BY AccountsAssumption
<1>2. c \in Command /\ c.wallet = w /\ c.amount = Accounts[w].initial /\ c.provider = ""
  BY <1>1, InitialValues DEF OpeningCommand, Command, Account
<1>3. new \in Balance /\ new.balance = Accounts[w].initial /\ new.version = 1
  BY <1>1 DEF Balance, Account
<1>3a. Accounts[w].initial \in Int /\ Accounts[w].initial = 0 + Accounts[w].initial
  <2>1. Accounts[w].initial \in Minor
    BY <1>1 DEF Account
  <2>2. \A n \in 0 .. MaxInt : n \in Int /\ n = 0 + n
    BY MaxIntAssumption
  <2>. QED  BY <2>1, <2>2 DEF Minor
<1>4. NewRow(c, "PENDING") \in Row /\ NewRow(c, "PENDING").cmd = c
  <2>1. "PENDING" \in Statuses
    BY DEF Statuses
  <2>. QED  BY <1>2, <2>1, NewRowType
<1>. HIDE DEF c, new
<1>5. /\ row \in Row /\ row.cmd = c /\ row.status = "PROCESSED"
      /\ row.version = new.version /\ row.balance = new.balance
  <2>1. "PROCESSED" \in Statuses /\ 0 \in TxIds \cup {0}
    BY DEF Statuses, TerminalStates
  <2>2. ASSUME NEW code \in Codes
        PROVE  /\ f(code) \in Row /\ f(code).cmd = c /\ f(code).status = "PROCESSED"
               /\ f(code).version = new.version /\ f(code).balance = new.balance
    BY <1>3, <1>4, <2>1, FreezeType
  <2>3. "" \in Codes
    BY DEF Codes
  <2>. QED  BY <2>2, <2>3, Zenon
<1>6. o.row = row /\ o.wallet = new /\ o.dir = "CREDIT"
  BY DEF Opening, new, c
<1>. HIDE DEF row, o
<1>7. "CREDIT" \in Directions /\ NoBalance.balance = 0 /\ NoBalance.version = 0
  BY DEF Directions, NoBalance
<1>8. Effect(o, NoBalance)
  <2>1. o.wallet.balance = NoBalance.balance + o.row.cmd.amount
    BY <1>2, <1>3, <1>3a, <1>5, <1>6, <1>7
  <2>2. o.wallet.version = NoBalance.version + 1
    BY <1>3, <1>6, <1>7
  <2>. QED  BY <2>1, <2>2, <1>3, <1>5, <1>6, <1>7 DEF Effect
<1>. QED  BY <1>2, <1>5, <1>6, <1>8 DEF o

\* The reference of a command, as a decision may read it, is a row with its id or the
\* absent one.
LEMMA ReferenceType ==
  ASSUME NEW rows \in [TxIds -> Row], NEW c
  PROVE  References(rows, c) \subseteq Seen
<1>. DEFINE hits == ByExt(rows, [c EXCEPT !.ext = c.ref])
            t == CHOOSE t \in hits : TRUE
<1>1. hits \subseteq TxIds
  BY DEF ByExt, Present
<1>. HIDE DEF hits
<1>2. ReferenceIn(rows, c) \in Seen
  <2>1. CASE c.ref = "" \/ hits = {}
    BY <2>1, InitialValues DEF ReferenceIn, hits
  <2>2. CASE ~(c.ref = "" \/ hits = {})
    <3>1. ReferenceIn(rows, c) = [id |-> t, row |-> rows[t]]
      BY <2>2 DEF ReferenceIn, hits
    <3>2. t \in TxIds
      BY <1>1, <2>2
    <3>. HIDE DEF t
    <3>. QED  BY <3>1, <3>2 DEF Seen
  <2>. QED  BY <2>1, <2>2
<1>. QED  BY <1>2, InitialValues DEF References

(***************************************************************************)
(* Commits.                                                                *)
(***************************************************************************)
\* One more entry that starts where the chain ends keeps it a chain.
LEMMA ChainExtends ==
  ASSUME NEW l \in Seq(Line), NEW e \in Line, Chain(l), e.before = Closing(l),
         e.after = e.before + Signed(e)
  PROVE  Chain(Append(l, e)) /\ Closing(Append(l, e)) = e.after
<1>. DEFINE n == Append(l, e)
<1>1. /\ n \in Seq(Line) /\ Len(n) = Len(l) + 1 /\ n[Len(n)] = e /\ n # <<>>
      /\ DOMAIN n = 1 .. Len(l) + 1 /\ DOMAIN l = 1 .. Len(l) /\ Len(l) \in Nat
  OBVIOUS
<1>2. \A i \in 1 .. Len(l) : n[i] = l[i]
  OBVIOUS
<1>. HIDE DEF n
<1>3. Closing(n) = e.after
  BY <1>1 DEF Closing
<1>4. ASSUME NEW i \in DOMAIN n
      PROVE  /\ n[i].before = IF i = 1 THEN 0 ELSE n[i - 1].after
             /\ n[i].after = n[i].before + Signed(n[i])
  <2>1. CASE i \in 1 .. Len(l)
    <3>1. n[i] = l[i] /\ (i # 1 => n[i - 1] = l[i - 1])
      BY <1>1, <1>2, <2>1
    <3>. QED  BY <1>1, <2>1, <3>1 DEF Chain
  <2>2. CASE i = Len(l) + 1
    <3>1. n[i] = e
      BY <1>1, <2>2
    <3>2. CASE l = <<>>
      <4>1. i = 1
        BY <2>2, <3>2
      <4>. QED  BY <3>1, <3>2, <4>1 DEF Closing
    <3>3. CASE l # <<>>
      <4>1. Len(l) \in 1 .. Len(l) /\ i # 1 /\ i - 1 = Len(l)
        BY <1>1, <2>2, <3>3
      <4>2. n[i - 1] = l[Len(l)]
        BY <1>2, <4>1
      <4>. QED  BY <3>1, <3>3, <4>1, <4>2 DEF Closing
    <3>. QED  BY <3>2, <3>3
  <2>. QED  BY <1>1, <1>4, <2>1, <2>2
<1>. QED  BY <1>3, <1>4 DEF Chain, n

\* A movement keeps a wallet and its ledger balanced, the opening one too.
LEMMA MovementBalances ==
  ASSUME NEW l \in Seq(Line), NEW b \in Balance, NEW opening \in Minor,
         NEW id \in TxIds, NEW o, Effect(o, b), o.dir # "NONE",
         b.version > 0 \/ opening > 0, Balanced(l, b, opening)
  PROVE  /\ LedgerEntry(id, o, b) \in Line
         /\ Balanced(Append(l, LedgerEntry(id, o, b)), o.wallet, opening)
<1>. DEFINE e == LedgerEntry(id, o, b)
            n == Append(l, e)
<1>1. /\ o.row \in Row /\ o.wallet \in Balance /\ o.dir \in {"DEBIT", "CREDIT"}
  BY DEF Effect, Directions
<1>2. e \in Line
  <2>1. o.row.cmd.amount \in Minor /\ b.balance \in Minor /\ o.wallet.balance \in Minor
    BY <1>1 DEF Row, Command, Balance
  <2>. QED  BY <1>1, <2>1 DEF LedgerEntry, Line
<1>3. /\ e.before = b.balance /\ e.after = o.wallet.balance /\ e.dir = o.dir
      /\ e.amount = o.row.cmd.amount
  BY DEF LedgerEntry
<1>4. /\ e.amount \in Int /\ b.balance \in Int /\ b.version \in Nat
      /\ o.wallet.balance \in Int
  <2>1. \A x \in Minor : x \in Int
    BY MaxIntAssumption DEF Minor
  <2>2. e.amount \in Minor /\ b.balance \in Minor /\ o.wallet.balance \in Minor /\ b.version \in Nat
    BY <1>1, <1>2 DEF Line, Balance
  <2>. QED  BY ONLY <2>1, <2>2
<1>. HIDE DEF e
<1>5. e.after = e.before + Signed(e)
  <2>1. CASE o.dir = "DEBIT"
    <3>1. e.after = b.balance - e.amount /\ Signed(e) = 0 - e.amount
      BY <1>3, <2>1 DEF Effect, Signed
    <3>. QED  BY <1>3, <1>4, <3>1
  <2>2. CASE o.dir = "CREDIT"
    BY <1>3, <1>4, <2>2 DEF Effect, Signed
  <2>. QED  BY <1>1, <2>1, <2>2
<1>6. Chain(n) /\ Closing(n) = o.wallet.balance
  BY <1>2, <1>3, <1>5, ChainExtends DEF Balanced
<1>7. o.wallet.version = b.version + 1
  BY DEF Effect
<1>8. Len(n) = Len(l) + 1 /\ Len(l) \in Nat /\ (l = <<>> => Len(l) = 0)
  OBVIOUS
<1>. HIDE DEF n
<1>9. o.wallet.version > 0 => o.wallet.version = Len(n) + (IF opening > 0 THEN 0 ELSE 1)
  <2>1. CASE b.version > 0
    <3>1. b.version = Len(l) + (IF opening > 0 THEN 0 ELSE 1)
      BY <2>1 DEF Balanced
    <3>. QED  BY ONLY <3>1, <1>4, <1>7, <1>8
  <2>2. CASE ~(b.version > 0)
    <3>1. b.version = 0 /\ opening > 0
      BY <1>4, <2>2
    <3>2. Len(l) = 0
      BY <1>8, <3>1 DEF Balanced
    <3>. QED  BY ONLY <3>1, <3>2, <1>7, <1>8
  <2>. QED  BY <2>1, <2>2
<1>. QED
  <2>1. o.wallet.version # 0
    BY <1>4, <1>7
  <2>2. Balanced(n, o.wallet, opening)
    BY <1>6, <1>9, <2>1 DEF Balanced
  <2>. QED  BY <1>2, <2>2 DEF n, e

Latest ==
  \A w \in Wallets : wallet[w].version > 0 =>
    BalanceAt(w, wallet[w].version) = wallet[w].balance

\* The wallet row holds the balance of its version.
LEMMA LastBalance == CoreType /\ Books => Latest
<1>. SUFFICES ASSUME CoreType, Books, NEW w \in Wallets, wallet[w].version > 0
              PROVE  BalanceAt(w, wallet[w].version) = wallet[w].balance
  BY DEF Latest
<1>. DEFINE l == ledger[w]
            v == wallet[w].version
            d == IF Accounts[w].initial > 0 THEN 0 ELSE 1
            n == v - d
<1>1. l \in Seq(Line) /\ v \in Nat /\ d \in 0 .. 1
  BY DEF CoreType, Balance
<1>2. wallet[w].balance = Closing(l) /\ v = Len(l) + d
  BY DEF Books, Balanced
<1>3. Len(l) \in Nat /\ (l = <<>> <=> Len(l) = 0)
  BY <1>1
<1>4. v > 0
  OBVIOUS
<1>5. BalanceAt(w, v) = IF v = 0 \/ v < 1 \/ n > Len(l) THEN -1
                        ELSE IF n = 0 THEN 0 ELSE l[n].after
  BY DEF BalanceAt
<1>. HIDE DEF l, v, d
<1>6. n = Len(l) /\ ~(v = 0 \/ v < 1 \/ n > Len(l))
  BY ONLY <1>1, <1>2, <1>3, <1>4
<1>. HIDE DEF n
<1>7. BalanceAt(w, v) = wallet[w].balance
  BY <1>2, <1>3, <1>5, <1>6 DEF Closing
<1>. QED  BY <1>7 DEF v

\* Wager id of wallet w is written with outcome o.
Writes(id, w, o) ==
  /\ Record(id, w, o) /\ Effect(o, wallet[w])
  /\ o.row.cmd.wallet = w /\ Named(o.row.cmd)
  /\ o.dir # "NONE" \/ wallet[w].version > 0
  /\ wallet[w].version > 0 \/ (Accounts[w].initial > 0 /\ Accounts[w].currency \in Currencies)
  /\ wager[id].status # "NONE" => wager[id].cmd = o.row.cmd
  /\ wager[id].status = "NONE" =>
       o.row.cmd.provider = "" \/ ByKey(wager, o.row.cmd) \cup ByExt(wager, o.row.cmd) = {}

\* Wallet w is opened without money.
OpensEmpty(w) ==
  /\ wallet[w].version = 0 /\ ~(Accounts[w].initial > 0) /\ Accounts[w].currency \in Currencies
  /\ wallet' = [wallet EXCEPT ![w] = [balance |-> 0, version |-> 1]]
  /\ UNCHANGED <<ledger, wager>>

\* The effect of a step on wallets, ledgers and wagers.
CoreStep ==
  \/ UNCHANGED <<wallet, ledger, wager>>
  \/ \E w \in Wallets : OpensEmpty(w)
  \/ \E id \in TxIds, w \in Wallets : \E o : Writes(id, w, o)

\* Wallets stay, ledgers are only appended to, at most one entry, and rows keep their
\* commands.
Grows ==
  /\ \A w \in Wallets : /\ wallet[w].version > 0 => wallet'[w].version > 0
                        /\ Len(ledger'[w]) \in {Len(ledger[w]), Len(ledger[w]) + 1}
                        /\ \A i \in DOMAIN ledger[w] : ledger'[w][i] = ledger[w][i]
  /\ \A t \in Present(wager) : t \in Present(wager') /\ wager'[t].cmd = wager[t].cmd

\* A commit keeps the types and the books.
LEMMA WriteStep ==
  ASSUME CoreType, Books, NEW id \in TxIds, NEW w \in Wallets, NEW o, Writes(id, w, o)
  PROVE  /\ CoreType' /\ Books' /\ Grows
         /\ wager'[id] = o.row /\ wallet'[w] = o.wallet /\ wallet'[w].version > 0
         /\ \A t \in TxIds \ {id} : wager'[t] = wager[t]
<1>. DEFINE e == LedgerEntry(id, o, wallet[w])
            l == Append(ledger[w], e)
<1>1. /\ wager'  = [wager EXCEPT ![id] = o.row]
      /\ wallet' = [wallet EXCEPT ![w] = o.wallet]
      /\ ledger' = IF o.dir = "NONE" THEN ledger ELSE [ledger EXCEPT ![w] = l]
  BY DEF Writes, Record
<1>2. /\ wallet[w] \in Balance /\ ledger[w] \in Seq(Line) /\ o.row \in Row /\ o.wallet \in Balance
      /\ Accounts[w].initial \in Minor
  BY AccountsAssumption DEF CoreType, Writes, Effect, Account
<1>3. o.dir # "NONE" => e \in Line /\ Balanced(l, o.wallet, Accounts[w].initial)
  <2>1. Effect(o, wallet[w]) /\ (wallet[w].version > 0 \/ Accounts[w].initial > 0)
    BY DEF Writes
  <2>2. Balanced(ledger[w], wallet[w], Accounts[w].initial)
    BY DEF Books
  <2>. QED  BY <1>2, <2>1, <2>2, MovementBalances
<1>4. o.dir = "NONE" => o.wallet = wallet[w] /\ wallet[w].version > 0
  BY DEF Writes, Effect
<1>5. o.wallet.version > 0
  <2>1. CASE o.dir = "NONE"
    BY <1>4, <2>1
  <2>2. CASE o.dir # "NONE"
    <3>1. o.wallet.version = wallet[w].version + 1 /\ wallet[w].version \in Nat
      BY <1>2, <2>2 DEF Writes, Effect, Balance
    <3>. QED  BY ONLY <3>1
  <2>. QED  BY <2>1, <2>2
<1>. HIDE DEF e
<1>6. /\ wager'[id] = o.row /\ \A t \in TxIds \ {id} : wager'[t] = wager[t]
      /\ wallet'[w] = o.wallet /\ \A v \in Wallets \ {w} : wallet'[v] = wallet[v]
      /\ \A v \in Wallets \ {w} : ledger'[v] = ledger[v]
      /\ ledger'[w] = IF o.dir = "NONE" THEN ledger[w] ELSE l
  BY <1>1 DEF CoreType
<1>7. CoreType'
  <2>1. wager' \in [TxIds -> Row] /\ wallet' \in [Wallets -> Balance]
    BY <1>1, <1>2 DEF CoreType
  <2>2. o.dir # "NONE" => l \in Seq(Line)
    BY <1>2, <1>3
  <2>. HIDE DEF l
  <2>3. ledger' \in [Wallets -> Seq(Line)]
    BY <1>1, <2>2 DEF CoreType
  <2>. QED  BY <2>1, <2>3 DEF CoreType
<1>8. Books'
  <2>1. ASSUME NEW v \in Wallets
        PROVE  /\ Balanced(ledger'[v], wallet'[v], Accounts[v].initial)
               /\ wallet'[v].version > 0 => Accounts[v].currency \in Currencies
    <3>1. CASE v # w
      BY <1>6, <3>1 DEF Books
    <3>2. CASE v = w
      <4>1. Balanced(ledger'[w], wallet'[w], Accounts[w].initial)
        <5>. HIDE DEF l
        <5>. QED  BY <1>3, <1>4, <1>6 DEF Books
      <4>2. Accounts[w].currency \in Currencies
        BY DEF Books, Writes
      <4>. QED  BY <3>2, <4>1, <4>2
    <3>. QED  BY <3>1, <3>2
  <2>. QED  BY <2>1 DEF Books
<1>9. Grows
  <2>1. ASSUME NEW v \in Wallets
        PROVE  /\ wallet[v].version > 0 => wallet'[v].version > 0
               /\ Len(ledger'[v]) \in {Len(ledger[v]), Len(ledger[v]) + 1}
               /\ \A i \in DOMAIN ledger[v] : ledger'[v][i] = ledger[v][i]
    <3>1. CASE v # w
      BY <1>6, <3>1
    <3>2. CASE v = w /\ o.dir = "NONE"
      BY <1>5, <1>6, <3>2
    <3>3. CASE v = w /\ o.dir # "NONE"
      <4>1. Len(l) = Len(ledger[w]) + 1 /\ \A i \in DOMAIN ledger[w] : l[i] = ledger[w][i]
        BY <1>2, <1>3, <3>3
      <4>. HIDE DEF l
      <4>. QED  BY <1>5, <1>6, <3>3, <4>1
    <3>. QED  BY <3>1, <3>2, <3>3
  <2>2. ASSUME NEW t \in Present(wager)
        PROVE  t \in Present(wager') /\ wager'[t].cmd = wager[t].cmd
    <3>1. t \in TxIds /\ wager[t].status # "NONE"
      BY DEF Present
    <3>2. wager'[t].status # "NONE" /\ wager'[t].cmd = wager[t].cmd
      BY <1>6, <3>1 DEF Writes, Effect
    <3>. QED  BY <3>1, <3>2 DEF Present
  <2>. QED  BY <2>1, <2>2 DEF Grows
<1>. QED  BY <1>5, <1>6, <1>7, <1>8, <1>9

\* Opening a wallet without money keeps the types and the books.
LEMMA EmptyStep ==
  ASSUME CoreType, Books, NEW w \in Wallets, OpensEmpty(w)
  PROVE  CoreType' /\ Books' /\ Grows
<1>. DEFINE new == [balance |-> 0, version |-> 1]
<1>1. /\ wallet' = [wallet EXCEPT ![w] = new] /\ ledger' = ledger /\ wager' = wager
      /\ wallet[w].version = 0
  BY DEF OpensEmpty
<1>2. new \in Balance /\ new.version = 1 /\ new.balance = 0
  BY Zeroes DEF Balance
<1>. HIDE DEF new
<1>3. /\ wallet'[w] = new /\ \A v \in Wallets \ {w} : wallet'[v] = wallet[v]
      /\ wallet' \in [Wallets -> Balance]
  BY <1>1, <1>2 DEF CoreType
<1>4. CoreType'
  BY <1>1, <1>3 DEF CoreType
<1>5. Books'
  <2>1. ASSUME NEW v \in Wallets
        PROVE  /\ Balanced(ledger'[v], wallet'[v], Accounts[v].initial)
               /\ wallet'[v].version > 0 => Accounts[v].currency \in Currencies
    <3>1. CASE v # w
      BY <1>1, <1>3, <3>1 DEF Books
    <3>2. CASE v = w
      <4>1. ledger[w] = <<>>
        BY <1>1 DEF Books, Balanced
      <4>2. Chain(<<>>) /\ Closing(<<>>) = 0
        BY DEF Chain, Closing
      <4>3. Balanced(ledger'[w], new, Accounts[w].initial)
        <5>1. Len(<<>>) = 0 /\ ~(Accounts[w].initial > 0)
          BY DEF OpensEmpty
        <5>. QED  BY <1>1, <1>2, <4>1, <4>2, <5>1 DEF Balanced
      <4>. QED  BY <1>3, <3>2, <4>3 DEF OpensEmpty
    <3>. QED  BY <3>1, <3>2
  <2>. QED  BY <2>1 DEF Books
<1>6. Grows
  <2>1. \A v \in Wallets : wallet[v].version > 0 => wallet'[v].version > 0
    BY <1>1, <1>2, <1>3
  <2>. QED  BY <1>1, <2>1 DEF Grows
<1>. QED  BY <1>4, <1>5, <1>6

\* A balance that a wallet once had it had for ever.
LEMMA BalanceStays ==
  ASSUME CoreType, CoreType', Grows, NEW w \in Wallets, NEW v \in Nat, BalanceAt(w, v) \in Minor
  PROVE  BalanceAt(w, v)' = BalanceAt(w, v)
<1>. DEFINE d == IF Accounts[w].initial > 0 THEN 0 ELSE 1
            n == v - d
<1>1. /\ BalanceAt(w, v) = IF wallet[w].version = 0 \/ v < 1 \/ n > Len(ledger[w]) THEN -1
                           ELSE IF n = 0 THEN 0 ELSE ledger[w][n].after
      /\ BalanceAt(w, v)' = IF wallet'[w].version = 0 \/ v < 1 \/ n > Len(ledger'[w]) THEN -1
                            ELSE IF n = 0 THEN 0 ELSE ledger'[w][n].after
  BY DEF BalanceAt
<1>2. -1 \notin Minor
  BY DEF Minor
<1>3. ~(wallet[w].version = 0 \/ v < 1 \/ n > Len(ledger[w]))
  <2>. HIDE DEF n
  <2>. QED  BY <1>1, <1>2
<1>4. /\ ledger[w] \in Seq(Line) /\ ledger'[w] \in Seq(Line) /\ wallet[w].version \in Nat
      /\ wallet'[w].version \in Nat /\ d \in 0 .. 1
  BY DEF CoreType, Balance
<1>5. /\ Len(ledger[w]) \in Nat /\ Len(ledger'[w]) \in Nat /\ DOMAIN ledger[w] = 1 .. Len(ledger[w])
      /\ wallet[w].version > 0 => wallet'[w].version > 0
      /\ Len(ledger'[w]) \in {Len(ledger[w]), Len(ledger[w]) + 1}
      /\ \A i \in DOMAIN ledger[w] : ledger'[w][i] = ledger[w][i]
  BY <1>4 DEF Grows
<1>6. n \in Nat /\ (n # 0 => n \in 1 .. Len(ledger[w]))
  <2>. HIDE DEF d
  <2>. QED  BY <1>3, <1>4, <1>5
<1>. HIDE DEF n, d
<1>7. ~(wallet'[w].version = 0 \/ v < 1 \/ n > Len(ledger'[w]))
  BY <1>3, <1>4, <1>5, <1>6
<1>. QED  BY <1>1, <1>3, <1>5, <1>6, <1>7

\* What was shown of a wager stays on the chain of its wallet.
LEMMA OnChainStays ==
  ASSUME CoreType, CoreType', Grows, NEW row, OnChain(row)
  PROVE  OnChain(row)'
<1>1. row \in Row /\ row.cmd.wallet \in Wallets /\ row.version \in Nat /\ row.balance \in Minor
  BY DEF OnChain, Row, Command
<1>2. wallet'[row.cmd.wallet].version > 0
  BY <1>1 DEF OnChain, Grows
<1>3. Terminal(row.status) => BalanceAt(row.cmd.wallet, row.version)' = row.balance
  <2>1. SUFFICES ASSUME Terminal(row.status)
                 PROVE  BalanceAt(row.cmd.wallet, row.version)' = row.balance
    OBVIOUS
  <2>2. BalanceAt(row.cmd.wallet, row.version) = row.balance
    BY <2>1 DEF OnChain
  <2>. QED  BY <1>1, <2>2, BalanceStays
<1>. QED  BY <1>1, <1>2, <1>3 DEF OnChain

\* A commit keeps the rows on their chains and their identities apart.
LEMMA RowsStep ==
  ASSUME CoreType, Books, Rows, NEW id \in TxIds, NEW w \in Wallets, NEW o, Writes(id, w, o)
  PROVE  Rows'
<1>1. /\ CoreType' /\ Books' /\ Grows
      /\ wager'[id] = o.row /\ wallet'[w] = o.wallet /\ wallet'[w].version > 0
      /\ \A t \in TxIds \ {id} : wager'[t] = wager[t]
  BY WriteStep
<1>2. OnChain(o.row)'
  <2>1. Latest'
    BY <1>1, LastBalance, PTL
  <2>2. BalanceAt(w, o.wallet.version)' = o.wallet.balance
    BY <1>1, <2>1 DEF Latest, BalanceAt
  <2>3. /\ o.row \in Row /\ o.row.cmd.wallet = w
        /\ Terminal(o.row.status) => o.row.version = o.wallet.version /\ o.row.balance = o.wallet.balance
    BY DEF Writes, Effect
  <2>. QED  BY <1>1, <2>2, <2>3 DEF OnChain, BalanceAt
<1>3. ASSUME NEW t \in Present(wager')
      PROVE  OnChain(wager[t])' /\ Named(wager'[t].cmd)
  <2>1. CASE t = id
    BY <1>1, <1>2, <2>1 DEF Writes, OnChain, BalanceAt
  <2>2. CASE t # id
    <3>1. t \in Present(wager) /\ wager'[t] = wager[t]
      BY <1>1, <2>2 DEF Present
    <3>2. OnChain(wager[t]) /\ Named(wager[t].cmd)
      BY <3>1 DEF Rows
    <3>3. PICK r : r = wager[t]
      OBVIOUS
    <3>4. OnChain(r)'
      BY <1>1, <3>2, <3>3, OnChainStays
    <3>. QED  BY <3>1, <3>2, <3>3, <3>4 DEF OnChain, BalanceAt
  <2>. QED  BY <2>1, <2>2
<1>4. ASSUME NEW t \in Present(wager'), NEW u \in Present(wager'),
             wager'[t].cmd.provider # "", Alike(wager'[t].cmd, wager'[u].cmd)
      PROVE  t = u
  <2>1. /\ t \in TxIds /\ u \in TxIds
        /\ t # id => t \in Present(wager) /\ wager'[t] = wager[t]
        /\ u # id => u \in Present(wager) /\ wager'[u] = wager[u]
    BY <1>1 DEF Present
  <2>2. CASE wager[id].status # "NONE"
    <3>1. id \in Present(wager) /\ wager'[id].cmd = wager[id].cmd
      BY <1>1, <2>2 DEF Present, Writes
    <3>2. /\ t \in Present(wager) /\ wager'[t].cmd = wager[t].cmd
          /\ u \in Present(wager) /\ wager'[u].cmd = wager[u].cmd
      BY <2>1, <3>1
    <3>. QED  BY <1>4, <3>2 DEF Rows
  <2>3. CASE wager[id].status = "NONE"
    <3>. DEFINE c == o.row.cmd
    <3>1. c.provider = "" \/ ByKey(wager, c) \cup ByExt(wager, c) = {}
      BY <2>3 DEF Writes
    <3>2. \A x \in Present(wager) : c.provider # "" => ~Alike(wager[x].cmd, c)
      BY <3>1 DEF ByKey, ByExt, Alike
    <3>3. wager'[id].cmd = c
      BY <1>1
    <3>. HIDE DEF c
    <3>4. /\ \A a, b : Alike(a, b) => Alike(b, a) /\ a.provider = b.provider
      BY DEF Alike, SameKey, SameExt
    <3>5. CASE t # id /\ u # id
      <4>1. /\ t \in Present(wager) /\ wager'[t] = wager[t]
            /\ u \in Present(wager) /\ wager'[u] = wager[u]
        BY <2>1, <3>5
      <4>. QED  BY <1>4, <4>1 DEF Rows
    <3>6. CASE t = id /\ u # id
      <4>1. u \in Present(wager) /\ wager'[u] = wager[u]
        BY <2>1, <3>6
      <4>2. Alike(c, wager[u].cmd) /\ c.provider # ""
        BY <1>4, <3>3, <3>6, <4>1
      <4>. QED  BY <3>2, <3>4, <4>1, <4>2
    <3>7. CASE t # id /\ u = id
      <4>1. t \in Present(wager) /\ wager'[t] = wager[t]
        BY <2>1, <3>7
      <4>2. Alike(wager[t].cmd, c) /\ wager[t].cmd.provider # ""
        BY <1>4, <3>3, <3>7, <4>1
      <4>. QED  BY <3>2, <3>4, <4>1, <4>2
    <3>. QED  BY <3>5, <3>6, <3>7
  <2>. QED  BY <2>2, <2>3
<1>. QED  BY <1>3, <1>4 DEF Rows

\* Every step keeps the types, the books and the rows.
LEMMA CoreKept ==
  ASSUME CoreType, Books, Rows, CoreStep
  PROVE  CoreType' /\ Books' /\ Rows' /\ Grows
<1>1. CASE UNCHANGED <<wallet, ledger, wager>>
  <2>1. wallet' = wallet /\ ledger' = ledger /\ wager' = wager
    BY <1>1
  <2>2. CoreType'
    BY <2>1 DEF CoreType
  <2>3. Books'
    BY <2>1 DEF Books
  <2>4. Rows'
    BY <2>1 DEF Rows, OnChain, BalanceAt
  <2>5. Grows
    BY <2>1 DEF Grows
  <2>. QED  BY <2>2, <2>3, <2>4, <2>5
<1>2. CASE \E w \in Wallets : OpensEmpty(w)
  <2>1. PICK w \in Wallets : OpensEmpty(w)
    BY <1>2
  <2>2. CoreType' /\ Books' /\ Grows /\ wager' = wager
    BY <2>1, EmptyStep DEF OpensEmpty
  <2>3. ASSUME NEW t \in Present(wager)
        PROVE  OnChain(wager[t])' /\ Named(wager[t].cmd)
    <3>1. PICK r : r = wager[t]
      OBVIOUS
    <3>2. OnChain(r) /\ Named(r.cmd)
      BY <3>1 DEF Rows
    <3>3. OnChain(r)'
      BY <2>2, <3>2, OnChainStays
    <3>. QED  BY <2>2, <3>1, <3>2, <3>3 DEF OnChain, BalanceAt
  <2>4. Rows'
    BY <2>2, <2>3 DEF Rows
  <2>. QED  BY <2>2, <2>4
<1>3. CASE \E id \in TxIds, w \in Wallets : \E o : Writes(id, w, o)
  <2>1. PICK id \in TxIds, w \in Wallets : \E o : Writes(id, w, o)
    BY <1>3
  <2>2. PICK o : Writes(id, w, o)
    BY <2>1
  <2>. QED  BY <2>2, WriteStep, RowsStep
<1>. QED  BY <1>1, <1>2, <1>3 DEF CoreStep

\* Entries keep their stamps.
StampsStay == \A w \in Wallets : \A i \in DOMAIN stamp[w] : stamp'[w][i] = stamp[w][i]

\* The stamps of one ledger, as Stamping has them.
Ordered(s, l) ==
  /\ s \in Seq(Stamps) /\ DOMAIN s = DOMAIN l
  /\ \A i, j \in DOMAIN s : s[i].id = s[j].id => i = j

InOrder(s, now) ==
  \A i \in DOMAIN s : s[i].at <= now /\ \A j \in DOMAIN s : i < j => s[i].at < s[j].at

\* Stamping, ledger by ledger.
LEMMA StampingParts ==
  Stamping <=> /\ stamp \in [Wallets -> Seq(Stamps)] /\ clock \in Nat /\ steps \in 0 .. MaxSteps
               /\ \A w \in Wallets : Ordered(stamp[w], ledger[w])
               /\ steps = MaxSteps => \A w \in Wallets : InOrder(stamp[w], clock)
BY DEF Stamping, Ordered, InOrder

\* A new entry with an id of its own and a later time keeps the stamps in order.
LEMMA StampAppend ==
  ASSUME NEW s \in Seq(Stamps), NEW l \in Seq(Line), NEW l2 \in Seq(Line), Ordered(s, l),
         Len(l2) = Len(l) + 1, NEW now \in Nat, NEW x \in Stamps, x.at = now + 1,
         \A i \in DOMAIN s : s[i].id # x.id
  PROVE  /\ Ordered(Append(s, x), l2)
         /\ InOrder(s, now) => InOrder(Append(s, x), now + 1)
         /\ \A i \in DOMAIN s : Append(s, x)[i] = s[i]
<1>. DEFINE n == Len(s)
            t == Append(s, x)
<1>1. /\ n \in Nat /\ DOMAIN s = 1 .. n /\ t \in Seq(Stamps) /\ DOMAIN t = 1 .. n + 1
      /\ t[n + 1] = x /\ \A i \in 1 .. n : t[i] = s[i]
  OBVIOUS
<1>2. Len(l) = n /\ DOMAIN l2 = 1 .. n + 1
  <2>1. DOMAIN l = 1 .. Len(l) /\ Len(l) \in Nat /\ DOMAIN l2 = 1 .. Len(l) + 1 /\ Len(s) \in Nat
    OBVIOUS
  <2>2. 1 .. Len(l) = 1 .. Len(s)
    BY <1>1, <2>1 DEF Ordered
  <2>3. Len(l) = Len(s)
    BY ONLY <2>1, <2>2
  <2>. QED  BY <2>1, <2>3
<1>. HIDE DEF n, t
<1>3. \A i \in 1 .. n + 1 : i \in 1 .. n \/ i = n + 1
  BY <1>1
<1>4. ASSUME NEW i \in DOMAIN t, NEW j \in DOMAIN t, t[i].id = t[j].id
      PROVE  i = j
  <2>1. CASE i \in 1 .. n /\ j \in 1 .. n
    BY <1>1, <1>4, <2>1 DEF Ordered
  <2>2. CASE i \in 1 .. n /\ j = n + 1
    BY <1>1, <1>4, <2>2
  <2>3. CASE i = n + 1 /\ j \in 1 .. n
    BY <1>1, <1>4, <2>3
  <2>. QED  BY <1>1, <1>3, <2>1, <2>2, <2>3
<1>5. Ordered(t, l2)
  BY <1>1, <1>2, <1>4 DEF Ordered
<1>6. InOrder(s, now) => InOrder(t, now + 1)
  <2>1. SUFFICES ASSUME InOrder(s, now), NEW i \in DOMAIN t
                 PROVE  t[i].at <= now + 1 /\ \A j \in DOMAIN t : i < j => t[i].at < t[j].at
    BY DEF InOrder
  <2>2. \A k \in 1 .. n : t[k].at = s[k].at /\ s[k].at \in Nat /\ s[k].at <= now
    <3>1. \A k \in 1 .. n : s[k] \in Stamps
      BY <1>1
    <3>. QED  BY <1>1, <2>1, <3>1 DEF InOrder, Stamps
  <2>3. t[n + 1].at = now + 1
    BY <1>1
  <2>4. CASE i = n + 1
    <3>1. \A j \in 1 .. n + 1 : ~(i < j)
      BY <1>1, <2>4
    <3>. QED  BY <1>1, <2>3, <2>4, <3>1
  <2>5. CASE i \in 1 .. n
    <3>1. t[i].at \in Nat /\ t[i].at <= now
      BY <2>2, <2>5
    <3>2. ASSUME NEW j \in DOMAIN t, i < j  PROVE  t[i].at < t[j].at
      <4>1. CASE j = n + 1
        BY <2>3, <3>1, <4>1
      <4>2. CASE j \in 1 .. n
        <5>1. s[i].at < s[j].at
          BY <1>1, <2>1, <2>5, <3>2, <4>2 DEF InOrder
        <5>. QED  BY <2>2, <2>5, <4>2, <5>1
      <4>. QED  BY <1>1, <1>3, <4>1, <4>2
    <3>. QED  BY <3>1, <3>2
  <2>. QED  BY <1>1, <1>3, <2>4, <2>5
<1>. QED  BY <1>1, <1>5, <1>6 DEF t

\* insertLedger stamps what a commit appends.
LEMMA StampStep ==
  ASSUME CoreType, CoreType', Stamping, Grows, InsertLedger, UNCHANGED steps
  PROVE  Stamping' /\ StampsStay
<1>. DEFINE grown == {w \in Wallets : Len(ledger'[w]) > Len(ledger[w])}
<1>1. /\ stamp \in [Wallets -> Seq(Stamps)] /\ clock \in Nat /\ steps \in 0 .. MaxSteps
      /\ \A w \in Wallets : Ordered(stamp[w], ledger[w])
      /\ steps = MaxSteps => \A w \in Wallets : InOrder(stamp[w], clock)
  BY StampingParts
<1>2. \A w \in Wallets :
        /\ ledger[w] \in Seq(Line) /\ ledger'[w] \in Seq(Line)
        /\ Len(ledger[w]) \in Nat /\ Len(ledger'[w]) \in Nat
        /\ DOMAIN ledger[w] = 1 .. Len(ledger[w]) /\ DOMAIN ledger'[w] = 1 .. Len(ledger'[w])
  BY DEF CoreType
<1>3. \A w \in Wallets :
        /\ w \in grown => Len(ledger'[w]) = Len(ledger[w]) + 1
        /\ w \notin grown => Len(ledger'[w]) = Len(ledger[w]) /\ DOMAIN ledger'[w] = DOMAIN ledger[w]
  <2>1. \A w \in Wallets : Len(ledger'[w]) \in {Len(ledger[w]), Len(ledger[w]) + 1}
    BY DEF Grows
  <2>. QED  BY <1>2, <2>1
<1>4. CASE grown = {}
  <2>1. stamp' = stamp /\ clock' = clock /\ steps' = steps
    BY <1>4 DEF InsertLedger
  <2>2. \A w \in Wallets : DOMAIN ledger'[w] = DOMAIN ledger[w]
    <3>. HIDE DEF grown
    <3>. QED  BY <1>3, <1>4
  <2>3. Stamping'
    BY <2>1, <2>2 DEF Stamping
  <2>. QED  BY <2>1, <2>3 DEF StampsStay
<1>5. CASE grown # {}
  <2>1. PICK id \in EntryIds \ UsedIds : \E s \in StampBy(id) :
          /\ stamp' = [w \in Wallets |-> IF w \in grown THEN Append(stamp[w], s) ELSE stamp[w]]
          /\ clock' = clock + 1
    BY <1>5 DEF InsertLedger
  <2>. DEFINE x == [at |-> clock + 1, id |-> id]
  <2>2. /\ stamp' = [w \in Wallets |-> IF w \in grown THEN Append(stamp[w], x) ELSE stamp[w]]
        /\ clock' = clock + 1 /\ steps' = steps
    BY <2>1 DEF StampBy
  <2>3. x \in Stamps /\ x.at = clock + 1 /\ x.id = id
    BY <1>1 DEF Stamps
  <2>4. \A w \in Wallets : \A i \in DOMAIN stamp[w] : stamp[w][i].id # id
    BY DEF UsedIds
  <2>. HIDE DEF x, grown
  <2>5. ASSUME NEW w \in Wallets
        PROVE  /\ stamp'[w] \in Seq(Stamps)
               /\ Ordered(stamp'[w], ledger'[w])
               /\ InOrder(stamp[w], clock) => InOrder(stamp'[w], clock + 1)
               /\ \A i \in DOMAIN stamp[w] : stamp'[w][i] = stamp[w][i]
    <3>1. /\ stamp[w] \in Seq(Stamps) /\ Ordered(stamp[w], ledger[w])
          /\ ledger[w] \in Seq(Line) /\ ledger'[w] \in Seq(Line)
      BY <1>1, <1>2
    <3>2. CASE w \in grown
      <4>1. stamp'[w] = Append(stamp[w], x) /\ Len(ledger'[w]) = Len(ledger[w]) + 1
        BY <1>3, <2>2, <3>2
      <4>2. /\ Ordered(Append(stamp[w], x), ledger'[w])
            /\ InOrder(stamp[w], clock) => InOrder(Append(stamp[w], x), clock + 1)
            /\ \A i \in DOMAIN stamp[w] : Append(stamp[w], x)[i] = stamp[w][i]
        <5>1. \A i \in DOMAIN stamp[w] : stamp[w][i].id # x.id
          BY <2>3, <2>4
        <5>2. clock \in Nat /\ x \in Stamps /\ x.at = clock + 1 /\ Len(ledger'[w]) = Len(ledger[w]) + 1
          BY <1>1, <2>3, <4>1
        <5>. QED  BY <3>1, <5>1, <5>2, StampAppend
      <4>. QED  BY <4>1, <4>2 DEF Ordered
    <3>3. CASE w \notin grown
      <4>1. stamp'[w] = stamp[w] /\ DOMAIN ledger'[w] = DOMAIN ledger[w]
        BY <1>3, <2>2, <3>3
      <4>2. Ordered(stamp[w], ledger'[w])
        BY <3>1, <4>1 DEF Ordered
      <4>3. InOrder(stamp[w], clock) => InOrder(stamp[w], clock + 1)
        <5>1. \A i \in DOMAIN stamp[w] : stamp[w][i].at \in Nat
          <6>1. \A i \in DOMAIN stamp[w] : stamp[w][i] \in Stamps
            BY <3>1
          <6>. QED  BY <6>1 DEF Stamps
        <5>2. \A a \in Nat : a <= clock => a <= clock + 1
          BY <1>1
        <5>. QED  BY <5>1, <5>2 DEF InOrder
      <4>. QED  BY <3>1, <4>1, <4>2, <4>3
    <3>. QED  BY <3>2, <3>3
  <2>6. stamp' \in [Wallets -> Seq(Stamps)]
    <3>1. stamp' = [w \in Wallets |-> stamp'[w]]
      BY <2>2
    <3>. QED  BY <2>5, <3>1
  <2>7. clock' \in Nat /\ steps' \in 0 .. MaxSteps
    BY <1>1, <2>2
  <2>8. /\ \A w \in Wallets : Ordered(stamp'[w], ledger'[w])
        /\ steps' = MaxSteps => \A w \in Wallets : InOrder(stamp'[w], clock')
    BY <1>1, <2>2, <2>5
  <2>9. Stamping'
    BY <2>6, <2>7, <2>8 DEF Stamping, Ordered, InOrder
  <2>. QED  BY <2>5, <2>9 DEF StampsStay
<1>. QED  BY <1>4, <1>5

\* The clock is set back: the stamps stay, but time says no longer what came first.
LEMMA ClockStep ==
  ASSUME Stamping, StepBack
  PROVE  Stamping' /\ StampsStay /\ UNCHANGED vars
<1>1. stamp' = stamp /\ ledger' = ledger /\ UNCHANGED vars /\ steps > 0 /\ steps' = steps - 1
  BY DEF StepBack, vars
<1>2. clock' \in Nat
  BY DEF StepBack, Stamping
<1>3. steps' \in 0 .. MaxSteps /\ steps' # MaxSteps
  BY <1>1, StepsAssumption DEF Stamping
<1>4. Stamping'
  BY <1>1, <1>2, <1>3 DEF Stamping
<1>. QED  BY <1>1, <1>4 DEF StampsStay

(***************************************************************************)
(* The walk through the pages.                                             *)
(***************************************************************************)
\* (created_at, id) is a strict order.
LEMMA EarlierOrder ==
  ASSUME NEW a, NEW b, NEW c, a.at \in Nat, a.id \in Nat, b.at \in Nat, b.id \in Nat,
         c.at \in Nat, c.id \in Nat
  PROVE  /\ Earlier(a, b) /\ ~Earlier(c, b) => Earlier(a, c)
         /\ ~Earlier(a, a)
         /\ Earlier(a, b) => ~Earlier(b, a)
BY DEF Earlier

\* t is g, of length n, and then e, of length m.
Joins(t, g, n, e, m) ==
  /\ n \in Nat /\ m \in Nat /\ DOMAIN g = 1 .. n /\ DOMAIN e = 1 .. m
  /\ t \in Seq(Nat) /\ DOMAIN t = 1 .. n + m
  /\ \A i \in 1 .. n : t[i] = g[i]
  /\ \A i \in 1 .. n + m : i \in 1 .. n \/ (i - n \in 1 .. m /\ t[i] = e[i - n])
  /\ \A x : In(x, g) \/ In(x, e) => In(x, t)

\* The entries of two pages, one after the other.
LEMMA Joined ==
  ASSUME NEW g \in Seq(Nat), NEW e \in Seq(Nat)
  PROVE  Joins(g \o e, g, Len(g), e, Len(e))
<1>. DEFINE t == g \o e
            n == Len(g)
            m == Len(e)
<1>1. n \in Nat /\ m \in Nat /\ DOMAIN g = 1 .. n /\ DOMAIN e = 1 .. m
  OBVIOUS
<1>2. /\ t \in Seq(Nat) /\ DOMAIN t = 1 .. n + m
      /\ \A i \in 1 .. n + m : t[i] = IF i <= n THEN g[i] ELSE e[i - n]
  OBVIOUS
<1>. HIDE DEF t, n, m
<1>3. \A i \in 1 .. n : i \in 1 .. n + m /\ i <= n
  BY <1>1
<1>4. \A i \in 1 .. n + m : i \in 1 .. n \/ (i - n \in 1 .. m /\ ~(i <= n))
  BY <1>1
<1>5. \A i \in 1 .. m : n + i \in 1 .. n + m /\ ~(n + i <= n) /\ (n + i) - n = i
  BY <1>1
<1>6. \A i \in 1 .. n : t[i] = g[i]
  BY <1>2, <1>3
<1>7. \A i \in 1 .. n + m : i \in 1 .. n \/ (i - n \in 1 .. m /\ t[i] = e[i - n])
  BY <1>2, <1>4
<1>8. \A i \in 1 .. m : t[n + i] = e[i]
  BY <1>2, <1>5
<1>9. ASSUME NEW x, In(x, g) \/ In(x, e)  PROVE  In(x, t)
  <2>1. CASE In(x, g)
    BY <1>1, <1>2, <1>3, <1>6, <2>1 DEF In
  <2>2. CASE In(x, e)
    BY <1>1, <1>2, <1>5, <1>8, <2>2 DEF In
  <2>. QED  BY <1>9, <2>1, <2>2
<1>10. Joins(t, g, n, e, m)
  BY <1>1, <1>2, <1>6, <1>7, <1>9 DEF Joins
<1>. QED  BY <1>10 DEF t, n, m

Cursor == [at : Nat, id : Nat]

Further(n, k, a, g, c) ==
  n \in Walk /\ n.wallet = k.wallet /\ n.at = a /\ n.old = k.old /\ n.got = g /\ n.cursor = c

Fresh(n, w, o) ==
  n \in Walk /\ n.wallet = w /\ n.at = "none" /\ n.old = o /\ n.got = <<>> /\ n.cursor = NoCursor

\* The record of a walk that got further, field by field.
LEMMA WalkFields ==
  ASSUME NEW k \in Walk, NEW a \in {"none", "open", "done"}, NEW g \in Seq(Nat), NEW c \in Cursor
  PROVE  Further([k EXCEPT !.at = a, !.got = g, !.cursor = c], k, a, g, c)
BY DEF Walk, Cursor, Further

\* The record of a walk that begins, field by field.
LEMMA FreshWalk ==
  ASSUME NEW w \in Wallets, NEW o \in SUBSET Nat
  PROVE  Fresh([NoWalk EXCEPT !.wallet = w, !.old = o], w, o)
<1>1. NoWalk \in Walk /\ NoWalk.at = "none" /\ NoWalk.got = <<>> /\ NoWalk.cursor = NoCursor
  <2>1. NoCommand.wallet \in Wallets
    BY InitialValues DEF Command
  <2>2. <<>> \in Seq(Nat) /\ NoCursor \in [at : Nat, id : Nat]
    BY DEF NoCursor
  <2>. QED  BY <2>1, <2>2 DEF NoWalk, Walk
<1>. HIDE DEF NoWalk
<1>. QED  BY <1>1 DEF Walk, Fresh

\* A page more: what the walk has got stays in order, and it goes on or has it all.
LEMMA PageStep ==
  ASSUME CoreType, Stamping, NEW k, Sound(k), Going(k), NEW limit \in Nat \ {0}
  PROVE  LET page == LedgerPage(k.wallet, k.cursor, limit)
             next == [k EXCEPT !.at = IF page.next = NoCursor THEN "done" ELSE "open",
                               !.got = @ \o page.entries, !.cursor = page.next]
         IN /\ Sound(next)
            /\ next.at = "open" => Going(next)
            /\ next.at = "done" => \A x \in next.old : In(x, next.got)
<1>. DEFINE w == k.wallet
            st == stamp[w]
            N == Len(ledger[w])
            page == LedgerPage(w, k.cursor, limit)
            e == page.entries
            g == k.got
            t == g \o e
            n == Len(g)
            m == Len(e)
            c == page.next
            next == [k EXCEPT !.at = IF page.next = NoCursor THEN "done" ELSE "open",
                              !.got = @ \o page.entries, !.cursor = page.next]
            rows == PageRows(w, k.cursor)
<1>1. /\ k \in Walk /\ w \in Wallets /\ k.old \subseteq DOMAIN ledger[w] /\ g \in Seq(Nat)
      /\ k.cursor.at \in Nat /\ k.cursor.id \in Nat
      /\ \A i \in DOMAIN g : g[i] \in DOMAIN ledger[w]
      /\ Descending(g, st)
  BY DEF Sound, Walk
<1>2. N \in Nat /\ DOMAIN ledger[w] = 1 .. N
  BY <1>1 DEF CoreType
<1>3. \A i \in 1 .. N : st[i].at \in Nat /\ st[i].id \in Nat /\ st[i].id # 0
  <2>1. st \in Seq(Stamps) /\ DOMAIN st = 1 .. N
    BY <1>1, <1>2 DEF Stamping
  <2>2. \A i \in 1 .. N : st[i] \in Stamps
    BY <2>1
  <2>. HIDE DEF st, N
  <2>. QED  BY <2>2, EntryIdsAssumption DEF Stamps
<1>4. Stamped(1 .. N, st)
  <2>1. \A i, j \in 1 .. N : st[i].id = st[j].id => i = j
    BY <1>1, <1>2 DEF Stamping
  <2>. HIDE DEF st, N
  <2>. QED  BY <1>3, <2>1 DEF Stamped
<1>5. /\ e \in Seq(rows) /\ Descending(e, st)
      /\ c = NoCursor => \A r \in rows : In(r, e)
      /\ c # NoCursor => /\ m \in Nat /\ m >= 1 /\ c = st[e[m]]
                         /\ \A r \in rows : In(r, e) \/ Earlier(st[r], c)
  <2>1. \A i \in 1 .. N : st[i].id # 0
    BY <1>3
  <2>. QED  BY <1>2, <1>4, <2>1, PageFacts
<1>6. rows \subseteq 1 .. N /\ (k.cursor # NoCursor => \A r \in rows : Earlier(st[r], k.cursor))
  BY <1>2 DEF PageRows
<1>. HIDE DEF page, rows
<1>7. e \in Seq(Nat) /\ \A i \in DOMAIN e : e[i] \in rows
  <2>1. rows \subseteq Nat
    BY <1>2, <1>6
  <2>. HIDE DEF e
  <2>2. Len(e) \in Nat /\ DOMAIN e = 1 .. Len(e) /\ e \in [1 .. Len(e) -> rows]
    BY <1>5, LenProperties
  <2>3. e \in [1 .. Len(e) -> Nat]
    BY <2>1, <2>2
  <2>. QED  BY <2>2, <2>3, SeqDef
<1>8. /\ n \in Nat /\ m \in Nat /\ DOMAIN g = 1 .. n /\ DOMAIN e = 1 .. m
      /\ t \in Seq(Nat) /\ DOMAIN t = 1 .. n + m
      /\ \A i \in 1 .. n : t[i] = g[i]
      /\ \A i \in 1 .. n + m : i \in 1 .. n \/ (i - n \in 1 .. m /\ t[i] = e[i - n])
      /\ \A x : In(x, g) \/ In(x, e) => In(x, t)
  <2>1. Joins(t, g, n, e, m)
    BY <1>1, <1>7, Joined
  <2>. QED  BY <2>1, Zenon DEF Joins
<1>10. \A i \in 1 .. n + m : t[i] \in 1 .. N
  BY <1>1, <1>2, <1>6, <1>7, <1>8
<1>. HIDE DEF t, n, m, N, g, e, st
<1>11. c \in Cursor
  <2>1. CASE c = NoCursor
    BY <2>1 DEF NoCursor, Cursor
  <2>2. CASE c # NoCursor
    <3>1. m \in 1 .. m
      BY <1>5, <1>8, <2>2
    <3>2. e[m] \in 1 .. N /\ c = st[e[m]]
      BY <1>5, <1>6, <1>7, <1>8, <2>2, <3>1
    <3>3. w \in Wallets /\ st \in Seq(Stamps) /\ DOMAIN st = 1 .. N
      BY <1>1, <1>2 DEF Stamping, st
    <3>4. c \in Stamps
      <4>1. Len(st) \in Nat /\ st \in [1 .. Len(st) -> Stamps] /\ DOMAIN st = 1 .. Len(st)
        BY <3>3, LenProperties
      <4>2. \A i \in 1 .. N : st[i] \in Stamps
        BY <3>3, <4>1
      <4>. QED  BY <3>2, <4>2
    <3>. QED  BY <3>4, EntryIdsAssumption DEF Stamps, Cursor
  <2>. QED  BY <2>1, <2>2
<1>. HIDE DEF c
<1>9. /\ next \in Walk /\ next.wallet = w /\ next.old = k.old /\ next.got = t /\ next.cursor = c
      /\ next.at = IF c = NoCursor THEN "done" ELSE "open"
  <2>. DEFINE a == IF c = NoCursor THEN "done" ELSE "open"
  <2>1. a \in {"none", "open", "done"}
    OBVIOUS
  <2>. HIDE DEF a
  <2>2. Further([k EXCEPT !.at = a, !.got = t, !.cursor = c], k, a, t, c)
    BY <1>1, <1>8, <1>11, <2>1, WalkFields
  <2>3. next = [k EXCEPT !.at = a, !.got = t, !.cursor = c]
    BY DEF t, g, e, c, a
  <2>. HIDE DEF next
  <2>4. Further(next, k, a, t, c)
    BY <2>2, <2>3
  <2>. QED  BY <2>4 DEF a, Further
<1>. HIDE DEF next
<1>12. Descending(t, st)
  <2>1. SUFFICES ASSUME NEW i \in 1 .. n + m, NEW j \in 1 .. n + m, i < j
                 PROVE  Earlier(st[t[j]], st[t[i]])
    BY <1>8 DEF Descending
  <2>2. CASE j \in 1 .. n
    <3>1. i \in 1 .. n
      BY <1>8, <2>1, <2>2
    <3>. QED  BY <1>1, <1>8, <2>1, <2>2, <3>1 DEF Descending
  <2>3. CASE i \notin 1 .. n
    <3>1. /\ i - n \in 1 .. m /\ j - n \in 1 .. m /\ i - n < j - n
          /\ t[i] = e[i - n] /\ t[j] = e[j - n]
      <4>1. j \notin 1 .. n
        BY <1>8, <2>1, <2>3
      <4>2. i - n < j - n
        BY <1>8, <2>1
      <4>. QED  BY <1>8, <2>3, <4>1, <4>2
    <3>. QED  BY <1>5, <1>8, <3>1 DEF Descending
  <2>4. CASE i \in 1 .. n /\ j \notin 1 .. n
    <3>1. j - n \in 1 .. m /\ t[j] = e[j - n] /\ t[i] = g[i]
      BY <1>8, <2>4
    <3>2. k.cursor # NoCursor
      <4>1. ASSUME k.cursor = NoCursor  PROVE FALSE
        <5>1. g = <<>>
          BY <4>1 DEF Going, g
        <5>2. n = 0
          BY <5>1 DEF n
        <5>. QED  BY <2>4, <5>2
      <4>. QED  BY <4>1
    <3>3. ~Earlier(st[g[i]], k.cursor)
      BY <1>8, <2>4, <3>2 DEF Going, g, st
    <3>4. e[j - n] \in rows /\ g[i] \in 1 .. N
      BY <1>1, <1>2, <1>7, <1>8, <2>4, <3>1
    <3>5. Earlier(st[e[j - n]], k.cursor)
      BY <1>6, <3>2, <3>4
    <3>6. Earlier(st[e[j - n]], st[g[i]])
      <4>1. e[j - n] \in 1 .. N
        BY <1>6, <3>4
      <4>2. /\ st[e[j - n]].at \in Nat /\ st[e[j - n]].id \in Nat
            /\ st[g[i]].at \in Nat /\ st[g[i]].id \in Nat
        BY <1>3, <3>4, <4>1
      <4>. QED  BY <1>1, <3>3, <3>5, <4>2, EarlierOrder
    <3>. QED  BY <3>1, <3>6
  <2>. QED  BY <2>2, <2>3, <2>4
<1>13. Sound(next)
  BY <1>1, <1>2, <1>8, <1>9, <1>10, <1>12 DEF Sound, st
<1>14. \A x \in k.old : In(x, g) \/ x \in rows
  BY DEF Going, g, rows
<1>15. ASSUME c = NoCursor, NEW x \in next.old  PROVE  In(x, next.got)
  BY <1>5, <1>8, <1>9, <1>14, <1>15 DEF c
<1>16. ASSUME c # NoCursor  PROVE  Going(next)
  <2>1. ASSUME NEW i \in DOMAIN t  PROVE  ~Earlier(st[t[i]], c)
    <3>0. m >= 1 /\ c = st[e[m]]
      BY <1>5, <1>16 DEF c
    <3>1. n + m \in 1 .. n + m /\ n + m \notin 1 .. n /\ (n + m) - n = m
      BY <1>8, <3>0
    <3>2. t[n + m] = e[m]
      BY <1>8, <3>1
    <3>3. /\ st[t[i]].at \in Nat /\ st[t[i]].id \in Nat
          /\ st[t[n + m]].at \in Nat /\ st[t[n + m]].id \in Nat
      BY <1>3, <1>8, <1>10, <2>1, <3>1
    <3>4. CASE i = n + m
      BY <3>0, <3>2, <3>3, <3>4, EarlierOrder
    <3>5. CASE i # n + m
      <4>1. i < n + m
        BY <1>8, <2>1, <3>5
      <4>2. Earlier(st[t[n + m]], st[t[i]])
        BY <1>8, <1>12, <2>1, <3>1, <4>1 DEF Descending
      <4>. QED  BY <3>0, <3>2, <3>3, <4>2, EarlierOrder
    <3>. QED  BY <3>4, <3>5
  <2>2. ASSUME NEW x \in k.old  PROVE  In(x, t) \/ x \in PageRows(w, c)
    <3>1. In(x, g) \/ In(x, e) \/ Earlier(st[x], c)
      BY <1>5, <1>14, <1>16 DEF c
    <3>2. x \in DOMAIN ledger[w]
      BY <1>1
    <3>. QED  BY <1>8, <3>1, <3>2 DEF PageRows, st
  <2>. QED  BY <1>9, <1>16, <2>1, <2>2 DEF Going, st
<1>17. (next.at = "open" => c # NoCursor) /\ (next.at = "done" => c = NoCursor)
  BY <1>9
<1>18. /\ Sound(next)
       /\ next.at = "open" => Going(next)
       /\ next.at = "done" => \A x \in next.old : In(x, next.got)
  BY <1>13, <1>15, <1>16, <1>17
<1>. QED  BY <1>18 DEF next, page, w

\* A walk begins with all that is there.
LEMMA WalkBegins ==
  ASSUME CoreType, Stamping, NEW w \in Wallets
  PROVE  LET k == [NoWalk EXCEPT !.wallet = w, !.old = DOMAIN ledger[w]]
         IN  Sound(k) /\ Going(k) /\ k.wallet = w
<1>. DEFINE k == [NoWalk EXCEPT !.wallet = w, !.old = DOMAIN ledger[w]]
<1>2. DOMAIN ledger[w] \subseteq Nat
  <2>1. ledger[w] \in Seq(Line)
    BY DEF CoreType
  <2>2. DOMAIN ledger[w] = 1 .. Len(ledger[w]) /\ Len(ledger[w]) \in Nat
    BY <2>1
  <2>. QED  BY <2>2
<1>1. /\ k \in Walk /\ k.wallet = w /\ k.old = DOMAIN ledger[w] /\ k.got = <<>>
      /\ k.cursor = NoCursor
  <2>1. Fresh(k, w, DOMAIN ledger[w])
    BY <1>2, FreshWalk
  <2>. QED  BY <2>1, Zenon DEF Fresh
<1>3. DOMAIN <<>> = {}
  OBVIOUS
<1>. HIDE DEF k
<1>5. Sound(k)
  BY <1>1, <1>3 DEF Sound, Descending
<1>6. Going(k)
  BY <1>1, <1>3 DEF Going, PageRows
<1>. QED  BY <1>1, <1>5, <1>6 DEF k

\* A walk is not disturbed by what others append.
LEMMA WalkStays ==
  ASSUME CoreType, CoreType', Stamping, Grows, StampsStay, Walking, UNCHANGED walk
  PROVE  Walking'
<1>. DEFINE w == walk.wallet
            D == DOMAIN ledger[w]
<1>1. /\ walk \in Walk /\ w \in Wallets /\ walk.old \subseteq D
      /\ \A i \in DOMAIN walk.got : walk.got[i] \in D
      /\ Descending(walk.got, stamp[w])
      /\ walk' = walk
  BY DEF Walking, Sound, Walk
<1>2. D = DOMAIN stamp[w] /\ \A i \in D : stamp'[w][i] = stamp[w][i]
  BY <1>1 DEF Stamping, StampsStay
<1>3. D \subseteq DOMAIN ledger'[w]
  <2>1. ledger[w] \in Seq(Line) /\ ledger'[w] \in Seq(Line)
    BY <1>1 DEF CoreType
  <2>2. Len(ledger'[w]) \in {Len(ledger[w]), Len(ledger[w]) + 1}
    BY <1>1 DEF Grows
  <2>3. D = 1 .. Len(ledger[w]) /\ DOMAIN ledger'[w] = 1 .. Len(ledger'[w]) /\ Len(ledger[w]) \in Nat
    BY <2>1
  <2>. QED  BY <2>2, <2>3
<1>. HIDE DEF D
<1>4. Descending(walk.got, stamp'[w])
  BY <1>1, <1>2 DEF Descending
<1>5. Sound(walk)'
  BY <1>1, <1>3, <1>4 DEF Sound
<1>6. Going(walk) => Going(walk)'
  <2>1. SUFFICES ASSUME Going(walk)  PROVE Going(walk)'
    OBVIOUS
  <2>2. walk.cursor # NoCursor =>
          \A i \in DOMAIN walk.got : ~Earlier(stamp'[w][walk.got[i]], walk.cursor)
    BY <1>1, <1>2, <2>1 DEF Going
  <2>3. \A x \in PageRows(w, walk.cursor) : x \in PageRows(w, walk.cursor)'
    BY <1>1, <1>2, <1>3 DEF PageRows, D
  <2>. QED  BY <1>1, <2>1, <2>2, <2>3 DEF Going, PageRows
<1>. QED  BY <1>1, <1>5, <1>6 DEF Walking

\* A walk that is sound, and has it all when it is done, is complete.
LEMMA WalkedComplete == CoreType /\ Stamping /\ Walking => WalkComplete
<1>. SUFFICES ASSUME CoreType, Stamping, Walking  PROVE WalkComplete
  OBVIOUS
<1>. DEFINE w == walk.wallet
            st == stamp[w]
            g == walk.got
            D == DOMAIN ledger[w]
<1>1. /\ walk \in Walk /\ w \in Wallets /\ g \in Seq(Nat) /\ Descending(g, st)
      /\ \A i \in DOMAIN g : g[i] \in D
  BY DEF Walking, Sound, Walk
<1>2. DOMAIN g = 1 .. Len(g) /\ Len(g) \in Nat
  BY <1>1
<1>3. D \subseteq Nat
  <2>1. ledger[w] \in Seq(Line)
    BY <1>1 DEF CoreType
  <2>2. D = 1 .. Len(ledger[w]) /\ Len(ledger[w]) \in Nat
    BY <2>1
  <2>. QED  BY <2>2
<1>4. \A i \in D : st[i].at \in Nat /\ st[i].id \in Nat
  <2>1. st \in Seq(Stamps) /\ DOMAIN st = D
    BY <1>1 DEF Stamping
  <2>2. \A i \in D : st[i] \in Stamps
    BY <2>1
  <2>. HIDE DEF st, D
  <2>. QED  BY <2>2, EntryIdsAssumption DEF Stamps
<1>5. steps = MaxSteps => \A x, y \in D : x < y => st[x].at < st[y].at
  BY <1>1 DEF Stamping
<1>. HIDE DEF w, st, g, D
<1>6. ASSUME NEW i \in DOMAIN g, NEW j \in DOMAIN g, i < j
      PROVE  g[i] # g[j] /\ (steps = MaxSteps => g[i] > g[j])
  <2>1. g[i] \in D /\ g[j] \in D /\ g[i] \in Nat /\ g[j] \in Nat
    BY <1>1, <1>3
  <2>2. Earlier(st[g[j]], st[g[i]])
    BY <1>1, <1>6 DEF Descending
  <2>3. /\ st[g[i]].at \in Nat /\ st[g[i]].id \in Nat
        /\ st[g[j]].at \in Nat /\ st[g[j]].id \in Nat
    BY <1>4, <2>1
  <2>4. g[i] # g[j]
    <3>1. ASSUME g[i] = g[j]  PROVE FALSE
      <4>1. Earlier(st[g[i]], st[g[i]])
        BY <2>2, <3>1
      <4>. QED  BY <2>3, <4>1, EarlierOrder
    <3>. QED  BY <3>1
  <2>5. ASSUME steps = MaxSteps  PROVE g[i] > g[j]
    <3>1. ASSUME g[i] < g[j]  PROVE FALSE
      <4>1. st[g[i]].at < st[g[j]].at
        BY <1>5, <2>1, <2>5, <3>1
      <4>. QED  BY <2>2, <2>3, <4>1 DEF Earlier
    <3>. QED  BY <2>1, <2>4, <3>1
  <2>. QED  BY <2>4, <2>5
<1>7. \A i, j \in DOMAIN g : g[i] = g[j] => i = j
  <2>1. SUFFICES ASSUME NEW i \in DOMAIN g, NEW j \in DOMAIN g, g[i] = g[j]  PROVE i = j
    OBVIOUS
  <2>2. i \in Nat /\ j \in Nat
    BY <1>2
  <2>3. ~(i < j) /\ ~(j < i)
    BY <1>6, <2>1
  <2>. QED  BY <2>2, <2>3
<1>8. walk.at = "done" => walk.old \subseteq {g[i] : i \in DOMAIN g}
  BY DEF Walking, In, g
<1>. QED  BY <1>6, <1>7, <1>8 DEF WalkComplete, g

(***************************************************************************)
(* What the client is shown.                                               *)
(***************************************************************************)
\* The sum of a ledger is the balance of its wallet.
LEMMA TotalIsBalance ==
  ASSUME CoreType, Books, NEW w \in Wallets
  PROVE  LedgerTotal(w) = wallet[w].balance
<1>. DEFINE l == ledger[w]
            n == Len(l)
            F == [i \in 0 .. n |-> IF i = 0 THEN 0 ELSE l[i].after]
<1>1. l \in Seq(Line) /\ n \in Nat /\ DOMAIN l = 1 .. n /\ (l = <<>> <=> n = 0)
  BY DEF CoreType
<1>2. Chain(l) /\ wallet[w].balance = Closing(l)
  BY DEF Books, Balanced
<1>3. \A x \in Minor : x \in Int
  BY MaxIntAssumption DEF Minor
<1>4. \A i \in 1 .. n : l[i] \in Line
  BY <1>1
<1>5. \A i \in 1 .. n : l[i].after \in Int /\ l[i].before \in Int /\ Signed(l[i]) \in Int
  <2>1. ASSUME NEW i \in 1 .. n
        PROVE  l[i].after \in Int /\ l[i].before \in Int /\ Signed(l[i]) \in Int
    <3>1. l[i].after \in Minor /\ l[i].before \in Minor /\ l[i].amount \in Minor
      BY <1>4 DEF Line
    <3>2. l[i].amount \in Int
      BY <1>3, <3>1
    <3>. QED  BY <1>3, <3>1, <3>2 DEF Signed
  <2>. QED  BY <2>1
<1>. HIDE DEF n
<1>6. Running(F, w, n)
  <2>1. F \in [0 .. n -> Int]
    <3>1. \A i \in 0 .. n : i # 0 => i \in 1 .. n
      BY <1>1
    <3>. QED  BY <1>5, <3>1
  <2>2. F[0] = 0
    BY <1>1
  <2>3. ASSUME NEW k \in 1 .. n  PROVE  F[k] = F[k - 1] + Signed(ledger[w][k])
    <3>1. k \in 0 .. n /\ k # 0 /\ k - 1 \in 0 .. n /\ (k # 1 => k - 1 # 0) /\ (k = 1 => k - 1 = 0)
      BY <1>1
    <3>2. F[k] = l[k].after
      BY <3>1
    <3>3. F[k - 1] = IF k = 1 THEN 0 ELSE l[k - 1].after
      BY <3>1
    <3>4. l[k].before = (IF k = 1 THEN 0 ELSE l[k - 1].after) /\ l[k].after = l[k].before + Signed(l[k])
      BY <1>1, <1>2 DEF Chain
    <3>. HIDE DEF F
    <3>. QED  BY <3>2, <3>3, <3>4
  <2>. HIDE DEF F
  <2>. QED  BY <2>1, <2>2, <2>3 DEF Running
<1>7. F[n] = Closing(l)
  <2>1. n \in 0 .. n
    BY <1>1
  <2>. QED  BY <1>1, <2>1 DEF Closing, n
<1>. HIDE DEF F
<1>8. LedgerTotal(w) = F[n]
  BY <1>1, <1>5, <1>6, LedgerSum
<1>. QED  BY <1>2, <1>7, <1>8

\* A reconciliation that has no error finds no difference.
LEMMA Reconciled ==
  ASSUME CoreType, Books, NEW w \in Wallets, Reconciliation(w).code = ""
  PROVE  Reconciliation(w).consistent /\ Reconciliation(w).difference = String(0)
<1>. DEFINE b == wallet[w].balance
<1>1. LedgerTotal(w) = b
  BY TotalIsBalance
<1>2. b \in 0 .. MaxInt /\ MaxInt \in Nat
  BY MaxIntAssumption DEF CoreType, Balance, Minor
<1>. HIDE DEF b
<1>3. Subtract(b, b) = Parsed(0)
  <2>1. ~(b > 0 /\ b < -MaxInt - 1 + b) /\ ~(b < 0 /\ b > MaxInt + b) /\ b - b = 0
    <3>1. b \in Int /\ b >= 0 /\ MaxInt \in Int /\ MaxInt >= 0
      BY ONLY <1>2
    <3>2. ~(b < -MaxInt - 1 + b)
      BY ONLY <3>1
    <3>3. ~(b < 0) /\ b - b = 0
      BY ONLY <3>1
    <3>. QED  BY ONLY <3>2, <3>3
  <2>. QED  BY <2>1 DEF Subtract
<1>4. Parsed(0).code = "" /\ Parsed(0).minor = 0
  BY DEF Parsed
<1>. DEFINE ok == [code |-> "", difference |-> String(0), consistent |-> TRUE,
                   checkedEntries |-> Len(ledger[w])]
<1>5. \/ Reconciliation(w) = [code |-> "NOT_FOUND"]
      \/ Reconciliation(w) = [code |-> "RECONCILIATION_OVERFLOW"]
      \/ Reconciliation(w) = ok
  <2>1. Reconciliation(w) =
          LET diff == Subtract(b, b) IN
          IF wallet[w].version = 0 THEN [code |-> "NOT_FOUND"]
          ELSE IF b \notin -MaxInt - 1 .. MaxInt THEN [code |-> "RECONCILIATION_OVERFLOW"]
          ELSE IF diff.code # "" THEN [code |-> diff.code]
          ELSE [code |-> "", difference |-> String(diff.minor), consistent |-> diff.minor = 0,
                checkedEntries |-> Len(ledger[w])]
    BY <1>1 DEF Reconciliation, b
  <2>2. (0 = 0) = TRUE
    OBVIOUS
  <2>. QED  BY <1>3, <1>4, <2>1, <2>2
<1>6. [code |-> "NOT_FOUND"].code # "" /\ [code |-> "RECONCILIATION_OVERFLOW"].code # ""
  OBVIOUS
<1>7. Reconciliation(w) = ok
  BY <1>5, <1>6
<1>8. ok.consistent /\ ok.difference = String(0)
  OBVIOUS
<1>. QED  BY <1>7, <1>8

\* What view b shows is on the chain of its wallet, as AnswersOnChain asks.
Honest(b) ==
  BalanceAt(b.wallet, b.version) = ParseMoney(b.balance, Accounts[b.wallet].currency).minor

View(w, of) == [wallet |-> w, version |-> of.version, balance |-> String(of.balance)]

\* A balance of the chain is shown as itself.
LEMMA HonestView ==
  ASSUME Books, NEW w \in Wallets, wallet[w].version > 0, NEW of, of.balance \in Minor,
         BalanceAt(w, of.version) = of.balance
  PROVE  Honest(View(w, of))
<1>. DEFINE b == View(w, of)
<1>1. b.wallet = w /\ b.version = of.version /\ b.balance = String(of.balance)
  BY DEF View
<1>2. Accounts[w].currency \in Currencies
  BY DEF Books
<1>3. ParseMoney(String(of.balance), Accounts[w].currency) = Parsed(of.balance)
  BY <1>2, RoundTrip DEF Minor
<1>4. Parsed(of.balance).minor = of.balance
  BY DEF Parsed
<1>. HIDE DEF b
<1>5. ParseMoney(b.balance, Accounts[b.wallet].currency).minor = of.balance
  BY <1>1, <1>3, <1>4
<1>6. BalanceAt(b.wallet, b.version) = of.balance
  BY <1>1
<1>. QED  BY <1>5, <1>6 DEF Honest, b

WalletsHonest ==
  \A w \in Wallets : \A b : wallet[w].version > 0 /\ b = View(w, wallet[w]) => Honest(b)

\* The view of a wallet is on its chain.
LEMMA WalletHonest == CoreType /\ Books => WalletsHonest
<1>. SUFFICES ASSUME CoreType, Books, NEW w \in Wallets, wallet[w].version > 0
              PROVE  Honest(View(w, wallet[w]))
  BY DEF WalletsHonest
<1>1. BalanceAt(w, wallet[w].version) = wallet[w].balance
  BY LastBalance DEF Latest
<1>2. wallet[w].balance \in Minor
  BY DEF CoreType, Balance
<1>. QED  BY <1>1, <1>2, HonestView

RowsHonest ==
  \A row : \A b : OnChain(row) /\ b = ResultView(row, wallet[row.cmd.wallet]) => Honest(b)

\* So is the result of a wager: what it froze, or what its wallet is while it waits.
LEMMA RowHonest == CoreType /\ Books => RowsHonest
<1>. SUFFICES ASSUME CoreType, Books, NEW row, OnChain(row)
              PROVE  Honest(ResultView(row, wallet[row.cmd.wallet]))
  BY DEF RowsHonest
<1>. DEFINE w == row.cmd.wallet
<1>1. row \in Row /\ w \in Wallets /\ wallet[w].version > 0 /\ row.balance \in Minor
  BY DEF OnChain, Row, Command
<1>2. CASE Terminal(row.status)
  <2>1. ResultView(row, wallet[w]) = View(w, row)
    BY <1>2 DEF ResultView, View
  <2>2. BalanceAt(w, row.version) = row.balance
    BY <1>2 DEF OnChain
  <2>. QED  BY <1>1, <2>1, <2>2, HonestView
<1>3. CASE ~Terminal(row.status)
  <2>1. ResultView(row, wallet[w]) = View(w, wallet[w])
    BY <1>3 DEF ResultView, View
  <2>. QED  BY <1>1, <2>1, WalletHonest DEF WalletsHonest
<1>. QED  BY <1>2, <1>3

\* A command that contradicts a wager is not recorded, because identities are apart.
LEMMA ContradictedNot == Rows => \A c : Contradicted(c) => ~Recorded(c)
<1>. SUFFICES ASSUME Rows, NEW c, Contradicted(c), Recorded(c)  PROVE FALSE
  OBVIOUS
<1>1. PICK t \in Present(wager) : Alike(wager[t].cmd, c) /\ wager[t].cmd # c
  BY DEF Contradicted
<1>2. PICK u \in Present(wager) : wager[u].cmd = c
  BY DEF Recorded
<1>3. wager[t].cmd.provider # ""
  BY <1>1 DEF Contradicted, Alike, SameKey, SameExt
<1>4. t = u
  BY <1>1, <1>2, <1>3 DEF Rows
<1>. QED  BY <1>1, <1>2, <1>4

Conflicts == {"WALLET_ALREADY_EXISTS", "IDEMPOTENCY_KEY_REUSED", "EXTERNAL_TRANSACTION_ID_REUSED"}

\* Only a conflict has status 409.
LEMMA ErrorStatuses == \A code : code \notin Conflicts => ErrorStatus(code) # 409
BY DEF ErrorStatus, Conflicts

\* What ProcessWager refuses is not recorded; what it calls a conflict contradicts one.
LEMMA ErrorTrue ==
  ASSUME Rows, NEW c \in Command, c.provider # "", WagerError(c) # ""
  PROVE  ~Recorded(c) /\ (WagerError(c) \in Conflicts => Contradicted(c))
<1>1. CASE NormalizeCommand(c) # ""
  <2>1. WagerError(c) = NormalizeCommand(c)
    BY <1>1 DEF WagerError
  <2>2. NormalizeCommand(c) \notin Conflicts
    BY DEF NormalizeCommand, Conflicts
  <2>3. WagerError(c) \notin Conflicts
    BY <2>1, <2>2
  <2>4. ~Recorded(c)
    BY <1>1 DEF Recorded, Rows, Named
  <2>. QED  BY <2>3, <2>4
<1>2. CASE NormalizeCommand(c) = "" /\ Conflict(c) # ""
  <2>. DEFINE t == CHOOSE t \in Found(c) : TRUE
  <2>1. Found(c) # {} /\ (wager[t].cmd.key # c.key \/ PayloadHash(wager[t].cmd) # PayloadHash(c))
    BY <1>2 DEF Conflict
  <2>2. t \in Found(c)
    BY <2>1
  <2>. HIDE DEF t
  <2>3. t \in Present(wager) /\ Alike(wager[t].cmd, c)
    BY <2>2 DEF Found, ByKey, ByExt, Alike
  <2>4. wager[t].cmd # c
    BY <2>1
  <2>5. Contradicted(c)
    BY <2>3, <2>4 DEF Contradicted
  <2>. QED  BY <2>5, ContradictedNot
<1>3. CASE NormalizeCommand(c) = "" /\ Conflict(c) = ""
  <2>1. Found(c) = {} /\ WagerError(c) \in {"NOT_FOUND", "PLAYER_MISMATCH", "INVALID_WAGER"}
    BY <1>3 DEF WagerError
  <2>2. ~Recorded(c)
    <3>1. ByKey(wager, c) = {}
      BY <2>1 DEF Found
    <3>. QED  BY <3>1 DEF Recorded, ByKey, SameKey
  <2>3. WagerError(c) \notin Conflicts
    BY <2>1 DEF Conflicts
  <2>. QED  BY <2>2, <2>3
<1>. QED  BY <1>1, <1>2, <1>3

(***************************************************************************)
(* Steps.                                                                  *)
(***************************************************************************)
\* Opening a wallet is a step of the core.
LEMMA OpenCore ==
  ASSUME CoreType, Books, NEW w \in Wallets, Accounts[w].currency \in Currencies, Open(w)
  PROVE  CoreStep /\ wallet'[w].version > 0
<1>1. wallet[w].version = 0
  BY DEF Open
<1>2. CASE Accounts[w].initial > 0
  <2>1. PICK id \in TxIds : wager[id].status = "NONE" /\ Record(id, w, Opening(id, w))
    BY <1>2 DEF Open
  <2>2. PICK o : o = Opening(id, w)
    OBVIOUS
  <2>3. wallet[w] = NoBalance
    <3>1. ledger[w] = <<>> /\ wallet[w].balance = Closing(ledger[w])
      BY <1>1 DEF Books, Balanced
    <3>2. wallet[w].balance = 0 /\ wallet[w] \in Balance
      BY <3>1 DEF Closing, CoreType
    <3>. QED  BY <1>1, <3>2 DEF NoBalance, Balance
  <2>4. Effect(o, wallet[w]) /\ o.dir = "CREDIT" /\ o.row.cmd.wallet = w /\ o.row.cmd.provider = ""
    BY <2>2, <2>3, OpeningSound
  <2>5. Writes(id, w, o)
    BY <1>2, <2>1, <2>2, <2>4 DEF Writes, Named
  <2>. QED  BY <2>5, WriteStep DEF CoreStep
<1>3. CASE ~(Accounts[w].initial > 0)
  <2>1. OpensEmpty(w)
    BY <1>1, <1>3 DEF Open, OpensEmpty
  <2>2. wallet'[w] = [balance |-> 0, version |-> 1]
    BY <2>1 DEF OpensEmpty, CoreType
  <2>. QED  BY <2>1, <2>2 DEF CoreStep
<1>. QED  BY <1>2, <1>3

\* Deciding a new command is a step of the core that records it.
LEMMA DecideCore ==
  ASSUME CoreType, NEW r, r.cmd \in Command, NEW id \in TxIds, Decide(r, id)
  PROVE  \E o : Writes(id, r.cmd.wallet, o) /\ o.row.cmd = r.cmd
<1>. DEFINE c == r.cmd
            rows == [wager EXCEPT ![id] = NewRow(c, "PENDING")]
<1>1. /\ NormalizeCommand(c) = "" /\ wallet[c.wallet].version > 0
      /\ ByKey(wager, c) \cup ByExt(wager, c) = {} /\ wager[id].status = "NONE"
  BY DEF Decide
<1>2. PICK o \in Settled(rows, id, c.wallet, FALSE) : Record(id, c.wallet, o)
  BY DEF Decide
<1>3. NewRow(c, "PENDING") \in Row /\ NewRow(c, "PENDING").cmd = c
  <2>1. "PENDING" \in Statuses
    BY DEF Statuses
  <2>. QED  BY <2>1, NewRowType
<1>4. rows \in [TxIds -> Row] /\ rows[id] = NewRow(c, "PENDING") /\ c.wallet \in Wallets
  BY <1>3 DEF CoreType, Command
<1>. HIDE DEF rows
<1>5. PICK ref \in References(rows, rows[id].cmd) :
        o = Outcome(id, rows[id], wallet[c.wallet], ref, ReversedIn(rows, ref.id), FALSE)
  BY <1>2 DEF Settled
<1>6. ref \in Seen /\ wallet[c.wallet] \in Balance /\ rows[id] \in Row
  BY <1>4, ReferenceType DEF CoreType
<1>7. Effect(o, wallet[c.wallet]) /\ o.row.cmd = c
  <2>1. PICK expired \in BOOLEAN : expired = FALSE
    OBVIOUS
  <2>2. PICK reversed : reversed = ReversedIn(rows, ref.id)
    OBVIOUS
  <2>3. o = Outcome(id, rows[id], wallet[c.wallet], ref, reversed, expired)
    BY <1>5, <2>1, <2>2
  <2>4. Effect(o, wallet[c.wallet]) /\ o.row.cmd = rows[id].cmd
    BY <1>6, <2>3, OutcomeSound
  <2>. QED  BY <1>3, <1>4, <2>4
<1>8. Writes(id, c.wallet, o)
  BY <1>1, <1>2, <1>7 DEF Writes, Named
<1>. QED  BY <1>7, <1>8

\* So is deciding a waiting wager again.
LEMMA ResolveCore ==
  ASSUME CoreType, Rows, NEW id \in TxIds, Resolve(id)
  PROVE  CoreStep
<1>. DEFINE w == wager[id].cmd.wallet
<1>1. wager[id].status = "PENDING_REFERENCE" /\ id \in Present(wager)
  BY DEF Resolve, Present
<1>2. wager[id] \in Row /\ w \in Wallets /\ wallet[w] \in Balance
  BY DEF CoreType, Row, Command
<1>3. wallet[w].version > 0 /\ Named(wager[id].cmd)
  BY <1>1 DEF Rows, OnChain
<1>4. ASSUME NEW o, Record(id, w, o), Effect(o, wallet[w]), o.row.cmd = wager[id].cmd
      PROVE  Writes(id, w, o)
  BY <1>1, <1>3, <1>4 DEF Writes
<1>5. CASE \E expired \in BOOLEAN : \E o \in Settled(wager, id, w, expired) : Record(id, w, o)
  <2>1. PICK expired \in BOOLEAN : \E o \in Settled(wager, id, w, expired) : Record(id, w, o)
    BY <1>5
  <2>2. PICK o \in Settled(wager, id, w, expired) : Record(id, w, o)
    BY <2>1
  <2>3. PICK ref \in References(wager, wager[id].cmd) :
          o = Outcome(id, wager[id], wallet[w], ref, ReversedIn(wager, ref.id), expired)
    BY <2>2 DEF Settled
  <2>4. ref \in Seen
    BY ReferenceType DEF CoreType
  <2>5. Effect(o, wallet[w]) /\ o.row.cmd = wager[id].cmd
    BY <1>2, <2>3, <2>4, OutcomeSound
  <2>. QED  BY <1>2, <1>4, <2>2, <2>5 DEF CoreStep
<1>6. CASE Record(id, w, Failure(id, wager[id], wallet[w]))
  <2>1. PICK o : o = Failure(id, wager[id], wallet[w])
    OBVIOUS
  <2>2. Effect(o, wallet[w]) /\ o.row.cmd = wager[id].cmd
    BY <1>2, <2>1, FailureSound
  <2>. QED  BY <1>2, <1>4, <1>6, <2>1, <2>2 DEF CoreStep
<1>. QED  BY <1>5, <1>6 DEF Resolve

\* A step of the core, with its stamps, keeps the state sound.
LEMMA StateStep ==
  ASSUME State, CoreStep, InsertLedger, UNCHANGED steps
  PROVE  State' /\ Grows /\ StampsStay
<1>1. CoreType' /\ Books' /\ Rows' /\ Grows
  BY CoreKept DEF State
<1>. QED  BY <1>1, StampStep DEF State

\* A step without effect keeps it.
LEMMA Steady ==
  ASSUME State, NoEffect
  PROVE  State' /\ Grows /\ StampsStay /\ UNCHANGED <<wallet, ledger, wager>>
<1>1. /\ wallet' = wallet /\ ledger' = ledger /\ wager' = wager
      /\ stamp' = stamp /\ clock' = clock /\ steps' = steps
  BY DEF NoEffect, vars, reads
<1>2. CoreType' /\ Books' /\ Rows' /\ Grows
  BY <1>1, CoreKept DEF State, CoreStep
<1>3. Stamping' /\ StampsStay
  BY <1>1 DEF State, Stamping, StampsStay
<1>. QED  BY <1>1, <1>2, <1>3 DEF State

\* A contradiction stays one.
LEMMA ContradictedStays ==
  ASSUME Grows, NEW c, Contradicted(c)
  PROVE  Contradicted(c)'
BY DEF Grows, Contradicted

\* A step of others keeps what a client has been given true.
LEMMA ClientStep ==
  ASSUME State, State', Grows, StampsStay, Client, UNCHANGED <<refused, walk, reading>>
  PROVE  Client'
<1>1. /\ refused' = refused /\ walk' = walk /\ reading' = reading
      /\ reading.route \in {"", "getTransaction", "getExternal"}
  BY DEF Client
<1>2. \A c \in refused : Contradicted(c)'
  BY ContradictedStays DEF Client
<1>3. reading.route # "" => OnChain(reading.row)'
  <2>1. PICK r : r = reading.row
    OBVIOUS
  <2>2. OnChain(r) => OnChain(r)'
    BY OnChainStays DEF State
  <2>. QED  BY <1>1, <2>1, <2>2 DEF Client, OnChain, BalanceAt
<1>4. Walking'
  BY <1>1, WalkStays DEF State, Client
<1>. QED  BY <1>1, <1>2, <1>3, <1>4 DEF Client, Contradicted

\* An answer without a body is true if it says nothing wrong about its command.
LEMMA BareAnswer ==
  ASSUME answer'.body = {}, answer'.cmd = NoCommand \/ ~Recorded(answer.cmd)'
  PROVE  Answered'
BY DEF Answered, AnswersOnChain, ReconcilesAlways, Recorded

\* An answer that shows a view of the chain is true.
LEMMA ShownAnswer ==
  ASSUME NEW b, answer'.body = {b}, Honest(b)', answer'.route # "reconcile",
         answer'.status \notin {400, 404, 409}
  PROVE  Answered'
<1>1. AnswersOnChain'
  BY DEF AnswersOnChain, Honest, BalanceAt
<1>2. ReconcilesAlways'
  BY DEF ReconcilesAlways
<1>. QED  BY <1>1, <1>2 DEF Answered

\* What Fail and Answer give.
LEMMA AnswerFields ==
  ASSUME NEW q, NEW status, NEW code, NEW cmd, NEW body
  PROVE  /\ Answer(q, status, code, cmd, body) =>
              /\ answer'.route = q.route /\ answer'.status = status
              /\ answer'.cmd = cmd /\ answer'.body = body
         /\ Fail(q, code, cmd) => answer'.cmd = cmd /\ answer'.body = {}
BY DEF Answer, Fail

\* An error that names no command is true.
LEMMA BareFail ==
  ASSUME NEW q, NEW code, Fail(q, code, NoCommand)
  PROVE  Answered'
BY AnswerFields, BareAnswer

\* The absent walk.
LEMMA NoWalkSound == Sound(NoWalk) /\ NoWalk.at = "none"
<1>1. NoCommand.wallet \in Wallets
  BY InitialValues DEF Command
<1>2. <<>> \in Seq(Nat) /\ NoCursor \in [at : Nat, id : Nat] /\ DOMAIN <<>> = {}
  BY DEF NoCursor
<1>3. NoWalk \in Walk /\ NoWalk.old = {} /\ NoWalk.got = <<>> /\ NoWalk.at = "none"
  BY <1>1, <1>2 DEF NoWalk, Walk
<1>. HIDE DEF NoWalk
<1>. QED  BY <1>2, <1>3 DEF Sound, Descending

\* A call that changes nothing.
LEMMA QuietStep ==
  ASSUME State, Client, NoEffect, Quiet
  PROVE  State' /\ Client' /\ UNCHANGED <<wallet, ledger, wager>>
BY Steady, ClientStep DEF Quiet

\* Refuse keeps the invariant.
LEMMA RefuseStep ==
  ASSUME IndInv, NEW q \in Calls, Refuse(q)
  PROVE  IndInv'
<1>1. Fail(q, Screen(q), NoCommand) /\ NoEffect /\ Quiet
  BY DEF Refuse
<1>. QED  BY <1>1, BareFail, QuietStep DEF IndInv

\* Break keeps the invariant.
LEMMA BreakStep ==
  ASSUME IndInv, NEW q \in Calls, Break(q)
  PROVE  IndInv'
<1>1. NoEffect /\ Quiet
  BY DEF Break
<1>2. Answered'
  <2>1. CASE Fail(NoAnswer, "UNAVAILABLE", NoCommand)
    BY <2>1, BareFail
  <2>2. CASE Answer(NoAnswer, 500, "INTERNAL_ERROR", NoCommand, {})
    BY <2>2, AnswerFields, BareAnswer
  <2>. QED  BY <2>1, <2>2 DEF Break
<1>. QED  BY <1>1, <1>2, QuietStep DEF IndInv

\* CreateWallet keeps the invariant.
LEMMA CreateWalletStep ==
  ASSUME IndInv, NEW q \in Calls, CreateWallet(q)
  PROVE  IndInv'
<1>1. q.route = "createWallet" /\ Quiet /\ State /\ Client
  BY DEF CreateWallet, IndInv
<1>2. CASE \E code : Fail(q, code, NoCommand) /\ NoEffect
  BY <1>1, <1>2, BareFail, QuietStep DEF IndInv
<1>3. CASE \E w \in Owned(q) :
             /\ Money(q).code = "" /\ Open(w) /\ InsertLedger /\ UNCHANGED steps
             /\ \/ Answer(q, 201, "", NoCommand,
                      {[wallet |-> w, version |-> wallet'[w].version,
                        balance |-> String(wallet'[w].balance)]})
                \/ Fail(q, "UNAVAILABLE", NoCommand)
  <2>1. PICK w \in Owned(q) :
             /\ Money(q).code = "" /\ Open(w) /\ InsertLedger /\ UNCHANGED steps
             /\ \/ Answer(q, 201, "", NoCommand,
                      {[wallet |-> w, version |-> wallet'[w].version,
                        balance |-> String(wallet'[w].balance)]})
                \/ Fail(q, "UNAVAILABLE", NoCommand)
    BY <1>3
  <2>2. w \in Wallets /\ Accounts[w].currency = q.cmd.currency
    BY DEF Owned
  <2>3. Accounts[w].currency \in Currencies
    <3>1. q.text \in Seq(0 .. Minus)
      BY CallsAssumption
    <3>2. "" \notin ParseErrors
      BY DEF ParseErrors
    <3>. QED  BY <2>1, <2>2, <3>1, <3>2, ParseMoneyType DEF Money
  <2>4. CoreStep /\ wallet'[w].version > 0
    BY <1>1, <2>1, <2>2, <2>3, OpenCore DEF State
  <2>5. State' /\ Grows /\ StampsStay
    BY <1>1, <2>1, <2>4, StateStep
  <2>6. Client'
    BY <1>1, <2>5, ClientStep DEF Quiet
  <2>7. Answered'
    <3>1. CASE Fail(q, "UNAVAILABLE", NoCommand)
      BY <3>1, BareFail
    <3>2. CASE Answer(q, 201, "", NoCommand,
                 {[wallet |-> w, version |-> wallet'[w].version,
                   balance |-> String(wallet'[w].balance)]})
      <4>1. PICK b : b = [wallet |-> w, version |-> wallet'[w].version,
                          balance |-> String(wallet'[w].balance)]
        OBVIOUS
      <4>2. Answer(q, 201, "", NoCommand, {b})
        BY <3>2, <4>1
      <4>3. answer'.body = {b} /\ answer'.route = "createWallet" /\ answer'.status = 201
        BY <1>1, <4>2 DEF Answer
      <4>4. WalletsHonest'
        BY <2>5, WalletHonest, PTL DEF State
      <4>5. Honest(b)'
        BY <2>2, <2>4, <4>1, <4>4 DEF WalletsHonest, View, Honest, BalanceAt
      <4>. QED  BY <4>3, <4>5, ShownAnswer
    <3>. QED  BY <2>1, <3>1, <3>2
  <2>. QED  BY <2>5, <2>6, <2>7 DEF IndInv
<1>. QED
  <2>1. CASE Money(q).code # "" /\ Fail(q, Money(q).code, NoCommand) /\ NoEffect
    BY <1>2, <2>1
  <2>2. CASE Fail(q, "WALLET_ALREADY_EXISTS", NoCommand) /\ NoEffect
    BY <1>2, <2>2
  <2>. QED  BY <1>3, <2>1, <2>2 DEF CreateWallet

\* The command of a call, with its amount, is a command of the provider of the call.
LEMMA CommandOf ==
  ASSUME NEW q \in Calls, q.route = "processWager", Screen(q) = ""
  PROVE  LET c == [q.cmd EXCEPT !.amount = Money(q).minor]
         IN c \in Command /\ c.provider # ""
<1>1. q.text \in Seq(0 .. Minus) /\ q.cmd \in Command /\ q.cmd.provider # ""
  BY CallsAssumption
<1>2. Money(q).minor \in Minor
  BY <1>1, ParseMoneyType DEF Money, Minor
<1>. QED  BY <1>1, <1>2 DEF Command

\* A replay: the answer is what the wager froze or what its wallet is.
LEMMA ReplayAnswer ==
  ASSUME State, State', UNCHANGED <<wallet, ledger, wager>>, NEW q, q.route # "reconcile",
         NEW c, NEW row, OnChain(row),
         Answer(q, 200, "", c, {ResultView(row, wallet[row.cmd.wallet])})
  PROVE  Answered'
<1>1. PICK b : b = ResultView(row, wallet[row.cmd.wallet])
  OBVIOUS
<1>2. Honest(b)
  BY <1>1, RowHonest DEF State, RowsHonest
<1>3. Honest(b)'
  BY <1>2 DEF Honest, BalanceAt
<1>4. Answer(q, 200, "", c, {b})
  BY <1>1
<1>5. q.route # "reconcile"
  OBVIOUS
<1>6. answer'.body = {b} /\ answer'.route # "reconcile" /\ answer'.status = 200
  BY ONLY <1>4, <1>5 DEF Answer
<1>7. answer'.status \notin {400, 404, 409}
  BY ONLY <1>6
<1>. QED  BY ONLY <1>3, <1>6, <1>7, ShownAnswer

\* A decided command is never answered with 400, 404 or 409.
LEMMA NewStatuses == \A s : NewStatus(s) \notin {400, 404, 409}
BY DEF NewStatus

\* A new command: its row and its wallet as the commit leaves them.
LEMMA DecidedAnswer ==
  ASSUME State, NEW q, q.route = "processWager", NEW c \in Command, NEW id \in TxIds,
         Decide([cmd |-> c, msg |-> "", at |-> 0], id), InsertLedger, UNCHANGED steps,
         \/ Answer(q, NewStatus(wager'[id].status), "", c,
                   {ResultView(wager'[id], wallet'[c.wallet])})
         \/ Fail(q, "UNAVAILABLE", NoCommand)
  PROVE  State' /\ Grows /\ StampsStay /\ Answered'
<1>. DEFINE r == [cmd |-> c, msg |-> "", at |-> 0]
<1>1. r.cmd = c
  OBVIOUS
<1>. HIDE DEF r
<1>2. c.wallet \in Wallets /\ Decide(r, id)
  BY DEF Command, r
<1>3. PICK o : Writes(id, c.wallet, o) /\ o.row.cmd = c
  BY <1>1, <1>2, DecideCore DEF State
<1>4. CoreStep
  BY <1>2, <1>3 DEF CoreStep
<1>5. State' /\ Grows /\ StampsStay
  BY <1>4, StateStep
<1>6. wager'[id] = o.row /\ o.row.status # "NONE"
  <2>1. wager'[id] = o.row
    BY <1>2, <1>3, WriteStep DEF State
  <2>2. o.row.status # "NONE"
    BY <1>3 DEF Writes, Effect
  <2>. QED  BY <2>1, <2>2
<1>7. Answered'
  <2>1. CASE Fail(q, "UNAVAILABLE", NoCommand)
    BY <2>1, BareFail
  <2>2. CASE Answer(q, NewStatus(wager'[id].status), "", c,
                    {ResultView(wager'[id], wallet'[c.wallet])})
    <3>1. id \in Present(wager)'
      BY <1>6 DEF Present
    <3>2. OnChain(o.row)'
      BY <1>5, <1>6, <3>1 DEF State, Rows, OnChain, BalanceAt
    <3>3. RowsHonest'
      BY <1>5, RowHonest, PTL DEF State
    <3>4. PICK b : b = ResultView(o.row, wallet'[c.wallet])
      OBVIOUS
    <3>5. Honest(b)'
      BY <1>3, <3>2, <3>3, <3>4 DEF RowsHonest
    <3>6. Answer(q, NewStatus(wager'[id].status), "", c, {b})
      BY <1>6, <2>2, <3>4
    <3>7. answer'.body = {b} /\ answer'.route = "processWager" /\ answer'.status = NewStatus(wager'[id].status)
      BY <3>6 DEF Answer
    <3>8. answer'.status \notin {400, 404, 409} /\ answer'.route # "reconcile"
      <4>2. answer'.status \notin {400, 404, 409}
        BY ONLY <3>7, NewStatuses
      <4>. QED  BY ONLY <3>7, <4>2
    <3>. QED  BY <3>5, <3>7, <3>8, ShownAnswer
  <2>. QED  BY <2>1, <2>2
<1>. QED  BY <1>5, <1>7

\* ProcessWager keeps the invariant.
LEMMA ProcessWagerStep ==
  ASSUME IndInv, NEW q \in Calls, ProcessWager(q)
  PROVE  IndInv'
<1>. DEFINE m == Money(q)
            c == [q.cmd EXCEPT !.amount = m.minor]
            error == IF m.code # "" THEN m.code ELSE WagerError(c)
<1>1. /\ q.route = "processWager" /\ Screen(q) = "" /\ UNCHANGED <<walk, reading>>
      /\ refused' = IF ErrorStatus(error) = 409 THEN refused \cup {c} ELSE refused
  BY DEF ProcessWager
<1>2. c \in Command /\ c.provider # ""
  BY <1>1, CommandOf
<1>3. \/ error # "" /\ Fail(q, error, IF m.code # "" THEN NoCommand ELSE c) /\ NoEffect
      \/ /\ error = "" /\ \E t \in Found(c) :
              Answer(q, 200, "", c, {ResultView(wager[t], wallet[wager[t].cmd.wallet])})
         /\ NoEffect
      \/ error = "" /\ Found(c) = {} /\ \E id \in TxIds : Commit(q, c, id)
  BY DEF ProcessWager
<1>4. m.code \in ParseErrors \cup {""}
  <2>1. q.text \in Seq(0 .. Minus)
    BY CallsAssumption
  <2>. QED  BY <2>1, ParseMoneyType DEF Money
<1>. HIDE DEF c, m
<1>5. State /\ Client /\ Rows
  BY DEF IndInv, State
<1>6. ErrorStatus(error) = 409 => Contradicted(c)
  <2>1. SUFFICES ASSUME ErrorStatus(error) = 409  PROVE Contradicted(c)
    OBVIOUS
  <2>2. error \in Conflicts
    <3>. HIDE DEF error
    <3>. QED  BY ONLY <2>1, ErrorStatuses
  <2>3. m.code = ""
    <3>1. \A x \in ParseErrors : x \notin Conflicts
      BY DEF ParseErrors, Conflicts
    <3>. QED  BY <1>4, <2>2, <3>1
  <2>4. error = WagerError(c) /\ WagerError(c) # ""
    BY <2>2, <2>3 DEF Conflicts
  <2>. HIDE DEF error
  <2>. QED  BY <1>2, <1>5, <2>2, <2>4, ErrorTrue
<1>7. ASSUME State', Grows, StampsStay  PROVE Client'
  <2>1. \A d \in refused' : Contradicted(d)
    <3>. HIDE DEF error
    <3>1. \A d \in refused : Contradicted(d)
      BY <1>5 DEF Client
    <3>2. CASE ErrorStatus(error) = 409
      <4>1. refused' = refused \cup {c} /\ Contradicted(c)
        BY ONLY <1>1, <1>6, <3>2
      <4>. QED  BY ONLY <3>1, <4>1
    <3>3. CASE ErrorStatus(error) # 409
      <4>1. refused' = refused
        BY ONLY <1>1, <3>3
      <4>. QED  BY ONLY <3>1, <4>1
    <3>. QED  BY <3>2, <3>3
  <2>2. \A d \in refused' : Contradicted(d)'
    BY <1>7, <2>1, ContradictedStays
  <2>3. reading.route # "" => OnChain(reading.row)'
    <3>1. PICK r : r = reading.row
      OBVIOUS
    <3>2. OnChain(r) => OnChain(r)'
      BY <1>5, <1>7, OnChainStays DEF State
    <3>. QED  BY <1>1, <1>5, <3>1, <3>2 DEF Client, OnChain, BalanceAt
  <2>4. Walking'
    BY <1>1, <1>5, <1>7, WalkStays DEF State, Client
  <2>5. reading' = reading /\ reading.route \in {"", "getTransaction", "getExternal"}
    BY <1>1, <1>5 DEF Client
  <2>. QED  BY <2>2, <2>3, <2>4, <2>5 DEF Client, Contradicted
<1>8. CASE error # "" /\ Fail(q, error, IF m.code # "" THEN NoCommand ELSE c) /\ NoEffect
  <2>1. State' /\ Grows /\ StampsStay /\ wager' = wager
    BY <1>5, <1>8, Steady
  <2>2. CASE m.code # ""
    <3>1. Fail(q, error, NoCommand)
      BY <1>8, <2>2
    <3>. HIDE DEF error
    <3>. QED  BY <1>7, <2>1, <3>1, BareFail DEF IndInv
  <2>3. CASE m.code = ""
    <3>1. Fail(q, error, c) /\ WagerError(c) # ""
      BY <1>8, <2>3
    <3>. HIDE DEF error
    <3>2. ~Recorded(c)
      BY <1>2, <1>5, <3>1, ErrorTrue
    <3>3. answer'.body = {} /\ answer'.cmd = c
      BY <3>1 DEF Fail, Answer
    <3>4. ~Recorded(answer.cmd)'
      BY <2>1, <3>2, <3>3 DEF Recorded
    <3>. QED  BY <1>7, <2>1, <3>3, <3>4, BareAnswer DEF IndInv
  <2>. QED  BY <2>2, <2>3
<1>9. CASE /\ error = "" /\ \E t \in Found(c) :
              Answer(q, 200, "", c, {ResultView(wager[t], wallet[wager[t].cmd.wallet])})
           /\ NoEffect
  <2>1. State' /\ Grows /\ StampsStay /\ UNCHANGED <<wallet, ledger, wager>>
    BY <1>5, <1>9, Steady
  <2>2. PICK t \in Found(c) :
          Answer(q, 200, "", c, {ResultView(wager[t], wallet[wager[t].cmd.wallet])})
    BY <1>9
  <2>3. PICK row : row = wager[t]
    OBVIOUS
  <2>4. OnChain(row)
    <3>1. t \in Present(wager)
      BY DEF Found, ByKey, ByExt
    <3>. QED  BY <1>5, <2>3, <3>1 DEF Rows
  <2>5. Answer(q, 200, "", c, {ResultView(row, wallet[row.cmd.wallet])})
    BY <2>2, <2>3
  <2>6. q.route # "reconcile"
    BY <1>1
  <2>7. Answered'
    BY <1>5, <2>1, <2>4, <2>5, <2>6, ReplayAnswer
  <2>. QED  BY <1>7, <2>1, <2>7 DEF IndInv
<1>10. CASE error = "" /\ Found(c) = {} /\ \E id \in TxIds : Commit(q, c, id)
  <2>1. PICK id \in TxIds : Commit(q, c, id)
    BY <1>10
  <2>2. CASE /\ Decide([cmd |-> c, msg |-> "", at |-> 0], id) /\ InsertLedger /\ UNCHANGED steps
             /\ \/ Answer(q, NewStatus(wager'[id].status), "", c,
                          {ResultView(wager'[id], wallet'[c.wallet])})
                \/ Fail(q, "UNAVAILABLE", NoCommand)
    <3>1. State' /\ Grows /\ StampsStay /\ Answered'
      BY <1>1, <1>2, <1>5, <2>2, DecidedAnswer
    <3>. QED  BY <1>7, <3>1 DEF IndInv
  <2>3. CASE Fail(q, "INVALID_WALLET", c) /\ NoEffect
    <3>1. State' /\ Grows /\ StampsStay /\ wager' = wager
      BY <1>5, <2>3, Steady
    <3>2. ~Recorded(c)
      <4>1. ByKey(wager, c) = {}
        BY <1>10 DEF Found
      <4>. QED  BY <4>1 DEF Recorded, ByKey, SameKey
    <3>3. answer'.body = {} /\ answer'.cmd = c
      BY <2>3 DEF Fail, Answer
    <3>4. ~Recorded(answer.cmd)'
      BY <3>1, <3>2, <3>3 DEF Recorded
    <3>. QED  BY <1>7, <3>1, <3>3, <3>4, BareAnswer DEF IndInv
  <2>. QED  BY <2>1, <2>2, <2>3 DEF Commit
<1>. QED  BY <1>3, <1>8, <1>9, <1>10

\* GetWallet keeps the invariant.
LEMMA GetWalletStep ==
  ASSUME IndInv, NEW q \in Calls, GetWallet(q)
  PROVE  IndInv'
<1>. DEFINE w == q.cmd.wallet
<1>1. q.route = "getWallet" /\ NoEffect /\ Quiet /\ State /\ Client
  BY DEF GetWallet, IndInv
<1>2. State' /\ Client' /\ UNCHANGED <<wallet, ledger, wager>>
  BY <1>1, QuietStep
<1>3. w \in Wallets
  BY CallsAssumption DEF Command
<1>4. Answered'
  <2>1. CASE Fail(q, "NOT_FOUND", NoCommand)
    BY <2>1, BareFail
  <2>2. CASE wallet[w].version # 0 /\ Answer(q, 200, "", NoCommand, {WalletView(w)})
    <3>1. PICK b : b = WalletView(w)
      OBVIOUS
    <3>2. wallet[w].version > 0
      <4>1. wallet[w].version \in Nat
        BY <1>1, <1>3 DEF State, CoreType, Balance
      <4>2. wallet[w].version # 0
        BY <2>2
      <4>. QED  BY ONLY <4>1, <4>2
    <3>3. b = View(w, wallet[w])
      BY <3>1 DEF WalletView, View
    <3>4. Honest(b)
      BY <1>1, <1>3, <3>2, <3>3, WalletHonest DEF State, WalletsHonest
    <3>5. Honest(b)'
      BY <1>2, <3>4 DEF Honest, BalanceAt
    <3>6. Answer(q, 200, "", NoCommand, {b})
      BY <2>2, <3>1
    <3>7. q.route = "getWallet"
      BY <1>1
    <3>8. answer'.body = {b} /\ answer'.route = "getWallet" /\ answer'.status = 200
      BY ONLY <3>6, <3>7 DEF Answer
    <3>9. answer'.route # "reconcile" /\ answer'.status \notin {400, 404, 409}
      BY ONLY <3>8
    <3>. QED  BY ONLY <3>5, <3>8, <3>9, ShownAnswer
  <2>. QED  BY <2>1, <2>2 DEF GetWallet
<1>. QED  BY <1>2, <1>4 DEF IndInv

\* Ledger keeps the invariant: a page more.
LEMMA LedgerStep ==
  ASSUME IndInv, NEW q \in Calls, Ledger(q)
  PROVE  IndInv'
<1>. DEFINE w == q.cmd.wallet
            from == IF walk.at = "open" THEN walk
                    ELSE [NoWalk EXCEPT !.wallet = w, !.old = DOMAIN ledger[w]]
            page == LedgerPage(w, from.cursor, q.limit)
            code == IF wallet[w].version = 0 THEN "NOT_FOUND"
                    ELSE IF "INVALID_CURSOR" \in q.flaws THEN "INVALID_CURSOR" ELSE ""
            next == [from EXCEPT !.at = IF page.next = NoCursor THEN "done" ELSE "open",
                                 !.got = @ \o page.entries, !.cursor = page.next]
<1>1. /\ walk.at = "open" => walk.wallet = w
      /\ NoEffect /\ UNCHANGED <<refused, reading>>
      /\ \/ Fail(q, code, NoCommand) /\ UNCHANGED walk
         \/ Answer(q, 200, "", NoCommand, {}) /\ walk' = next
  BY DEF Ledger
<1>2. w \in Wallets /\ q.limit \in Nat \ {0}
  BY CallsAssumption DEF Command
<1>3. State /\ Client /\ CoreType /\ Stamping /\ Walking
  BY DEF IndInv, State, Client
<1>4. State' /\ Grows /\ StampsStay /\ UNCHANGED <<wallet, ledger, wager>> /\ stamp' = stamp
  BY <1>1, <1>3, Steady DEF NoEffect, reads
<1>5. Answered'
  <2>1. CASE Fail(q, code, NoCommand)
    <3>. HIDE DEF code
    <3>. QED  BY <2>1, BareFail
  <2>2. CASE Answer(q, 200, "", NoCommand, {})
    <3>1. answer'.body = {} /\ answer'.cmd = NoCommand
      BY ONLY <2>2 DEF Answer
    <3>. QED  BY ONLY <3>1, BareAnswer
  <2>. QED  BY <1>1, <2>1, <2>2
<1>6. Walking'
  <2>1. CASE UNCHANGED walk
    BY <1>3, <1>4, <2>1, WalkStays DEF State
  <2>2. CASE walk' = next
    <3>1. Sound(from) /\ Going(from) /\ from.wallet = w
      <4>1. CASE walk.at = "open"
        BY <1>1, <1>3, <4>1 DEF Walking
      <4>2. CASE walk.at # "open"
        <5>1. from = [NoWalk EXCEPT !.wallet = w, !.old = DOMAIN ledger[w]]
          BY <4>2
        <5>. HIDE DEF from
        <5>. QED  BY <1>2, <1>3, <5>1, WalkBegins
      <4>. QED  BY <4>1, <4>2
    <3>2. PICK k : k = from
      OBVIOUS
    <3>3. next = LET p == LedgerPage(k.wallet, k.cursor, q.limit)
                 IN [k EXCEPT !.at = IF p.next = NoCursor THEN "done" ELSE "open",
                              !.got = @ \o p.entries, !.cursor = p.next]
      <4>. HIDE DEF from
      <4>. QED  BY <3>1, <3>2
    <3>4. PICK x : x = next
      OBVIOUS
    <3>. HIDE DEF from, next
    <3>5. /\ Sound(x)
          /\ x.at = "open" => Going(x)
          /\ x.at = "done" => \A y \in x.old : In(y, x.got)
      BY <1>2, <1>3, <3>1, <3>2, <3>3, <3>4, PageStep
    <3>6. walk' = x
      BY <2>2, <3>4
    <3>7. Sound(x)' /\ (Going(x) => Going(x)')
      BY <1>4, <3>5 DEF Sound, Going, PageRows
    <3>. QED  BY <3>5, <3>6, <3>7 DEF Walking, Sound, Going, PageRows
  <2>. QED  BY <1>1, <2>1, <2>2
<1>7. Client'
  <2>1. \A c \in refused : Contradicted(c)
    BY <1>3 DEF Client
  <2>2. /\ reading.route \in {"", "getTransaction", "getExternal"}
        /\ reading.route # "" => OnChain(reading.row)
    BY <1>3 DEF Client
  <2>3. refused' = refused /\ reading' = reading
    BY <1>1
  <2>. QED  BY <1>4, <1>6, <2>1, <2>2, <2>3 DEF Client, Contradicted, OnChain, BalanceAt
<1>. QED  BY <1>4, <1>5, <1>7 DEF IndInv

\* Reconcile keeps the invariant.
LEMMA ReconcileStep ==
  ASSUME IndInv, NEW q \in Calls, Reconcile(q)
  PROVE  IndInv'
<1>. DEFINE w == q.cmd.wallet
            r == Reconciliation(w)
<1>1. q.route = "reconcile" /\ NoEffect /\ Quiet /\ State /\ Client
  BY DEF Reconcile, IndInv
<1>2. State' /\ Client'
  BY <1>1, QuietStep
<1>3. w \in Wallets
  BY CallsAssumption DEF Command
<1>4. Answered'
  <2>1. CASE Fail(q, r.code, NoCommand)
    <3>. HIDE DEF r
    <3>. QED  BY <2>1, BareFail
  <2>2. CASE r.code = "" /\ Answer(q, 200, "", NoCommand, {r})
    <3>1. r.consistent /\ r.difference = String(0)
      BY <1>1, <1>3, <2>2, Reconciled DEF State
    <3>. HIDE DEF r
    <3>2. q.route = "reconcile"
      BY <1>1
    <3>3. PICK b : b = r
      OBVIOUS
    <3>4. Answer(q, 200, "", NoCommand, {b})
      BY <2>2, <3>3
    <3>5. /\ answer'.route = "reconcile" /\ answer'.cmd = NoCommand /\ answer'.body = {b}
      BY ONLY <3>2, <3>4 DEF Answer
    <3>6. AnswersOnChain'
      BY ONLY <3>5 DEF AnswersOnChain
    <3>7. ReconcilesAlways'
      BY <3>1, <3>3, <3>5 DEF ReconcilesAlways
    <3>. QED  BY <3>5, <3>6, <3>7 DEF Answered
  <2>. QED  BY <2>1, <2>2 DEF Reconcile
<1>. QED  BY <1>2, <1>4 DEF IndInv

\* GetTransaction keeps the invariant: what it read is on its chain.
LEMMA GetTransactionStep ==
  ASSUME IndInv, NEW q \in Calls, GetTransaction(q)
  PROVE  IndInv'
<1>1. /\ NoEffect /\ UNCHANGED <<refused, walk>> /\ q.route \in {"getTransaction", "getExternal"}
      /\ \/ Fail(q, "NOT_FOUND", NoCommand) /\ UNCHANGED reading
         \/ /\ \E t \in Present(wager) : reading' = [route |-> q.route, row |-> wager[t]]
            /\ UNCHANGED answer
  BY DEF GetTransaction, Present
<1>2. State /\ Client /\ Answered /\ Idle
  BY DEF IndInv, GetTransaction
<1>3. State' /\ Grows /\ StampsStay /\ UNCHANGED <<wallet, ledger, wager>>
  BY <1>1, <1>2, Steady
<1>4. CASE Fail(q, "NOT_FOUND", NoCommand) /\ UNCHANGED reading
  BY <1>1, <1>2, <1>3, <1>4, BareFail, ClientStep DEF IndInv
<1>5. CASE /\ \E t \in Present(wager) : reading' = [route |-> q.route, row |-> wager[t]]
           /\ UNCHANGED answer
  <2>1. Answered'
    <3>1. answer' = NoAnswer
      BY <1>2, <1>5 DEF Idle
    <3>2. answer'.body = {} /\ answer'.cmd = NoCommand
      BY ONLY <3>1 DEF NoAnswer
    <3>. QED  BY ONLY <3>2, BareAnswer
  <2>2. PICK t \in Present(wager) : reading' = [route |-> q.route, row |-> wager[t]]
    BY <1>5
  <2>3. PICK row : row = wager[t]
    OBVIOUS
  <2>4. OnChain(row)
    BY <1>2, <2>3 DEF State, Rows
  <2>5. OnChain(row)'
    BY <1>2, <1>3, <2>4, OnChainStays DEF State
  <2>6. reading'.row = row /\ reading'.route \in {"", "getTransaction", "getExternal"}
    BY <1>1, <2>2, <2>3
  <2>7. OnChain(reading.row)'
    BY <2>5, <2>6 DEF OnChain, BalanceAt
  <2>8. \A c \in refused : Contradicted(c)'
    BY <1>2, <1>3, ContradictedStays DEF Client
  <2>9. Walking'
    BY <1>1, <1>2, <1>3, WalkStays DEF State, Client
  <2>10. Client'
    BY <1>1, <2>6, <2>7, <2>8, <2>9 DEF Client, Contradicted
  <2>. QED  BY <1>3, <2>1, <2>10 DEF IndInv
<1>. QED  BY <1>1, <1>4, <1>5

\* GetTransactionWallet keeps the invariant: what was read stayed on its chain.
LEMMA GetTransactionWalletStep ==
  ASSUME IndInv, GetTransactionWallet
  PROVE  IndInv'
<1>1. /\ reading.route # "" /\ NoEffect /\ UNCHANGED <<refused, walk>> /\ reading' = NoReading
      /\ Answer(reading, 200, "", NoCommand,
                {ResultView(reading.row, wallet[reading.row.cmd.wallet])})
  BY DEF GetTransactionWallet
<1>2. State /\ Client
  BY DEF IndInv
<1>3. State' /\ Grows /\ StampsStay /\ UNCHANGED <<wallet, ledger, wager>>
  BY <1>1, <1>2, Steady
<1>4. PICK row : row = reading.row
  OBVIOUS
<1>5. OnChain(row)
  BY <1>1, <1>2, <1>4 DEF Client
<1>6. PICK b : b = ResultView(row, wallet[row.cmd.wallet])
  OBVIOUS
<1>7. Honest(b)
  BY <1>2, <1>5, <1>6, RowHonest DEF State, RowsHonest
<1>8. Honest(b)'
  BY <1>3, <1>7 DEF Honest, BalanceAt
<1>9. Answer(reading, 200, "", NoCommand, {b})
  BY <1>1, <1>4, <1>6
<1>10. reading.route # "reconcile"
  BY <1>2 DEF Client
<1>11. answer'.body = {b} /\ answer'.route # "reconcile" /\ answer'.status \notin {400, 404, 409}
  <2>1. answer'.body = {b} /\ answer'.route = reading.route /\ answer'.status = 200
    BY ONLY <1>9 DEF Answer
  <2>. QED  BY ONLY <1>10, <2>1
<1>12. Answered'
  BY ONLY <1>8, <1>11, ShownAnswer
<1>13. Client'
  <2>1. \A c \in refused : Contradicted(c)'
    BY <1>2, <1>3, ContradictedStays DEF Client
  <2>2. Walking'
    BY <1>1, <1>2, <1>3, WalkStays DEF State, Client
  <2>3. reading'.route = ""
    BY <1>1 DEF NoReading
  <2>. QED  BY <1>1, <2>1, <2>2, <2>3 DEF Client, Contradicted
<1>. QED  BY <1>3, <1>12, <1>13 DEF IndInv

\* Elsewhere keeps the invariant.
LEMMA ElsewhereStep ==
  ASSUME IndInv, Elsewhere
  PROVE  IndInv'
<1>1. /\ InsertLedger /\ UNCHANGED steps /\ Quiet /\ answer' = NoAnswer
      /\ \E id \in TxIds : \/ Resolve(id)
                            \/ \E r \in Requests : Repeat(r, id) \/ Decide(r, id)
  BY DEF Elsewhere, Idle
<1>2. State /\ Client /\ CoreType /\ Rows
  BY DEF IndInv, State
<1>3. CoreStep
  <2>1. PICK id \in TxIds : Resolve(id) \/ \E r \in Requests : Repeat(r, id) \/ Decide(r, id)
    BY <1>1
  <2>2. CASE Resolve(id)
    BY <1>2, <2>2, ResolveCore
  <2>3. CASE \E r \in Requests : Repeat(r, id)
    BY <2>3 DEF Repeat, CoreStep
  <2>4. CASE \E r \in Requests : Decide(r, id)
    <3>1. PICK r \in Requests : Decide(r, id)
      BY <2>4
    <3>2. r.cmd \in Command /\ r.cmd.wallet \in Wallets
      BY MessagesAssumption DEF Command
    <3>3. \E o : Writes(id, r.cmd.wallet, o)
      BY <1>2, <3>1, <3>2, DecideCore
    <3>. QED  BY <3>2, <3>3 DEF CoreStep
  <2>. QED  BY <2>1, <2>2, <2>3, <2>4
<1>4. State' /\ Grows /\ StampsStay
  BY <1>1, <1>2, <1>3, StateStep
<1>5. Client'
  BY <1>1, <1>2, <1>4, ClientStep DEF Quiet
<1>6. Answered'
  <2>1. answer'.body = {} /\ answer'.cmd = NoCommand
    BY <1>1 DEF NoAnswer
  <2>. QED  BY ONLY <2>1, BareAnswer
<1>. QED  BY <1>4, <1>5, <1>6 DEF IndInv

\* SetClock keeps the invariant.
LEMMA SetClockStep ==
  ASSUME IndInv, SetClock
  PROVE  IndInv'
<1>1. StepBack /\ Quiet /\ answer' = NoAnswer
  BY DEF SetClock, Idle
<1>2. State /\ Client /\ CoreType /\ Books /\ Rows /\ Stamping
  BY DEF IndInv, State
<1>3. Stamping' /\ StampsStay /\ UNCHANGED <<wallet, ledger, wager>>
  BY <1>1, <1>2, ClockStep DEF vars
<1>4. CoreType' /\ Books' /\ Rows' /\ Grows
  BY <1>2, <1>3, CoreKept DEF CoreStep
<1>5. State'
  BY <1>3, <1>4 DEF State
<1>6. Client'
  BY <1>1, <1>2, <1>3, <1>4, <1>5, ClientStep DEF Quiet
<1>7. Answered'
  <2>1. answer'.body = {} /\ answer'.cmd = NoCommand
    BY <1>1 DEF NoAnswer
  <2>. QED  BY ONLY <2>1, BareAnswer
<1>. QED  BY <1>5, <1>6, <1>7 DEF IndInv

\* Deliver keeps the invariant.
LEMMA DeliverStep ==
  ASSUME IndInv, Deliver
  PROVE  IndInv'
<1>1. /\ answer' = NoAnswer /\ NoEffect /\ UNCHANGED <<refused, reading>>
      /\ walk' = IF walk.at = "done" THEN NoWalk ELSE walk
  BY DEF Deliver
<1>2. State /\ Client
  BY DEF IndInv
<1>3. State' /\ Grows /\ StampsStay /\ UNCHANGED <<wallet, ledger, wager>>
  BY <1>1, <1>2, Steady
<1>4. Walking'
  <2>1. CASE walk' = walk
    BY <1>2, <1>3, <2>1, WalkStays DEF State, Client
  <2>2. CASE walk' = NoWalk
    <3>1. (Sound(NoWalk) /\ NoWalk.at = "none")'
      BY NoWalkSound, PTL
    <3>2. Sound(walk)' /\ walk'.at = "none"
      BY <2>2, <3>1 DEF Sound
    <3>. QED  BY <3>2 DEF Walking
  <2>. QED  BY <1>1, <2>1, <2>2
<1>5. Client'
  <2>1. \A c \in refused : Contradicted(c)
    BY <1>2 DEF Client
  <2>2. /\ reading.route \in {"", "getTransaction", "getExternal"}
        /\ reading.route # "" => OnChain(reading.row)
    BY <1>2 DEF Client
  <2>. QED  BY <1>1, <1>3, <1>4, <2>1, <2>2 DEF Client, Contradicted, OnChain, BalanceAt
<1>6. Answered'
  <2>1. answer'.body = {} /\ answer'.cmd = NoCommand
    BY <1>1 DEF NoAnswer
  <2>. QED  BY ONLY <2>1, BareAnswer
<1>. QED  BY <1>3, <1>5, <1>6 DEF IndInv

(***************************************************************************)
(* Theorems.                                                               *)
(***************************************************************************)
\* The invariant holds of an empty database and a client that has asked nothing.
LEMMA InitStep == HttpInit => IndInv
<1>. SUFFICES ASSUME HttpInit  PROVE IndInv
  OBVIOUS
<1>1. /\ wallet = [w \in Wallets |-> NoBalance] /\ ledger = [w \in Wallets |-> <<>>]
      /\ wager = [t \in TxIds |-> NoRow]
      /\ stamp = [w \in Wallets |-> <<>>] /\ clock = 0 /\ steps = MaxSteps
      /\ answer = NoAnswer /\ refused = {} /\ walk = NoWalk /\ reading = NoReading
  BY DEF HttpInit, Init, ReadsInit
<1>2. <<>> \in Seq(Line) /\ <<>> \in Seq(Stamps) /\ DOMAIN <<>> = {}
  OBVIOUS
<1>3. CoreType
  BY <1>1, <1>2, InitialValues DEF CoreType
<1>4. Present(wager) = {}
  BY <1>1, InitialValues DEF Present
<1>5. Books
  <2>1. NoBalance.version = 0 /\ NoBalance.balance = 0
    BY DEF NoBalance
  <2>2. Chain(<<>>) /\ Closing(<<>>) = 0
    BY DEF Chain, Closing
  <2>3. \A x : Balanced(<<>>, NoBalance, x)
    BY <2>1, <2>2 DEF Balanced
  <2>. QED  BY <1>1, <2>1, <2>3 DEF Books
<1>6. Rows
  BY <1>4 DEF Rows
<1>7. Stamping
  BY <1>1, <1>2, StepsAssumption DEF Stamping
<1>8. Walking
  <2>1. Sound(walk) /\ walk.at = "none"
    BY <1>1, NoWalkSound
  <2>. QED  BY <2>1 DEF Walking
<1>9. Client
  <2>1. reading.route = ""
    BY <1>1 DEF NoReading
  <2>. QED  BY <1>1, <1>8, <2>1 DEF Client
<1>10. Answered
  <2>1. answer.body = {} /\ answer.cmd = NoCommand
    BY <1>1 DEF NoAnswer
  <2>. QED  BY <2>1 DEF Answered, AnswersOnChain, ReconcilesAlways
<1>. QED  BY <1>3, <1>5, <1>6, <1>7, <1>9, <1>10 DEF IndInv, State

\* Every step keeps the invariant.
LEMMA IndStep == IndInv /\ [HttpNext]_allvars => IndInv'
<1>. SUFFICES ASSUME IndInv, [HttpNext]_allvars  PROVE IndInv'
  OBVIOUS
<1>1. CASE UNCHANGED allvars
  <2>1. NoEffect /\ Quiet /\ answer' = answer
    BY <1>1 DEF allvars, NoEffect, Quiet
  <2>2. State' /\ Client' /\ wallet' = wallet /\ ledger' = ledger /\ wager' = wager
    BY <2>1, QuietStep DEF IndInv
  <2>3. Answered'
    BY <2>1, <2>2 DEF IndInv, Answered, AnswersOnChain, ReconcilesAlways, BalanceAt, Recorded
  <2>. QED  BY <2>2, <2>3 DEF IndInv
<1>2. ASSUME NEW q \in Calls,
             \/ Refuse(q) \/ Break(q) \/ CreateWallet(q) \/ ProcessWager(q)
             \/ GetWallet(q) \/ Ledger(q) \/ Reconcile(q) \/ GetTransaction(q)
      PROVE  IndInv'
  BY <1>2, RefuseStep, BreakStep, CreateWalletStep, ProcessWagerStep, GetWalletStep,
     LedgerStep, ReconcileStep, GetTransactionStep
<1>3. CASE GetTransactionWallet \/ Elsewhere \/ SetClock \/ Deliver
  BY <1>3, GetTransactionWalletStep, ElsewhereStep, SetClockStep, DeliverStep
<1>. QED  BY <1>1, <1>2, <1>3 DEF HttpNext

\* The ledgers are chains that end at the balances of the wallets, no two wagers have one
\* identity, stamps are unique, and what a client was given lies on the chains: always,
\* over every interleaving of calls, commits of others and steps of the clock.
THEOREM ApiInductive == HttpSpec => []IndInv
BY InitStep, IndStep, PTL DEF HttpSpec

\* WalkComplete: a walk through the pages of Ledger gets every entry that was there when
\* it started and none twice, for every page size and however often the clock is set back.
\* While it never was, the newest entry comes first, in the order of the commits.
THEOREM WalkCorrect == HttpSpec => []WalkComplete
<1>1. IndInv => WalkComplete
  BY WalkedComplete DEF IndInv, State, Client
<1>. QED  BY <1>1, ApiInductive, PTL

\* ReconcilesAlways: Reconcile never reports a difference, because its sum is the last
\* balance of the chain.
THEOREM ReconcileCorrect == HttpSpec => []ReconcilesAlways
<1>1. IndInv => ReconcilesAlways
  BY DEF IndInv, Answered
<1>. QED  BY <1>1, ApiInductive, PTL

\* AnswersOnChain: every balance and version that createWallet, processWager, getWallet
\* and the two reads of getTransaction show is a balance that the wallet had at that version.
THEOREM AnswersCorrect == HttpSpec => []AnswersOnChain
<1>1. IndInv => AnswersOnChain
  BY DEF IndInv, Answered
<1>. QED  BY <1>1, ApiInductive, PTL

\* RefusalIsTrue: what ProcessWager refuses with 400, 404 or 409 was not recorded before,
\* and a command that was called a conflict never will be.
THEOREM RefusalCorrect == HttpSpec => []RefusalIsTrue
<1>1. IndInv => RefusalIsTrue
  <2>1. ASSUME IndInv  PROVE RefusalIsTrue
    <3>1. \A c \in refused : ~Recorded(c)
      BY <2>1, ContradictedNot DEF IndInv, State, Client
    <3>. QED  BY <2>1, <3>1 DEF IndInv, Answered, RefusalIsTrue
  <2>. QED  BY <2>1
<1>. QED  BY <1>1, ApiInductive, PTL
=============================================================================
